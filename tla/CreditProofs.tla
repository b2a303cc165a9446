------------------------------ MODULE CreditProofs ------------------------------
(***************************************************************************)
(* Credits of PaymentOrders: what an order was credited with is a payment  *)
(* of that order.                                                          *)
(*                                                                         *)
(* A scope run decides from rows it listed and writes rows it did not      *)
(* lock.  The argument is that what it has in hand stays true: a row that  *)
(* exists keeps its date and, unless it is re-quoted, all that it asks for *)
(* (Keeps); a transfer that was mined is not mined again (PaidStays); so   *)
(* whatever the matching rules found in the listed rows (Right) still      *)
(* holds of the rows when they are written (WritesOK).  The last part is   *)
(* about amounts: what assignment keeps apart, the matcher can tell.       *)
(***************************************************************************)
EXTENDS PaymentOrdersProofs, FiniteSetTheorems

\* One token transfer per transaction.
OneTransferEach == \A t, u \in Transfers : HashOf[t] = HashOf[u] => t = u

SameQuote(r, q) ==
    /\ q.mode = r.mode /\ q.scope = r.scope /\ q.addr = r.addr
    /\ q.payable = r.payable /\ q.memo = r.memo /\ q.expires = r.expires

\* The row q is the row r later.
Keeps(r, q) ==
    r.status # "absent" => /\ q.status # "absent" /\ q.created = r.created
                           /\ ~Requotes => SameQuote(r, q)

Seen(t) == tx[HashOf[t]].state # "unseen"

\* The transfer would pay the row, whether or not it was credited with it.
Meets(t, row) ==
    /\ paid[t].scope = row.scope /\ paid[t].addr = row.addr
    /\ M!AmountFits(row.payable, paid[t].amount)
    /\ paid[t].at >= row.created /\ paid[t].at < row.expires
    /\ row.mode = "D" => paid[t].memo = row.memo

\* Listed rows are earlier versions of the rows in the table.
ListedOK == \A s \in Scopes, o \in Orders : Keeps(run[s].rows[o], orders[o])

BatchOK == \A s \in Scopes : \A t \in run[s].batch : Seen(t) /\ paid[t].scope = s

\* What a run is about to write on account of t is deserved.
Deserved(s, t) ==
    /\ Seen(t) /\ paid[t].scope = s /\ t \notin run[s].batch
    /\ \A o \in run[s].hit.writes :
          /\ orders[o].status # "absent"
          /\ paid[t].at >= orders[o].created
          /\ run[s].hit.status = "verifying" =>
                /\ run[s].rows[o].status \in M!AwaitingStatuses
                /\ ~Requotes => Meets(t, orders[o])

WritesOK ==
    \A s \in Scopes, t \in Transfers :
        run[s].pc = "writing" /\ run[s].hit.t = t => Deserved(s, t)

CreditsSeen == \A o \in Orders : orders[o].tx # None => tx[orders[o].tx].state # "unseen"

CreditInv ==
    /\ Inv /\ ListedOK /\ BatchOK /\ WritesOK /\ CreditsSeen /\ CreditFollowsOrder
    /\ ~Requotes => CreditsMatchPayments

\* A transfer that a run will read, or has in hand, has not been credited since the run
\* listed its rows.
InHand(s, t) ==
    /\ paid[t].scope = s
    /\ run[s].pc = "polling" \/ t \in run[s].batch \/ (run[s].pc = "writing" /\ run[s].hit.t = t)

HandsOK ==
    \A s \in Scopes, t \in Transfers, o \in Orders :
        InHand(s, t) /\ orders[o].tx = HashOf[t] =>
            run[s].rows[o].status \notin M!AwaitingStatuses

-----------------------------------------------------------------------------
(***************************************************************************)
(* What the matching rules find.                                           *)
(***************************************************************************)
\* The orders a binding names were there when the transfer was mined; those it settles are
\* paid by it.
Right(out, mode, t, row, S) ==
    \A o \in out.ids :
        /\ o \in S /\ t.at >= row[o].created
        /\ out.status = "verifying" => /\ M!AmountFits(row[o].payable, t.amount)
                                       /\ ~(row[o].expires <= t.at)
                                       /\ mode = "D" => row[o].memo = t.memo

LEMMA RightUnbound ==
    ASSUME NEW mode, NEW t, NEW row, NEW S, NEW reason
    PROVE  Right(M!Unbound(reason), mode, t, row, S)
  BY DEF Right, M!Unbound

LEMMA RightFlagged ==
    ASSUME NEW mode, NEW t, NEW row, NEW S, NEW reason, NEW ids \in SUBSET M!Eligible(t, row, S)
    PROVE  Right(M!Flagged(ids, reason), mode, t, row, S)
  BY DEF Right, M!Flagged, M!Eligible

LEMMA RightSettling ==
    ASSUME NEW mode, NEW t, NEW row, NEW S, NEW reason,
           NEW ids \in SUBSET M!Fitting(t, row, M!Open(t, row, M!Eligible(t, row, S))),
           mode = "D" => \A o \in ids : row[o].memo = t.memo
    PROVE  Right(M!Settling(ids, reason), mode, t, row, S)
  BY DEF Right, M!Settling, M!Fitting, M!Open, M!Late, M!Eligible

LEMMA RightOpen ==
    ASSUME NEW mode, NEW t, NEW row, NEW S,
           mode = "D" => M!Fitting(t, row, M!Open(t, row, M!Eligible(t, row, S))) = {}
    PROVE  Right(M!MatchOpen(t, row, M!Open(t, row, M!Eligible(t, row, S))), mode, t, row, S)
<1> DEFINE open == M!Open(t, row, M!Eligible(t, row, S))
           exact == M!Fitting(t, row, open)
<1>1. exact \subseteq M!Eligible(t, row, S) /\ open \subseteq M!Eligible(t, row, S)
  BY DEF M!Fitting, M!Open
<1>2. Right(M!Settling(exact, "exact"), mode, t, row, S)
  BY RightSettling
<1>3. /\ Right(M!Flagged(exact, "collision"), mode, t, row, S)
      /\ Right(M!Flagged(open, "mismatch"), mode, t, row, S)
  <2> HIDE DEF exact, open
  <2> QED BY <1>1, RightFlagged
<1>4. /\ Right(M!Unbound("dust_ignored"), mode, t, row, S)
      /\ Right(M!Unbound("no_exact_amount_match"), mode, t, row, S)
  BY RightUnbound
<1> QED BY <1>2, <1>3, <1>4 DEF M!MatchOpen

LEMMA RightExact ==
    ASSUME NEW mode, mode # "D", NEW t, NEW row, NEW S
    PROVE  Right(M!MatchExact(mode, t, row, S), mode, t, row, S)
<1> DEFINE eligible == M!Eligible(t, row, S)
           late == M!Late(t, row, eligible)
<1>1. Right(M!MatchLate(mode, t, row, late), mode, t, row, S)
  <2> DEFINE fitting == M!Fitting(t, row, late)
             flagged == IF fitting # {} THEN fitting
                        ELSE IF mode = "S" /\ M!Cardinality(late) = 1 THEN late
                        ELSE {}
  <2>1. fitting \subseteq eligible /\ late \subseteq eligible
    BY DEF M!Fitting, M!Late
  <2>2. flagged \subseteq eligible
    BY <2>1
  <2>3. Right(M!Flagged(flagged, "late"), mode, t, row, S)
    <3> HIDE DEF flagged
    <3> QED BY <2>2, RightFlagged
  <2>4. Right(M!Unbound("no_open_order_at_address"), mode, t, row, S)
    BY RightUnbound
  <2> QED BY <2>3, <2>4 DEF M!MatchLate
<1>2. Right(M!MatchOpen(t, row, M!Open(t, row, eligible)), mode, t, row, S)
  BY RightOpen
<1>3. /\ Right(M!Unbound("dust_ignored"), mode, t, row, S)
      /\ Right(M!Unbound("transfer_before_order_created"), mode, t, row, S)
  BY RightUnbound
<1>4. Right(M!Unbound(IF M!DustOnly(t.amount) THEN "dust_ignored"
                      ELSE "transfer_before_order_created"), mode, t, row, S)
  BY <1>3
<1> QED BY <1>1, <1>2, <1>4 DEF M!MatchExact

LEMMA RightMemo ==
    ASSUME NEW t, NEW row, NEW S
    PROVE  Right(M!MatchMemo(t, row, S), "D", t, row, S)
<1> DEFINE eligible == M!Eligible(t, row, S)
           open == M!Open(t, row, eligible)
           exact == M!Fitting(t, row, open)
           paid_for == M!SameMemo(t, row, exact)
           named == IF t.memo = None THEN {} ELSE M!SameMemo(t, row, M!Late(t, row, eligible))
<1>1. /\ exact \subseteq eligible /\ paid_for \subseteq eligible /\ named \subseteq eligible
      /\ paid_for \subseteq exact /\ \A o \in paid_for : row[o].memo = t.memo
  BY DEF M!Fitting, M!Open, M!Late, M!SameMemo
<1>2. Right(M!Settling(paid_for, "exact"), "D", t, row, S)
  <2> HIDE DEF paid_for
  <2> QED BY <1>1, RightSettling
<1>3. /\ Right(M!Flagged(exact, "memo_missing"), "D", t, row, S)
      /\ Right(M!Flagged(paid_for, "memo_collision"), "D", t, row, S)
      /\ Right(M!Flagged(exact, "memo_mismatch"), "D", t, row, S)
      /\ Right(M!Flagged(named, "late"), "D", t, row, S)
  <2> HIDE DEF exact, paid_for, named
  <2> QED BY <1>1, RightFlagged
<1>4. exact = {} => Right(M!MatchOpen(t, row, open), "D", t, row, S)
  BY RightOpen
<1>5. Right(M!MatchMemoOpen(t, row, open), "D", t, row, S)
  BY <1>2, <1>3, <1>4 DEF M!MatchMemoOpen
<1>6. /\ Right(M!Unbound("memo_unsupported"), "D", t, row, S)
      /\ Right(M!Unbound("transfer_before_order_created"), "D", t, row, S)
      /\ Right(M!Unbound("no_open_order_at_address"), "D", t, row, S)
  BY RightUnbound
<1> QED BY <1>3, <1>5, <1>6 DEF M!MatchMemo

\* A binding names listed orders that were there when the transfer was mined, and settles only
\* orders that await a payment and are paid by it.
LEMMA RightInbound ==
    ASSUME NEW t, NEW row, NEW o \in M!MatchInbound(t, row).ids
    PROVE  /\ o \in DOMAIN row /\ row[o].status # "absent" /\ t.at >= row[o].created
           /\ M!MatchInbound(t, row).status = "verifying" =>
                 /\ row[o].status \in M!AwaitingStatuses
                 /\ row[o].scope = t.scope /\ row[o].addr = t.addr
                 /\ M!AmountFits(row[o].payable, t.amount)
                 /\ ~(row[o].expires <= t.at)
                 /\ row[o].mode = "D" => row[o].memo = t.memo
<1> DEFINE out == M!MatchInbound(t, row)
           here == {p \in DOMAIN row : /\ row[p].status # "absent"
                                       /\ row[p].addr = t.addr
                                       /\ row[p].scope = t.scope}
           mode(i) == M!ModeOrder[i]
           group(i) == {p \in here : /\ row[p].status \in M!AwaitingStatuses
                                     /\ row[p].mode = mode(i)}
           answer(i) == M!MatchTransaction(mode(i), t, row, group(i))
           answering == {i \in DOMAIN M!ModeOrder : group(i) # {} /\ ~M!NobodyHere(answer(i))}
           elsewhere == {p \in DOMAIN row : /\ row[p].status # "absent"
                                            /\ row[p].addr = t.addr
                                            /\ row[p].scope # t.scope}
<1>1. \/ out = M!MatchWrongRail(t, row)
      \/ out = M!Unbound("no_exact_amount_match")
      \/ \E i : out = answer(i)
  <2>1. out = CASE here = {} -> M!MatchWrongRail(t, row)
                [] here # {} /\ answering = {} -> M!Unbound("no_exact_amount_match")
                [] OTHER -> answer(M!Min(answering))
    BY DEF M!MatchInbound
  <2> HIDE DEF out, here, answer, answering
  <2> QED BY <2>1, Zenon
<1>2. CASE out = M!MatchWrongRail(t, row)
  <2>1. \/ \E reason : out = M!Unbound(reason)
        \/ out = M!Flagged(M!Eligible(t, row, elsewhere), "wrong_rail")
    BY <1>2 DEF M!MatchWrongRail
  <2> HIDE DEF out
  <2>2. o \in M!Eligible(t, row, elsewhere) /\ out.status # "verifying"
    BY <2>1 DEF M!Unbound, M!Flagged, out
  <2> QED BY <2>2 DEF M!Eligible, out
<1>3. CASE \E i : out = answer(i)
  <2>1. PICK i : out = answer(i)
    BY <1>3
  <2>2. Right(answer(i), mode(i), t, row, group(i))
    <3> HIDE DEF group, mode
    <3> QED BY RightExact, RightMemo DEF M!MatchTransaction
  <2> HIDE DEF out, answer
  <2>3. /\ o \in group(i) /\ t.at >= row[o].created
        /\ out.status = "verifying" => /\ M!AmountFits(row[o].payable, t.amount)
                                       /\ ~(row[o].expires <= t.at)
                                       /\ mode(i) = "D" => row[o].memo = t.memo
    BY <2>1, <2>2 DEF Right, out
  <2> QED BY <2>3 DEF out
<1>4. CASE out = M!Unbound("no_exact_amount_match")
  BY <1>4 DEF M!Unbound
<1> QED BY <1>1, <1>2, <1>3, <1>4

-----------------------------------------------------------------------------
(***************************************************************************)
(* What no step changes.                                                   *)
(***************************************************************************)
LEMMA ApiKeeps ==
    ASSUME Inv, Api, NEW o \in Orders
    PROVE  Keeps(orders[o], orders'[o])
<1>1. orders \in [Orders -> Row]
  BY DEF Inv, TypeOK
<1>2. ASSUME NEW p \in Orders, NEW mode \in Modes, NEW s \in Scopes, NEW q \in Quotes,
             CreateOrder(p, mode, s, q)
      PROVE  Keeps(orders[o], orders'[o])
  BY <1>1, <1>2 DEF CreateOrder, Keeps, SameQuote
<1>3. ASSUME NEW p \in Orders, NEW mode \in Modes, NEW s \in Scopes, NEW q \in Quotes,
             RequoteOrder(p, mode, s, q)
      PROVE  Keeps(orders[o], orders'[o])
  <2>0. Requoting(p, mode, s)
    BY <1>3, Requoted
  <2>1. PICK w, payable, memo :
           orders' = [orders EXCEPT ![p] =
               [@ EXCEPT !.mode = mode, !.scope = s, !.addr = w,
                         !.payable = payable, !.memo = memo, !.expires = now + Validity]]
    BY <2>0 DEF Requoting
  <2>2. orders[p].status = "pending_payment" /\ Requotes
    BY <1>3 DEF RequoteOrder
  <2>3. /\ orders'[p].status = "pending_payment" /\ orders'[p].created = orders[p].created
        /\ p # o => orders'[o] = orders[o]
    BY <1>1, <2>1, <2>2 DEF Row
  <2> QED BY <2>2, <2>3 DEF Keeps, SameQuote
<1>4. ASSUME NEW p \in Orders, CancelOrder(p) \/ ResolveAnomaly(p)
      PROVE  Keeps(orders[o], orders'[o])
  <2>1. orders' = [orders EXCEPT ![p].status = "cancelled"]
    BY <1>4 DEF CancelOrder, ResolveAnomaly
  <2> QED BY <1>1, <2>1 DEF Keeps, SameQuote, Row
<1>5. CASE ExpireDue
  BY <1>1, <1>5 DEF ExpireDue, Keeps, SameQuote, Row
<1> QED BY <1>2, <1>3, <1>4, <1>5 DEF Api

\* The watcher writes statuses, transactions, amounts received and counts.
LEMMA WatcherKeeps ==
    ASSUME Inv, NEW o \in Orders,
           \/ \E s \in Scopes : ScopeRun(s)
           \/ \E c \in Confirmers, p \in Orders : FollowUp(c, p)
    PROVE  Keeps(orders[o], orders'[o])
<1>1. orders \in [Orders -> Row] /\ orders[o] \in Row
  BY DEF Inv, TypeOK
<1>2. ASSUME NEW s \in Scopes, ApplyMatch(s) PROVE Keeps(orders[o], orders'[o])
  <2> DEFINE hit == run[s].hit
  <2>1. \/ orders'[o] = orders[o]
        \/ MatchApplies(o, hit) /\ orders'[o] = MatchedRow(o, hit)
    BY <1>2 DEF ApplyMatch
  <2>2. ASSUME MatchApplies(o, hit) PROVE MatchedRow(o, hit).status # "absent"
    BY <1>2, <2>2, MatchedRowType DEF ApplyMatch
  <2>3. /\ MatchedRow(o, hit).created = orders[o].created
        /\ SameQuote(orders[o], MatchedRow(o, hit))
    BY <1>1 DEF MatchedRow, SameQuote, Row
  <2> QED BY <2>1, <2>2, <2>3 DEF Keeps, SameQuote
<1>3. ASSUME NEW c \in Confirmers, NEW p \in Orders, WriteConfirmation(c, p)
      PROVE  Keeps(orders[o], orders'[o])
  <2> DEFINE new == ConfirmedRow(orders[p], job[c][p])
  <2>1. orders[p] \in Row /\ job[c][p] \in Job
    BY DEF Inv, TypeOK
  <2>2. /\ new.status \in {orders[p].status, "completed", "payment_anomaly"}
        /\ new.created = orders[p].created /\ SameQuote(orders[p], new)
    BY <2>1 DEF ConfirmedRow, SameQuote, Row, Job
  <2>3. orders'[o] = orders[o] \/ (o = p /\ orders'[o] = new)
    BY <1>1, <1>3 DEF WriteConfirmation
  <2> HIDE DEF new
  <2> QED BY <2>2, <2>3 DEF Keeps, SameQuote
<1>4. ASSUME NEW s \in Scopes, ScopeRun(s), ~ApplyMatch(s) PROVE orders' = orders
  BY <1>4 DEF ScopeRun, ListScope, PollScope, EndMatching, EndScope, SkipTransfer, SelectRows
<1>5. ASSUME NEW c \in Confirmers, NEW p \in Orders, FollowUp(c, p), ~WriteConfirmation(c, p)
      PROVE  orders' = orders
  BY <1>5 DEF FollowUp, ObserveTruth, ObserveGlitch, Observe, SelectConfirmation
<1> QED BY <1>2, <1>3, <1>4, <1>5 DEF Keeps, SameQuote

LEMMA RowsKept ==
    ASSUME Inv, [Next]_vars, NEW o \in Orders
    PROVE  Keeps(orders[o], orders'[o])
<1>1. CASE UNCHANGED orders
  BY <1>1 DEF Keeps, SameQuote
<1>2. CASE Chain \/ UNCHANGED vars
  BY <1>1, <1>2 DEF Chain, Mine, Deepen, Reorganise, Tick, vars
<1>3. ASSUME (\E p \in Orders : StreakAges(p)) \/ StartPriority \/ CrashWatcher
      PROVE  UNCHANGED orders
  BY <1>3 DEF StreakAges, StartPriority, CrashWatcher
<1> QED BY <1>1, <1>2, <1>3, ApiKeeps, WatcherKeeps DEF Next, Watcher

\* A transaction is mined once, and pays what it paid for ever.
LEMMA PaidStays ==
    ASSUME Inv, [Next]_vars
    PROVE  /\ \A h \in Hashes : tx[h].state # "unseen" => tx'[h].state # "unseen"
           /\ \A t \in Transfers : Seen(t) => paid'[t] = paid[t] /\ Seen(t)'
<1>1. tx \in [Hashes -> Transaction]
  BY DEF Inv, TypeOK
<1>2. \A t \in Transfers : HashOf[t] \in Hashes
  BY ConstantFacts
<1>3. ASSUME NEW h \in Hashes, Mine(h)
      PROVE  /\ \A g \in Hashes : tx[g].state # "unseen" => tx'[g].state # "unseen"
             /\ \A t \in Transfers : Seen(t) => paid'[t] = paid[t]
  <2>1. tx[h].state = "unseen" /\ \A g \in Hashes : g # h => tx'[g] = tx[g]
    BY <1>1, <1>3 DEF Mine
  <2>2. \A t \in Transfers : HashOf[t] # h => paid'[t] = paid[t]
    BY <1>3 DEF Mine, OutputsOf
  <2> QED BY <2>1, <2>2 DEF Seen
<1>4. ASSUME NEW h \in Hashes, Deepen(h) \/ Reorganise(h)
      PROVE  /\ \A g \in Hashes : tx[g].state # "unseen" => tx'[g].state # "unseen"
             /\ paid' = paid
  <2>1. CASE Deepen(h)
    BY <1>1, <2>1 DEF Deepen, Transaction
  <2>2. CASE Reorganise(h)
    BY <1>1, <2>2 DEF Reorganise, Transaction
  <2> QED BY <1>4, <2>1, <2>2
<1>5. CASE Api \/ Tick \/ UNCHANGED vars
  BY <1>5 DEF Api, CreateOrder, RequoteOrder, CancelOrder, ResolveAnomaly, ExpireDue, Tick,
     vars, chainVars, Seen
<1>6. CASE Watcher
  <2>1. ASSUME NEW s \in Scopes, ScopeRun(s) PROVE UNCHANGED chainVars
    BY <2>1 DEF ScopeRun, ListScope, PollScope, SkipTransfer, SelectRows, ApplyMatch,
       EndMatching, EndScope
  <2>2. ASSUME NEW c \in Confirmers, NEW o \in Orders, FollowUp(c, o) PROVE UNCHANGED chainVars
    <3>1. CASE ObserveTruth(c, o) \/ ObserveGlitch(c, o)
      BY <3>1 DEF ObserveTruth, ObserveGlitch, Observe
    <3>2. CASE SelectConfirmation(c, o) \/ WriteConfirmation(c, o)
      BY <3>2 DEF SelectConfirmation, WriteConfirmation
    <3> QED BY <2>2, <3>1, <3>2 DEF FollowUp
  <2>3. ASSUME (\E o \in Orders : StreakAges(o)) \/ StartPriority \/ CrashWatcher
        PROVE  UNCHANGED chainVars
    BY <2>3 DEF StreakAges, StartPriority, CrashWatcher
  <2> QED BY <1>6, <2>1, <2>2, <2>3 DEF Watcher, chainVars, Seen
<1> QED BY <1>2, <1>3, <1>4, <1>5, <1>6 DEF Next, Chain, Seen

-----------------------------------------------------------------------------
(***************************************************************************)
(* What a step does to a run, and to a credit.                             *)
(***************************************************************************)
\* The run of s forgets what it had in hand.
Forgets(s) ==
    /\ run'[s].pc \in {"idle", "confirming"} /\ run'[s].batch = {}
    /\ run'[s].rows = [o \in Orders |-> NullRow]

LEMMA RunSteps ==
    ASSUME Inv, [Next]_vars, NEW s \in Scopes
    PROVE  \/ run'[s] = run[s] \/ Forgets(s)
           \/ ListScope(s) \/ PollScope(s) \/ ApplyMatch(s)
           \/ \E t \in Transfers : SkipTransfer(s, t) \/ SelectRows(s, t)
<1>1. run \in [Scopes -> Run]
  BY DEF Inv, TypeOK
<1>2. ASSUME NEW u \in Scopes, u # s, ScopeRun(u) PROVE run'[s] = run[s]
  BY <1>1, <1>2 DEF ScopeRun, ListScope, PollScope, ApplyMatch, EndMatching, EndScope,
     SkipTransfer, SelectRows
<1>3. ASSUME EndMatching(s) \/ EndScope(s) PROVE Forgets(s)
  BY <1>1, <1>3 DEF EndMatching, EndScope, Forgets, IdleRun
<1>4. CASE CrashWatcher
  BY <1>4 DEF CrashWatcher, Forgets, IdleRun
<1>5. ASSUME \/ \E c \in Confirmers, o \in Orders : FollowUp(c, o)
             \/ \E o \in Orders : StreakAges(o)
             \/ StartPriority
      PROVE  UNCHANGED run
  <2>1. ASSUME NEW c \in Confirmers, NEW o \in Orders, ObserveTruth(c, o) \/ ObserveGlitch(c, o)
        PROVE  UNCHANGED run
    BY <2>1 DEF ObserveTruth, ObserveGlitch, Observe
  <2>2. ASSUME NEW c \in Confirmers, NEW o \in Orders,
               SelectConfirmation(c, o) \/ WriteConfirmation(c, o)
        PROVE  UNCHANGED run
    BY <2>2 DEF SelectConfirmation, WriteConfirmation
  <2>3. ASSUME NEW o \in Orders, StreakAges(o) PROVE UNCHANGED run
    BY <2>3 DEF StreakAges
  <2>4. CASE StartPriority
    BY <2>4 DEF StartPriority
  <2> QED BY <1>5, <2>1, <2>2, <2>3, <2>4 DEF FollowUp
<1>6. CASE Api \/ Chain \/ UNCHANGED vars
  BY <1>6 DEF Api, CreateOrder, RequoteOrder, CancelOrder, ResolveAnomaly, ExpireDue, Chain,
     Mine, Deepen, Reorganise, Tick, vars, watcherVars
<1> QED BY <1>2, <1>3, <1>4, <1>5, <1>6 DEF Next, Watcher, ScopeRun

LEMMA SelectFacts ==
    ASSUME Inv, NEW s \in Scopes, NEW t \in Transfers, SelectRows(s, t)
    PROVE  /\ t \in run[s].batch /\ UNCHANGED <<orders, tx, paid>>
           /\ run'[s].pc = "writing" /\ run'[s].rows = run[s].rows
           /\ run'[s].batch = run[s].batch \ {t}
           /\ run'[s].hit.t = t /\ run'[s].hit.status = Outcome(s, t).status
           /\ run'[s].hit.writes \subseteq Outcome(s, t).ids
           /\ run'[s].hit.reason \in {"none", Outcome(s, t).reason}
<1> DEFINE out == Outcome(s, t)
           writes == RowsToWrite(out.ids, out.status, t)
           fresh == FreshAfter(s, t, out.status)
           reason == IF out.status = "verifying" THEN "none" ELSE out.reason
<1>1. run \in [Scopes -> Run] /\ run[s] \in Run
  BY DEF Inv, TypeOK
<1>2. PICK holder :
         run' = [run EXCEPT ![s].pc = "writing", ![s].batch = @ \ {t}, ![s].fresh = fresh,
                            ![s].hit = [t |-> t, status |-> out.status, reason |-> reason,
                                        writes |-> writes, holder |-> holder]]
  BY DEF SelectRows
<1> DEFINE hit == [t |-> t, status |-> out.status, reason |-> reason,
                   writes |-> writes, holder |-> holder]
<1>3. writes \subseteq out.ids
  BY DEF RowsToWrite
<1>4. hit.t = t /\ hit.status = out.status /\ hit.writes = writes /\ hit.reason = reason
  OBVIOUS
<1>7. reason \in {"none", out.reason}
  OBVIOUS
<1> HIDE DEF out, writes, fresh, reason
<1>5. run' = [run EXCEPT ![s].pc = "writing", ![s].batch = @ \ {t}, ![s].fresh = fresh,
                         ![s].hit = hit]
  BY <1>2
<1> HIDE DEF hit
<1>6. /\ run'[s].pc = "writing" /\ run'[s].rows = run[s].rows
      /\ run'[s].batch = run[s].batch \ {t} /\ run'[s].hit = hit
  BY <1>1, <1>5 DEF Run
<1> QED BY <1>3, <1>4, <1>6, <1>7 DEF SelectRows, chainVars, out

\* A run that goes on has the rows it listed.
LEMMA RunRows ==
    ASSUME Inv, [Next]_vars, NEW s \in Scopes
    PROVE  run'[s].rows = run[s].rows \/ Forgets(s) \/ ListScope(s)
<1>1. run \in [Scopes -> Run] /\ run[s] \in Run
  BY DEF Inv, TypeOK
<1>2. CASE PollScope(s)
  BY <1>1, <1>2 DEF PollScope, Run
<1>3. CASE ApplyMatch(s)
  <2>1. run' = [run EXCEPT ![s].pc = "matching", ![s].hit = NoHit]
    BY <1>3 DEF ApplyMatch
  <2> QED BY <1>1, <2>1 DEF Run
<1>4. ASSUME NEW t \in Transfers, SkipTransfer(s, t) PROVE run'[s].rows = run[s].rows
  <2>1. PICK batch, fresh : run' = [run EXCEPT ![s].batch = batch, ![s].fresh = fresh]
    BY <1>4 DEF SkipTransfer
  <2> QED BY <1>1, <2>1 DEF Run
<1>5. ASSUME NEW t \in Transfers, SelectRows(s, t) PROVE run'[s].rows = run[s].rows
  BY <1>5, SelectFacts
<1> QED BY <1>2, <1>3, <1>4, <1>5, RunSteps

LEMMA RowsSteps ==
    ASSUME Inv, [Next]_vars, NEW s \in Scopes, NEW o \in Orders
    PROVE  \/ run'[s].rows[o] = run[s].rows[o]
           \/ run'[s].rows[o].status = "absent"
           \/ ListScope(s) /\ run'[s].rows[o] = orders[o] /\ orders' = orders
<1>1. run \in [Scopes -> Run] /\ run[s] \in Run
  BY DEF Inv, TypeOK
<1>2. CASE ListScope(s)
  BY <1>1, <1>2 DEF ListScope, NullRow
<1>3. CASE Forgets(s)
  BY <1>3 DEF Forgets, NullRow
<1> QED BY <1>2, <1>3, RunRows

\* A credit stays, or comes with the match in the hand of a run.
Credited(s, o) ==
    LET hit == run[s].hit
    IN  /\ ApplyMatch(s) /\ o \in hit.writes /\ hit.t \in Transfers
        /\ orders[o].tx \in {None, HashOf[hit.t]} /\ orders[o].status \in MatchApplyStatuses
        /\ orders'[o].tx = HashOf[hit.t]
        /\ orders'[o].received = paid[hit.t].amount
        /\ orders'[o].status = hit.status

LEMMA CreditSteps ==
    ASSUME Inv, [Next]_vars, NEW o \in Orders
    PROVE  \/ orders'[o].tx = None
           \/ /\ orders'[o].tx = orders[o].tx /\ orders'[o].received = orders[o].received
              /\ orders'[o].status \in {"verifying", "completed"} =>
                    orders[o].status \in {"verifying", "completed"}
           \/ \E s \in Scopes : Credited(s, o)
<1>1. orders \in [Orders -> Row] /\ orders[o] \in Row
  BY DEF Inv, TypeOK
<1>2. ASSUME NEW s \in Scopes, ApplyMatch(s)
      PROVE  \/ orders'[o] = orders[o] \/ orders'[o].tx = None \/ Credited(s, o)
  <2> DEFINE hit == run[s].hit
  <2>1. \/ orders'[o] = orders[o]
        \/ MatchApplies(o, hit) /\ orders'[o] = MatchedRow(o, hit)
    BY <1>2 DEF ApplyMatch
  <2>2. hit.t \in Transfers
    BY <1>2 DEF ApplyMatch, Inv, HitsOK
  <2>3. ASSUME MatchApplies(o, hit)
        PROVE  /\ MatchedRow(o, hit).tx \in {orders[o].tx, HashOf[hit.t]}
               /\ MatchedRow(o, hit).received = paid[hit.t].amount
               /\ MatchedRow(o, hit).status = hit.status
    BY <1>1 DEF MatchedRow, Row
  <2>4. MatchApplies(o, hit) => /\ o \in hit.writes /\ orders[o].tx \in {None, HashOf[hit.t]}
                                /\ orders[o].status \in MatchApplyStatuses
    BY DEF MatchApplies, TakesTransaction
  <2> HIDE DEF hit
  <2> QED BY <1>2, <2>1, <2>2, <2>3, <2>4 DEF Credited, hit
<1>3. ASSUME NEW c \in Confirmers, NEW p \in Orders, WriteConfirmation(c, p)
      PROVE  \/ orders'[o] = orders[o]
             \/ /\ orders'[o].tx = orders[o].tx /\ orders'[o].received = orders[o].received
                /\ orders[o].status = "verifying"
  <2> DEFINE new == ConfirmedRow(orders[p], job[c][p])
  <2>1. orders[p] \in Row /\ job[c][p] \in Job
    BY DEF Inv, TypeOK
  <2>2. new.tx = orders[p].tx /\ new.received = orders[p].received
    BY <2>1 DEF ConfirmedRow, Row, Job
  <2>3. \/ orders'[o] = orders[o]
        \/ o = p /\ orders'[o] = new /\ orders[p].status = "verifying"
    BY <1>1, <1>3 DEF WriteConfirmation, ConfirmationApplies, ConfirmStatuses
  <2> HIDE DEF new
  <2> QED BY <2>2, <2>3
<1>4. CASE Api
  <2>1. ASSUME orders[o].tx # None
        PROVE  orders'[o] = orders[o] \/ /\ orders'[o].received = orders[o].received
                                         /\ orders'[o].tx = orders[o].tx
                                         /\ orders'[o].status = "cancelled"
    <3>1. orders[o].status \notin {"absent", "pending_payment"}
      BY <2>1 DEF Inv, RowsOK
    <3>2. ASSUME NEW p \in Orders, CancelOrder(p) \/ ResolveAnomaly(p)
          PROVE  orders'[o] = orders[o] \/ /\ orders'[o].received = orders[o].received
                                           /\ orders'[o].tx = orders[o].tx
                                           /\ orders'[o].status = "cancelled"
      BY <1>1, <3>2 DEF CancelOrder, ResolveAnomaly, Row
    <3>3. ASSUME NEW p \in Orders, NEW mode \in Modes, NEW s \in Scopes, NEW q \in Quotes,
                 CreateOrder(p, mode, s, q) \/ RequoteOrder(p, mode, s, q)
          PROVE  orders'[o] = orders[o]
      BY <1>1, <3>1, <3>3 DEF CreateOrder, RequoteOrder
    <3>4. CASE ExpireDue
      BY <3>1, <3>4 DEF ExpireDue, Due
    <3> QED BY <1>4, <3>2, <3>3, <3>4 DEF Api
  <2>2. orders[o].tx = None => orders'[o].tx = None
    <3>1. ASSUME NEW p \in Orders, CancelOrder(p) \/ ResolveAnomaly(p)
          PROVE  orders'[o].tx = orders[o].tx
      BY <1>1, <3>1 DEF CancelOrder, ResolveAnomaly, Row
    <3>2. ASSUME NEW p \in Orders, NEW mode \in Modes, NEW s \in Scopes, NEW q \in Quotes,
                 CreateOrder(p, mode, s, q)
          PROVE  orders'[o].tx \in {None, orders[o].tx}
      BY <1>1, <3>2 DEF CreateOrder, NullRow
    <3>3. ASSUME NEW p \in Orders, NEW mode \in Modes, NEW s \in Scopes, NEW q \in Quotes,
                 RequoteOrder(p, mode, s, q)
          PROVE  orders'[o].tx = orders[o].tx
      <4>0. Requoting(p, mode, s)
        BY <3>3, Requoted
      <4>1. PICK w, payable, memo :
               orders' = [orders EXCEPT ![p] =
                   [@ EXCEPT !.mode = mode, !.scope = s, !.addr = w,
                             !.payable = payable, !.memo = memo, !.expires = now + Validity]]
        BY <4>0 DEF Requoting
      <4> QED BY <1>1, <4>1 DEF Row
    <3>4. CASE ExpireDue
      BY <1>1, <3>4 DEF ExpireDue, Row
    <3> QED BY <1>4, <3>1, <3>2, <3>3, <3>4 DEF Api
  <2> QED BY <2>1, <2>2
<1>5. ASSUME NEW s \in Scopes, ScopeRun(s), ~ApplyMatch(s) PROVE orders' = orders
  BY <1>5 DEF ScopeRun, ListScope, PollScope, EndMatching, EndScope, SkipTransfer, SelectRows
<1>6. ASSUME NEW c \in Confirmers, NEW p \in Orders, FollowUp(c, p), ~WriteConfirmation(c, p)
      PROVE  orders' = orders
  BY <1>6 DEF FollowUp, ObserveTruth, ObserveGlitch, Observe, SelectConfirmation
<1>7. ASSUME \/ (\E p \in Orders : StreakAges(p)) \/ StartPriority \/ CrashWatcher
             \/ Chain \/ UNCHANGED vars
      PROVE  orders' = orders
  BY <1>7 DEF StreakAges, StartPriority, CrashWatcher, Chain, Mine, Deepen, Reorganise, Tick, vars
<1> QED BY <1>2, <1>3, <1>4, <1>5, <1>6, <1>7 DEF Next, Watcher

-----------------------------------------------------------------------------
(***************************************************************************)
(* CreditInv is inductive.                                                 *)
(***************************************************************************)
LEMMA InitCredit == Init => CreditInv
<1> SUFFICES ASSUME Init PROVE CreditInv
  OBVIOUS
<1>1. Inv
  BY InitInv
<1>2. \A o \in Orders : orders[o] = NullRow
  BY DEF Init
<1>3. NullRow.tx = None /\ NullRow.status = "absent"
  BY DEF NullRow
<1>4. \A s \in Scopes : /\ run[s].rows = [o \in Orders |-> NullRow] /\ run[s].batch = {}
                        /\ run[s].pc = "idle"
  BY DEF Init, IdleRun
<1>5. ListedOK /\ BatchOK /\ WritesOK
  BY <1>2, <1>3, <1>4 DEF ListedOK, BatchOK, WritesOK, Keeps
<1>6. CreditsSeen /\ CreditFollowsOrder /\ CreditsMatchPayments
  BY <1>2, <1>3 DEF CreditsSeen, CreditFollowsOrder, CreditsMatchPayments
<1> QED BY <1>1, <1>5, <1>6 DEF CreditInv

LEMMA ListedStep ==
    ASSUME CreditInv, [Next]_vars
    PROVE  ListedOK'
<1> SUFFICES ASSUME NEW s \in Scopes, NEW o \in Orders
             PROVE  Keeps(run'[s].rows[o], orders'[o])
  BY DEF ListedOK, Keeps, SameQuote
<1>1. Inv /\ Keeps(run[s].rows[o], orders[o])
  BY DEF CreditInv, ListedOK
<1>2. Keeps(orders[o], orders'[o])
  BY <1>1, RowsKept
<1>3. CASE run'[s].rows[o] = run[s].rows[o]
  BY <1>1, <1>2, <1>3 DEF Keeps, SameQuote
<1>4. CASE run'[s].rows[o].status = "absent"
  BY <1>4 DEF Keeps
<1>5. CASE run'[s].rows[o] = orders[o] /\ orders' = orders
  BY <1>5 DEF Keeps, SameQuote
<1> QED BY <1>1, <1>3, <1>4, <1>5, RowsSteps

\* A batch is what a poll saw on the chain, less what was dealt with.
LEMMA BatchSteps ==
    ASSUME Inv, [Next]_vars, NEW s \in Scopes, NEW t \in run'[s].batch
    PROVE  \/ t \in run[s].batch
           \/ PollScope(s) /\ run[s].pc = "polling" /\ Seen(t) /\ paid[t].scope = s
<1>1. run \in [Scopes -> Run] /\ run[s] \in Run
  BY DEF Inv, TypeOK
<1>2. CASE PollScope(s)
  <2>1. PICK batch \in SUBSET NewTransfers(s) :
           run' = [run EXCEPT ![s].pc = "matching", ![s].batch = batch]
    BY <1>2 DEF PollScope
  <2>2. t \in NewTransfers(s)
    BY <1>1, <2>1 DEF Run
  <2> QED BY <1>2, <2>2 DEF NewTransfers, Seen, PollScope
<1>3. CASE ApplyMatch(s)
  <2>1. run' = [run EXCEPT ![s].pc = "matching", ![s].hit = NoHit]
    BY <1>3 DEF ApplyMatch
  <2> QED BY <1>1, <2>1 DEF Run
<1>4. ASSUME NEW u \in Transfers, SkipTransfer(s, u) PROVE t \in run[s].batch
  <2>1. PICK fresh : run' = [run EXCEPT ![s].batch = @ \ {u}, ![s].fresh = fresh]
    BY <1>4 DEF SkipTransfer
  <2> QED BY <1>1, <2>1 DEF Run
<1>5. ASSUME NEW u \in Transfers, SelectRows(s, u) PROVE t \in run[s].batch
  BY <1>5, SelectFacts
<1>6. CASE ListScope(s)
  BY <1>1, <1>6 DEF ListScope, IdleRun
<1> QED BY <1>2, <1>3, <1>4, <1>5, <1>6, RunSteps DEF Forgets

LEMMA BatchStep ==
    ASSUME CreditInv, [Next]_vars
    PROVE  BatchOK'
<1> SUFFICES ASSUME NEW s \in Scopes, NEW t \in run'[s].batch
             PROVE  Seen(t)' /\ paid'[t].scope = s
  BY DEF BatchOK, Seen
<1>1. Inv
  BY DEF CreditInv
<1>2. Seen(t) /\ paid[t].scope = s
  BY <1>1, BatchSteps DEF CreditInv, BatchOK
<1>3. t \in Transfers
  <2>1. run'[s] \in Run
    BY <1>1, NextInv DEF Inv, TypeOK
  <2> QED BY <2>1 DEF Run
<1> QED BY <1>1, <1>2, <1>3, PaidStays

\* A run that writes has just selected, or did nothing.
LEMMA WritingSteps ==
    ASSUME Inv, [Next]_vars, NEW s \in Scopes, run'[s].pc = "writing"
    PROVE  run'[s] = run[s] \/ \E t \in Transfers : SelectRows(s, t)
<1>1. run \in [Scopes -> Run] /\ run[s] \in Run
  BY DEF Inv, TypeOK
<1>2. CASE PollScope(s)
  BY <1>1, <1>2 DEF PollScope, Run
<1>3. CASE ApplyMatch(s)
  <2>1. run' = [run EXCEPT ![s].pc = "matching", ![s].hit = NoHit]
    BY <1>3 DEF ApplyMatch
  <2> QED BY <1>1, <2>1 DEF Run
<1>4. ASSUME NEW u \in Transfers, SkipTransfer(s, u) PROVE FALSE
  <2>1. PICK batch, fresh : run' = [run EXCEPT ![s].batch = batch, ![s].fresh = fresh]
    BY <1>4 DEF SkipTransfer
  <2>2. run'[s].pc = run[s].pc
    BY <1>1, <2>1 DEF Run
  <2> QED BY <1>4, <2>2 DEF SkipTransfer
<1>5. CASE ListScope(s)
  BY <1>1, <1>5 DEF ListScope, IdleRun
<1> QED BY <1>2, <1>3, <1>4, <1>5, RunSteps DEF Forgets

LEMMA WritesStep ==
    ASSUME CreditInv, [Next]_vars
    PROVE  WritesOK'
<1>1. Inv /\ Inv'
  BY NextInv DEF CreditInv
<1> SUFFICES ASSUME NEW s \in Scopes, NEW t \in Transfers,
                    run'[s].pc = "writing", run'[s].hit.t = t
             PROVE  Deserved(s, t)'
  BY DEF WritesOK
<1>2. run'[s].hit.writes \subseteq Orders
  BY <1>1 DEF Inv, TypeOK, Run, Hit
<1>3. CASE run'[s] = run[s]
  <2>1. Deserved(s, t)
    BY <1>3 DEF CreditInv, WritesOK
  <2>2. Seen(t)' /\ paid'[t] = paid[t]
    BY <1>1, <2>1, PaidStays DEF Deserved
  <2>3. ASSUME NEW o \in run[s].hit.writes
        PROVE  /\ orders'[o].status # "absent" /\ orders'[o].created = orders[o].created
               /\ ~Requotes => SameQuote(orders[o], orders'[o])
    BY <1>1, <1>2, <1>3, <2>1, RowsKept DEF Deserved, Keeps
  <2>4. ASSUME NEW o \in run[s].hit.writes, ~Requotes, Meets(t, orders[o])
        PROVE  Meets(t, orders'[o])
    BY <2>2, <2>3, <2>4 DEF Meets, SameQuote
  <2>5. ASSUME NEW o \in run[s].hit.writes, Meets(t, orders'[o])
        PROVE  Meets(t, orders[o])'
    BY <2>2, <2>5 DEF Meets
  <2> QED BY <1>3, <2>1, <2>2, <2>3, <2>4, <2>5 DEF Deserved
<1>4. ASSUME NEW u \in Transfers, SelectRows(s, u) PROVE Deserved(s, t)'
  <2>1. /\ t = u /\ t \in run[s].batch /\ UNCHANGED <<orders, tx, paid>>
        /\ run'[s].rows = run[s].rows /\ run'[s].batch = run[s].batch \ {t}
        /\ run'[s].hit.status = Outcome(s, t).status
        /\ run'[s].hit.writes \subseteq Outcome(s, t).ids
    BY <1>1, <1>4, SelectFacts
  <2>2. Seen(t)' /\ paid'[t].scope = s /\ t \notin run'[s].batch
    BY <2>1 DEF CreditInv, BatchOK, Seen
  <2>3. ASSUME NEW o \in run'[s].hit.writes
        PROVE  /\ orders'[o].status # "absent"
               /\ paid'[t].at >= orders'[o].created
               /\ run'[s].hit.status = "verifying" =>
                     /\ run'[s].rows[o].status \in M!AwaitingStatuses
                     /\ ~Requotes => Meets(t, orders[o])
    <3> DEFINE row == run[s].rows
               out == M!MatchInbound(paid[t], row)
    <3>1. o \in out.ids
      BY <2>1, <2>3 DEF Outcome
    <3>2. /\ o \in DOMAIN row /\ row[o].status # "absent" /\ paid[t].at >= row[o].created
          /\ out.status = "verifying" =>
                /\ row[o].status \in M!AwaitingStatuses
                /\ row[o].scope = paid[t].scope /\ row[o].addr = paid[t].addr
                /\ M!AmountFits(row[o].payable, paid[t].amount)
                /\ ~(row[o].expires <= paid[t].at)
                /\ row[o].mode = "D" => row[o].memo = paid[t].memo
      BY <3>1, RightInbound
    <3> HIDE DEF out
    <3>3. row \in [Orders -> Row] /\ paid[t] \in Payment
      BY <1>1 DEF Inv, TypeOK, Run
    <3>4. o \in Orders
      BY <3>2, <3>3
    <3>5. row[o].expires \in Nat /\ paid[t].at \in Nat
      BY <3>3, <3>4 DEF Row, Payment
    <3>6. /\ orders[o].status # "absent" /\ orders[o].created = row[o].created
          /\ ~Requotes => SameQuote(row[o], orders[o])
      BY <3>2, <3>4 DEF CreditInv, ListedOK, Keeps
    <3>7. ASSUME out.status = "verifying", ~Requotes PROVE Meets(t, orders[o])
      <4>1. paid[t].at < row[o].expires
        BY <3>2, <3>5, <3>7
      <4> HIDE DEF row
      <4> QED BY <3>2, <3>6, <3>7, <4>1 DEF Meets, SameQuote
    <3>8. run'[s].hit.status = out.status
      BY <2>1 DEF Outcome, out
    <3> QED BY <2>1, <3>2, <3>6, <3>7, <3>8
  <2>4. ASSUME NEW o \in run'[s].hit.writes, Meets(t, orders[o]) PROVE Meets(t, orders[o])'
    BY <2>1, <2>4 DEF Meets
  <2> QED BY <2>2, <2>3, <2>4 DEF Deserved
<1> QED BY <1>1, <1>3, <1>4, WritingSteps

\* A match that is written is on account of a transfer that deserves it.
LEMMA CreditedFacts ==
    ASSUME CreditInv, [Next]_vars, NEW s \in Scopes, NEW o \in Orders, Credited(s, o)
    PROVE  LET t == run[s].hit.t
           IN  /\ t \in Transfers /\ Deserved(s, t) /\ o \in run[s].hit.writes
               /\ HashOf[t] = orders'[o].tx /\ paid[t].amount = orders'[o].received
               /\ orders'[o].status = run[s].hit.status
  BY DEF Credited, ApplyMatch, CreditInv, WritesOK

LEMMA CreditStep ==
    ASSUME CreditInv, [Next]_vars
    PROVE  CreditsSeen' /\ CreditFollowsOrder' /\ (~Requotes => CreditsMatchPayments')
<1>1. Inv /\ Inv'
  BY NextInv DEF CreditInv
<1>2. ASSUME NEW o \in Orders, orders'[o].tx # None
      PROVE  /\ tx'[orders'[o].tx].state # "unseen"
             /\ \E t \in Transfers : /\ HashOf[t] = orders'[o].tx
                                     /\ paid'[t].amount = orders'[o].received
                                     /\ paid'[t].at >= orders'[o].created
             /\ ~Requotes /\ orders'[o].status \in {"verifying", "completed"} =>
                   \E t \in Transfers : /\ HashOf[t] = orders'[o].tx
                                        /\ paid'[t].amount = orders'[o].received
                                        /\ Meets(t, orders[o])'
  <2>1. CASE /\ orders'[o].tx = orders[o].tx /\ orders'[o].received = orders[o].received
             /\ orders'[o].status \in {"verifying", "completed"} =>
                   orders[o].status \in {"verifying", "completed"}
    <3>1. /\ orders[o].tx # None /\ orders[o].tx \in Hashes /\ orders[o].status # "absent"
          /\ tx[orders[o].tx].state # "unseen"
      BY <1>1, <1>2, <2>1 DEF Inv, TypeOK, Row, RowsOK, CreditInv, CreditsSeen
    <3>2. tx'[orders'[o].tx].state # "unseen"
      BY <1>1, <2>1, <3>1, PaidStays
    <3>3. ASSUME NEW t \in Transfers, HashOf[t] = orders[o].tx PROVE paid'[t] = paid[t]
      BY <1>1, <3>1, <3>3, PaidStays DEF Seen
    <3>4. orders'[o].created = orders[o].created
          /\ (~Requotes => SameQuote(orders[o], orders'[o]))
      BY <1>1, <3>1, RowsKept DEF Keeps
    <3>5. PICK t \in Transfers : /\ HashOf[t] = orders[o].tx
                                 /\ paid[t].amount = orders[o].received
                                 /\ paid[t].at >= orders[o].created
      BY <3>1 DEF CreditInv, CreditFollowsOrder, OutputsOf
    <3>6. ASSUME ~Requotes, orders'[o].status \in {"verifying", "completed"}
          PROVE  \E u \in Transfers : /\ HashOf[u] = orders'[o].tx
                                      /\ paid'[u].amount = orders'[o].received
                                      /\ Meets(u, orders[o])'
      <4>1. PICK u \in Transfers : PaysFor(u, orders[o])
        BY <2>1, <3>6 DEF CreditInv, CreditsMatchPayments
      <4>2. paid'[u] = paid[u] /\ SameQuote(orders[o], orders'[o])
        BY <3>3, <3>4, <3>6, <4>1 DEF PaysFor
      <4>3. Meets(u, orders[o])'
        BY <3>4, <4>1, <4>2 DEF PaysFor, Meets, SameQuote
      <4> QED BY <2>1, <4>1, <4>2, <4>3 DEF PaysFor
    <3> QED BY <2>1, <3>2, <3>3, <3>4, <3>5, <3>6
  <2>2. ASSUME NEW s \in Scopes, Credited(s, o)
        PROVE  /\ tx'[orders'[o].tx].state # "unseen"
               /\ \E t \in Transfers : /\ HashOf[t] = orders'[o].tx
                                       /\ paid'[t].amount = orders'[o].received
                                       /\ paid'[t].at >= orders'[o].created
               /\ ~Requotes /\ orders'[o].status \in {"verifying", "completed"} =>
                     \E t \in Transfers : /\ HashOf[t] = orders'[o].tx
                                          /\ paid'[t].amount = orders'[o].received
                                          /\ Meets(t, orders[o])'
    <3>1. PICK t \in Transfers : /\ Deserved(s, t) /\ o \in run[s].hit.writes
                                 /\ HashOf[t] = orders'[o].tx
                                 /\ paid[t].amount = orders'[o].received
                                 /\ orders'[o].status = run[s].hit.status
      BY <2>2, CreditedFacts
    <3>2. Seen(t)' /\ paid'[t] = paid[t]
      BY <1>1, <3>1, PaidStays DEF Deserved
    <3>3. /\ orders'[o].created = orders[o].created /\ paid[t].at >= orders[o].created
          /\ ~Requotes => SameQuote(orders[o], orders'[o])
      BY <1>1, <3>1, RowsKept DEF Keeps, Deserved
    <3>4. run[s].hit.status \in {"verifying", "payment_anomaly"}
      BY <1>1, <2>2 DEF Credited, ApplyMatch, Inv, HitsOK
    <3>5. ASSUME ~Requotes, orders'[o].status \in {"verifying", "completed"}
          PROVE  Meets(t, orders[o])'
      <4>1. Meets(t, orders[o])
        BY <3>1, <3>4, <3>5 DEF Deserved
      <4> QED BY <3>2, <3>3, <3>5, <4>1 DEF Meets, SameQuote
    <3>6. tx'[orders'[o].tx].state # "unseen"
      BY <3>1, <3>2 DEF Seen
    <3> QED BY <3>1, <3>2, <3>3, <3>5, <3>6
  <2> QED BY <1>1, <1>2, <2>1, <2>2, CreditSteps
<1>3. CreditsSeen'
  BY <1>2 DEF CreditsSeen
<1>4. CreditFollowsOrder'
  BY <1>2 DEF CreditFollowsOrder, OutputsOf
<1>5. ASSUME ~Requotes PROVE CreditsMatchPayments'
  <2> SUFFICES ASSUME NEW o \in Orders, orders'[o].status \in {"verifying", "completed"}
               PROVE  \E t \in Transfers : PaysFor(t, orders[o])'
    BY DEF CreditsMatchPayments
  <2>1. orders'[o].tx # None
    BY <1>1 DEF Inv, RowsOK
  <2>2. PICK t \in Transfers : /\ HashOf[t] = orders'[o].tx
                               /\ paid'[t].amount = orders'[o].received
                               /\ Meets(t, orders[o])'
    BY <1>2, <1>5, <2>1
  <2> QED BY <2>2 DEF PaysFor, Meets
<1> QED BY <1>3, <1>4, <1>5

LEMMA CreditInvariance == Spec => []CreditInv
<1>1. CreditInv /\ [Next]_vars => CreditInv'
  BY NextInv, ListedStep, BatchStep, WritesStep, CreditStep DEF CreditInv
<1> QED BY <1>1, InitCredit, PTL DEF Spec

-----------------------------------------------------------------------------
(***************************************************************************)
(* The theorems.                                                           *)
(***************************************************************************)
\* No order, re-quoted or not, is credited by matchInbound with a transfer older than itself,
\* and the amount applyMatchResult recorded is one its transaction paid.
THEOREM CreditsFollowOrders == Spec => []CreditFollowsOrder
<1>1. CreditInv => CreditFollowsOrder
  BY DEF CreditInv
<1> QED BY <1>1, CreditInvariance, PTL

\* Where payers do not re-quote, an order that verifies or is completed was credited with a
\* transfer to its address on its rail, in its amount, inside its window and with its memo,
\* although the watcher decided from listed rows and wrote without a lock.
THEOREM CreditsAreReal == ~Requotes => (Spec => []CreditsMatchPayments)
<1> SUFFICES ASSUME ~Requotes PROVE Spec => []CreditsMatchPayments
  OBVIOUS
<1>1. CreditInv => CreditsMatchPayments
  BY DEF CreditInv
<1> QED BY <1>1, CreditInvariance, PTL

-----------------------------------------------------------------------------
(***************************************************************************)
(* What a run has in hand is nobody's since it listed.                     *)
(***************************************************************************)
LEMMA HandsStep ==
    ASSUME OneTransferEach, CreditInv, HandsOK, [Next]_vars
    PROVE  HandsOK'
<1> SUFFICES ASSUME NEW s \in Scopes, NEW t \in Transfers, NEW o \in Orders,
                    InHand(s, t)', orders'[o].tx = HashOf[t]
             PROVE  run'[s].rows[o].status \notin M!AwaitingStatuses
  BY DEF HandsOK
<1>1. Inv /\ Inv' /\ HashOf[t] \in Hashes /\ None \notin Hashes
  BY NextInv, ConstantFacts DEF CreditInv
<1>2. run \in [Scopes -> Run] /\ run[s] \in Run
  BY <1>1 DEF Inv, TypeOK
<1>3. ASSUME orders[o].tx = HashOf[t] PROVE orders[o].status \notin M!AwaitingStatuses
  BY <1>1, <1>3 DEF Inv, RowsOK, M!AwaitingStatuses
<1>4. "absent" \notin M!AwaitingStatuses
  BY DEF M!AwaitingStatuses
<1>5. orders[o].tx = HashOf[t]
  <2>1. ASSUME NEW u \in Scopes, Credited(u, o) PROVE FALSE
    <3>1. PICK v \in Transfers : /\ v = run[u].hit.t /\ Deserved(u, v)
                                 /\ HashOf[v] = orders'[o].tx
      BY <2>1, CreditedFacts
    <3>2. v = t
      BY <3>1 DEF OneTransferEach
    <3>3. paid' = paid /\ run' = [run EXCEPT ![u].pc = "matching", ![u].hit = NoHit]
      BY <2>1 DEF Credited, ApplyMatch, chainVars
    <3>4. u = s
      BY <3>1, <3>2, <3>3 DEF InHand, Deserved
    <3>5. run'[s].pc = "matching" /\ run'[s].batch = run[s].batch
      BY <1>2, <3>3, <3>4 DEF Run
    <3> QED BY <3>1, <3>2, <3>4, <3>5 DEF InHand, Deserved
  <2> QED BY <1>1, <2>1, CreditSteps
<1>6. CASE ListScope(s)
  <2>1. run'[s].rows[o] \in {orders[o], NullRow}
    BY <1>2, <1>6 DEF ListScope
  <2> QED BY <1>3, <1>4, <1>5, <2>1 DEF NullRow
<1>7. CASE ~ListScope(s)
  <2>1. paid[t].scope = s
    <3>1. paid'[t] = paid[t]
      BY <1>1, <1>5, PaidStays DEF CreditInv, CreditsSeen, Seen
    <3> QED BY <3>1 DEF InHand
  <2>2. InHand(s, t) \/ Forgets(s)
    <3>1. CASE run'[s].pc = "polling"
      <4>1. CASE PollScope(s)
        BY <4>1, <2>1 DEF InHand, PollScope
      <4>2. CASE ApplyMatch(s)
        <5>1. run' = [run EXCEPT ![s].pc = "matching", ![s].hit = NoHit]
          BY <4>2 DEF ApplyMatch
        <5> QED BY <1>2, <3>1, <5>1 DEF Run
      <4>3. ASSUME NEW u \in Transfers, SkipTransfer(s, u) PROVE run'[s].pc = run[s].pc
        <5>1. PICK batch, fresh : run' = [run EXCEPT ![s].batch = batch, ![s].fresh = fresh]
          BY <4>3 DEF SkipTransfer
        <5> QED BY <1>2, <5>1 DEF Run
      <4>4. ASSUME NEW u \in Transfers, SelectRows(s, u) PROVE FALSE
        BY <1>1, <3>1, <4>4, SelectFacts
      <4> QED BY <1>1, <1>7, <2>1, <3>1, <4>1, <4>2, <4>3, <4>4, RunSteps DEF InHand
    <3>2. CASE t \in run'[s].batch
      BY <1>1, <2>1, <3>2, BatchSteps DEF InHand
    <3>3. CASE run'[s].pc = "writing" /\ run'[s].hit.t = t
      <4>1. ASSUME NEW u \in Transfers, SelectRows(s, u) PROVE t \in run[s].batch
        BY <1>1, <3>3, <4>1, SelectFacts
      <4> QED BY <1>1, <2>1, <3>3, <4>1, WritingSteps DEF InHand
    <3> QED BY <3>1, <3>2, <3>3 DEF InHand
  <2>3. CASE InHand(s, t)
    BY <1>1, <1>4, <1>5, <1>7, <2>3, RowsSteps DEF HandsOK
  <2>4. CASE Forgets(s)
    BY <1>4, <2>4 DEF Forgets, NullRow
  <2> QED BY <2>2, <2>3, <2>4
<1> QED BY <1>6, <1>7

\* Where a transaction carries one token transfer, the watcher never takes back a review that
\* holds its payment: a run that still has the transfer in hand listed the order as settled.
THEOREM ReviewsAreFinal == OneTransferEach => (Spec => ReviewWithPaymentIsFinal)
<1> SUFFICES ASSUME OneTransferEach PROVE Spec => ReviewWithPaymentIsFinal
  OBVIOUS
<1> DEFINE Final == \A o \in Orders :
                       orders[o].status = "payment_anomaly" /\ orders[o].tx # None =>
                          orders'[o].status \in {"payment_anomaly", "cancelled"}
<1>1. Init => HandsOK
  BY DEF Init, HandsOK, InHand, IdleRun
<1>2. CreditInv /\ HandsOK /\ [Next]_vars => HandsOK'
  BY HandsStep
<1>3. CreditInv /\ HandsOK /\ [Next]_vars => [Final]_vars
  <2> SUFFICES ASSUME CreditInv, HandsOK, [Next]_vars, NEW o \in Orders,
                      orders[o].status = "payment_anomaly", orders[o].tx # None
               PROVE  orders'[o].status \in {"payment_anomaly", "cancelled"}
    OBVIOUS
  <2>1. Inv /\ Inv'
    BY NextInv DEF CreditInv
  <2>2. orders'[o].status \in {"verifying", "payment_anomaly", "cancelled"}
    BY <2>1, NextRows DEF RowStep, MovesUncredited, Resolves, Matches, Confirms
  <2>3. ASSUME orders'[o].status = "verifying" PROVE FALSE
    <3>1. orders'[o].tx # None
      BY <2>1, <2>3 DEF Inv, RowsOK
    <3>2. PICK s \in Scopes : Credited(s, o)
      BY <2>1, <2>3, <3>1, CreditSteps
    <3>3. PICK t \in Transfers : /\ t = run[s].hit.t /\ Deserved(s, t)
                                 /\ o \in run[s].hit.writes /\ HashOf[t] = orders'[o].tx
                                 /\ run[s].hit.status = "verifying"
      BY <2>3, <3>2, CreditedFacts
    <3>4. InHand(s, t) /\ orders[o].tx = HashOf[t]
      BY <3>2, <3>3 DEF InHand, Deserved, Credited, ApplyMatch
    <3> QED BY <3>3, <3>4 DEF HandsOK, Deserved
  <2> QED BY <2>2, <2>3
<1> QED BY <1>1, <1>2, <1>3, CreditInvariance, PTL DEF Spec, ReviewWithPaymentIsFinal

\* "Never two Completeds from one tx": while payers do not re-quote, two orders completed by
\* one transaction were each paid by an output of their own, since each was credited with a
\* transfer that pays it and the unique index lets one output be credited to one order.  The
\* run that re-quotes shows that the hypothesis is needed.
THEOREM CompletionsHaveTheirOwnOutputs == ~Requotes => (Spec => []NeverTwoCompletedsFromOnePayment)
<1> SUFFICES ASSUME ~Requotes PROVE Spec => []NeverTwoCompletedsFromOnePayment
  OBVIOUS
<1>1. CreditInv => NeverTwoCompletedsFromOnePayment
  <2> SUFFICES ASSUME CreditInv, NEW o \in Orders, NEW p \in Orders, o # p,
                      orders[o].status = "completed", orders[p].status = "completed",
                      orders[o].tx = orders[p].tx
               PROVE  \E t, u \in OutputsOf(orders[o].tx) :
                         t # u /\ paid[t].scope # None /\ paid[u].scope # None
    BY DEF NeverTwoCompletedsFromOnePayment
  <2>1. PICK t \in Transfers : PaysFor(t, orders[o])
    BY DEF CreditInv, CreditsMatchPayments
  <2>2. PICK u \in Transfers : PaysFor(u, orders[p])
    BY DEF CreditInv, CreditsMatchPayments
  <2>3. orders[o].tx # None /\ orders[o].scope \in Scopes /\ orders[p].scope \in Scopes
    BY DEF CreditInv, Inv, RowsOK
  <2>4. t # u
    BY <2>1, <2>2, <2>3 DEF PaysFor, CreditInv, Inv, UniqueOutputs, SameOutput
  <2>5. paid[t].scope # None /\ paid[u].scope # None
    BY <2>1, <2>2, <2>3, TableAssumption DEF PaysFor
  <2> QED BY <2>1, <2>2, <2>4, <2>5 DEF PaysFor, OutputsOf
<1> QED BY <1>1, CreditInvariance, PTL

-----------------------------------------------------------------------------
(***************************************************************************)
(* Collisions.  Orders that compete for one payment were assigned amounts  *)
(* that the matcher can tell apart (Apart), and a run keeps them as it     *)
(* listed them; so of the orders a collision names, none was paid to the   *)
(* unit.                                                                   *)
(***************************************************************************)
\* Fingerprints of different quotes are the same or a step apart.
QuotesSpaced == \A q, r \in Quotes : \E k \in Int : q - r = k * Step

Awaits(r) == r.status \in M!AwaitingStatuses

Overlap(r, q) == r.created < q.expires /\ q.created < r.expires

Compete(r, q) ==
    /\ Awaits(r) /\ Awaits(q) /\ r.scope = q.scope /\ r.addr = q.addr
    /\ r.mode = q.mode /\ r.mode \in {"B", "C"} /\ Overlap(r, q)

Apart(table) ==
    \A o, p \in Orders : o # p /\ Compete(table[o], table[p]) =>
        M!AbsDiff(table[o].payable, table[p].payable) > Dust

RowsMade ==
    \A o \in Orders : orders[o].status # "absent" =>
        /\ orders[o].mode \in Modes
        /\ orders[o].status = "expired" => orders[o].expires <= now
        /\ orders[o].mode = "C" =>
              \E q \in Quotes, k \in 0..MaxSteps : orders[o].payable = q + k * Step

RunsApart == \A s \in Scopes : Apart(run[s].rows)

HitsAmbiguous ==
    \A s \in Scopes : run[s].pc = "writing" /\ run[s].hit.reason = "collision" =>
        \A o \in run[s].hit.writes : paid[run[s].hit.t].amount # orders[o].payable

CollisionInv ==
    RowsMade /\ Apart(orders) /\ RunsApart /\ HitsAmbiguous /\ CollisionsAreAmbiguous

-----------------------------------------------------------------------------
(***************************************************************************)
(* Amounts.                                                                *)
(***************************************************************************)
LEMMA FitsWithinDust ==
    ASSUME NEW x \in Nat, NEW y \in Nat, M!AmountFits(x, y)
    PROVE  M!AbsDiff(x, y) <= Dust
<1>1. x \div 100 \in Int /\ Dust \in Nat
  BY AmountAssumption
<1>2. M!OrderDust(x) <= Dust
  BY <1>1 DEF M!OrderDust
<1>3. M!OrderDust(x) \in Int /\ M!AbsDiff(x, y) \in Int
  BY <1>1 DEF M!OrderDust, M!AbsDiff
<1> QED BY <1>1, <1>2, <1>3 DEF M!AmountFits

\* Different amounts on the grid of fingerprints are more than the dust apart.
LEMMA GridApart ==
    ASSUME QuotesSpaced, NEW q \in Quotes, NEW r \in Quotes, NEW i \in Int, NEW j \in Int,
           NEW x \in Nat, NEW y \in Nat, x = q + i * Step, y = r + j * Step, x # y
    PROVE  M!AbsDiff(x, y) > Dust
<1>1. q \in Int /\ r \in Int /\ Step \in Nat \ {0} /\ Dust \in Nat /\ Dust < Step
  BY AmountAssumption
<1>2. PICK k \in Int : q - r = k * Step
  BY DEF QuotesSpaced
<1>3. PICK n \in Int : n = k + i - j
  OBVIOUS
<1>4. x - y = n * Step
  BY <1>1, <1>2, <1>3
<1>5. n # 0
  BY <1>1, <1>4
<1>6. CASE n >= 1
  <2>1. n * Step >= Step
    BY <1>1, <1>6
  <2>2. x - y >= Step
    BY <1>4, <2>1
  <2> QED BY <1>1, <2>2 DEF M!AbsDiff
<1>7. CASE n <= -1
  <2>1. n * Step <= 0 - Step
    BY <1>1, <1>7
  <2>2. y - x >= Step
    BY <1>1, <1>4, <2>1
  <2> QED BY <1>1, <2>2 DEF M!AbsDiff
<1> QED BY <1>5, <1>6, <1>7

-----------------------------------------------------------------------------
(***************************************************************************)
(* What a collision says of the orders it names.                           *)
(***************************************************************************)
Crowded(out, mode, t, row, S) ==
    out.reason = "collision" =>
        \A o \in out.ids :
            /\ mode # "D" /\ out.ids # {o}
            /\ out.ids \subseteq M!Fitting(t, row, M!Open(t, row, M!Eligible(t, row, S)))

LEMMA SingletonCardinality == \A o : M!Cardinality({o}) = 1
  BY FS_Singleton DEF M!Cardinality, Cardinality

LEMMA CrowdedOpen ==
    ASSUME NEW mode, NEW t, NEW row, NEW S,
           mode = "D" => M!Fitting(t, row, M!Open(t, row, M!Eligible(t, row, S))) = {}
    PROVE  Crowded(M!MatchOpen(t, row, M!Open(t, row, M!Eligible(t, row, S))), mode, t, row, S)
<1> DEFINE open == M!Open(t, row, M!Eligible(t, row, S))
           exact == M!Fitting(t, row, open)
           out == M!MatchOpen(t, row, open)
<1>1. ASSUME out.reason = "collision"
      PROVE  out.ids = exact /\ M!Cardinality(exact) >= 2
  <2> HIDE DEF exact, open
  <2> QED BY <1>1 DEF out, exact, M!MatchOpen, M!Flagged, M!Settling, M!Unbound
<1>2. ASSUME NEW o, exact = {o} PROVE ~(M!Cardinality(exact) >= 2)
  BY <1>2, SingletonCardinality
<1> QED BY <1>1, <1>2 DEF Crowded

LEMMA CrowdedExact ==
    ASSUME NEW mode, mode # "D", NEW t, NEW row, NEW S
    PROVE  Crowded(M!MatchExact(mode, t, row, S), mode, t, row, S)
<1> DEFINE out == M!MatchExact(mode, t, row, S)
           eligible == M!Eligible(t, row, S)
           opened == M!MatchOpen(t, row, M!Open(t, row, eligible))
<1>1. out = opened \/ out.reason # "collision"
  BY DEF M!MatchExact, M!MatchLate, M!Unbound, M!Flagged
<1>2. Crowded(opened, mode, t, row, S)
  BY CrowdedOpen
<1> HIDE DEF out, opened
<1>3. Crowded(out, mode, t, row, S)
  BY <1>1, <1>2 DEF Crowded
<1> QED BY <1>3 DEF out

LEMMA CrowdedMemo ==
    ASSUME NEW t, NEW row, NEW S
    PROVE  Crowded(M!MatchMemo(t, row, S), "D", t, row, S)
<1> DEFINE out == M!MatchMemo(t, row, S)
           open == M!Open(t, row, M!Eligible(t, row, S))
           opened == M!MatchOpen(t, row, open)
<1>1. \/ out = opened /\ M!Fitting(t, row, open) = {}
      \/ out.reason # "collision"
  <2>1. \/ M!MatchMemoOpen(t, row, open).reason # "collision"
        \/ M!MatchMemoOpen(t, row, open) = opened /\ M!Fitting(t, row, open) = {}
    BY DEF M!MatchMemoOpen, M!Flagged, M!Settling
  <2>2. out = M!MatchMemoOpen(t, row, open) \/ out.reason # "collision"
    <3> HIDE DEF open
    <3> QED BY DEF M!MatchMemo, M!Unbound, M!Flagged, open
  <2> HIDE DEF out, open
  <2> QED BY <2>1, <2>2
<1>2. M!Fitting(t, row, open) = {} => Crowded(opened, "D", t, row, S)
  BY CrowdedOpen
<1> HIDE DEF out, opened
<1>3. Crowded(out, "D", t, row, S)
  BY <1>1, <1>2 DEF Crowded
<1> QED BY <1>3 DEF out

\* Each order that a collision names has a rival that the transfer would settle as well.
Payable(t, r) ==
    /\ Awaits(r) /\ r.mode # "D" /\ r.scope = t.scope /\ r.addr = t.addr
    /\ t.at >= r.created /\ ~(r.expires <= t.at) /\ M!AmountFits(r.payable, t.amount)

LEMMA CollisionsHaveRivals ==
    ASSUME NEW t, NEW row, M!MatchInbound(t, row).reason = "collision",
           NEW o \in M!MatchInbound(t, row).ids
    PROVE  /\ o \in DOMAIN row /\ Payable(t, row[o])
           /\ \E p \in DOMAIN row : p # o /\ Payable(t, row[p]) /\ row[p].mode = row[o].mode
<1> DEFINE out == M!MatchInbound(t, row)
           here == {p \in DOMAIN row : /\ row[p].status # "absent"
                                       /\ row[p].addr = t.addr
                                       /\ row[p].scope = t.scope}
           mode(i) == M!ModeOrder[i]
           group(i) == {p \in here : /\ row[p].status \in M!AwaitingStatuses
                                     /\ row[p].mode = mode(i)}
           answer(i) == M!MatchTransaction(mode(i), t, row, group(i))
           answering == {i \in DOMAIN M!ModeOrder : group(i) # {} /\ ~M!NobodyHere(answer(i))}
<1>1. \/ out = M!MatchWrongRail(t, row)
      \/ out = M!Unbound("no_exact_amount_match")
      \/ \E i : out = answer(i)
  <2>1. out = CASE here = {} -> M!MatchWrongRail(t, row)
                [] here # {} /\ answering = {} -> M!Unbound("no_exact_amount_match")
                [] OTHER -> answer(M!Min(answering))
    BY DEF M!MatchInbound
  <2> HIDE DEF out, here, answer, answering
  <2> QED BY <2>1, Zenon
<1>2. M!MatchWrongRail(t, row).reason # "collision"
  BY DEF M!MatchWrongRail, M!Unbound, M!Flagged
<1>3. M!Unbound("no_exact_amount_match").reason # "collision"
  BY DEF M!Unbound
<1>4. PICK i : out = answer(i)
  <2> HIDE DEF answer
  <2> QED BY <1>1, <1>2, <1>3 DEF out
<1>5. Crowded(answer(i), mode(i), t, row, group(i))
  <2> HIDE DEF group, mode
  <2> QED BY CrowdedExact, CrowdedMemo DEF M!MatchTransaction
<1>6. /\ mode(i) # "D" /\ out.ids # {o} /\ o \in out.ids
      /\ out.ids \subseteq M!Fitting(t, row, M!Open(t, row, M!Eligible(t, row, group(i))))
  <2> HIDE DEF answer, group, mode
  <2> QED BY <1>4, <1>5 DEF Crowded, out
<1>7. PICK p \in out.ids : p # o
  <2> HIDE DEF out, mode, group
  <2> QED BY <1>6
<1>8. ASSUME NEW r \in out.ids
      PROVE  r \in DOMAIN row /\ Payable(t, row[r]) /\ row[r].mode = mode(i)
  <2>1. r \in M!Fitting(t, row, M!Open(t, row, M!Eligible(t, row, group(i))))
    <3> HIDE DEF out, mode, group
    <3> QED BY <1>6, <1>8
  <2>2. /\ r \in group(i) /\ t.at >= row[r].created /\ ~(row[r].expires <= t.at)
        /\ M!AmountFits(row[r].payable, t.amount)
    <3> HIDE DEF group
    <3> QED BY <2>1 DEF M!Fitting, M!Open, M!Late, M!Eligible
  <2> HIDE DEF out
  <2> QED BY <1>6, <2>2 DEF Payable, Awaits
<1> HIDE DEF out, mode
<1> QED BY <1>6, <1>7, <1>8

-----------------------------------------------------------------------------
(***************************************************************************)
(* Where awaiting orders, the clock and reasons come from.                 *)
(***************************************************************************)
LEMMA ClockSteps == ASSUME Inv, [Next]_vars PROVE now \in Nat /\ now' \in Nat /\ now' >= now
<1>1. now \in Nat
  BY TimeAssumption DEF Inv, TypeOK
<1>2. CASE Tick
  BY <1>1, <1>2 DEF Tick
<1>3. ASSUME Api PROVE now' = now
  BY <1>3 DEF Api, CreateOrder, RequoteOrder, CancelOrder, ResolveAnomaly, ExpireDue
<1>4. ASSUME NEW h \in Hashes, Mine(h) \/ Deepen(h) \/ Reorganise(h) PROVE now' = now
  BY <1>4 DEF Mine, Deepen, Reorganise
<1>5. ASSUME NEW s \in Scopes, ScopeRun(s) PROVE now' = now
  BY <1>5 DEF ScopeRun, ListScope, PollScope, SkipTransfer, SelectRows, ApplyMatch,
     EndMatching, EndScope
<1>6. ASSUME NEW c \in Confirmers, NEW o \in Orders, FollowUp(c, o) PROVE now' = now
  <2>1. CASE ObserveTruth(c, o) \/ ObserveGlitch(c, o)
    BY <2>1 DEF ObserveTruth, ObserveGlitch, Observe
  <2>2. CASE SelectConfirmation(c, o) \/ WriteConfirmation(c, o)
    BY <2>2 DEF SelectConfirmation, WriteConfirmation
  <2> QED BY <1>6, <2>1, <2>2 DEF FollowUp
<1>7. ASSUME (\E o \in Orders : StreakAges(o)) \/ StartPriority \/ CrashWatcher
      PROVE  now' = now
  BY <1>7 DEF StreakAges, StartPriority, CrashWatcher
<1>8. now' = now \/ Tick
  BY <1>3, <1>4, <1>5, <1>6, <1>7 DEF Next, Chain, Watcher, vars
<1> QED BY <1>1, <1>2, <1>8

\* An order comes to await a payment when it is created, and lapses when it is due.
LEMMA AwaitSteps ==
    ASSUME Inv, [Next]_vars, NEW o \in Orders, Awaits(orders'[o])
    PROVE  \/ orders'[o].status = orders[o].status
           \/ Due(o) /\ now' = now
           \/ /\ orders[o].status = "absent"
              /\ \E mode \in Modes, s \in Scopes, q \in Quotes : CreateOrder(o, mode, s, q)
<1>1. orders \in [Orders -> Row] /\ orders[o] \in Row
  BY DEF Inv, TypeOK
<1>2. orders'[o].status \in {"pending_payment", "expired"}
  BY DEF Awaits, M!AwaitingStatuses
<1>3. CASE Api
  <2>1. ASSUME NEW p \in Orders, NEW mode \in Modes, NEW s \in Scopes, NEW q \in Quotes,
               CreateOrder(p, mode, s, q)
        PROVE  p = o \/ orders'[o] = orders[o]
    BY <1>1, <2>1 DEF CreateOrder
  <2>2. ASSUME NEW p \in Orders, NEW mode \in Modes, NEW s \in Scopes, NEW q \in Quotes,
               RequoteOrder(p, mode, s, q)
        PROVE  orders'[o].status = orders[o].status
    <3>0. Requoting(p, mode, s)
      BY <2>2, Requoted
    <3>1. PICK w, payable, memo :
             orders' = [orders EXCEPT ![p] =
                 [@ EXCEPT !.mode = mode, !.scope = s, !.addr = w,
                           !.payable = payable, !.memo = memo, !.expires = now + Validity]]
      BY <3>0 DEF Requoting
    <3> QED BY <1>1, <3>1 DEF Row
  <2>3. ASSUME NEW p \in Orders, CancelOrder(p) \/ ResolveAnomaly(p)
        PROVE  orders'[o] = orders[o]
    <3>1. orders' = [orders EXCEPT ![p].status = "cancelled"]
      BY <2>3 DEF CancelOrder, ResolveAnomaly
    <3>2. orders'[o] = orders[o] \/ orders'[o].status = "cancelled"
      BY <1>1, <3>1 DEF Row
    <3> QED BY <1>2, <3>2
  <2>4. CASE ExpireDue
    BY <2>4 DEF ExpireDue
  <2>5. ASSUME NEW mode \in Modes, NEW s \in Scopes, NEW q \in Quotes,
               CreateOrder(o, mode, s, q)
        PROVE  orders[o].status = "absent"
    BY <2>5 DEF CreateOrder
  <2> QED BY <1>3, <2>1, <2>2, <2>3, <2>4, <2>5 DEF Api
<1>4. ASSUME NEW s \in Scopes, ApplyMatch(s) PROVE orders'[o] = orders[o]
  <2> DEFINE hit == run[s].hit
  <2>1. \/ orders'[o] = orders[o]
        \/ MatchApplies(o, hit) /\ orders'[o] = MatchedRow(o, hit)
    BY <1>4 DEF ApplyMatch
  <2>2. hit.status \in {"verifying", "payment_anomaly"}
    BY <1>4 DEF ApplyMatch, Inv, HitsOK
  <2>3. MatchedRow(o, hit).status = hit.status
    BY <1>1 DEF MatchedRow, Row
  <2> HIDE DEF hit
  <2> QED BY <1>2, <2>1, <2>2, <2>3
<1>5. ASSUME NEW c \in Confirmers, NEW p \in Orders, WriteConfirmation(c, p)
      PROVE  orders'[o] = orders[o]
  <2> DEFINE new == ConfirmedRow(orders[p], job[c][p])
  <2>1. orders[p] \in Row /\ job[c][p] \in Job
    BY DEF Inv, TypeOK
  <2>2. new.status \in {orders[p].status, "completed", "payment_anomaly"}
    BY <2>1 DEF ConfirmedRow, Row, Job
  <2>3. \/ orders'[o] = orders[o]
        \/ o = p /\ orders'[o] = new /\ orders[p].status = "verifying"
    BY <1>1, <1>5 DEF WriteConfirmation, ConfirmationApplies, ConfirmStatuses
  <2> HIDE DEF new
  <2> QED BY <1>2, <2>2, <2>3
<1>6. ASSUME NEW s \in Scopes, ScopeRun(s), ~ApplyMatch(s) PROVE orders' = orders
  BY <1>6 DEF ScopeRun, ListScope, PollScope, EndMatching, EndScope, SkipTransfer, SelectRows
<1>7. ASSUME NEW c \in Confirmers, NEW p \in Orders, FollowUp(c, p), ~WriteConfirmation(c, p)
      PROVE  orders' = orders
  BY <1>7 DEF FollowUp, ObserveTruth, ObserveGlitch, Observe, SelectConfirmation
<1>8. ASSUME \/ (\E p \in Orders : StreakAges(p)) \/ StartPriority \/ CrashWatcher
             \/ Chain \/ UNCHANGED vars
      PROVE  orders' = orders
  BY <1>8 DEF StreakAges, StartPriority, CrashWatcher, Chain, Mine, Deepen, Reorganise, Tick, vars
<1> QED BY <1>3, <1>4, <1>5, <1>6, <1>7, <1>8 DEF Next, Watcher

\* A collision comes with the match in the hand of a run.
LEMMA ReasonSteps ==
    ASSUME Inv, [Next]_vars, NEW o \in Orders,
           orders'[o].status = "payment_anomaly", orders'[o].reason = "collision"
    PROVE  \/ /\ orders[o].status = "payment_anomaly" /\ orders[o].reason = "collision"
              /\ orders'[o].received = orders[o].received
           \/ \E s \in Scopes : /\ run[s].pc = "writing" /\ run[s].hit.reason = "collision"
                                /\ o \in run[s].hit.writes
                                /\ orders'[o].received = paid[run[s].hit.t].amount
<1>1. orders \in [Orders -> Row] /\ orders[o] \in Row
  BY DEF Inv, TypeOK
<1>2. ASSUME NEW s \in Scopes, ApplyMatch(s)
      PROVE  \/ orders'[o] = orders[o]
             \/ /\ run[s].pc = "writing" /\ run[s].hit.reason = "collision"
                /\ o \in run[s].hit.writes
                /\ orders'[o].received = paid[run[s].hit.t].amount
  <2> DEFINE hit == run[s].hit
  <2>1. \/ orders'[o] = orders[o]
        \/ MatchApplies(o, hit) /\ orders'[o] = MatchedRow(o, hit)
    BY <1>2 DEF ApplyMatch
  <2>2. /\ MatchedRow(o, hit).reason = hit.reason
        /\ MatchedRow(o, hit).received = paid[hit.t].amount
    BY <1>1 DEF MatchedRow, Row
  <2>3. MatchApplies(o, hit) => o \in hit.writes
    BY DEF MatchApplies
  <2>4. run[s].pc = "writing"
    BY <1>2 DEF ApplyMatch
  <2> HIDE DEF hit
  <2> QED BY <2>1, <2>2, <2>3, <2>4 DEF hit
<1>3. ASSUME NEW c \in Confirmers, NEW p \in Orders, WriteConfirmation(c, p)
      PROVE  orders'[o] = orders[o]
  <2> DEFINE new == ConfirmedRow(orders[p], job[c][p])
  <2>1. orders[p] \in Row /\ job[c][p] \in Job
    BY DEF Inv, TypeOK
  <2>2. new.status \in {orders[p].status, "completed"} \/ new.reason = "reorg"
    BY <2>1 DEF ConfirmedRow, Row, Job
  <2>3. \/ orders'[o] = orders[o]
        \/ o = p /\ orders'[o] = new /\ orders[p].status = "verifying"
    BY <1>1, <1>3 DEF WriteConfirmation, ConfirmationApplies, ConfirmStatuses
  <2> HIDE DEF new
  <2> QED BY <2>2, <2>3
<1>4. CASE Api
  <2>1. ASSUME NEW p \in Orders, NEW mode \in Modes, NEW s \in Scopes, NEW q \in Quotes,
               CreateOrder(p, mode, s, q)
        PROVE  orders'[o] = orders[o] \/ orders'[o].status = "pending_payment"
    BY <1>1, <2>1 DEF CreateOrder, NullRow
  <2>2. ASSUME NEW p \in Orders, NEW mode \in Modes, NEW s \in Scopes, NEW q \in Quotes,
               RequoteOrder(p, mode, s, q)
        PROVE  orders'[o] = orders[o] \/ orders'[o].status = "pending_payment"
    <3>0. Requoting(p, mode, s)
      BY <2>2, Requoted
    <3>1. PICK w, payable, memo :
             orders' = [orders EXCEPT ![p] =
                 [@ EXCEPT !.mode = mode, !.scope = s, !.addr = w,
                           !.payable = payable, !.memo = memo, !.expires = now + Validity]]
      BY <3>0 DEF Requoting
    <3>2. orders[p].status = "pending_payment"
      BY <2>2 DEF RequoteOrder
    <3> QED BY <1>1, <3>1, <3>2 DEF Row
  <2>3. ASSUME NEW p \in Orders, CancelOrder(p) \/ ResolveAnomaly(p)
        PROVE  orders'[o] = orders[o] \/ orders'[o].status = "cancelled"
    <3>1. orders' = [orders EXCEPT ![p].status = "cancelled"]
      BY <2>3 DEF CancelOrder, ResolveAnomaly
    <3> QED BY <1>1, <3>1 DEF Row
  <2>4. CASE ExpireDue
    BY <1>1, <2>4 DEF ExpireDue, Row
  <2> QED BY <1>4, <2>1, <2>2, <2>3, <2>4 DEF Api
<1>5. ASSUME NEW s \in Scopes, ScopeRun(s), ~ApplyMatch(s) PROVE orders' = orders
  BY <1>5 DEF ScopeRun, ListScope, PollScope, EndMatching, EndScope, SkipTransfer, SelectRows
<1>6. ASSUME NEW c \in Confirmers, NEW p \in Orders, FollowUp(c, p), ~WriteConfirmation(c, p)
      PROVE  orders' = orders
  BY <1>6 DEF FollowUp, ObserveTruth, ObserveGlitch, Observe, SelectConfirmation
<1>7. ASSUME \/ (\E p \in Orders : StreakAges(p)) \/ StartPriority \/ CrashWatcher
             \/ Chain \/ UNCHANGED vars
      PROVE  orders' = orders
  BY <1>7 DEF StreakAges, StartPriority, CrashWatcher, Chain, Mine, Deepen, Reorganise, Tick, vars
<1> QED BY <1>2, <1>3, <1>4, <1>5, <1>6, <1>7 DEF Next, Watcher

-----------------------------------------------------------------------------
(***************************************************************************)
(* CollisionInv is inductive while payers do not re-quote.                 *)
(***************************************************************************)
\* What a create assigns.
LEMMA Created ==
    ASSUME Inv, NEW o \in Orders, NEW mode \in Modes, NEW s \in Scopes, NEW q \in Quotes,
           CreateOrder(o, mode, s, q)
    PROVE  \E w \in WalletsOf[s] : \E a \in Assignment(mode, s, w, q, o) :
              /\ orders'[o].status = "pending_payment" /\ orders'[o].mode = mode
              /\ orders'[o].scope = s /\ orders'[o].addr = w
              /\ orders'[o].payable = a.payable /\ orders'[o].created = now
              /\ \A p \in Orders : p # o => orders'[p] = orders[p]
<1>1. orders \in [Orders -> Row]
  BY DEF Inv, TypeOK
<1> QED BY <1>1 DEF CreateOrder, NullRow

LEMMA FingerprintsOnGrid ==
    ASSUME NEW q \in Quotes, NEW S, NEW x \in M!UniquePayables(q, S)
    PROVE  x \notin S /\ \E k \in 0..MaxSteps : x = q + k * Step
  BY DEF M!UniquePayables, M!FreeFingerprints

LEMMA RowsMadeStep ==
    ASSUME ~Requotes, Inv, RowsMade, [Next]_vars
    PROVE  RowsMade'
<1> SUFFICES ASSUME NEW o \in Orders, orders'[o].status # "absent"
             PROVE  /\ orders'[o].mode \in Modes
                    /\ orders'[o].status = "expired" => orders'[o].expires <= now'
                    /\ orders'[o].mode = "C" =>
                          \E q \in Quotes, k \in 0..MaxSteps : orders'[o].payable = q + k * Step
  BY DEF RowsMade
<1>1. Inv' /\ orders[o] \in Row
  BY NextInv DEF Inv, TypeOK
<1>2. now \in Nat /\ now' \in Nat /\ now' >= now
  BY ClockSteps
<1>3. CASE orders[o].status # "absent"
  <2>1. SameQuote(orders[o], orders'[o])
    BY <1>3, RowsKept DEF Keeps
  <2>2. ASSUME orders'[o].status = "expired" PROVE orders[o].expires <= now
    <3>1. Awaits(orders'[o])
      BY <2>2 DEF Awaits, M!AwaitingStatuses
    <3> QED BY <1>3, <2>2, <3>1, AwaitSteps DEF RowsMade, Due
  <2>3. orders[o].expires \in Nat
    BY <1>1 DEF Row
  <2> QED BY <1>2, <1>3, <2>1, <2>2, <2>3 DEF RowsMade, SameQuote
<1>4. CASE orders[o].status = "absent"
  <2>1. Awaits(orders'[o])
    BY <1>4, NextRows DEF RowStep, MovesUncredited, Moves, Resolves, Matches, Confirms,
       MatchApplyStatuses, Awaits, M!AwaitingStatuses
  <2>2. PICK mode \in Modes, s \in Scopes, q \in Quotes : CreateOrder(o, mode, s, q)
    BY <1>4, <2>1, AwaitSteps DEF Due
  <2>0. PICK w \in WalletsOf[s] : \E a \in Assignment(mode, s, w, q, o) :
           /\ orders'[o].status = "pending_payment" /\ orders'[o].mode = mode
           /\ orders'[o].payable = a.payable
    BY <2>2, Created
  <2>3. PICK a \in Assignment(mode, s, w, q, o) :
           /\ orders'[o].status = "pending_payment" /\ orders'[o].mode = mode
           /\ orders'[o].payable = a.payable
    BY <2>0
  <2>4. ASSUME mode = "C" PROVE \E k \in 0..MaxSteps : a.payable = q + k * Step
    <3> DEFINE reserved == {orders[r].payable : r \in AtWallet(s, w, ReservedStatuses) \ {o}}
    <3>1. a.payable \in M!UniquePayables(q, reserved)
      BY <2>3, <2>4 DEF Assignment
    <3> HIDE DEF reserved
    <3> QED BY <3>1, FingerprintsOnGrid
  <2> QED BY <2>3, <2>4
<1> QED BY <1>3, <1>4

\* A new order is apart from every order that can be paid at the same time.
LEMMA CreatedApart ==
    ASSUME QuotesSpaced, Inv, Inv', RowsMade, NEW o \in Orders, NEW p \in Orders, o # p,
           NEW mode \in Modes, NEW s \in Scopes, NEW q \in Quotes, CreateOrder(o, mode, s, q),
           Compete(orders'[o], orders'[p])
    PROVE  M!AbsDiff(orders'[o].payable, orders'[p].payable) > Dust
<1>0. PICK w \in WalletsOf[s] : \E a \in Assignment(mode, s, w, q, o) :
         /\ orders'[o].mode = mode /\ orders'[o].scope = s /\ orders'[o].addr = w
         /\ orders'[o].payable = a.payable /\ orders'[o].created = now
         /\ orders'[p] = orders[p]
  BY Created
<1>1. PICK a \in Assignment(mode, s, w, q, o) :
         /\ orders'[o].mode = mode /\ orders'[o].scope = s /\ orders'[o].addr = w
         /\ orders'[o].payable = a.payable /\ orders'[o].created = now
         /\ orders'[p] = orders[p]
  BY <1>0
<1>2. /\ orders[p] \in Row /\ orders'[o] \in Row /\ now \in Nat
      /\ Quotes \subseteq Nat /\ Dust \in Nat /\ MaxSteps \in Nat
  BY AmountAssumption, TimeAssumption DEF Inv, TypeOK
<1>3. /\ orders[p].scope = s /\ orders[p].addr = w
      /\ orders[p].mode = mode /\ mode \in {"B", "C"}
      /\ orders[p].status \in {"pending_payment", "expired"} /\ now < orders[p].expires
  BY <1>1 DEF Compete, Overlap, Awaits, M!AwaitingStatuses
<1>4. orders[p].status = "pending_payment" /\ orders[p].addr = w
  <2>1. orders[p].expires \in Nat
    BY <1>2 DEF Row
  <2> QED BY <1>2, <1>3, <2>1 DEF RowsMade
<1>5. /\ p \in AtWallet(s, w, ModeBBlockStatuses) \ {o}
      /\ p \in AtWallet(s, w, ReservedStatuses) \ {o}
  BY <1>3, <1>4 DEF AtWallet, ModeBBlockStatuses, ReservedStatuses
<1>6. orders[p].payable \in Nat /\ orders'[o].payable \in Nat
  BY <1>2 DEF Row
<1>7. CASE mode = "B"
  <2>1. a.payable = q /\ ~(M!AbsDiff(orders[p].payable, q) <= Dust)
    BY <1>5, <1>7 DEF Assignment
  <2> QED BY <1>1, <1>2, <1>6, <2>1 DEF M!AbsDiff
<1>8. CASE mode = "C"
  <2> DEFINE reserved == {orders[r].payable : r \in AtWallet(s, w, ReservedStatuses) \ {o}}
  <2>1. a.payable \in M!UniquePayables(q, reserved)
    BY <1>8 DEF Assignment
  <2>2. orders[p].payable \in reserved
    BY <1>5
  <2> HIDE DEF reserved
  <2>3. PICK i \in 0..MaxSteps : a.payable = q + i * Step
    BY <2>1, FingerprintsOnGrid
  <2>4. PICK r \in Quotes, j \in 0..MaxSteps : orders[p].payable = r + j * Step
    BY <1>3, <1>4, <1>8 DEF RowsMade
  <2>5. a.payable # orders[p].payable
    BY <2>1, <2>2, FingerprintsOnGrid
  <2>6. i \in Int /\ j \in Int
    BY <1>2
  <2> QED BY <1>1, <1>6, <2>3, <2>4, <2>5, <2>6, GridApart
<1> QED BY <1>3, <1>7, <1>8

LEMMA ApartStep ==
    ASSUME ~Requotes, QuotesSpaced, Inv, RowsMade, Apart(orders), [Next]_vars
    PROVE  Apart(orders')
<1> SUFFICES ASSUME NEW o \in Orders, NEW p \in Orders, o # p, Compete(orders'[o], orders'[p])
             PROVE  M!AbsDiff(orders'[o].payable, orders'[p].payable) > Dust
  BY DEF Apart
<1>1. Inv'
  BY NextInv
<1>2. /\ orders'[o].payable \in Nat /\ orders'[p].payable \in Nat
  BY <1>1 DEF Inv, TypeOK, Row
<1>3. ASSUME NEW r \in Orders, Awaits(orders'[r])
      PROVE  \/ /\ Awaits(orders[r]) /\ SameQuote(orders[r], orders'[r])
                /\ orders'[r].created = orders[r].created
             \/ \E mode \in Modes, s \in Scopes, q \in Quotes : CreateOrder(r, mode, s, q)
  <2>1. ASSUME orders[r].status = orders'[r].status \/ Due(r)
        PROVE  /\ Awaits(orders[r]) /\ SameQuote(orders[r], orders'[r])
               /\ orders'[r].created = orders[r].created
    <3>1. Awaits(orders[r]) /\ orders[r].status # "absent"
      BY <1>3, <2>1 DEF Awaits, Due, M!AwaitingStatuses
    <3> QED BY <3>1, RowsKept DEF Keeps
  <2> QED BY <1>3, <2>1, AwaitSteps
<1>4. Awaits(orders'[o]) /\ Awaits(orders'[p])
  BY DEF Compete
<1>5. ASSUME NEW mode \in Modes, NEW s \in Scopes, NEW q \in Quotes, CreateOrder(o, mode, s, q)
      PROVE  M!AbsDiff(orders'[o].payable, orders'[p].payable) > Dust
  BY <1>1, <1>5, CreatedApart
<1>6. ASSUME NEW mode \in Modes, NEW s \in Scopes, NEW q \in Quotes, CreateOrder(p, mode, s, q)
      PROVE  M!AbsDiff(orders'[o].payable, orders'[p].payable) > Dust
  <2>1. Compete(orders'[p], orders'[o])
    BY DEF Compete, Overlap
  <2>2. M!AbsDiff(orders'[p].payable, orders'[o].payable) > Dust
    BY <1>1, <1>6, <2>1, CreatedApart
  <2> QED BY <1>2, <2>2 DEF M!AbsDiff
<1>7. ASSUME Awaits(orders[o]), SameQuote(orders[o], orders'[o]),
             Awaits(orders[p]), SameQuote(orders[p], orders'[p]),
             orders'[o].created = orders[o].created, orders'[p].created = orders[p].created
      PROVE  M!AbsDiff(orders'[o].payable, orders'[p].payable) > Dust
  <2>1. Compete(orders[o], orders[p])
    BY <1>7 DEF Compete, Overlap, SameQuote
  <2> QED BY <1>7, <2>1 DEF Apart, SameQuote
<1> QED BY <1>3, <1>4, <1>5, <1>6, <1>7

LEMMA RunsApartStep ==
    ASSUME Inv, Apart(orders), RunsApart, [Next]_vars
    PROVE  RunsApart'
<1> SUFFICES ASSUME NEW s \in Scopes PROVE Apart(run'[s].rows)
  BY DEF RunsApart, Apart
<1>1. Apart(run[s].rows)
  BY DEF RunsApart
<1>2. CASE Forgets(s)
  BY <1>2 DEF Forgets, NullRow, Apart, Compete, Awaits, M!AwaitingStatuses
<1>3. CASE ListScope(s)
  <2>1. run \in [Scopes -> Run]
    BY DEF Inv, TypeOK
  <2>2. ASSUME NEW o \in Orders PROVE run'[s].rows[o] \in {orders[o], NullRow}
    BY <1>3, <2>1 DEF ListScope
  <2>3. ~Awaits(NullRow)
    BY DEF NullRow, Awaits, M!AwaitingStatuses
  <2> QED BY <2>2, <2>3 DEF Apart, Compete
<1> QED BY <1>1, <1>2, <1>3, RunRows

\* A run that selected rows for a collision paid none of them to the unit.
LEMMA SelectedAmbiguous ==
    ASSUME ~Requotes, CreditInv, RowsMade, RunsApart,
           NEW s \in Scopes, NEW t \in Transfers, SelectRows(s, t),
           Outcome(s, t).reason = "collision", NEW o \in Outcome(s, t).ids
    PROVE  paid[t].amount # orders[o].payable
<1> SUFFICES ASSUME paid[t].amount = orders[o].payable PROVE FALSE
  OBVIOUS
<1> DEFINE rows == run[s].rows
<1>1. rows \in [Orders -> Row] /\ paid[t] \in Payment /\ DOMAIN rows = Orders
  BY DEF CreditInv, Inv, TypeOK, Run
<1>2. /\ o \in DOMAIN rows /\ Payable(paid[t], rows[o])
      /\ \E p \in DOMAIN rows : /\ p # o /\ Payable(paid[t], rows[p])
                                /\ rows[p].mode = rows[o].mode
  BY CollisionsHaveRivals DEF Outcome
<1>3. PICK p \in Orders : /\ p # o /\ Payable(paid[t], rows[p])
                          /\ rows[p].mode = rows[o].mode
  BY <1>1, <1>2
<1>4. o \in Orders
  BY <1>1, <1>2
<1>5. ASSUME NEW r \in Orders, Payable(paid[t], rows[r])
      PROVE  /\ rows[r].payable \in Nat /\ rows[r].created \in Nat /\ rows[r].expires \in Nat
             /\ SameQuote(rows[r], orders[r]) /\ rows[r].mode \in {"B", "C"}
             /\ rows[r].created <= paid[t].at /\ paid[t].at < rows[r].expires
  <2>1. rows[r] \in Row /\ paid[t].at \in Nat
    BY <1>1 DEF Payment
  <2>2. /\ rows[r].payable \in Nat /\ rows[r].created \in Nat /\ rows[r].expires \in Nat
    BY <2>1 DEF Row
  <2>3. rows[r].status # "absent" /\ rows[r].mode # "D"
    BY <1>5 DEF Payable, Awaits, M!AwaitingStatuses
  <2>4. SameQuote(rows[r], orders[r]) /\ orders[r].status # "absent"
    BY <2>3 DEF CreditInv, ListedOK, Keeps
  <2>5. rows[r].mode \in {"B", "C"}
    BY <2>3, <2>4, AmountAssumption DEF RowsMade, SameQuote
  <2> QED BY <1>5, <2>1, <2>2, <2>4, <2>5 DEF Payable
<1>6. paid[t].at \in Nat /\ paid[t].amount \in Nat /\ Dust \in Nat
  BY <1>1, AmountAssumption DEF Payment
<1>7. Compete(rows[o], rows[p])
  <2>1. /\ Awaits(rows[o]) /\ Awaits(rows[p])
        /\ rows[o].scope = rows[p].scope /\ rows[o].addr = rows[p].addr
    BY <1>2, <1>3 DEF Payable
  <2>2. rows[o].created < rows[p].expires /\ rows[p].created < rows[o].expires
    <3> HIDE DEF rows
    <3> QED BY <1>2, <1>3, <1>4, <1>5, <1>6
  <2> QED BY <1>2, <1>3, <1>4, <1>5, <2>1, <2>2 DEF Compete, Overlap
<1>8. M!AbsDiff(rows[o].payable, rows[p].payable) > Dust
  BY <1>3, <1>4, <1>7 DEF RunsApart, Apart
<1>9. rows[o].payable = paid[t].amount
  BY <1>2, <1>4, <1>5 DEF SameQuote
<1>10. M!AbsDiff(rows[p].payable, paid[t].amount) <= Dust
  BY <1>3, <1>5, <1>6, FitsWithinDust DEF Payable
<1> QED
  <2> HIDE DEF rows
  <2> QED BY <1>2, <1>3, <1>4, <1>5, <1>6, <1>8, <1>9, <1>10 DEF M!AbsDiff

LEMMA HitsAmbiguousStep ==
    ASSUME ~Requotes, CreditInv, RowsMade, RunsApart, HitsAmbiguous, [Next]_vars
    PROVE  HitsAmbiguous'
<1>1. Inv /\ Inv'
  BY NextInv DEF CreditInv
<1> SUFFICES ASSUME NEW s \in Scopes, run'[s].pc = "writing", run'[s].hit.reason = "collision",
                    NEW o \in run'[s].hit.writes
             PROVE  paid'[run'[s].hit.t].amount # orders'[o].payable
  BY DEF HitsAmbiguous
<1>2. o \in Orders /\ run'[s].hit.t \in Transfers
  BY <1>1 DEF Inv, TypeOK, Run, Hit, HitsOK
<1>3. CASE run'[s] = run[s]
  <2>1. Deserved(s, run[s].hit.t)
    BY <1>2, <1>3 DEF CreditInv, WritesOK
  <2>2. paid'[run[s].hit.t] = paid[run[s].hit.t]
    BY <1>1, <1>2, <1>3, <2>1, PaidStays DEF Deserved
  <2>3. SameQuote(orders[o], orders'[o])
    BY <1>1, <1>2, <1>3, <2>1, RowsKept DEF Deserved, Keeps
  <2> QED BY <1>3, <2>2, <2>3 DEF HitsAmbiguous, SameQuote
<1>4. ASSUME NEW t \in Transfers, SelectRows(s, t)
      PROVE  paid'[run'[s].hit.t].amount # orders'[o].payable
  <2>1. /\ run'[s].hit.t = t /\ UNCHANGED <<orders, paid>>
        /\ o \in Outcome(s, t).ids /\ Outcome(s, t).reason = "collision"
    BY <1>1, <1>4, SelectFacts
  <2>2. paid[t].amount # orders[o].payable
    BY <1>4, <2>1, SelectedAmbiguous
  <2> QED BY <2>1, <2>2
<1> QED BY <1>1, <1>3, <1>4, WritingSteps

LEMMA AmbiguousStep ==
    ASSUME ~Requotes, Inv, HitsAmbiguous, CollisionsAreAmbiguous, [Next]_vars
    PROVE  CollisionsAreAmbiguous'
<1> SUFFICES ASSUME NEW o \in Orders,
                    orders'[o].status = "payment_anomaly", orders'[o].reason = "collision"
             PROVE  orders'[o].received # orders'[o].payable
  BY DEF CollisionsAreAmbiguous
<1>1. orders'[o].payable = orders[o].payable
  <2>1. orders[o].status # "absent"
    <3>1. RowStep(orders[o], orders'[o])
      BY NextRows
    <3> QED BY <3>1 DEF RowStep, MovesUncredited, Moves, Resolves, Matches, Confirms,
               MatchApplyStatuses
  <2> QED BY <2>1, RowsKept DEF Keeps, SameQuote
<1>2. \/ orders[o].received # orders[o].payable /\ orders'[o].received = orders[o].received
      \/ orders'[o].received # orders[o].payable
  BY ReasonSteps DEF CollisionsAreAmbiguous, HitsAmbiguous
<1> QED BY <1>1, <1>2

\* Where quotes are multiples of the step apart and payers do not re-quote, no order is flagged
\* for a collision by the payment of its exact amount: pickUniquePayableMinor and the Mode B
\* check keep competing orders far enough apart for matchExactPayable to tell them.
THEOREM CollisionsAreReal ==
    ~Requotes /\ QuotesSpaced => (Spec => []CollisionsAreAmbiguous)
<1> SUFFICES ASSUME ~Requotes, QuotesSpaced PROVE Spec => []CollisionsAreAmbiguous
  OBVIOUS
<1>1. Init => CollisionInv
  <2> SUFFICES ASSUME Init PROVE CollisionInv
    OBVIOUS
  <2>1. NullRow.status = "absent" /\ ~Awaits(NullRow)
    BY DEF NullRow, Awaits, M!AwaitingStatuses
  <2>2. \A o \in Orders : orders[o] = NullRow
    BY DEF Init
  <2>3. \A s \in Scopes : run[s].rows = [o \in Orders |-> NullRow] /\ run[s].pc = "idle"
    BY DEF Init, IdleRun
  <2>4. RowsMade /\ CollisionsAreAmbiguous
    BY <2>1, <2>2 DEF RowsMade, CollisionsAreAmbiguous
  <2>5. Apart(orders) /\ RunsApart /\ HitsAmbiguous
    BY <2>1, <2>2, <2>3 DEF Apart, Compete, RunsApart, HitsAmbiguous
  <2> QED BY <2>4, <2>5 DEF CollisionInv
<1>2. CreditInv /\ CollisionInv /\ [Next]_vars => CollisionInv'
  <2> SUFFICES ASSUME CreditInv, CollisionInv, [Next]_vars PROVE CollisionInv'
    OBVIOUS
  <2>1. Inv
    BY DEF CreditInv
  <2>2. RowsMade' /\ RunsApart' /\ HitsAmbiguous' /\ CollisionsAreAmbiguous'
    BY <2>1, RowsMadeStep, RunsApartStep, HitsAmbiguousStep, AmbiguousStep DEF CollisionInv
  <2>3. Apart(orders')
    BY <2>1, ApartStep DEF CollisionInv
  <2> QED BY <2>2, <2>3 DEF CollisionInv, Apart
<1>3. CollisionInv => CollisionsAreAmbiguous
  BY DEF CollisionInv
<1> QED BY <1>1, <1>2, <1>3, CreditInvariance, PTL DEF Spec
=============================================================================
