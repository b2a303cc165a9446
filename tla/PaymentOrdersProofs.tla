------------------------ MODULE PaymentOrdersProofs ------------------------
(***************************************************************************)
(* Proofs about PaymentOrders, for every value of its constants.           *)
(*                                                                         *)
(* TypeOK is not inductive by itself: a match is applied to rows typed by  *)
(* the match in hand, and a credit names a network only when its row has a *)
(* scope.  Inv adds what is needed: which rows hold a transaction          *)
(* (RowsOK), what a run that is about to write has in hand (HitsOK), and   *)
(* that no two rows hold one output (the unique index).                    *)
(***************************************************************************)
EXTENDS PaymentOrders, TLAPS

\* Rows hold a transaction exactly when they were matched, and a rail once they exist.
RowsOK ==
    \A o \in Orders :
        /\ orders[o].status \in {"absent", "pending_payment", "expired"} => orders[o].tx = None
        /\ orders[o].status \in {"verifying", "completed"} => orders[o].tx # None
        /\ orders[o].status # "absent" => orders[o].scope \in Scopes /\ orders[o].addr \in Addrs

\* A run about to write has a transfer and an outcome that binds.
HitsOK ==
    \A s \in Scopes : run[s].pc = "writing" =>
        /\ run[s].hit.t \in Transfers
        /\ run[s].hit.status \in {"verifying", "payment_anomaly"}

Inv == TypeOK /\ RowsOK /\ HitsOK /\ UniqueOutputs(orders)

-----------------------------------------------------------------------------
(***************************************************************************)
(* Constants.                                                              *)
(***************************************************************************)
LEMMA ConstantFacts ==
    /\ NetworkOf \in [Scopes -> STRING] /\ Required \in [Scopes -> Nat]
    /\ \A t \in Transfers : HashOf[t] \in Hashes
    /\ None \notin Hashes /\ None \notin Orders
    /\ \A s \in Scopes : WalletsOf[s] \subseteq Addrs
    /\ \A p \in Payments : /\ p.scope \in Scopes /\ p.addr \in Addrs
                           /\ p.amount \in Nat /\ p.memo \in Memos \union {None}
    /\ Scopes \subseteq Confirmers /\ Priority \in Confirmers
<1>1. /\ NetworkOf \in [Scopes -> STRING] /\ Required \in [Scopes -> Nat]
      /\ None \notin Hashes /\ None \notin Orders
  BY TableAssumption DEF TableAssumption
<1>2. \A t \in Transfers : HashOf[t] \in Hashes
  BY DEF Hashes
<1>3. \A s \in Scopes : WalletsOf[s] \subseteq Addrs
  BY DEF Addrs
<1>4. \A p \in Payments : /\ p.scope \in Scopes /\ p.addr \in Addrs
                          /\ p.amount \in Nat /\ p.memo \in Memos \union {None}
  BY AmountAssumption DEF AmountAssumption, Addrs
<1>5. Scopes \subseteq Confirmers /\ Priority \in Confirmers
  BY DEF Confirmers
<1> QED BY <1>1, <1>2, <1>3, <1>4, <1>5

-----------------------------------------------------------------------------
(***************************************************************************)
(* What the matching rules return: nobody, or orders of the group with an  *)
(* outcome that the table has a status and a reason for.                   *)
(***************************************************************************)
Sound(out, S) ==
    /\ out.ids \subseteq S
    /\ out.ids # {} => /\ out.status \in {"verifying", "payment_anomaly"}
                       /\ out.status = "payment_anomaly" => out.reason \in Reasons

LEMMA UnboundOutcome ==
    ASSUME NEW S, NEW reason
    PROVE  Sound(M!Unbound(reason), S)
  BY DEF Sound, M!Unbound

LEMMA FlaggedOutcome ==
    ASSUME NEW S, NEW ids, ids \subseteq S, NEW reason \in Reasons
    PROVE  Sound(M!Flagged(ids, reason), S)
  BY DEF Sound, M!Flagged, Reasons

LEMMA SettlingOutcome ==
    ASSUME NEW S, NEW ids, ids \subseteq S, NEW reason
    PROVE  Sound(M!Settling(ids, reason), S)
  BY DEF Sound, M!Settling

LEMMA OpenOutcome ==
    ASSUME NEW t, NEW row, NEW group, NEW open, open \subseteq group
    PROVE  Sound(M!MatchOpen(t, row, open), group)
<1> DEFINE exact == M!Fitting(t, row, open)
<1>1. exact \subseteq group
  BY DEF M!Fitting
<1>2. Sound(M!Flagged(exact, "collision"), group)
  BY <1>1, FlaggedOutcome DEF Reasons
<1>3. Sound(M!Settling(exact, "exact"), group)
  BY <1>1, SettlingOutcome
<1>4. Sound(M!Flagged(open, "mismatch"), group)
  BY FlaggedOutcome DEF Reasons
<1>5. /\ Sound(M!Unbound("dust_ignored"), group)
      /\ Sound(M!Unbound("no_exact_amount_match"), group)
  BY UnboundOutcome
<1> QED BY <1>2, <1>3, <1>4, <1>5 DEF M!MatchOpen

LEMMA LateOutcome ==
    ASSUME NEW mode, NEW t, NEW row, NEW group, NEW late, late \subseteq group
    PROVE  Sound(M!MatchLate(mode, t, row, late), group)
<1> DEFINE fitting == M!Fitting(t, row, late)
           flagged == IF fitting # {} THEN fitting
                      ELSE IF mode = "S" /\ M!Cardinality(late) = 1 THEN late
                      ELSE {}
<1>1. fitting \subseteq group
  BY DEF M!Fitting
<1>2. flagged \subseteq group
  BY <1>1
<1>3. Sound(M!Flagged(flagged, "late"), group)
  <2> HIDE DEF flagged
  <2> QED BY <1>2, FlaggedOutcome DEF Reasons
<1>4. Sound(M!Unbound("no_open_order_at_address"), group)
  BY UnboundOutcome
<1> QED BY <1>3, <1>4 DEF M!MatchLate

LEMMA ExactOutcome ==
    ASSUME NEW mode, NEW t, NEW row, NEW group
    PROVE  Sound(M!MatchExact(mode, t, row, group), group)
<1> DEFINE eligible == M!Eligible(t, row, group)
           late == M!Late(t, row, eligible)
           open == M!Open(t, row, eligible)
<1>1. late \subseteq group /\ open \subseteq group
  BY DEF M!Eligible, M!Late, M!Open
<1>2. Sound(M!MatchLate(mode, t, row, late), group)
  BY <1>1, LateOutcome
<1>3. Sound(M!MatchOpen(t, row, open), group)
  BY <1>1, OpenOutcome
<1>4. /\ Sound(M!Unbound("dust_ignored"), group)
      /\ Sound(M!Unbound("transfer_before_order_created"), group)
  BY UnboundOutcome
<1>5. Sound(M!Unbound(IF M!DustOnly(t.amount) THEN "dust_ignored"
                ELSE "transfer_before_order_created"), group)
  BY <1>4
<1> QED BY <1>2, <1>3, <1>5 DEF M!MatchExact

LEMMA MemoOutcome ==
    ASSUME NEW t, NEW row, NEW group
    PROVE  Sound(M!MatchMemo(t, row, group), group)
<1> DEFINE eligible == M!Eligible(t, row, group)
           late == M!Late(t, row, eligible)
           open == M!Open(t, row, eligible)
           named == IF t.memo = None THEN {} ELSE M!SameMemo(t, row, late)
           exact == M!Fitting(t, row, open)
           paid_for == M!SameMemo(t, row, exact)
<1>1. /\ open \subseteq group /\ named \subseteq group
      /\ exact \subseteq group /\ paid_for \subseteq group
  BY DEF M!Eligible, M!Late, M!Open, M!SameMemo, M!Fitting
<1>2. Sound(M!Flagged(named, "late"), group)
  <2> HIDE DEF named
  <2> QED BY <1>1, FlaggedOutcome DEF Reasons
<1>3. /\ Sound(M!Unbound("memo_unsupported"), group)
      /\ Sound(M!Unbound("transfer_before_order_created"), group)
      /\ Sound(M!Unbound("no_open_order_at_address"), group)
  BY UnboundOutcome
<1>4. Sound(M!MatchMemoOpen(t, row, open), group)
  <2>1. Sound(M!MatchOpen(t, row, open), group)
    BY <1>1, OpenOutcome
  <2>2. /\ Sound(M!Flagged(exact, "memo_missing"), group)
        /\ Sound(M!Flagged(paid_for, "memo_collision"), group)
        /\ Sound(M!Flagged(exact, "memo_mismatch"), group)
    <3> HIDE DEF exact, paid_for
    <3> QED BY <1>1, FlaggedOutcome DEF Reasons
  <2>3. Sound(M!Settling(paid_for, "exact"), group)
    <3> HIDE DEF paid_for
    <3> QED BY <1>1, SettlingOutcome
  <2> QED BY <2>1, <2>2, <2>3 DEF M!MatchMemoOpen
<1> QED BY <1>2, <1>3, <1>4 DEF M!MatchMemo

LEMMA TransactionOutcome ==
    ASSUME NEW mode, NEW t, NEW row, NEW group
    PROVE  Sound(M!MatchTransaction(mode, t, row, group), group)
  BY ExactOutcome, MemoOutcome DEF M!MatchTransaction

LEMMA WrongRailOutcome ==
    ASSUME NEW t, NEW row
    PROVE  Sound(M!MatchWrongRail(t, row), DOMAIN row)
<1> DEFINE elsewhere == {o \in DOMAIN row : /\ row[o].status # "absent"
                                            /\ row[o].addr = t.addr
                                            /\ row[o].scope # t.scope}
           concerned == M!Eligible(t, row, elsewhere)
<1>1. concerned \subseteq DOMAIN row
  BY DEF M!Eligible
<1>2. Sound(M!Flagged(concerned, "wrong_rail"), DOMAIN row)
  <2> HIDE DEF concerned
  <2> QED BY <1>1, FlaggedOutcome DEF Reasons
<1>3. Sound(M!Unbound("no_open_order_at_address"), DOMAIN row)
  BY UnboundOutcome
<1> QED BY <1>2, <1>3 DEF M!MatchWrongRail

\* A transfer binds only listed orders, to verifying or to a recorded anomaly.
LEMMA InboundOutcome ==
    ASSUME NEW t, NEW row
    PROVE  Sound(M!MatchInbound(t, row), DOMAIN row)
<1> DEFINE here == {o \in DOMAIN row : /\ row[o].status # "absent"
                                       /\ row[o].addr = t.addr
                                       /\ row[o].scope = t.scope}
           group(i) == {o \in here : /\ row[o].status \in M!AwaitingStatuses
                                     /\ row[o].mode = M!ModeOrder[i]}
           answer(i) == M!MatchTransaction(M!ModeOrder[i], t, row, group(i))
           answering == {i \in DOMAIN M!ModeOrder : group(i) # {} /\ ~M!NobodyHere(answer(i))}
           first == M!Min(answering)
<1>1. Sound(answer(first), DOMAIN row)
  <2>1. Sound(answer(first), group(first))
    BY TransactionOutcome
  <2>2. group(first) \subseteq DOMAIN row
    OBVIOUS
  <2> HIDE DEF answer, group
  <2> QED BY <2>1, <2>2 DEF Sound
<1>2. Sound(M!MatchWrongRail(t, row), DOMAIN row)
  BY WrongRailOutcome
<1>3. Sound(M!Unbound("no_exact_amount_match"), DOMAIN row)
  BY UnboundOutcome
<1>4. M!MatchInbound(t, row) =
        CASE here = {} -> M!MatchWrongRail(t, row)
          [] here # {} /\ answering = {} -> M!Unbound("no_exact_amount_match")
          [] OTHER -> answer(first)
  BY DEF M!MatchInbound
<1> HIDE DEF here, group, answer, answering, first
<1> QED BY <1>1, <1>2, <1>3, <1>4, Zenon

-----------------------------------------------------------------------------
(***************************************************************************)
(* The statements of a scope run.                                          *)
(***************************************************************************)
LEMMA WritesOutcome ==
    ASSUME TypeOK, NEW s \in Scopes, NEW t \in Transfers, NEW out, NEW writes,
           out = Outcome(s, t), writes = RowsToWrite(out.ids, out.status, t), writes # {}
    PROVE  /\ writes \subseteq Orders
           /\ out.status \in {"verifying", "payment_anomaly"}
           /\ out.status = "payment_anomaly" => out.reason \in Reasons
           /\ Holders(out.ids, writes, t) \subseteq Orders \union {None}
<1>1. Sound(out, DOMAIN run[s].rows)
  BY InboundOutcome DEF Outcome
<1>2. DOMAIN run[s].rows = Orders
  BY DEF TypeOK, Run
<1>3. out.ids \subseteq Orders /\ writes \subseteq out.ids
  BY <1>1, <1>2 DEF Sound, RowsToWrite
<1>4. Holders(out.ids, writes, t) \subseteq Orders \union {None}
  BY <1>3 DEF Holders
<1>5. writes \subseteq Orders /\ out.ids # {}
  BY <1>3
<1>6. /\ out.status \in {"verifying", "payment_anomaly"}
      /\ out.status = "payment_anomaly" => out.reason \in Reasons
  BY <1>1, <1>5 DEF Sound
<1> QED BY <1>4, <1>5, <1>6

-----------------------------------------------------------------------------
(***************************************************************************)
(* The invariant.  Steps that keep what rows hold keep outputs unique.     *)
(***************************************************************************)
LEMMA SameOutputsUnique ==
    ASSUME NEW old, NEW new, UniqueOutputs(old),
           \A o \in Orders : new[o].tx # None =>
               new[o].tx = old[o].tx /\ new[o].addr = old[o].addr /\ new[o].scope = old[o].scope
    PROVE  UniqueOutputs(new)
  BY DEF UniqueOutputs, SameOutput

LEMMA InitInv == Init => Inv
<1> SUFFICES ASSUME Init PROVE Inv
  OBVIOUS
<1>1. orders \in [Orders -> Row]
  BY DEF Init, NullRow, Row, Statuses, Reasons
<1>2. /\ now \in 0..Horizon /\ crashes \in 0..MaxCrashes
      /\ tx \in [Hashes -> Transaction]
      /\ streak \in [Orders -> [count : 0..MissingMin, old : BOOLEAN]]
  BY TimeAssumption DEF Init, TimeAssumption, NoStreak, Transaction
<1>3. paid \in [Transfers -> Payment]
  BY DEF Init, NullPayment, Payment
<1>4. run \in [Scopes -> Run]
  <2>1. NullRow \in Row
    BY DEF NullRow, Row, Statuses, Reasons
  <2>2. NoHit \in Hit
    BY DEF NoHit, Hit, Reasons
  <2>3. IdleRun \in Run
    BY <2>1, <2>2 DEF IdleRun, Run
  <2> QED BY <2>3 DEF Init
<1>5. job \in [Confirmers -> [Orders -> Job]]
  BY DEF Init, NoJob, Job
<1>6. RowsOK /\ UniqueOutputs(orders)
  BY DEF Init, RowsOK, NullRow, UniqueOutputs, SameOutput
<1>7. HitsOK
  BY DEF Init, HitsOK, IdleRun
<1> QED BY <1>1, <1>2, <1>3, <1>4, <1>5, <1>6, <1>7 DEF Inv, TypeOK

\* Steps of the API write only the table, and only rows without a transaction or statuses.
LEMMA ApiInv ==
    ASSUME Inv, UNCHANGED <<now, chainVars, watcherVars>>,
           orders' \in [Orders -> Row],
           \A o \in Orders : orders'[o] = orders[o] \/
               /\ orders'[o].tx = orders[o].tx
               /\ orders'[o].tx # None =>
                     orders'[o].addr = orders[o].addr /\ orders'[o].scope = orders[o].scope
               /\ orders'[o].status \in {"pending_payment", "expired"} => orders'[o].tx = None
               /\ orders'[o].status \notin {"absent", "verifying", "completed"}
               /\ orders'[o].scope \in Scopes /\ orders'[o].addr \in Addrs
    PROVE  Inv'
<1>1. UniqueOutputs(orders)'
  BY SameOutputsUnique DEF Inv
<1>2. RowsOK'
  BY DEF Inv, RowsOK
<1>3. TypeOK' /\ HitsOK'
  BY DEF Inv, TypeOK, HitsOK, chainVars, watcherVars
<1> QED BY <1>1, <1>2, <1>3 DEF Inv

LEMMA AssignmentType ==
    ASSUME NEW mode \in Modes, NEW s \in Scopes, NEW w, NEW q \in Quotes,
           NEW o \in Orders, NEW a \in Assignment(mode, s, w, q, o)
    PROVE  a.payable \in Nat /\ a.memo \in Memos \union {None}
<1>1. q \in Nat /\ Step \in Nat /\ MaxSteps \in Nat /\ mode \in {"B", "C", "D"}
  BY AmountAssumption DEF AmountAssumption
<1>2. ASSUME NEW reserved, NEW p \in M!UniquePayables(q, reserved)
      PROVE  p \in Nat
  <2>1. PICK k \in 0..MaxSteps : p = q + k * Step
    BY <1>2 DEF M!UniquePayables, M!FreeFingerprints
  <2>2. k * Step \in Nat
    BY <2>1, <1>1
  <2> QED BY <2>1, <2>2, <1>1
<1>3. CASE mode = "B"
  <2>1. Assignment(mode, s, w, q, o) \subseteq {[payable |-> q, memo |-> None]}
    BY <1>3, Zenon DEF Assignment
  <2> QED BY <1>1, <2>1
<1>4. CASE mode = "C"
  <2>1. \E reserved : Assignment(mode, s, w, q, o) =
                        {[payable |-> p, memo |-> None] : p \in M!UniquePayables(q, reserved)}
    BY <1>4, Zenon DEF Assignment
  <2>2. PICK reserved : a \in {[payable |-> p, memo |-> None] : p \in M!UniquePayables(q, reserved)}
    BY <2>1
  <2> QED BY <2>2, <1>2
<1>5. CASE mode = "D"
  BY <1>1, <1>5 DEF Assignment
<1> QED BY <1>1, <1>3, <1>4, <1>5

LEMMA CreateOrderInv ==
    ASSUME Inv, NEW o \in Orders, NEW mode \in Modes, NEW s \in Scopes, NEW q \in Quotes,
           CreateOrder(o, mode, s, q)
    PROVE  Inv'
<1>0. PICK w \in WalletsOf[s] : \E a \in Assignment(mode, s, w, q, o) :
          orders' = [orders EXCEPT ![o] =
              [NullRow EXCEPT !.status = "pending_payment", !.mode = mode, !.scope = s,
                              !.addr = w, !.payable = a.payable, !.memo = a.memo,
                              !.created = now, !.expires = now + Validity]]
  BY DEF CreateOrder
<1>1. PICK a \in Assignment(mode, s, w, q, o) :
          orders' = [orders EXCEPT ![o] =
              [NullRow EXCEPT !.status = "pending_payment", !.mode = mode, !.scope = s,
                              !.addr = w, !.payable = a.payable, !.memo = a.memo,
                              !.created = now, !.expires = now + Validity]]
  BY <1>0
<1>2. a.payable \in Nat /\ a.memo \in Memos \union {None} /\ w \in Addrs
  BY AssignmentType, ConstantFacts
<1>3. now \in Nat /\ now + Validity \in Nat
  BY TimeAssumption DEF Inv, TypeOK, TimeAssumption
<1>4. orders[o].status = "absent" /\ orders[o].tx = None /\ orders \in [Orders -> Row]
  BY DEF CreateOrder, Inv, TypeOK, RowsOK
<1>5. orders' \in [Orders -> Row]
  BY <1>1, <1>2, <1>3, <1>4 DEF Row, NullRow, Statuses, Reasons
<1>6. \A p \in Orders : p # o => orders'[p] = orders[p]
  BY <1>1, <1>4
<1>7. /\ orders'[o].tx = None /\ orders'[o].status = "pending_payment"
      /\ orders'[o].scope \in Scopes /\ orders'[o].addr \in Addrs
  BY <1>1, <1>2, <1>4 DEF NullRow
<1> QED BY <1>4, <1>5, <1>6, <1>7, ApiInv DEF CreateOrder

\* What a re-quote writes.
Requoting(o, mode, s) ==
    \E w, payable, memo :
       orders' = [orders EXCEPT ![o] =
           [@ EXCEPT !.mode = mode, !.scope = s, !.addr = w,
                     !.payable = payable, !.memo = memo, !.expires = now + Validity]]

LEMMA Requoted ==
    ASSUME NEW o \in Orders, NEW mode \in Modes, NEW s \in Scopes, NEW q \in Quotes,
           RequoteOrder(o, mode, s, q)
    PROVE  Requoting(o, mode, s)
<1>1. PICK w \in WalletsOf[s] : \E a \in Assignment(mode, s, w, q, o) :
          orders' = [orders EXCEPT ![o] =
              [@ EXCEPT !.mode = mode, !.scope = s, !.addr = w,
                        !.payable = a.payable, !.memo = a.memo, !.expires = now + Validity]]
  BY DEF RequoteOrder
<1> QED BY <1>1 DEF Requoting

LEMMA RequoteOrderInv ==
    ASSUME Inv, NEW o \in Orders, NEW mode \in Modes, NEW s \in Scopes, NEW q \in Quotes,
           RequoteOrder(o, mode, s, q)
    PROVE  Inv'
<1>0. PICK w \in WalletsOf[s] : \E a \in Assignment(mode, s, w, q, o) :
          orders' = [orders EXCEPT ![o] =
              [@ EXCEPT !.mode = mode, !.scope = s, !.addr = w,
                        !.payable = a.payable, !.memo = a.memo, !.expires = now + Validity]]
  BY DEF RequoteOrder
<1>1. PICK a \in Assignment(mode, s, w, q, o) :
          orders' = [orders EXCEPT ![o] =
              [@ EXCEPT !.mode = mode, !.scope = s, !.addr = w,
                        !.payable = a.payable, !.memo = a.memo, !.expires = now + Validity]]
  BY <1>0
<1>2. a.payable \in Nat /\ a.memo \in Memos \union {None} /\ w \in Addrs
  BY AssignmentType, ConstantFacts
<1>3. now + Validity \in Nat
  BY TimeAssumption DEF Inv, TypeOK, TimeAssumption
<1>4. orders[o].status = "pending_payment" /\ orders[o].tx = None /\ orders \in [Orders -> Row]
  BY DEF RequoteOrder, Inv, TypeOK, RowsOK
<1> DEFINE new == [orders[o] EXCEPT
                      !.mode = mode, !.scope = s, !.addr = w,
                      !.payable = a.payable, !.memo = a.memo, !.expires = now + Validity]
<1>5. orders[o] \in Row
  BY <1>4
<1>6. /\ new \in Row
      /\ new.tx = None /\ new.status = "pending_payment"
      /\ new.scope \in Scopes /\ new.addr \in Addrs
  BY <1>2, <1>3, <1>4, <1>5 DEF Row
<1>7. orders' = [orders EXCEPT ![o] = new]
  BY <1>1
<1> HIDE DEF new
<1>8. orders' \in [Orders -> Row] /\ orders'[o] = new
  BY <1>4, <1>6, <1>7
<1>9. \A p \in Orders : p # o => orders'[p] = orders[p]
  BY <1>4, <1>7
<1> QED BY <1>4, <1>6, <1>8, <1>9, ApiInv DEF RequoteOrder

LEMMA CloseOrderInv ==
    ASSUME Inv, NEW o \in Orders, CancelOrder(o) \/ ResolveAnomaly(o)
    PROVE  Inv'
<1>1. /\ orders \in [Orders -> Row]
      /\ orders[o].status \in {"pending_payment", "payment_anomaly"}
      /\ orders' = [orders EXCEPT ![o].status = "cancelled"]
      /\ UNCHANGED <<now, chainVars, watcherVars>>
  BY DEF CancelOrder, ResolveAnomaly, Inv, TypeOK
<1>2. orders[o].scope \in Scopes /\ orders[o].addr \in Addrs
  BY <1>1 DEF Inv, RowsOK
<1>3. orders' \in [Orders -> Row]
  BY <1>1 DEF Row, Statuses
<1>4. /\ orders'[o].status = "cancelled" /\ orders'[o].tx = orders[o].tx
      /\ orders'[o].scope = orders[o].scope /\ orders'[o].addr = orders[o].addr
      /\ \A p \in Orders : p # o => orders'[p] = orders[p]
  BY <1>1 DEF Row
<1> QED BY <1>1, <1>2, <1>3, <1>4, ApiInv

LEMMA ExpireDueInv == ASSUME Inv, ExpireDue PROVE Inv'
<1>1. orders \in [Orders -> Row] /\ UNCHANGED <<now, chainVars, watcherVars>>
  BY DEF ExpireDue, Inv, TypeOK
<1>2. orders' \in [Orders -> Row]
  BY <1>1 DEF ExpireDue, Row, Statuses
<1>3. \A o \in Orders : orders'[o] = orders[o] \/
         /\ orders[o].status = "pending_payment" /\ orders'[o].status = "expired"
         /\ orders'[o].tx = orders[o].tx
         /\ orders'[o].scope = orders[o].scope /\ orders'[o].addr = orders[o].addr
  BY <1>1 DEF ExpireDue, Due, Row
<1>4. \A o \in Orders : orders[o].status = "pending_payment" =>
         orders[o].tx = None /\ orders[o].scope \in Scopes /\ orders[o].addr \in Addrs
  BY DEF Inv, RowsOK
<1> QED BY <1>1, <1>2, <1>3, <1>4, ApiInv

\* Steps of the chain and the clock leave the table and the watcher alone.
LEMMA ChainInv ==
    ASSUME Inv, UNCHANGED <<orders, watcherVars>>, TypeOK'
    PROVE  Inv'
  BY DEF Inv, RowsOK, HitsOK, UniqueOutputs, SameOutput, watcherVars

LEMMA MineInv == ASSUME Inv, NEW h \in Hashes, Mine(h) PROVE Inv'
<1>1. PICK f \in [OutputsOf(h) -> Payments] :
         paid' = [t \in Transfers |->
                    IF t \in OutputsOf(h)
                    THEN [scope |-> f[t].scope, addr |-> f[t].addr,
                          amount |-> f[t].amount, memo |-> f[t].memo, at |-> now]
                    ELSE paid[t]]
  BY DEF Mine
<1>2. now \in Nat
  BY TimeAssumption DEF Inv, TypeOK, TimeAssumption
<1>3. \A t \in OutputsOf(h) :
         /\ f[t].scope \in Scopes /\ f[t].addr \in Addrs
         /\ f[t].amount \in Nat /\ f[t].memo \in Memos \union {None}
  BY ConstantFacts
<1>4. paid' \in [Transfers -> Payment]
  BY <1>1, <1>2, <1>3 DEF Inv, TypeOK, Payment
<1>5. tx' \in [Hashes -> Transaction]
  BY DEF Mine, Inv, TypeOK, Transaction
<1>6. TypeOK'
  BY <1>4, <1>5 DEF Mine, Inv, TypeOK, watcherVars
<1> QED BY <1>6, ChainInv DEF Mine

LEMMA DeepenInv == ASSUME Inv, NEW h \in Hashes, Deepen(h) PROVE Inv'
<1>1. tx \in [Hashes -> Transaction] /\ tx[h].depth < MaxDepth /\ MaxDepth \in Nat
  BY TimeAssumption DEF Deepen, Inv, TypeOK, TimeAssumption
<1>2. /\ tx[h].depth \in 0..MaxDepth /\ tx[h].peak \in 0..MaxDepth
      /\ tx[h].depth + 1 \in 0..MaxDepth
  BY <1>1 DEF Transaction
<1>3. Deepest(tx[h].peak, tx[h].depth + 1) \in 0..MaxDepth
  BY <1>2 DEF Deepest
<1>4. tx' \in [Hashes -> Transaction]
  BY <1>1, <1>2, <1>3 DEF Deepen, Transaction
<1>5. TypeOK'
  BY <1>4 DEF Deepen, Inv, TypeOK, watcherVars
<1> QED BY <1>5, ChainInv DEF Deepen

LEMMA ReorganiseInv == ASSUME Inv, NEW h \in Hashes, Reorganise(h) PROVE Inv'
<1>1. /\ tx \in [Hashes -> Transaction] /\ tx[h].reorgs < MaxReorgs
      /\ MaxDepth \in Nat /\ MaxReorgs \in Nat
  BY TimeAssumption DEF Reorganise, Inv, TypeOK, TimeAssumption
<1>2. tx[h].reorgs + 1 \in 0..MaxReorgs
  BY <1>1 DEF Transaction
<1>3. PICK state \in {"mined", "failed", "gone"}, d \in 0..MaxDepth :
         tx' = [tx EXCEPT ![h].state = state, ![h].depth = d, ![h].reorgs = @ + 1]
  BY DEF Reorganise
<1>4. tx' \in [Hashes -> Transaction]
  BY <1>1, <1>2, <1>3 DEF Transaction
<1>5. TypeOK'
  BY <1>4 DEF Reorganise, Inv, TypeOK, watcherVars
<1> QED BY <1>5, ChainInv DEF Reorganise

LEMMA TickInv == ASSUME Inv, Tick PROVE Inv'
<1>1. now' \in 0..Horizon
  BY TimeAssumption DEF Tick, Inv, TypeOK, TimeAssumption
<1>2. TypeOK'
  BY <1>1 DEF Tick, Inv, TypeOK, watcherVars, chainVars
<1> QED BY <1>2, ChainInv DEF Tick

\* Steps of the watcher that write no row keep what they are about to write sound.
LEMMA WatcherInv ==
    ASSUME Inv, UNCHANGED <<now, orders, chainVars>>, TypeOK', HitsOK'
    PROVE  Inv'
  BY DEF Inv, RowsOK, UniqueOutputs, SameOutput

LEMMA RunTypes == NullRow \in Row /\ NoHit \in Hit /\ IdleRun \in Run /\ NoJob \in Job
<1>1. NullRow \in Row
  BY DEF NullRow, Row, Statuses, Reasons
<1>2. NoHit \in Hit
  BY DEF NoHit, Hit, Reasons
<1> QED BY <1>1, <1>2 DEF IdleRun, Run, NoJob, Job

\* A step that gives one scope a typed run, and one that is not writing or has a match in hand.
LEMMA RunStepInv ==
    ASSUME Inv, NEW s \in Scopes, NEW new \in Run,
           run' = [run EXCEPT ![s] = new],
           new.pc = "writing" => /\ new.hit.t \in Transfers
                                 /\ new.hit.status \in {"verifying", "payment_anomaly"},
           job' \in [Confirmers -> [Orders -> Job]],
           UNCHANGED <<now, orders, chainVars, streak, crashes>>
    PROVE  Inv'
<1>1. run \in [Scopes -> Run]
  BY DEF Inv, TypeOK
<1>2. TypeOK'
  BY <1>1 DEF Inv, TypeOK, chainVars
<1>3. HitsOK'
  BY <1>1 DEF Inv, HitsOK
<1> QED BY <1>2, <1>3, WatcherInv

LEMMA ListScopeInv == ASSUME Inv, NEW s \in Scopes, ListScope(s) PROVE Inv'
<1> DEFINE mine == {o \in Orders : Listed(o) /\ orders[o].scope = s}
           backfill == {o \in Orders : orders[o].scope = s /\ orders[o].tx # None}
           watched == {orders[o].addr : o \in mine \union backfill}
           cross == {o \in Orders : Listed(o) /\ orders[o].addr \in watched}
           rows == [o \in Orders |-> IF o \in mine \union cross THEN orders[o] ELSE NullRow]
           new == [IdleRun EXCEPT !.pc = "polling", !.watched = watched, !.rows = rows]
<1>1. orders \in [Orders -> Row] /\ job \in [Confirmers -> [Orders -> Job]]
  BY DEF Inv, TypeOK
<1>2. watched \subseteq Addrs \union {None}
  BY <1>1 DEF Row
<1>3. rows \in [Orders -> Row]
  BY <1>1, RunTypes
<1>4. run' = [run EXCEPT ![s] = new]
  BY Zenon DEF ListScope
<1> HIDE DEF rows, watched
<1>5. new \in Run /\ new.pc = "polling"
  BY <1>2, <1>3, RunTypes DEF IdleRun, Run
<1> HIDE DEF new
<1> QED BY <1>1, <1>4, <1>5, RunStepInv DEF ListScope

LEMMA PollScopeInv == ASSUME Inv, NEW s \in Scopes, PollScope(s) PROVE Inv'
<1>1. PICK batch \in SUBSET NewTransfers(s) :
         run' = [run EXCEPT ![s].pc = "matching", ![s].batch = batch]
  BY DEF PollScope
<1>2. /\ run[s] \in Run /\ run \in [Scopes -> Run]
      /\ job \in [Confirmers -> [Orders -> Job]]
      /\ batch \subseteq Transfers
  BY DEF Inv, TypeOK, NewTransfers
<1> DEFINE new == [run[s] EXCEPT !.pc = "matching", !.batch = batch]
<1>3. new \in Run /\ new.pc = "matching"
  BY <1>2 DEF Run
<1>4. run' = [run EXCEPT ![s] = new]
  BY <1>1, <1>2 DEF Run
<1> HIDE DEF new
<1> QED BY <1>2, <1>3, <1>4, RunStepInv DEF PollScope

LEMMA FreshType ==
    ASSUME Inv, NEW s \in Scopes, NEW t \in Transfers, NEW status
    PROVE  FreshAfter(s, t, status) \subseteq Hashes
  BY ConstantFacts DEF FreshAfter, Inv, TypeOK, Run

LEMMA SkipTransferInv ==
    ASSUME Inv, NEW s \in Scopes, NEW t \in Transfers, SkipTransfer(s, t)
    PROVE  Inv'
<1>1. /\ run[s] \in Run /\ run \in [Scopes -> Run] /\ run[s].pc = "matching"
      /\ job \in [Confirmers -> [Orders -> Job]]
  BY DEF SkipTransfer, Inv, TypeOK
<1> DEFINE fresh == FreshAfter(s, t, Outcome(s, t).status)
           new == [run[s] EXCEPT !.batch = @ \ {t}, !.fresh = fresh]
<1>2. fresh \subseteq Hashes
  BY FreshType
<1>3. run' = [run EXCEPT ![s].batch = @ \ {t}, ![s].fresh = fresh]
  BY DEF SkipTransfer
<1> HIDE DEF fresh
<1>4. new \in Run /\ new.pc = "matching"
  BY <1>1, <1>2 DEF Run
<1>5. run' = [run EXCEPT ![s] = new]
  BY <1>1, <1>3 DEF Run
<1> HIDE DEF new
<1> QED BY <1>1, <1>4, <1>5, RunStepInv DEF SkipTransfer

LEMMA SelectRowsInv ==
    ASSUME Inv, NEW s \in Scopes, NEW t \in Transfers, SelectRows(s, t)
    PROVE  Inv'
<1>1. /\ run[s] \in Run /\ run \in [Scopes -> Run]
      /\ job \in [Confirmers -> [Orders -> Job]]
  BY DEF Inv, TypeOK
<1> DEFINE out == Outcome(s, t)
           writes == RowsToWrite(out.ids, out.status, t)
           fresh == FreshAfter(s, t, out.status)
           reason == IF out.status = "verifying" THEN "none" ELSE out.reason
<1>2. PICK holder \in Holders(out.ids, writes, t) :
         run' = [run EXCEPT ![s].pc = "writing", ![s].batch = @ \ {t}, ![s].fresh = fresh,
                            ![s].hit = [t |-> t, status |-> out.status, reason |-> reason,
                                        writes |-> writes, holder |-> holder]]
  BY DEF SelectRows
<1>3. /\ writes \subseteq Orders /\ holder \in Orders \union {None}
      /\ out.status \in {"verifying", "payment_anomaly"} /\ reason \in Reasons
  <2>1. TypeOK /\ writes # {}
    BY DEF SelectRows, Inv
  <2> QED BY <2>1, WritesOutcome DEF Reasons
<1>4. fresh \subseteq Hashes
  BY FreshType
<1> DEFINE hit == [t |-> t, status |-> out.status, reason |-> reason,
                   writes |-> writes, holder |-> holder]
           new == [run[s] EXCEPT !.pc = "writing", !.batch = @ \ {t}, !.fresh = fresh,
                                 !.hit = hit]
<1> HIDE DEF out, writes, fresh, reason
<1>5. hit \in Hit /\ hit.t \in Transfers /\ hit.status \in {"verifying", "payment_anomaly"}
  BY <1>3 DEF Hit
<1>6. run' = [run EXCEPT ![s].pc = "writing", ![s].batch = @ \ {t}, ![s].fresh = fresh,
                         ![s].hit = hit]
  BY <1>2
<1> HIDE DEF hit
<1>7. new \in Run /\ new.hit = hit
  BY <1>1, <1>4, <1>5 DEF Run
<1>8. run' = [run EXCEPT ![s] = new]
  BY <1>1, <1>6 DEF Run
<1> HIDE DEF new
<1> QED BY <1>1, <1>5, <1>7, <1>8, RunStepInv DEF SelectRows

\* A row a match is applied to keeps its rail, and holds a transaction when it verifies.
LEMMA MatchedRowType ==
    ASSUME Inv, NEW s \in Scopes, run[s].pc = "writing",
           NEW o \in Orders, MatchApplies(o, run[s].hit)
    PROVE  /\ MatchedRow(o, run[s].hit) \in Row
           /\ MatchedRow(o, run[s].hit).status \in {"verifying", "payment_anomaly"}
           /\ MatchedRow(o, run[s].hit).status = "verifying" =>
                 MatchedRow(o, run[s].hit).tx # None
           /\ MatchedRow(o, run[s].hit).scope \in Scopes
           /\ MatchedRow(o, run[s].hit).addr \in Addrs
<1> DEFINE hit == run[s].hit
           row == orders[o]
           held == IF hit.status = "verifying" \/ (row.tx = None /\ o = hit.holder)
                   THEN HashOf[hit.t] ELSE row.tx
<1>1. row \in Row /\ run[s] \in Run
  BY DEF Inv, TypeOK
<1>2. /\ hit.t \in Transfers /\ hit.status \in {"verifying", "payment_anomaly"}
      /\ hit.reason \in Reasons
  BY <1>1 DEF Inv, HitsOK, Run, Hit
<1>3. HashOf[hit.t] \in Hashes /\ HashOf[hit.t] # None
  BY <1>2, ConstantFacts
<1>4. held \in Hashes \union {None} /\ (hit.status = "verifying" => held # None)
  BY <1>1, <1>3 DEF Row
<1>5. paid[hit.t].amount \in Nat
  BY <1>2 DEF Inv, TypeOK, Payment
<1>6. row.scope \in Scopes /\ row.addr \in Addrs
  BY DEF MatchApplies, MatchApplyStatuses, Inv, RowsOK
<1>7. MatchedRow(o, hit) = [row EXCEPT !.status = hit.status, !.reason = hit.reason,
                                       !.received = paid[hit.t].amount, !.tx = held]
  BY <1>1 DEF MatchedRow, Row
<1>8. hit.status \in Statuses
  BY <1>2 DEF Statuses
<1> HIDE DEF hit, row, held
<1> DEFINE new == [row EXCEPT !.status = hit.status, !.reason = hit.reason,
                              !.received = paid[hit.t].amount, !.tx = held]
<1>9. /\ new \in Row /\ new.status = hit.status /\ new.tx = held
      /\ new.scope = row.scope /\ new.addr = row.addr
  BY <1>1, <1>2, <1>4, <1>5, <1>8 DEF Row
<1> QED BY <1>2, <1>4, <1>6, <1>7, <1>9 DEF hit

LEMMA ApplyMatchInv == ASSUME Inv, NEW s \in Scopes, ApplyMatch(s) PROVE Inv'
<1> DEFINE hit == run[s].hit
           table == [o \in Orders |-> IF MatchApplies(o, hit) THEN MatchedRow(o, hit)
                                      ELSE orders[o]]
           new == [run[s] EXCEPT !.pc = "matching", !.hit = NoHit]
<1>1. /\ run[s].pc = "writing"
      /\ orders' = IF UniqueOutputs(table) THEN table ELSE orders
      /\ run' = [run EXCEPT ![s].pc = "matching", ![s].hit = NoHit]
      /\ UNCHANGED <<now, chainVars, job, streak, crashes>>
  BY DEF ApplyMatch
<1>2. orders \in [Orders -> Row] /\ run \in [Scopes -> Run] /\ run[s] \in Run
  BY DEF Inv, TypeOK
<1>3. new \in Run /\ new.pc = "matching"
  BY <1>2, RunTypes DEF Run
<1>4. run' = [run EXCEPT ![s] = new]
  BY <1>1, <1>2 DEF Run
<1>5. table \in [Orders -> Row]
  BY <1>1, <1>2, MatchedRowType
<1>6. \A o \in Orders :
         \/ table[o] = orders[o]
         \/ /\ table[o].status \in {"verifying", "payment_anomaly"}
            /\ table[o].status = "verifying" => table[o].tx # None
            /\ table[o].scope \in Scopes /\ table[o].addr \in Addrs
  BY <1>1, MatchedRowType
<1> HIDE DEF table, new
<1>7. UniqueOutputs(orders)'
  BY <1>1 DEF Inv, UniqueOutputs
<1>8. \A o \in Orders : orders'[o] = orders[o] \/ orders'[o] = table[o]
  BY <1>1
<1>9. RowsOK'
  BY <1>6, <1>8 DEF Inv, RowsOK
<1>10. HitsOK'
  BY <1>2, <1>3, <1>4 DEF Inv, HitsOK
<1>11. TypeOK'
  <2>1. orders' \in [Orders -> Row] /\ run' \in [Scopes -> Run]
    BY <1>1, <1>2, <1>3, <1>4, <1>5
  <2> QED BY <2>1, <1>1 DEF Inv, TypeOK, chainVars
<1> QED BY <1>7, <1>9, <1>10, <1>11 DEF Inv

\* Steps that only move follow-ups and their streaks.
LEMMA FollowUpStepInv ==
    ASSUME Inv, UNCHANGED <<now, orders, chainVars, run, crashes>>,
           job' \in [Confirmers -> [Orders -> Job]],
           streak' \in [Orders -> [count : 0..MissingMin, old : BOOLEAN]]
    PROVE  Inv'
<1>1. TypeOK' /\ HitsOK'
  BY DEF Inv, TypeOK, HitsOK, chainVars
<1> QED BY <1>1, WatcherInv

\* A follow-up of every order of some set, listed from the table.
LEMMA ListedJobs ==
    ASSUME Inv, NEW S
    PROVE  [o \in Orders |-> IF o \in S THEN ListedJob(o) ELSE NoJob] \in [Orders -> Job]
  BY RunTypes DEF Inv, TypeOK, Row, ListedJob, Job

LEMMA EndMatchingInv == ASSUME Inv, NEW s \in Scopes, EndMatching(s) PROVE Inv'
<1> DEFINE mine == {o \in Orders : /\ AwaitingConfirmation(o)
                                   /\ orders[o].scope = s
                                   /\ orders[o].tx \in run[s].fresh}
           jobs == [o \in Orders |-> IF o \in mine THEN ListedJob(o) ELSE NoJob]
           confirming == [IdleRun EXCEPT !.pc = "confirming"]
<1>1. job \in [Confirmers -> [Orders -> Job]] /\ s \in Confirmers
  BY ConstantFacts DEF Inv, TypeOK
<1>2. jobs \in [Orders -> Job]
  BY ListedJobs
<1>3. /\ IdleRun \in Run /\ IdleRun.pc = "idle"
      /\ confirming \in Run /\ confirming.pc = "confirming"
  BY RunTypes DEF IdleRun, Run
<1> HIDE DEF jobs, confirming
<1>4. CASE run' = [run EXCEPT ![s] = IdleRun] /\ UNCHANGED job
  BY <1>1, <1>3, <1>4, RunStepInv DEF EndMatching
<1>5. CASE run' = [run EXCEPT ![s] = confirming] /\ job' = [job EXCEPT ![s] = jobs]
  <2>1. job' \in [Confirmers -> [Orders -> Job]]
    BY <1>1, <1>2, <1>5
  <2> QED BY <2>1, <1>3, <1>5, RunStepInv DEF EndMatching
<1> QED BY <1>4, <1>5 DEF EndMatching, jobs, confirming

LEMMA EndScopeInv == ASSUME Inv, NEW s \in Scopes, EndScope(s) PROVE Inv'
<1>1. IdleRun \in Run /\ IdleRun.pc = "idle"
  BY RunTypes DEF IdleRun
<1>2. job' \in [Confirmers -> [Orders -> Job]]
  BY DEF EndScope, Inv, TypeOK
<1> QED BY <1>1, <1>2, RunStepInv DEF EndScope

LEMMA StartPriorityInv == ASSUME Inv, StartPriority PROVE Inv'
<1> DEFINE awaiting == {o \in Orders : AwaitingConfirmation(o)}
           jobs == [o \in Orders |-> IF o \in awaiting THEN ListedJob(o) ELSE NoJob]
<1>1. jobs \in [Orders -> Job]
  BY ListedJobs
<1>2. jobs = [o \in Orders |-> IF AwaitingConfirmation(o) THEN ListedJob(o) ELSE NoJob]
  OBVIOUS
<1>3. job' = [job EXCEPT ![Priority] = jobs]
  BY <1>2 DEF StartPriority
<1> HIDE DEF jobs
<1>4. /\ job' \in [Confirmers -> [Orders -> Job]]
      /\ streak' \in [Orders -> [count : 0..MissingMin, old : BOOLEAN]]
  BY <1>1, <1>3, ConstantFacts DEF StartPriority, Inv, TypeOK
<1> QED BY <1>4, FollowUpStepInv DEF StartPriority

LEMMA StreakAgesInv == ASSUME Inv, NEW o \in Orders, StreakAges(o) PROVE Inv'
<1>1. /\ job' \in [Confirmers -> [Orders -> Job]]
      /\ streak' \in [Orders -> [count : 0..MissingMin, old : BOOLEAN]]
  BY DEF StreakAges, Inv, TypeOK
<1> QED BY <1>1, FollowUpStepInv DEF StreakAges

LEMMA EvaluateType ==
    ASSUME NEW o, NEW stored \in Nat, NEW presence \in {"failed", "missing", "confirmed", "unknown"},
           NEW chain \in Nat, NEW count, NEW old
    PROVE  Evaluate(o, stored, presence, chain, count, old) \in Job
<1>1. ASSUME NEW confs \in Nat, NEW next \in {"none", "completed", "payment_anomaly"}
      PROVE  Follow(confs, next) \in Job
  BY <1>1 DEF Follow, Job
<1>2. NoJob \in Job
  BY RunTypes
<1>3. CASE presence = "confirmed"
  <2>1. /\ Follow(chain, "payment_anomaly") \in Job
        /\ Follow(chain, "none") \in Job
        /\ Follow(chain, "completed") \in Job
    BY <1>1
  <2>2. Evaluate(o, stored, presence, chain, count, old) \in
           {Follow(chain, "payment_anomaly"), Follow(chain, "none"), Follow(chain, "completed")}
    BY <1>3 DEF Evaluate
  <2> QED BY <2>1, <2>2
<1>4. CASE presence \in {"failed", "missing", "unknown"}
  <2>1. Follow(0, "payment_anomaly") \in Job
    BY <1>1
  <2>2. Evaluate(o, stored, presence, chain, count, old) \in {Follow(0, "payment_anomaly"), NoJob}
    BY <1>4 DEF Evaluate
  <2> QED BY <2>1, <2>2, <1>2
<1> QED BY <1>3, <1>4

LEMMA ObserveInv ==
    ASSUME Inv, NEW c \in Confirmers, NEW o \in Orders,
           NEW presence \in {"failed", "missing", "confirmed", "unknown"}, NEW chain \in Nat,
           Observe(c, o, presence, chain)
    PROVE  Inv'
<1> DEFINE count == IF streak[o].count < MissingMin THEN streak[o].count + 1 ELSE MissingMin
           answer == Evaluate(o, job[c][o].confs, presence, chain, count, streak[o].old)
           missed == IF presence = "missing" THEN [streak[o] EXCEPT !.count = count]
                     ELSE IF presence = "unknown" THEN streak[o] ELSE NoStreak
           after == IF answer.next # "none" THEN NoStreak ELSE missed
<1>1. /\ job \in [Confirmers -> [Orders -> Job]]
      /\ streak \in [Orders -> [count : 0..MissingMin, old : BOOLEAN]]
      /\ job[c][o].confs \in Nat /\ MissingMin \in Nat \ {0}
  BY TimeAssumption DEF Inv, TypeOK, TimeAssumption, Job
<1>2. answer \in Job
  BY <1>1, EvaluateType
<1>3. NoStreak \in [count : 0..MissingMin, old : BOOLEAN]
  BY <1>1 DEF NoStreak
<1>4. count \in 0..MissingMin
  BY <1>1
<1>5. missed \in [count : 0..MissingMin, old : BOOLEAN]
  <2> HIDE DEF count
  <2> QED BY <1>1, <1>3, <1>4
<1>6. after \in [count : 0..MissingMin, old : BOOLEAN]
  <2> HIDE DEF missed, answer
  <2> QED BY <1>3, <1>5
<1>7. job' = [job EXCEPT ![c][o] = answer] /\ streak' = [streak EXCEPT ![o] = after]
  BY DEF Observe
<1> HIDE DEF answer, after
<1>8. /\ job' \in [Confirmers -> [Orders -> Job]]
      /\ streak' \in [Orders -> [count : 0..MissingMin, old : BOOLEAN]]
  BY <1>1, <1>2, <1>6, <1>7
<1> QED BY <1>8, FollowUpStepInv DEF Observe

LEMMA ObserveTruthInv ==
    ASSUME Inv, NEW c \in Confirmers, NEW o \in Orders, ObserveTruth(c, o)
    PROVE  Inv'
<1>1. PICK chain \in {0, tx[orders[o].tx].depth}, presence \in {"failed", "missing", "confirmed"} :
         Observe(c, o, presence, chain)
  BY DEF ObserveTruth
<1>2. chain \in Nat
  BY TimeAssumption DEF ObserveTruth, Inv, TypeOK, TimeAssumption, Row, Transaction
<1> QED BY <1>1, <1>2, ObserveInv

LEMMA ObserveGlitchInv ==
    ASSUME Inv, NEW c \in Confirmers, NEW o \in Orders, ObserveGlitch(c, o)
    PROVE  Inv'
  BY ObserveInv DEF ObserveGlitch

LEMMA SelectConfirmationInv ==
    ASSUME Inv, NEW c \in Confirmers, NEW o \in Orders, SelectConfirmation(c, o)
    PROVE  Inv'
<1>1. job \in [Confirmers -> [Orders -> Job]] /\ job[c][o] \in Job
  BY DEF Inv, TypeOK
<1>2. [job[c][o] EXCEPT !.stage = "selected"] \in Job /\ NoJob \in Job
  BY <1>1, RunTypes DEF Job
<1>3. PICK new \in Job : job' = [job EXCEPT ![c][o] = new]
  BY <1>1, <1>2 DEF SelectConfirmation
<1>4. /\ job' \in [Confirmers -> [Orders -> Job]]
      /\ streak' \in [Orders -> [count : 0..MissingMin, old : BOOLEAN]]
  BY <1>1, <1>3 DEF SelectConfirmation, Inv, TypeOK
<1> QED BY <1>4, FollowUpStepInv DEF SelectConfirmation

LEMMA WriteConfirmationInv ==
    ASSUME Inv, NEW c \in Confirmers, NEW o \in Orders, WriteConfirmation(c, o)
    PROVE  Inv'
<1> DEFINE row == orders[o]
           j == job[c][o]
           new == IF ConfirmationApplies(o) THEN ConfirmedRow(row, j) ELSE row
<1>1. /\ orders \in [Orders -> Row] /\ row \in Row
      /\ job \in [Confirmers -> [Orders -> Job]] /\ j \in Job
  BY DEF Inv, TypeOK
<1>2. j.confs \in Nat /\ row.confs \in Nat /\ j.next \in {"none", "completed", "payment_anomaly"}
  BY <1>1 DEF Job, Row
<1>3. Deepest(row.confs, j.confs) \in Nat
  BY <1>2 DEF Deepest
<1>4. PICK status \in {row.status, "completed", "payment_anomaly"},
           reason \in {row.reason, "reorg"}, confs \in Nat :
         ConfirmedRow(row, j) = [row EXCEPT !.status = status, !.reason = reason,
                                            !.confs = confs]
  <2>1. CASE j.next = "payment_anomaly"
    BY <1>2, <2>1 DEF ConfirmedRow
  <2>2. CASE j.next \in {"none", "completed"}
    <3> DEFINE deepest == Deepest(row.confs, j.confs)
               status == IF j.next = "none" THEN row.status ELSE "completed"
    <3>1. ConfirmedRow(row, j) = [row EXCEPT !.status = status, !.reason = row.reason,
                                             !.confs = deepest]
      BY <1>1, <2>2 DEF ConfirmedRow, Row
    <3> QED BY <1>3, <3>1
  <2> QED BY <1>2, <2>1, <2>2
<1>5. /\ ConfirmedRow(row, j) \in Row
      /\ ConfirmedRow(row, j).status \in {row.status, "completed", "payment_anomaly"}
      /\ ConfirmedRow(row, j).tx = row.tx
      /\ ConfirmedRow(row, j).scope = row.scope /\ ConfirmedRow(row, j).addr = row.addr
  <2>1. row.status \in Statuses /\ row.reason \in Reasons
    BY <1>1 DEF Row
  <2>2. status \in Statuses /\ reason \in Reasons
    BY <2>1, <1>4 DEF Statuses, Reasons
  <2> DEFINE next == [row EXCEPT !.status = status, !.reason = reason, !.confs = confs]
  <2> HIDE DEF row, j
  <2>3. /\ next \in Row /\ next.status = status
        /\ next.tx = row.tx /\ next.scope = row.scope /\ next.addr = row.addr
    BY <1>1, <2>2, <1>4 DEF Row
  <2> QED BY <2>3, <1>4
<1>6. new \in Row /\ new.tx = row.tx /\ new.scope = row.scope /\ new.addr = row.addr
  BY <1>1, <1>5
<1>7. \/ new = row
      \/ row.status = "verifying" /\ row.tx # None
         /\ new.status \in {"verifying", "completed", "payment_anomaly"}
  BY <1>5 DEF ConfirmationApplies, ConfirmStatuses
<1>8. orders' = [orders EXCEPT ![o] = new]
  BY DEF WriteConfirmation
<1> HIDE DEF new
<1>9. orders' \in [Orders -> Row] /\ orders'[o] = new
      /\ \A p \in Orders : p # o => orders'[p] = orders[p]
  BY <1>1, <1>6, <1>8
<1>10. RowsOK'
  <2>1. row.status = "verifying" => row.scope \in Scopes /\ row.addr \in Addrs
    BY DEF Inv, RowsOK
  <2>2. /\ new.status \in {"absent", "pending_payment", "expired"} => new.tx = None
        /\ new.status \in {"verifying", "completed"} => new.tx # None
        /\ new.status # "absent" => new.scope \in Scopes /\ new.addr \in Addrs
    BY <1>6, <1>7, <2>1 DEF Inv, RowsOK
  <2> QED BY <2>2, <1>9 DEF Inv, RowsOK
<1>11. UniqueOutputs(orders)'
  BY <1>6, <1>9, SameOutputsUnique DEF Inv
<1>12. TypeOK' /\ HitsOK'
  BY <1>1, <1>9, RunTypes DEF WriteConfirmation, Inv, TypeOK, HitsOK, chainVars
<1> QED BY <1>10, <1>11, <1>12 DEF Inv

LEMMA CrashWatcherInv == ASSUME Inv, CrashWatcher PROVE Inv'
<1>1. /\ run' \in [Scopes -> Run] /\ job' \in [Confirmers -> [Orders -> Job]]
      /\ \A s \in Scopes : run'[s].pc = "idle"
  BY RunTypes DEF CrashWatcher, IdleRun
<1>2. streak' \in [Orders -> [count : 0..MissingMin, old : BOOLEAN]]
  BY TimeAssumption DEF CrashWatcher, NoStreak, TimeAssumption
<1>3. crashes' \in 0..MaxCrashes
  BY TimeAssumption DEF CrashWatcher, Inv, TypeOK, TimeAssumption
<1>4. TypeOK' /\ HitsOK'
  BY <1>1, <1>2, <1>3 DEF CrashWatcher, Inv, TypeOK, HitsOK, chainVars
<1>5. UniqueOutputs(orders)' /\ RowsOK'
  BY DEF CrashWatcher, Inv, RowsOK, UniqueOutputs, SameOutput
<1> QED BY <1>4, <1>5 DEF Inv

-----------------------------------------------------------------------------
(***************************************************************************)
(* The theorems.                                                           *)
(***************************************************************************)
LEMMA NextInv == Inv /\ [Next]_vars => Inv'
<1> SUFFICES ASSUME Inv, [Next]_vars PROVE Inv'
  OBVIOUS
<1>1. CASE Api
  BY <1>1, CreateOrderInv, RequoteOrderInv, CloseOrderInv, ExpireDueInv DEF Api
<1>2. CASE Chain
  BY <1>2, MineInv, DeepenInv, ReorganiseInv, TickInv DEF Chain
<1>3. ASSUME NEW s \in Scopes, ScopeRun(s) PROVE Inv'
  BY <1>3, ListScopeInv, PollScopeInv, ApplyMatchInv, EndMatchingInv, EndScopeInv,
     SkipTransferInv, SelectRowsInv DEF ScopeRun
<1>4. ASSUME NEW c \in Confirmers, NEW o \in Orders, FollowUp(c, o) PROVE Inv'
  BY <1>4, ObserveTruthInv, ObserveGlitchInv, SelectConfirmationInv, WriteConfirmationInv
     DEF FollowUp
<1>5. CASE Watcher
  BY <1>3, <1>4, <1>5, StreakAgesInv, StartPriorityInv, CrashWatcherInv DEF Watcher
<1>6. CASE UNCHANGED vars
  BY <1>6 DEF vars, chainVars, Inv, TypeOK, RowsOK, HitsOK, UniqueOutputs, SameOutput
<1> QED BY <1>1, <1>2, <1>5, <1>6 DEF Next

\* The strengthening of TypeOK is an invariant of the API, the watcher and the chain together.
THEOREM Invariance == Spec => []Inv
<1> QED BY InitInv, NextInv, PTL DEF Spec

\* Every variable keeps its type in every reachable state.
THEOREM TypeCorrect == Spec => []TypeOK
<1>1. Inv => TypeOK
  BY DEF Inv
<1> QED BY <1>1, Invariance, PTL

-----------------------------------------------------------------------------
(* PaymentOrders implements OrderLifecycle.  RowStep says what one step of *)
(* anybody may do to one row of the table.  Every action makes only such   *)
(* changes (one lemma per kind of action), and rows that satisfy Inv       *)
(* before and after changes of these kinds make a step of the life cycle.  *)

SameCredit(r, q) == q.tx = r.tx /\ q.scope = r.scope /\ q.addr = r.addr

\* The stages a row without a transaction is moved between by the API.
Moves == {<<"absent", "pending_payment">>, <<"pending_payment", "pending_payment">>,
          <<"pending_payment", "expired">>, <<"pending_payment", "cancelled">>}

MovesUncredited(r, q) ==
    r.tx = None /\ q.tx = None /\ <<r.status, q.status>> \in Moves

Resolves(r, q) ==
    SameCredit(r, q) /\ r.status = "payment_anomaly" /\ q.status = "cancelled"

\* A match, which may bring the transaction, and a confirmation, which may settle it.
Matches(r, q) ==
    /\ r.status \in MatchApplyStatuses
    /\ q.status \in {"verifying", "payment_anomaly"}
    /\ q.scope = r.scope /\ q.addr = r.addr
    /\ q.tx = r.tx \/ r.tx = None

Confirms(r, q) ==
    /\ SameCredit(r, q)
    /\ r.status = "verifying" /\ r.tx # None
    /\ q.status \in {"verifying", "completed", "payment_anomaly"}

RowStep(r, q) ==
    q = r \/ MovesUncredited(r, q) \/ Resolves(r, q) \/ Matches(r, q) \/ Confirms(r, q)

-----------------------------------------------------------------------------
(***************************************************************************)
(* Every action changes rows only by row steps.                            *)
(***************************************************************************)
LEMMA ApiRows ==
    ASSUME Inv, Api, NEW o \in Orders
    PROVE  RowStep(orders[o], orders'[o])
<1>1. orders \in [Orders -> Row]
  BY DEF Inv, TypeOK
<1>2. ASSUME NEW p \in Orders, NEW mode \in Modes, NEW s \in Scopes, NEW q \in Quotes,
             CreateOrder(p, mode, s, q)
      PROVE  RowStep(orders[o], orders'[o])
  <2>1. /\ orders[p].status = "absent" /\ orders[p].tx = None
        /\ orders'[p].status = "pending_payment" /\ orders'[p].tx = None
        /\ p # o => orders'[o] = orders[o]
    BY <1>1, <1>2 DEF CreateOrder, NullRow, Inv, RowsOK
  <2> QED BY <2>1 DEF RowStep, MovesUncredited, Moves
<1>3. ASSUME NEW p \in Orders, NEW mode \in Modes, NEW s \in Scopes, NEW q \in Quotes,
             RequoteOrder(p, mode, s, q)
      PROVE  RowStep(orders[o], orders'[o])
  <2>0. Requoting(p, mode, s)
    BY <1>3, Requoted
  <2>1. PICK w, payable, memo :
           orders' = [orders EXCEPT ![p] =
               [@ EXCEPT !.mode = mode, !.scope = s, !.addr = w,
                         !.payable = payable, !.memo = memo, !.expires = now + Validity]]
    BY <2>0 DEF Requoting
  <2>2. /\ orders[p].status = "pending_payment" /\ orders[p].tx = None
        /\ orders'[p].status = "pending_payment" /\ orders'[p].tx = None
        /\ p # o => orders'[o] = orders[o]
    BY <1>1, <1>3, <2>1 DEF RequoteOrder, Inv, RowsOK, Row
  <2> QED BY <2>2 DEF RowStep, MovesUncredited, Moves
<1>4. ASSUME NEW p \in Orders, CancelOrder(p)
      PROVE  RowStep(orders[o], orders'[o])
  <2>1. /\ orders[p].status = "pending_payment" /\ orders[p].tx = None
        /\ orders'[p].status = "cancelled" /\ orders'[p].tx = None
        /\ p # o => orders'[o] = orders[o]
    BY <1>1, <1>4 DEF CancelOrder, Inv, RowsOK, Row
  <2> QED BY <2>1 DEF RowStep, MovesUncredited, Moves
<1>5. ASSUME NEW p \in Orders, ResolveAnomaly(p)
      PROVE  RowStep(orders[o], orders'[o])
  <2>1. /\ orders[p].status = "payment_anomaly" /\ orders'[p].status = "cancelled"
        /\ SameCredit(orders[p], orders'[p])
        /\ p # o => orders'[o] = orders[o]
    BY <1>1, <1>5 DEF ResolveAnomaly, SameCredit, Row
  <2> QED BY <2>1 DEF RowStep, Resolves
<1>6. CASE ExpireDue
  <2>1. CASE Due(o)
    <3>1. /\ orders[o].status = "pending_payment" /\ orders[o].tx = None
          /\ orders'[o].status = "expired" /\ orders'[o].tx = None
      BY <1>1, <1>6, <2>1 DEF ExpireDue, Due, Inv, RowsOK, Row
    <3> QED BY <3>1 DEF RowStep, MovesUncredited, Moves
  <2>2. CASE ~Due(o)
    BY <1>6, <2>2 DEF ExpireDue, RowStep
  <2> QED BY <2>1, <2>2
<1> QED BY <1>2, <1>3, <1>4, <1>5, <1>6 DEF Api

LEMMA ApplyMatchRows ==
    ASSUME Inv, NEW s \in Scopes, ApplyMatch(s), NEW o \in Orders
    PROVE  RowStep(orders[o], orders'[o])
<1> DEFINE hit == run[s].hit
<1>1. \/ orders'[o] = orders[o]
      \/ MatchApplies(o, hit) /\ orders'[o] = MatchedRow(o, hit)
  BY DEF ApplyMatch
<1>2. ASSUME MatchApplies(o, hit) PROVE Matches(orders[o], MatchedRow(o, hit))
  <2>1. MatchedRow(o, hit).status \in {"verifying", "payment_anomaly"}
    BY <1>2, MatchedRowType DEF ApplyMatch
  <2>2. orders[o] \in Row
    BY DEF Inv, TypeOK
  <2>3. /\ MatchedRow(o, hit).scope = orders[o].scope
        /\ MatchedRow(o, hit).addr = orders[o].addr
        /\ MatchedRow(o, hit).tx \in {orders[o].tx, HashOf[hit.t]}
    BY <2>2 DEF MatchedRow, Row
  <2>4. orders[o].tx \in {None, HashOf[hit.t]} /\ orders[o].status \in MatchApplyStatuses
    BY <1>2 DEF MatchApplies, TakesTransaction
  <2> HIDE DEF hit
  <2> QED BY <2>1, <2>3, <2>4 DEF Matches
<1> QED BY <1>1, <1>2 DEF RowStep

LEMMA WriteConfirmationRows ==
    ASSUME Inv, NEW c \in Confirmers, NEW p \in Orders, WriteConfirmation(c, p), NEW o \in Orders
    PROVE  RowStep(orders[o], orders'[o])
<1> DEFINE row == orders[p]
           new == ConfirmedRow(row, job[c][p])
<1>1. orders \in [Orders -> Row] /\ row \in Row /\ job[c][p] \in Job
  BY DEF Inv, TypeOK
<1>2. /\ SameCredit(row, new)
      /\ new.status \in {row.status, "completed", "payment_anomaly"}
  BY <1>1 DEF ConfirmedRow, SameCredit, Row, Job
<1>3. \/ orders'[o] = orders[o]
      \/ o = p /\ ConfirmationApplies(p) /\ orders'[o] = new
  BY <1>1 DEF WriteConfirmation
<1>4. ConfirmationApplies(p) => row.status = "verifying" /\ row.tx # None
  BY DEF ConfirmationApplies, ConfirmStatuses
<1> HIDE DEF new
<1> QED BY <1>2, <1>3, <1>4 DEF RowStep, Confirms

LEMMA NextRows ==
    ASSUME Inv, [Next]_vars, NEW o \in Orders
    PROVE  RowStep(orders[o], orders'[o])
<1>1. CASE Api
  BY <1>1, ApiRows
<1>2. ASSUME NEW s \in Scopes, ScopeRun(s) PROVE RowStep(orders[o], orders'[o])
  <2>1. CASE ApplyMatch(s)
    BY <2>1, ApplyMatchRows
  <2>2. CASE ~ApplyMatch(s)
    BY <1>2, <2>2 DEF ScopeRun, ListScope, PollScope, EndMatching, EndScope, SkipTransfer,
       SelectRows, RowStep
  <2> QED BY <2>1, <2>2
<1>3. ASSUME NEW c \in Confirmers, NEW p \in Orders, FollowUp(c, p)
      PROVE  RowStep(orders[o], orders'[o])
  <2>1. CASE WriteConfirmation(c, p)
    BY <2>1, WriteConfirmationRows
  <2>2. CASE ~WriteConfirmation(c, p)
    <3>1. UNCHANGED orders
      BY <1>3, <2>2 DEF FollowUp, ObserveTruth, ObserveGlitch, Observe, SelectConfirmation
    <3> QED BY <3>1 DEF RowStep
  <2> QED BY <2>1, <2>2
<1>4. CASE Watcher
  <2>1. ASSUME \/ \E p \in Orders : StreakAges(p)
               \/ StartPriority
               \/ CrashWatcher
        PROVE  UNCHANGED orders
    BY <2>1 DEF StreakAges, StartPriority, CrashWatcher
  <2> QED BY <1>2, <1>3, <1>4, <2>1 DEF Watcher, RowStep
<1>5. CASE Chain \/ UNCHANGED vars
  <2>1. UNCHANGED orders
    BY <1>5 DEF Chain, Mine, Deepen, Reorganise, Tick, vars
  <2> QED BY <2>1 DEF RowStep
<1> QED BY <1>1, <1>4, <1>5 DEF Next

-----------------------------------------------------------------------------
(***************************************************************************)
(* Row steps between tables that satisfy Inv are steps of the life cycle.  *)
(***************************************************************************)
LEMMA CreditFacts ==
    ASSUME Inv
    PROVE  /\ \A o \in Orders : CreditOf(orders[o]) \in Outputs \union {NoCredit}
           /\ \A o \in Orders : CreditOf(orders[o]) = NoCredit <=> orders[o].tx = None
           /\ \A o, p \in Orders :
                 o # p /\ CreditOf(orders[o]) = CreditOf(orders[p]) =>
                    CreditOf(orders[o]) = NoCredit
<1>1. \A o \in Orders : orders[o].tx # None =>
         /\ CreditOf(orders[o]) = <<NetworkOf[orders[o].scope], orders[o].tx, orders[o].addr>>
         /\ CreditOf(orders[o]) \in Outputs
  <2> SUFFICES ASSUME NEW o \in Orders, orders[o].tx # None
               PROVE  /\ CreditOf(orders[o]) = <<NetworkOf[orders[o].scope], orders[o].tx,
                                                 orders[o].addr>>
                      /\ CreditOf(orders[o]) \in Outputs
    OBVIOUS
  <2>1. orders[o].scope \in Scopes /\ orders[o].addr \in Addrs
    BY DEF Inv, RowsOK
  <2>2. orders[o].tx \in Hashes
    BY DEF Inv, TypeOK, Row
  <2> QED BY <2>1, <2>2 DEF CreditOf, Outputs
<1>2. \A o \in Orders : orders[o].tx = None => CreditOf(orders[o]) = NoCredit
  BY DEF CreditOf
<1>3. \A n, h, a : <<n, h, a>> # NoCredit
  BY DEF NoCredit
<1>4. \A o, p \in Orders :
         o # p /\ orders[o].tx # None /\ orders[p].tx # None =>
            CreditOf(orders[o]) # CreditOf(orders[p])
  BY <1>1 DEF Inv, UniqueOutputs, SameOutput
<1> QED BY <1>1, <1>2, <1>3, <1>4

LEMMA LifecycleStep == Inv /\ Inv' /\ [Next]_vars => L!Next
<1> SUFFICES ASSUME Inv, Inv', [Next]_vars PROVE L!Next
  OBVIOUS
<1>1. /\ \A o \in Orders : CreditOf(orders[o]) = NoCredit <=> orders[o].tx = None
      /\ \A o \in Orders : CreditOf(orders'[o]) = NoCredit <=> orders'[o].tx = None
      /\ \A o \in Orders : CreditOf(orders'[o]) \in Outputs \union {NoCredit}
      /\ \A o, p \in Orders :
            o # p /\ CreditOf(orders'[o]) = CreditOf(orders'[p]) =>
               CreditOf(orders'[o]) = NoCredit
  <2>1. /\ \A o \in Orders : CreditOf(orders[o]) = NoCredit <=> orders[o].tx = None
    BY CreditFacts
  <2>2. (/\ \A o \in Orders : CreditOf(orders[o]) = NoCredit <=> orders[o].tx = None
         /\ \A o \in Orders : CreditOf(orders[o]) \in Outputs \union {NoCredit}
         /\ \A o, p \in Orders :
               o # p /\ CreditOf(orders[o]) = CreditOf(orders[p]) =>
                  CreditOf(orders[o]) = NoCredit)'
    BY CreditFacts, PTL
  <2> QED BY <2>1, <2>2 DEF CreditOf
<1>2. /\ [o \in Orders |-> orders'[o].status] \in [Orders -> L!Stages]
      /\ [o \in Orders |-> CreditOf(orders'[o])] \in [Orders -> Outputs \union {NoCredit}]
  BY <1>1 DEF Inv, TypeOK, Row, Statuses, L!Stages
<1>3. ASSUME NEW o \in Orders
      PROVE  orders'[o].status \in IF CreditOf(orders[o]) = NoCredit
                                   THEN L!Uncredited(orders[o].status)
                                   ELSE L!Credited(orders[o].status)
  <2> DEFINE r == orders[o]
             q == orders'[o]
  <2>1. RowStep(r, q)
    BY NextRows
  <2>2. /\ r.status \in {"absent", "pending_payment", "expired"} => r.tx = None
        /\ r.status \in {"verifying", "completed"} => r.tx # None
        /\ r.status \in Statuses
    BY DEF Inv, TypeOK, RowsOK, Row
  <2>3. CreditOf(r) = NoCredit <=> r.tx = None
    BY <1>1
  <2> HIDE DEF r, q
  <2>4. ASSUME r.tx = None PROVE q.status \in L!Uncredited(r.status)
    <3>1. CASE q = r
      BY <2>2, <2>4, <3>1 DEF L!Uncredited, Statuses
    <3>2. CASE MovesUncredited(r, q)
      BY <3>2 DEF MovesUncredited, Moves, L!Uncredited
    <3>3. CASE Resolves(r, q)
      BY <3>3 DEF Resolves, L!Uncredited
    <3>4. CASE Matches(r, q)
      BY <2>2, <2>4, <3>4 DEF Matches, MatchApplyStatuses, L!Uncredited
    <3>5. CASE Confirms(r, q)
      BY <2>4, <3>5 DEF Confirms
    <3> QED BY <2>1, <3>1, <3>2, <3>3, <3>4, <3>5 DEF RowStep
  <2>5. ASSUME r.tx # None PROVE q.status \in L!Credited(r.status)
    <3>1. CASE q = r
      BY <2>2, <2>5, <3>1 DEF L!Credited, Statuses
    <3>2. CASE Resolves(r, q)
      BY <3>2 DEF Resolves, L!Credited
    <3>3. CASE Matches(r, q)
      BY <2>2, <2>5, <3>3 DEF Matches, MatchApplyStatuses, L!Credited
    <3>4. CASE Confirms(r, q)
      BY <3>4 DEF Confirms, L!Credited
    <3> QED BY <2>1, <2>5, <3>1, <3>2, <3>3, <3>4 DEF RowStep, MovesUncredited
  <2> QED BY <2>3, <2>4, <2>5 DEF r, q
<1>4. ASSUME NEW o \in Orders
      PROVE  \/ CreditOf(orders'[o]) = CreditOf(orders[o])
             \/ /\ CreditOf(orders[o]) = NoCredit
                /\ CreditOf(orders'[o]) \in Outputs
                /\ orders'[o].status \in {"verifying", "payment_anomaly"}
  <2>1. RowStep(orders[o], orders'[o])
    BY NextRows
  <2>2. CASE /\ orders[o].tx = orders'[o].tx
             /\ orders[o].tx # None =>
                   orders'[o].scope = orders[o].scope /\ orders'[o].addr = orders[o].addr
    BY <2>2 DEF CreditOf
  <2>3. CASE Matches(orders[o], orders'[o]) /\ orders[o].tx = None /\ orders'[o].tx # None
    BY <1>1, <2>3 DEF Matches
  <2> QED BY <2>1, <2>2, <2>3 DEF RowStep, MovesUncredited, Resolves, Matches, Confirms, SameCredit
<1>5. \A o \in Orders : orders'[o].status = "verifying" => CreditOf(orders'[o]) # NoCredit
  BY <1>1 DEF Inv, RowsOK
<1> QED BY <1>1, <1>2, <1>3, <1>4, <1>5 DEF L!Next, L!Allowed, L!Gains, L!Unique

-----------------------------------------------------------------------------
(***************************************************************************)
(* The theorem.                                                            *)
(***************************************************************************)
\* The API, the watcher and the chain, interleaved in any way and with the watcher crashing at
\* any point, move orders only along the life cycle of OrderLifecycle: what is closed or
\* settled stays so, a credit is final, and one output is credited to at most one order.
THEOREM LifecycleImplemented == Spec => ImplementsLifecycle
<1>1. Init => L!Init
  BY DEF Init, L!Init, NullRow, CreditOf, NoCredit
<1>2. Inv /\ Inv' /\ [Next]_vars => [L!Next]_<<[o \in Orders |-> orders[o].status],
                                              [o \in Orders |-> CreditOf(orders[o])]>>
  BY LifecycleStep
<1> QED BY <1>1, <1>2, Invariance, PTL DEF Spec, ImplementsLifecycle, L!Spec
=============================================================================
