-------------------------- MODULE ConfirmationProofs --------------------------
(***************************************************************************)
(* Confirmations of PaymentOrders: an order completes only on a depth its  *)
(* transaction reached, and its count goes down only into review.          *)
(*                                                                         *)
(* Nothing locks a row between the listing of a follow-up and its write.   *)
(* The argument is that what a follow-up has in hand stays true: an order  *)
(* that is followed up has a transaction (JobsOK), a transaction once      *)
(* credited is never replaced (RowStep), and peaks only grow.              *)
(***************************************************************************)
EXTENDS PaymentOrdersProofs

\* A transaction is never deeper than its peak.
DepthOK == \A h \in Hashes : tx[h].depth <= tx[h].peak

\* A follow-up has an order with a transaction, and confirmations that were seen on it.
JobsOK ==
    \A c \in Confirmers, o \in Orders : job[c][o].stage # "none" =>
        /\ orders[o].tx # None
        /\ job[c][o].confs <= tx[orders[o].tx].peak
        /\ job[c][o].next = "completed" => job[c][o].confs >= Required[orders[o].scope]

ConfsInv == Inv /\ DepthOK /\ JobsOK /\ CompletedByChain

\* A row keeps the transaction it has, and the scope it has it on.
KeepsTransaction(r, q) == r.tx # None => q.tx = r.tx /\ q.scope = r.scope

LEMMA TransactionsKept ==
    ASSUME Inv, [Next]_vars
    PROVE  \A o \in Orders : KeepsTransaction(orders[o], orders'[o])
  BY NextRows DEF RowStep, KeepsTransaction, MovesUncredited, Resolves, Matches, Confirms, SameCredit

-----------------------------------------------------------------------------
(***************************************************************************)
(* The steps that leave counts alone.                                      *)
(***************************************************************************)
\* The row keeps its count, or starts from none, and does not become completed.
CountKept(r, q) ==
    /\ q.confs = r.confs \/ (r.tx = None /\ q.confs = 0)
    /\ q.status = "completed" => r.status = "completed"

\* Peaks only grow.
LEMMA PeaksGrow ==
    ASSUME Inv, DepthOK, [Next]_vars
    PROVE  DepthOK' /\ \A h \in Hashes : tx'[h].peak >= tx[h].peak
<1>1. /\ tx \in [Hashes -> Transaction]
      /\ \A h \in Hashes : tx[h].depth \in Nat /\ tx[h].peak \in Nat
  BY TimeAssumption DEF Inv, TypeOK, TimeAssumption, Transaction
<1>2. ASSUME NEW h \in Hashes, Deepen(h)
      PROVE  DepthOK' /\ \A g \in Hashes : tx'[g].peak >= tx[g].peak
  <2> DEFINE new == [tx[h] EXCEPT !.depth = tx[h].depth + 1,
                                  !.peak = Deepest(tx[h].peak, tx[h].depth + 1)]
  <2>1. tx' = [tx EXCEPT ![h] = new]
    BY <1>1, <1>2 DEF Deepen, Transaction
  <2>2. new.depth <= new.peak /\ new.peak >= tx[h].peak
    <3>1. tx[h] \in Transaction
      BY <1>1
    <3>2. new.depth = tx[h].depth + 1 /\ new.peak = Deepest(tx[h].peak, tx[h].depth + 1)
      BY <3>1 DEF Transaction
    <3> QED BY <1>1, <3>2 DEF Deepest
  <2> HIDE DEF new
  <2> QED BY <1>1, <2>1, <2>2 DEF DepthOK
<1>3. ASSUME NEW h \in Hashes, Reorganise(h)
      PROVE  DepthOK' /\ \A g \in Hashes : tx'[g].peak >= tx[g].peak
  <2>1. PICK state \in {"mined", "failed", "gone"}, d \in 0..MaxDepth :
           /\ IF state = "mined" THEN d < tx[h].depth ELSE d = 0
           /\ tx' = [tx EXCEPT ![h].state = state, ![h].depth = d, ![h].reorgs = @ + 1]
    BY <1>3 DEF Reorganise
  <2>2. d <= tx[h].depth
    BY <1>1, <2>1
  <2>3. /\ tx'[h].depth = d /\ tx'[h].peak = tx[h].peak
        /\ \A g \in Hashes : g # h => tx'[g] = tx[g]
    BY <1>1, <2>1 DEF Transaction
  <2>4. d <= tx[h].peak
    BY <1>1, <2>1, <2>2 DEF DepthOK
  <2> QED BY <1>1, <2>3, <2>4 DEF DepthOK
<1>4. ASSUME NEW h \in Hashes, Mine(h)
      PROVE  DepthOK' /\ \A g \in Hashes : tx'[g].peak >= tx[g].peak
  <2>1. \A g \in Hashes : tx'[g].depth = tx[g].depth /\ tx'[g].peak = tx[g].peak
    BY <1>1, <1>4 DEF Mine, Transaction
  <2> QED BY <1>1, <2>1 DEF DepthOK
<1>5. CASE UNCHANGED tx
  BY <1>1, <1>5 DEF DepthOK
<1>6. CASE Api \/ UNCHANGED vars \/ Tick
  <2>1. UNCHANGED tx
    BY <1>6 DEF Api, CreateOrder, RequoteOrder, CancelOrder, ResolveAnomaly, ExpireDue, Tick,
       vars, chainVars
  <2> QED BY <2>1, <1>5
<1>7. CASE Watcher
  <2>1. ASSUME NEW s \in Scopes, ScopeRun(s) PROVE UNCHANGED tx
    BY <2>1 DEF ScopeRun, ListScope, PollScope, SkipTransfer, SelectRows, ApplyMatch,
       EndMatching, EndScope, chainVars
  <2>2. ASSUME NEW c \in Confirmers, NEW o \in Orders, FollowUp(c, o) PROVE UNCHANGED tx
    BY <2>2 DEF FollowUp, ObserveTruth, ObserveGlitch, Observe, SelectConfirmation,
       WriteConfirmation, chainVars
  <2>3. ASSUME (\E o \in Orders : StreakAges(o)) \/ StartPriority \/ CrashWatcher
        PROVE  UNCHANGED tx
    BY <2>3 DEF StreakAges, StartPriority, CrashWatcher, chainVars
  <2> QED BY <1>5, <1>7, <2>1, <2>2, <2>3 DEF Watcher
<1> QED BY <1>2, <1>3, <1>4, <1>6, <1>7 DEF Next, Chain

LEMMA ConfsFrame ==
    ASSUME ConfsInv, Inv', DepthOK', \A h \in Hashes : tx'[h].peak >= tx[h].peak,
           \A o \in Orders : KeepsTransaction(orders[o], orders'[o]),
           \A o \in Orders : CountKept(orders[o], orders'[o])
    PROVE  /\ CompletedByChain'
           /\ job' = job => JobsOK'
<1>1. \A h \in Hashes : tx[h].peak \in Nat /\ tx'[h].peak \in Nat
  BY TimeAssumption DEF ConfsInv, Inv, TypeOK, TimeAssumption, Transaction
<1>2. \A o \in Orders : /\ orders[o].confs \in Nat
                        /\ orders[o].tx # None => /\ orders[o].tx \in Hashes
                                                  /\ orders[o].scope \in Scopes
  BY DEF ConfsInv, Inv, TypeOK, RowsOK, Row
<1>3. \A s \in Scopes : Required[s] \in Nat
  BY ConstantFacts
<1>4. CompletedByChain'
  <2> SUFFICES ASSUME NEW o \in Orders
               PROVE  /\ orders'[o].confs > 0 =>
                            /\ orders'[o].tx # None
                            /\ orders'[o].confs <= tx'[orders'[o].tx].peak
                      /\ orders'[o].status = "completed" =>
                            /\ orders'[o].tx # None
                            /\ orders'[o].confs >= Required[orders'[o].scope]
    BY DEF CompletedByChain
  <2>1. CASE orders[o].tx = None
    <3>1. orders[o].confs = 0 /\ orders[o].status # "completed"
      BY <1>2, <2>1 DEF ConfsInv, CompletedByChain
    <3> QED BY <3>1 DEF CountKept
  <2>2. CASE orders[o].tx # None
    <3>1. /\ orders'[o].tx = orders[o].tx /\ orders'[o].scope = orders[o].scope
          /\ orders'[o].confs = orders[o].confs
          /\ orders'[o].status = "completed" => orders[o].status = "completed"
      BY <2>2 DEF KeepsTransaction, CountKept
    <3> QED BY <1>1, <1>2, <2>2, <3>1 DEF ConfsInv, CompletedByChain
  <2> QED BY <2>1, <2>2
<1>5. ASSUME job' = job PROVE JobsOK'
  <2> SUFFICES ASSUME NEW c \in Confirmers, NEW o \in Orders, job[c][o].stage # "none"
               PROVE  /\ orders'[o].tx # None
                      /\ job[c][o].confs <= tx'[orders'[o].tx].peak
                      /\ job[c][o].next = "completed" =>
                            job[c][o].confs >= Required[orders'[o].scope]
    BY <1>5 DEF JobsOK
  <2>1. orders[o].tx # None /\ job[c][o].confs \in Nat
    BY DEF ConfsInv, JobsOK, Inv, TypeOK, Job
  <2> QED BY <1>1, <1>2, <2>1 DEF ConfsInv, JobsOK, KeepsTransaction
<1> QED BY <1>4, <1>5

LEMMA ApiCounts == ASSUME ConfsInv, Api, NEW o \in Orders PROVE CountKept(orders[o], orders'[o])
<1>1. /\ orders \in [Orders -> Row]
      /\ \A p \in Orders : orders[p].status = "absent" => orders[p].tx = None
  BY DEF ConfsInv, Inv, TypeOK, RowsOK
<1>2. ASSUME NEW p \in Orders, NEW mode \in Modes, NEW s \in Scopes, NEW q \in Quotes,
             CreateOrder(p, mode, s, q)
      PROVE  CountKept(orders[o], orders'[o])
  <2>1. /\ orders[p].tx = None
        /\ orders'[p].confs = 0 /\ orders'[p].status = "pending_payment"
        /\ p # o => orders'[o] = orders[o]
    BY <1>1, <1>2 DEF CreateOrder, NullRow
  <2> QED BY <2>1 DEF CountKept
<1>3. ASSUME NEW p \in Orders, NEW mode \in Modes, NEW s \in Scopes, NEW q \in Quotes,
             RequoteOrder(p, mode, s, q)
      PROVE  CountKept(orders[o], orders'[o])
  <2>0. Requoting(p, mode, s)
    BY <1>3, Requoted
  <2>1. PICK w, payable, memo :
           orders' = [orders EXCEPT ![p] =
               [@ EXCEPT !.mode = mode, !.scope = s, !.addr = w,
                         !.payable = payable, !.memo = memo, !.expires = now + Validity]]
    BY <2>0 DEF Requoting
  <2>2. /\ orders'[p].confs = orders[p].confs /\ orders'[p].status = orders[p].status
        /\ p # o => orders'[o] = orders[o]
    BY <1>1, <2>1 DEF Row
  <2> QED BY <2>2 DEF CountKept
<1>4. ASSUME NEW p \in Orders, CancelOrder(p) \/ ResolveAnomaly(p)
      PROVE  CountKept(orders[o], orders'[o])
  <2>1. /\ orders'[p].confs = orders[p].confs /\ orders'[p].status = "cancelled"
        /\ p # o => orders'[o] = orders[o]
    BY <1>1, <1>4 DEF CancelOrder, ResolveAnomaly, Row
  <2> QED BY <2>1 DEF CountKept
<1>5. CASE ExpireDue
  <2>1. \/ orders'[o] = orders[o]
        \/ orders'[o].confs = orders[o].confs /\ orders'[o].status = "expired"
    BY <1>1, <1>5 DEF ExpireDue, Row
  <2> QED BY <2>1 DEF CountKept
<1> QED BY <1>2, <1>3, <1>4, <1>5 DEF Api

LEMMA ApplyMatchCounts ==
    ASSUME ConfsInv, NEW s \in Scopes, ApplyMatch(s), NEW o \in Orders
    PROVE  CountKept(orders[o], orders'[o])
<1> DEFINE hit == run[s].hit
<1>1. \/ orders'[o] = orders[o]
      \/ MatchApplies(o, hit) /\ orders'[o] = MatchedRow(o, hit)
  BY DEF ApplyMatch
<1>2. ASSUME MatchApplies(o, hit)
      PROVE  /\ MatchedRow(o, hit).confs = orders[o].confs
             /\ MatchedRow(o, hit).status # "completed"
  <2>1. MatchedRow(o, hit).status \in {"verifying", "payment_anomaly"}
    BY <1>2, MatchedRowType DEF ApplyMatch, ConfsInv
  <2>2. orders[o] \in Row
    BY DEF ConfsInv, Inv, TypeOK
  <2> QED BY <2>1, <2>2 DEF MatchedRow, Row
<1> QED BY <1>1, <1>2 DEF CountKept

-----------------------------------------------------------------------------
(***************************************************************************)
(* The steps of a follow-up.                                               *)
(***************************************************************************)
\* A follow-up listed from the table has in hand what the table says.
ListedFrom(c, S) ==
    /\ job' = [job EXCEPT ![c] = [o \in Orders |-> IF o \in S THEN ListedJob(o) ELSE NoJob]]
    /\ \A o \in S : orders[o].tx # None
    /\ UNCHANGED <<orders, tx>>

LEMMA ListedJobsOK ==
    ASSUME ConfsInv, NEW c \in Confirmers, NEW S, ListedFrom(c, S)
    PROVE  JobsOK'
<1>1. job \in [Confirmers -> [Orders -> Job]]
  BY DEF ConfsInv, Inv, TypeOK
<1> SUFFICES ASSUME NEW d \in Confirmers, NEW o \in Orders, job'[d][o].stage # "none"
             PROVE  /\ orders[o].tx # None
                    /\ job'[d][o].confs <= tx[orders[o].tx].peak
                    /\ job'[d][o].next = "completed" =>
                          job'[d][o].confs >= Required[orders[o].scope]
  BY DEF JobsOK, ListedFrom
<1>2. CASE d # c
  BY <1>1, <1>2 DEF ListedFrom, ConfsInv, JobsOK
<1>3. CASE d = c
  <2>1. job'[c][o] = IF o \in S THEN ListedJob(o) ELSE NoJob
    BY <1>1 DEF ListedFrom
  <2>2. o \in S /\ job'[c][o] = ListedJob(o)
    BY <1>3, <2>1 DEF NoJob
  <2>3. orders[o].tx # None /\ orders[o].confs \in Nat
    BY <2>2 DEF ListedFrom, ConfsInv, Inv, TypeOK, Row
  <2>4. tx[orders[o].tx].peak \in Nat
    BY <2>3, TimeAssumption DEF ConfsInv, Inv, TypeOK, TimeAssumption, Row, Transaction
  <2>5. orders[o].confs <= tx[orders[o].tx].peak
    BY <2>3, <2>4 DEF ConfsInv, CompletedByChain
  <2> QED BY <1>3, <2>2, <2>3, <2>5 DEF ListedJob
<1> QED BY <1>2, <1>3

\* One follow-up of one order changes, to something that was seen on the chain.
LEMMA OneJobOK ==
    ASSUME ConfsInv, NEW c \in Confirmers, NEW o \in Orders, NEW new,
           job' = [job EXCEPT ![c][o] = new],
           UNCHANGED <<orders, tx>>,
           new.stage # "none" =>
              /\ orders[o].tx # None
              /\ new.confs <= tx[orders[o].tx].peak
              /\ new.next = "completed" => new.confs >= Required[orders[o].scope]
    PROVE  JobsOK'
<1>1. job \in [Confirmers -> [Orders -> Job]]
  BY DEF ConfsInv, Inv, TypeOK
<1>2. \A d \in Confirmers, p \in Orders :
         job'[d][p] = IF d = c /\ p = o THEN new ELSE job[d][p]
  BY <1>1
<1> QED BY <1>2 DEF ConfsInv, JobsOK

LEMMA ObserveOK ==
    ASSUME ConfsInv, NEW c \in Confirmers, NEW o \in Orders, orders[o].tx # None,
           NEW presence \in {"failed", "missing", "confirmed", "unknown"},
           NEW chain \in Nat, chain <= tx[orders[o].tx].peak,
           Observe(c, o, presence, chain)
    PROVE  JobsOK'
<1>1. PICK stored, count, old :
         /\ stored \in Nat
         /\ job' = [job EXCEPT ![c][o] = Evaluate(o, stored, presence, chain, count, old)]
  <2>1. job[c][o].confs \in Nat
    BY DEF ConfsInv, Inv, TypeOK, Job
  <2>2. PICK count, old :
           job' = [job EXCEPT ![c][o] =
                      Evaluate(o, job[c][o].confs, presence, chain, count, old)]
    BY Zenon DEF Observe
  <2> QED BY <2>1, <2>2, Zenon
<1> DEFINE new == Evaluate(o, stored, presence, chain, count, old)
           required == Required[orders[o].scope]
<1>2. /\ orders[o].scope \in Scopes /\ required \in Nat
      /\ tx[orders[o].tx].peak \in Nat /\ DropMin \in Nat
  BY ConstantFacts, TimeAssumption
     DEF ConfsInv, Inv, TypeOK, RowsOK, TimeAssumption, Row, Transaction
<1>3. \/ new \in {NoJob, Follow(0, "payment_anomaly"), Follow(chain, "payment_anomaly"),
                  Follow(chain, "none")}
      \/ new = Follow(chain, "completed") /\ chain >= required
  <2>1. CASE presence # "confirmed"
    BY <2>1 DEF Evaluate
  <2>2. CASE presence = "confirmed" /\ stored - chain >= DropMin
    BY <2>2 DEF Evaluate
  <2>3. CASE presence = "confirmed" /\ stored - chain < DropMin
    <3>1. ~(stored - chain >= DropMin)
      BY <1>1, <1>2, <2>3
    <3>2. new = IF chain >= required THEN Follow(chain, "completed") ELSE Follow(chain, "none")
      BY <2>3, <3>1, Zenon DEF Evaluate, DeepEnough
    <3> HIDE DEF new, required
    <3> QED BY <1>2, <3>2
  <2> QED BY <1>1, <1>2, <2>1, <2>2, <2>3
<1> HIDE DEF new, required
<1>4. new.stage # "none" =>
         /\ new.confs <= tx[orders[o].tx].peak
         /\ new.next = "completed" => new.confs >= required
  BY <1>2, <1>3 DEF Follow, NoJob
<1>5. UNCHANGED <<orders, tx>>
  BY DEF Observe, chainVars
<1> QED BY <1>1, <1>4, <1>5, OneJobOK DEF new, required

LEMMA FollowUpOK ==
    ASSUME ConfsInv, Inv', NEW c \in Confirmers, NEW o \in Orders, FollowUp(c, o)
    PROVE  JobsOK' /\ CompletedByChain'
<1>1. /\ orders \in [Orders -> Row] /\ job \in [Confirmers -> [Orders -> Job]]
      /\ tx \in [Hashes -> Transaction]
  BY DEF ConfsInv, Inv, TypeOK
<1>2. ASSUME orders[o].tx # None
      PROVE  /\ orders[o].tx \in Hashes
             /\ tx[orders[o].tx].depth \in Nat /\ tx[orders[o].tx].peak \in Nat
             /\ tx[orders[o].tx].depth <= tx[orders[o].tx].peak
  BY <1>1, <1>2, TimeAssumption DEF ConfsInv, DepthOK, TimeAssumption, Row, Transaction
<1>3. CASE ObserveTruth(c, o) \/ ObserveGlitch(c, o)
  <2>1. PICK presence \in {"failed", "missing", "confirmed", "unknown"}, chain \in Nat :
           /\ orders[o].tx # None /\ chain <= tx[orders[o].tx].peak
           /\ Observe(c, o, presence, chain)
    <3>1. CASE ObserveTruth(c, o)
      <4>1. PICK presence \in {"failed", "missing", "confirmed"},
                 chain \in {0, tx[orders[o].tx].depth} :
               orders[o].tx # None /\ Observe(c, o, presence, chain)
        BY <3>1 DEF ObserveTruth
      <4>2. chain \in Nat /\ chain <= tx[orders[o].tx].peak
        BY <1>2, <4>1
      <4> QED BY <4>1, <4>2
    <3>2. CASE ObserveGlitch(c, o)
      <4>1. orders[o].tx # None
        BY <3>2 DEF ObserveGlitch
      <4>2. ASSUME NEW presence \in {"missing", "unknown"}, Observe(c, o, presence, 0)
            PROVE  0 \in Nat /\ 0 <= tx[orders[o].tx].peak
        BY <1>2, <4>1
      <4>3. ASSUME NEW depth \in 0..MaxDepth, depth < tx[orders[o].tx].depth
            PROVE  depth \in Nat /\ depth <= tx[orders[o].tx].peak
        BY <1>2, <4>1, <4>3, TimeAssumption DEF TimeAssumption
      <4> QED BY <3>2, <4>1, <4>2, <4>3 DEF ObserveGlitch
    <3> QED BY <1>3, <3>1, <3>2
  <2>2. JobsOK'
    BY <2>1, ObserveOK
  <2>3. CompletedByChain'
    BY <2>1 DEF Observe, ConfsInv, CompletedByChain, chainVars
  <2> QED BY <2>2, <2>3
<1>4. CASE SelectConfirmation(c, o)
  <2>1. PICK new \in {NoJob, [job[c][o] EXCEPT !.stage = "selected"]} :
           job' = [job EXCEPT ![c][o] = new]
    BY <1>1, <1>4 DEF SelectConfirmation
  <2>2. new.stage # "none" =>
           /\ orders[o].tx # None
           /\ new.confs <= tx[orders[o].tx].peak
           /\ new.next = "completed" => new.confs >= Required[orders[o].scope]
    BY <1>1, <1>4, <2>1 DEF SelectConfirmation, ConfsInv, JobsOK, NoJob, Job
  <2>3. UNCHANGED <<orders, tx>>
    BY <1>4 DEF SelectConfirmation, chainVars
  <2>4. JobsOK'
    BY <2>1, <2>2, <2>3, OneJobOK
  <2> QED BY <2>3, <2>4 DEF ConfsInv, CompletedByChain
<1>5. CASE WriteConfirmation(c, o)
  <2> DEFINE row == orders[o]
             j == job[c][o]
             new == IF ConfirmationApplies(o) THEN ConfirmedRow(row, j) ELSE row
  <2>1. /\ orders' = [orders EXCEPT ![o] = new]
        /\ job' = [job EXCEPT ![c][o] = NoJob]
        /\ UNCHANGED tx
    BY <1>5 DEF WriteConfirmation, chainVars
  <2>2. /\ row.tx # None /\ j.confs <= tx[row.tx].peak
        /\ j.next = "completed" => j.confs >= Required[row.scope]
        /\ row \in Row /\ j \in Job
    BY <1>1, <1>5 DEF WriteConfirmation, ConfsInv, JobsOK
  <2>3. /\ row.confs \in Nat /\ j.confs \in Nat /\ tx[row.tx].peak \in Nat
        /\ row.confs <= tx[row.tx].peak
        /\ row.status = "completed" => row.confs >= Required[row.scope]
        /\ Required[row.scope] \in Nat
    <3>1. row.confs \in Nat /\ j.confs \in Nat /\ tx[row.tx].peak \in Nat
      BY <1>2, <2>2 DEF Row, Job
    <3>2. row.scope \in Scopes
      BY <2>2 DEF ConfsInv, Inv, RowsOK
    <3> QED BY <2>2, <3>1, <3>2, ConstantFacts DEF ConfsInv, CompletedByChain
  <2>4. /\ ConfirmedRow(row, j).tx = row.tx /\ ConfirmedRow(row, j).scope = row.scope
        /\ ConfirmedRow(row, j).confs \in {j.confs, Deepest(row.confs, j.confs)}
        /\ ConfirmedRow(row, j).status = "completed" =>
              \/ row.status = "completed"
              \/ j.next = "completed" /\ ConfirmedRow(row, j).confs = Deepest(row.confs, j.confs)
    BY <2>2 DEF ConfirmedRow, Row, Job
  <2>5. ConfirmationApplies(o) => row.status = "verifying"
    BY DEF ConfirmationApplies, ConfirmStatuses
  <2>6. /\ new.tx = row.tx /\ new.scope = row.scope
        /\ new.confs <= tx[row.tx].peak
        /\ new.status = "completed" => new.confs >= Required[row.scope]
    <3>1. Deepest(row.confs, j.confs) <= tx[row.tx].peak
      BY <2>2, <2>3 DEF Deepest
    <3>2. j.next = "completed" => Deepest(row.confs, j.confs) >= Required[row.scope]
      BY <2>2, <2>3 DEF Deepest
    <3>3. row.status = "completed" => ~ConfirmationApplies(o)
      BY <2>5
    <3> HIDE DEF row, j
    <3> QED BY <2>2, <2>3, <2>4, <3>1, <3>2, <3>3
  <2> HIDE DEF new
  <2>7. \A p \in Orders : orders'[p] = IF p = o THEN new ELSE orders[p]
    BY <1>1, <2>1
  <2>8. CompletedByChain'
    BY <2>1, <2>2, <2>6, <2>7 DEF ConfsInv, CompletedByChain
  <2>9. \A d \in Confirmers, p \in Orders :
           job'[d][p] = IF d = c /\ p = o THEN NoJob ELSE job[d][p]
    BY <1>1, <2>1
  <2>10. JobsOK'
    BY <2>1, <2>6, <2>7, <2>9 DEF ConfsInv, JobsOK, NoJob
  <2> QED BY <2>8, <2>10
<1> QED BY <1>3, <1>4, <1>5 DEF FollowUp

-----------------------------------------------------------------------------
(***************************************************************************)
(* All steps.                                                              *)
(***************************************************************************)
\* Only the write of a follow-up counts confirmations.
LEMMA OtherCounts ==
    ASSUME ConfsInv, [Next]_vars, NEW o \in Orders,
           ~ \E c \in Confirmers, p \in Orders : FollowUp(c, p)
    PROVE  CountKept(orders[o], orders'[o])
<1>1. CASE Api
  BY <1>1, ApiCounts
<1>2. CASE \E s \in Scopes : ApplyMatch(s)
  BY <1>2, ApplyMatchCounts
<1>3. CASE ~Api /\ ~ \E s \in Scopes : ApplyMatch(s)
  <2>1. ASSUME Chain \/ UNCHANGED vars PROVE UNCHANGED orders
    BY <2>1 DEF Chain, Mine, Deepen, Reorganise, Tick, vars
  <2>2. ASSUME NEW s \in Scopes, ScopeRun(s) PROVE UNCHANGED orders
    BY <1>3, <2>2 DEF ScopeRun, ListScope, PollScope, SkipTransfer, SelectRows, EndMatching,
       EndScope
  <2>3. ASSUME (\E p \in Orders : StreakAges(p)) \/ StartPriority \/ CrashWatcher
        PROVE  UNCHANGED orders
    BY <2>3 DEF StreakAges, StartPriority, CrashWatcher
  <2> QED BY <1>3, <2>1, <2>2, <2>3 DEF Next, Watcher, CountKept
<1> QED BY <1>1, <1>2, <1>3

\* A follow-up that is started was listed from the table; the others go on or are forgotten.
LEMMA OtherJobs ==
    ASSUME ConfsInv, [Next]_vars,
           ~ \E c \in Confirmers, o \in Orders : FollowUp(c, o)
    PROVE  \/ job' = job
           \/ \E c \in Confirmers, S \in SUBSET Orders : ListedFrom(c, S)
           \/ CrashWatcher
<1>1. ASSUME NEW s \in Scopes, EndMatching(s)
      PROVE  job' = job \/ \E c \in Confirmers, S \in SUBSET Orders : ListedFrom(c, S)
  <2> DEFINE mine == {o \in Orders : /\ AwaitingConfirmation(o)
                                     /\ orders[o].scope = s
                                     /\ orders[o].tx \in run[s].fresh}
  <2>1. CASE job' = [job EXCEPT ![s] = [o \in Orders |-> IF o \in mine THEN ListedJob(o)
                                                         ELSE NoJob]]
    <3>1. (\A o \in mine : orders[o].tx # None) /\ mine \in SUBSET Orders
      BY DEF AwaitingConfirmation
    <3>2. UNCHANGED <<orders, tx>>
      BY <1>1 DEF EndMatching, chainVars
    <3> HIDE DEF mine
    <3>3. ListedFrom(s, mine)
      BY <2>1, <3>1, <3>2 DEF ListedFrom
    <3> QED BY <3>1, <3>3, ConstantFacts
  <2> QED BY <1>1, <2>1 DEF EndMatching
<1>2. ASSUME StartPriority
      PROVE  \E c \in Confirmers, S \in SUBSET Orders : ListedFrom(c, S)
  <2> DEFINE awaiting == {o \in Orders : AwaitingConfirmation(o)}
  <2>1. (\A o \in awaiting : orders[o].tx # None) /\ awaiting \in SUBSET Orders
    BY DEF AwaitingConfirmation
  <2>2. [o \in Orders |-> IF AwaitingConfirmation(o) THEN ListedJob(o) ELSE NoJob]
           = [o \in Orders |-> IF o \in awaiting THEN ListedJob(o) ELSE NoJob]
    OBVIOUS
  <2>3. job' = [job EXCEPT ![Priority] = [o \in Orders |-> IF o \in awaiting
                                                           THEN ListedJob(o) ELSE NoJob]]
    BY <1>2, <2>2 DEF StartPriority
  <2>4. UNCHANGED <<orders, tx>>
    BY <1>2 DEF StartPriority, chainVars
  <2> HIDE DEF awaiting
  <2>5. ListedFrom(Priority, awaiting)
    BY <2>1, <2>3, <2>4 DEF ListedFrom
  <2> QED BY <2>1, <2>5, ConstantFacts
<1>3. CASE Api \/ Chain \/ UNCHANGED vars \/ \E o \in Orders : StreakAges(o)
  BY <1>3 DEF Api, CreateOrder, RequoteOrder, CancelOrder, ResolveAnomaly, ExpireDue, Chain,
     Mine, Deepen, Reorganise, Tick, StreakAges, watcherVars, vars
<1>4. ASSUME NEW s \in Scopes, ScopeRun(s), ~EndMatching(s) PROVE job' = job
  BY <1>4 DEF ScopeRun, ListScope, PollScope, SkipTransfer, SelectRows, ApplyMatch, EndScope
<1> QED BY <1>1, <1>2, <1>3, <1>4 DEF Next, Watcher

LEMMA ConfsNext == ConfsInv /\ [Next]_vars => ConfsInv'
<1> SUFFICES ASSUME ConfsInv, [Next]_vars PROVE ConfsInv'
  OBVIOUS
<1>1. Inv'
  BY NextInv DEF ConfsInv
<1>2. DepthOK' /\ \A h \in Hashes : tx'[h].peak >= tx[h].peak
  BY PeaksGrow DEF ConfsInv
<1>3. ASSUME NEW c \in Confirmers, NEW o \in Orders, FollowUp(c, o)
      PROVE  JobsOK' /\ CompletedByChain'
  BY <1>1, <1>3, FollowUpOK
<1>4. CASE ~ \E c \in Confirmers, o \in Orders : FollowUp(c, o)
  <2>1. \A o \in Orders : KeepsTransaction(orders[o], orders'[o])
    BY TransactionsKept DEF ConfsInv
  <2>2. \A o \in Orders : CountKept(orders[o], orders'[o])
    BY <1>4, OtherCounts
  <2>3. CompletedByChain' /\ (job' = job => JobsOK')
    BY <1>1, <1>2, <2>1, <2>2, ConfsFrame
  <2>4. ASSUME NEW c \in Confirmers, NEW S \in SUBSET Orders, ListedFrom(c, S)
        PROVE  JobsOK'
    BY <2>4, ListedJobsOK
  <2>5. ASSUME CrashWatcher PROVE JobsOK'
    BY <2>5 DEF CrashWatcher, JobsOK, NoJob
  <2> QED BY <1>1, <1>2, <1>4, <2>3, <2>4, <2>5, OtherJobs DEF ConfsInv
<1> QED BY <1>1, <1>2, <1>3, <1>4 DEF ConfsInv

LEMMA ConfsInit == Init => ConfsInv
<1> SUFFICES ASSUME Init PROVE ConfsInv
  OBVIOUS
<1>1. Inv
  BY InitInv
<1>2. DepthOK /\ JobsOK /\ CompletedByChain
  BY DEF Init, DepthOK, JobsOK, CompletedByChain, NoJob, NullRow
<1> QED BY <1>1, <1>2 DEF ConfsInv

\* A count that goes down goes to review with its order.
LEMMA CountsNext ==
    ASSUME ConfsInv, [Next]_vars, NEW o \in Orders, orders'[o].confs < orders[o].confs
    PROVE  orders[o].status = "verifying" /\ orders'[o].status = "payment_anomaly"
<1>1. orders \in [Orders -> Row] /\ orders[o].confs \in Nat
  BY DEF ConfsInv, Inv, TypeOK, Row
<1>2. CASE CountKept(orders[o], orders'[o])
  <2>1. orders[o].tx = None => orders[o].confs = 0
    BY <1>1 DEF ConfsInv, CompletedByChain
  <2> QED BY <1>1, <1>2, <2>1 DEF CountKept
<1>3. ASSUME NEW c \in Confirmers, NEW p \in Orders, FollowUp(c, p)
      PROVE  orders[o].status = "verifying" /\ orders'[o].status = "payment_anomaly"
  <2> DEFINE row == orders[o]
             j == job[c][o]
  <2>1. orders'[o] = orders[o] \/ (/\ ConfirmationApplies(o)
                                   /\ orders'[o] = ConfirmedRow(row, j))
    <3>1. CASE WriteConfirmation(c, p)
      BY <1>1, <3>1 DEF WriteConfirmation
    <3>2. CASE ~WriteConfirmation(c, p)
      BY <1>3, <3>2 DEF FollowUp, ObserveTruth, ObserveGlitch, Observe, SelectConfirmation
    <3> QED BY <3>1, <3>2
  <2>2. orders'[o] # orders[o]
    BY <1>1
  <2>3. row.status = "verifying"
    BY <2>1, <2>2 DEF ConfirmationApplies, ConfirmStatuses
  <2>4. row \in Row /\ j \in Job /\ row.confs \in Nat /\ j.confs \in Nat
    BY <1>1 DEF ConfsInv, Inv, TypeOK, Job
  <2>5. \/ ConfirmedRow(row, j).status = "payment_anomaly"
        \/ ConfirmedRow(row, j).confs = Deepest(row.confs, j.confs)
    BY <2>4 DEF ConfirmedRow, Row, Job
  <2>6. Deepest(row.confs, j.confs) >= row.confs
    BY <2>4 DEF Deepest
  <2>7. ConfirmedRow(row, j).confs < row.confs
    BY <2>1, <2>2
  <2> HIDE DEF row, j
  <2>8. ConfirmedRow(row, j).status = "payment_anomaly"
    BY <2>4, <2>5, <2>6, <2>7 DEF Deepest
  <2> QED BY <2>1, <2>2, <2>3, <2>8 DEF row
<1> QED BY <1>2, <1>3, OtherCounts

-----------------------------------------------------------------------------
(***************************************************************************)
(* The theorems.                                                           *)
(***************************************************************************)
LEMMA ConfsInvariance == Spec => []ConfsInv
<1> QED BY ConfsInit, ConfsNext, PTL DEF Spec

\* No order completes, and no count is recorded, beyond what its transaction reached on the
\* chain, however many follow-ups of it overlap and whatever nodes answered them.
THEOREM ConfirmationsAreReal == Spec => []CompletedByChain
<1>1. ConfsInv => CompletedByChain
  BY DEF ConfsInv
<1> QED BY <1>1, ConfsInvariance, PTL

\* Follow-ups that finish out of order never rewind a count.
THEOREM CountsNeverRewind == Spec => ConfirmationsGrow
<1>1. ConfsInv /\ [Next]_vars =>
         [\A o \in Orders : orders'[o].confs < orders[o].confs =>
             orders[o].status = "verifying" /\ orders'[o].status = "payment_anomaly"]_vars
  BY CountsNext
<1> QED BY <1>1, ConfsInvariance, PTL DEF Spec, ConfirmationsGrow
=============================================================================
