----------------------- MODULE WebhookDeliveryProofs -----------------------
(***************************************************************************)
(* However many processes drain the outbox and post, wherever they die and *)
(* however late they record what they heard: an event is queued once for   *)
(* an endpoint, an outcome stands, and no delivery is given up on before   *)
(* its whole schedule was posted.  Nothing is assumed of the lease.        *)
(***************************************************************************)
EXTENDS WebhookDelivery, FiniteSetTheorems, SequenceTheorems, TLAPS

LEMMA Constants ==
    /\ Lease \in Nat /\ PostTime \in Nat /\ PostTime > 0
    /\ Delays \in Seq(Nat) /\ Len(Delays) \in Nat /\ DOMAIN Delays = 1..Len(Delays)
    /\ MaxAttempts = Len(Delays) + 1 /\ MaxAttempts \in Nat
    /\ MaxResends \in Nat /\ MaxCrashes \in Nat
    /\ \A n \in 1..Len(Delays) : Delays[n] \in Nat
  BY WebhookAssumption, LenProperties, ElementOfSeq DEF WebhookAssumption, MaxAttempts

-----------------------------------------------------------------------------
(* A delivery moves on, and never back.                                    *)

LEMMA DeliveriesAreSequence ==
    ASSUME TypeOK
    PROVE  /\ deliveries \in [1..Len(deliveries) -> Row]
           /\ Len(deliveries) \in Nat /\ DOMAIN deliveries = 1..Len(deliveries)
           /\ \A d \in DOMAIN deliveries : d \in Nat /\ deliveries[d] \in Row
  BY LenProperties, ElementOfSeq DEF TypeOK

Evolves(old, new) ==
    /\ new.hook = old.hook /\ new.event = old.event /\ new.resend = old.resend
    /\ new.tries >= old.tries
    /\ new.attempt >= old.attempt
    /\ old.status # "pending" => new.status = old.status

\* Every delivery of the state before is one of the state after, and may have moved on.
Onward ==
    /\ deliveries' \in Seq(Row)
    /\ DOMAIN deliveries \subseteq DOMAIN deliveries'
    /\ \A d \in DOMAIN deliveries : Evolves(deliveries[d], deliveries'[d])

\* No delivery is new.
NoneAdded == DOMAIN deliveries' = DOMAIN deliveries

LEMMA RowEvolves == \A r \in Row : Evolves(r, r)
  BY Constants DEF Row, Evolves

\* A step that rewrites rows one by one.
LEMMA Rewriting ==
    ASSUME TypeOK,
           DOMAIN deliveries' = DOMAIN deliveries,
           deliveries' = [d \in DOMAIN deliveries |-> deliveries'[d]],
           \A d \in DOMAIN deliveries :
              deliveries'[d] \in Row /\ Evolves(deliveries[d], deliveries'[d])
    PROVE  Onward /\ NoneAdded
<1>1. deliveries' \in [1..Len(deliveries) -> Row]
  BY DeliveriesAreSequence
<1>2. deliveries' \in Seq(Row)
  BY <1>1, DeliveriesAreSequence, SeqDef
<1> QED BY <1>2 DEF Onward, NoneAdded

LEMMA Unmoved == TypeOK /\ UNCHANGED deliveries => Onward /\ NoneAdded
<1> SUFFICES ASSUME TypeOK, UNCHANGED deliveries PROVE Onward /\ NoneAdded
  OBVIOUS
<1>1. \A d \in DOMAIN deliveries : Evolves(deliveries[d], deliveries[d])
  BY DeliveriesAreSequence, RowEvolves
<1> QED BY <1>1 DEF TypeOK, Onward, NoneAdded

\* A step that rewrites one row.
LEMMA RewritingOne ==
    ASSUME TypeOK, NEW d \in DOMAIN deliveries, NEW new \in Row,
           Evolves(deliveries[d], new),
           deliveries' = [deliveries EXCEPT ![d] = new]
    PROVE  Onward /\ NoneAdded
<1>1. DOMAIN deliveries' = DOMAIN deliveries
  OBVIOUS
<1>2. \A f \in DOMAIN deliveries :
         deliveries'[f] \in Row /\ Evolves(deliveries[f], deliveries'[f])
  BY DeliveriesAreSequence, RowEvolves
<1>3. deliveries' = [f \in DOMAIN deliveries |-> deliveries'[f]]
  OBVIOUS
<1> QED BY <1>1, <1>2, <1>3, Rewriting

(* The fields that a step rewrites, and what the others keep.              *)

LEMMA RetypedRow ==
    ASSUME NEW row \in Row, NEW status \in {"pending", "success", "failed"},
           NEW attempt \in 1..MaxAttempts, NEW wait \in Nat
    PROVE  [row EXCEPT !.status = status, !.attempt = attempt, !.wait = wait] \in Row
  BY DEF Row

LEMMA TriedRow ==
    ASSUME NEW row \in Row
    PROVE  LET new == [row EXCEPT !.tries = @ + 1]
           IN  new \in Row /\ Evolves(row, new) /\ new.tries = row.tries + 1
<1> DEFINE tries == row.tries + 1
           new == [row EXCEPT !.tries = tries]
<1>1. tries \in Nat /\ tries >= row.tries
  BY DEF Row
<1> HIDE DEF tries
<1>2. new \in Row
  BY <1>1 DEF Row
<1>3. Evolves(row, new) /\ new.tries = tries
  BY <1>1, Constants DEF Row, Evolves
<1> QED BY <1>2, <1>3 DEF tries

LEMMA AcceptedRow ==
    ASSUME NEW row \in Row, NEW accepted \in BOOLEAN
    PROVE  LET new == [row EXCEPT !.accepted = @ \/ accepted]
           IN  /\ new \in Row /\ Evolves(row, new)
               /\ new.status = row.status /\ new.attempt = row.attempt
<1> DEFINE known == row.accepted \/ accepted
           new == [row EXCEPT !.accepted = known]
<1>1. known \in BOOLEAN
  OBVIOUS
<1> HIDE DEF known
<1>2. new \in Row
  BY <1>1 DEF Row
<1>3. Evolves(row, new) /\ new.status = row.status /\ new.attempt = row.attempt
  BY Constants DEF Row, Evolves
<1> QED BY <1>2, <1>3 DEF known

LEMMA WaitingRow ==
    ASSUME NEW row \in Row, NEW wait \in Nat
    PROVE  LET new == [row EXCEPT !.wait = wait]
           IN  /\ new \in Row /\ Evolves(row, new)
               /\ new.status = row.status /\ new.attempt = row.attempt
<1> DEFINE new == [row EXCEPT !.wait = wait]
<1>1. new \in Row
  BY DEF Row
<1>2. Evolves(row, new) /\ new.status = row.status /\ new.attempt = row.attempt
  BY Constants DEF Row, Evolves
<1> QED BY <1>1, <1>2

LEMMA ClosedRow ==
    ASSUME NEW row \in Row, NEW status \in {"success", "failed"},
           NEW attempt \in 1..MaxAttempts, Records(row, attempt)
    PROVE  LET new == Close(row, status, attempt)
           IN  /\ new \in Row /\ Evolves(row, new)
               /\ new.status = status /\ new.tries = row.tries
<1> DEFINE new == [row EXCEPT !.status = status, !.attempt = attempt, !.wait = 0]
<1>1. new \in Row
  BY RetypedRow
<1>2. new.status = status /\ new.tries = row.tries
  BY DEF Row
<1>3. Evolves(row, new)
  BY Constants DEF Row, Evolves, Records
<1> QED BY <1>1, <1>2, <1>3 DEF Close

LEMMA RetriedRow ==
    ASSUME NEW row \in Row, NEW attempt \in 1..Len(Delays), NEW wait \in Nat,
           Records(row, attempt)
    PROVE  LET new == [row EXCEPT !.attempt = attempt + 1, !.wait = wait]
           IN  /\ new \in Row /\ Evolves(row, new)
               /\ new.attempt = attempt + 1 /\ new.tries = row.tries
               /\ new.status = "pending"
<1> DEFINE next == attempt + 1
           new == [row EXCEPT !.attempt = next, !.wait = wait]
<1>1. next \in 1..MaxAttempts /\ next >= attempt
  BY Constants
<1> HIDE DEF next
<1>2. new \in Row
  BY <1>1 DEF Row
<1>3. new.attempt = next /\ new.tries = row.tries /\ new.status = "pending"
  BY DEF Row, Records
<1>4. Evolves(row, new)
  BY <1>1, Constants DEF Row, Evolves, Records
<1> QED BY <1>2, <1>3, <1>4 DEF next

LEMMA NewRow ==
    ASSUME NEW h \in Hooks, NEW e \in Events, NEW resend \in BOOLEAN
    PROVE  Delivery(h, e, resend) \in Row
  BY Constants DEF Delivery, Row

-----------------------------------------------------------------------------
(* What each step does to the deliveries.                                  *)

LEMMA StartPostMoves ==
    ASSUME TypeOK, NEW w \in Workers, NEW c \in worker[w].batch, StartPost(w, c)
    PROVE  /\ Onward /\ NoneAdded /\ c[1] \in DOMAIN deliveries
           /\ deliveries'[c[1]] = [deliveries[c[1]] EXCEPT !.tries = @ + 1]
<1> DEFINE row == deliveries[c[1]]
           new == [row EXCEPT !.tries = @ + 1]
<1>1. c \in Claims
  BY DEF TypeOK, Process
<1>2. c[1] \in DOMAIN deliveries /\ row \in Row
  BY <1>1, DeliveriesAreSequence DEF Claims
<1>3. new \in Row /\ Evolves(row, new)
  BY <1>2, TriedRow
<1>4. deliveries' = [deliveries EXCEPT ![c[1]] = new]
  BY DEF StartPost
<1>5. Onward /\ NoneAdded
  BY <1>2, <1>3, <1>4, RewritingOne
<1> QED BY <1>2, <1>4, <1>5

LEMMA AnswerMoves ==
    ASSUME TypeOK, NEW w \in Workers, NEW c \in worker[w].sending,
           NEW accepted \in BOOLEAN, NEW heard \in BOOLEAN, Answer(w, c, accepted, heard)
    PROVE  /\ Onward /\ NoneAdded /\ c[1] \in DOMAIN deliveries
           /\ \A d \in DOMAIN deliveries :
                 /\ deliveries'[d].status = deliveries[d].status
                 /\ deliveries'[d].attempt = deliveries[d].attempt
<1> DEFINE row == deliveries[c[1]]
           new == [row EXCEPT !.accepted = @ \/ accepted]
<1>1. c \in Claims
  BY DEF TypeOK, Process
<1>2. c[1] \in DOMAIN deliveries /\ row \in Row
  BY <1>1, DeliveriesAreSequence DEF Claims
<1>3. /\ new \in Row /\ Evolves(row, new)
      /\ new.status = row.status /\ new.attempt = row.attempt
  BY <1>2, AcceptedRow
<1>4. deliveries' = [deliveries EXCEPT ![c[1]] = new]
  BY DEF Answer
<1>5. Onward /\ NoneAdded
  BY <1>2, <1>3, <1>4, RewritingOne
<1> HIDE DEF new
<1> QED BY <1>2, <1>3, <1>4, <1>5

LEMMA OutcomeTypes ==
    ASSUME NEW row \in Row, NEW ok \in BOOLEAN, NEW spent \in Nat, NEW attempt \in 1..MaxAttempts,
           Records(row, attempt)
    PROVE  /\ Outcome(row, attempt, ok, spent) \in Row
           /\ Evolves(row, Outcome(row, attempt, ok, spent))
           /\ Outcome(row, attempt, ok, spent).tries = row.tries
           /\ LET new == Outcome(row, attempt, ok, spent)
              IN  /\ new.status = "failed" => attempt = MaxAttempts
                  /\ new.status = "pending" => new.attempt = attempt + 1
<1> DEFINE new == Outcome(row, attempt, ok, spent)
           Fine == /\ new \in Row /\ Evolves(row, new) /\ new.tries = row.tries
                   /\ new.status = "failed" => attempt = MaxAttempts
                   /\ new.status = "pending" => new.attempt = attempt + 1
<1>1. CASE ok
  <2>1. new = Close(row, "success", attempt)
    BY <1>1 DEF Outcome
  <2> QED BY <2>1, ClosedRow
<1>2. CASE ~ok /\ GivesUp(attempt)
  <2>1. attempt = MaxAttempts
    BY <1>2, Constants DEF GivesUp
  <2>2. new = Close(row, "failed", attempt)
    BY <1>2 DEF Outcome
  <2> QED BY <2>1, <2>2, ClosedRow
<1>3. CASE ~ok /\ ~GivesUp(attempt)
  <2> DEFINE wait == RetryWait(attempt, spent)
  <2>1. attempt \in 1..Len(Delays)
    BY <1>3, Constants DEF GivesUp
  <2>2. wait \in Nat
    BY <2>1, Constants DEF RetryWait
  <2>3. new = [row EXCEPT !.attempt = attempt + 1, !.wait = wait]
    BY <1>3 DEF Outcome
  <2> HIDE DEF new, wait
  <2>4. Fine
    BY <2>1, <2>2, <2>3, RetriedRow
  <2> QED BY <2>4 DEF new
<1> QED BY <1>1, <1>2, <1>3

LEMMA RecordMoves ==
    ASSUME TypeOK, NEW w \in Workers, NEW c \in worker[w].sending, Record(w, c)
    PROVE  /\ Onward /\ NoneAdded /\ c[1] \in DOMAIN deliveries /\ c[2] \in Nat
           /\ \A d \in DOMAIN deliveries :
                 \/ deliveries'[d] = deliveries[d]
                 \/ /\ d = c[1]
                    /\ deliveries'[d].tries = deliveries[d].tries
                    /\ deliveries'[d].status = "failed" => c[2] = MaxAttempts
                    /\ deliveries'[d].status = "pending" => deliveries'[d].attempt = c[2] + 1
<1> DEFINE row == deliveries[c[1]]
           new == Outcome(row, c[2], worker[w].ok, worker[w].spent)
<1>1. c \in Claims /\ worker[w].ok \in BOOLEAN /\ worker[w].spent \in Nat
  BY Constants DEF TypeOK, Process
<1>2. c[1] \in DOMAIN deliveries /\ row \in Row /\ c[2] \in 1..MaxAttempts
  BY <1>1, DeliveriesAreSequence DEF Claims
<1>3. CASE Records(row, c[2])
  <2>1. deliveries' = [deliveries EXCEPT ![c[1]] = new]
    BY <1>3, <1>2 DEF Record
  <2>2. new \in Row /\ Evolves(row, new)
    BY <1>1, <1>2, <1>3, OutcomeTypes
  <2>3. Onward /\ NoneAdded
    BY <1>2, <2>1, <2>2, RewritingOne
  <2>4. /\ new.tries = row.tries
        /\ new.status = "failed" => c[2] = MaxAttempts
        /\ new.status = "pending" => new.attempt = c[2] + 1
    BY <1>1, <1>2, <1>3, OutcomeTypes
  <2> HIDE DEF new
  <2> QED BY <1>2, <2>1, <2>3, <2>4
<1>4. CASE ~Records(row, c[2])
  <2>1. deliveries' = [deliveries EXCEPT ![c[1]] = row]
    BY <1>4 DEF Record
  <2>2. deliveries' = deliveries
    BY <2>1, <1>2, DeliveriesAreSequence
  <2> QED BY <1>2, <2>2, Unmoved
<1> QED BY <1>3, <1>4

LEMMA ClaimMoves ==
    ASSUME TypeOK, NEW w \in Workers, Claim(w)
    PROVE  /\ Onward /\ NoneAdded
           /\ \A d \in DOMAIN deliveries :
                 /\ deliveries'[d].status = deliveries[d].status
                 /\ deliveries'[d].attempt = deliveries[d].attempt
<1>1. PICK S \in SUBSET {d \in DOMAIN deliveries : Due(d)} :
         deliveries' = [d \in DOMAIN deliveries |->
                           IF d \in S THEN Hold(deliveries[d]) ELSE deliveries[d]]
  BY DEF Claim
<1>2. \A d \in DOMAIN deliveries :
         /\ Hold(deliveries[d]) \in Row /\ Evolves(deliveries[d], Hold(deliveries[d]))
         /\ Hold(deliveries[d]).status = deliveries[d].status
         /\ Hold(deliveries[d]).attempt = deliveries[d].attempt
  BY DeliveriesAreSequence, Constants, WaitingRow DEF Hold
<1>3. \A d \in DOMAIN deliveries :
         /\ deliveries'[d] \in Row /\ Evolves(deliveries[d], deliveries'[d])
         /\ deliveries'[d].status = deliveries[d].status
         /\ deliveries'[d].attempt = deliveries[d].attempt
  BY <1>1, <1>2, DeliveriesAreSequence, RowEvolves
<1>4. DOMAIN deliveries' = DOMAIN deliveries
      /\ deliveries' = [d \in DOMAIN deliveries |-> deliveries'[d]]
  BY <1>1
<1> QED BY <1>3, <1>4, Rewriting

LEMMA TickMoves ==
    ASSUME TypeOK, Tick
    PROVE  /\ Onward /\ NoneAdded
           /\ \A d \in DOMAIN deliveries :
                 /\ deliveries'[d].status = deliveries[d].status
                 /\ deliveries'[d].attempt = deliveries[d].attempt
<1> DEFINE Sooner(d) == [deliveries[d] EXCEPT !.wait = IF @ > 0 THEN @ - 1 ELSE 0]
<1>1. deliveries' = [d \in DOMAIN deliveries |-> Sooner(d)]
  BY DEF Tick
<1>2. \A d \in DOMAIN deliveries :
         /\ Sooner(d) \in Row /\ Evolves(deliveries[d], Sooner(d))
         /\ Sooner(d).status = deliveries[d].status
         /\ Sooner(d).attempt = deliveries[d].attempt
  <2> TAKE d \in DOMAIN deliveries
  <2> DEFINE wait == IF deliveries[d].wait > 0 THEN deliveries[d].wait - 1 ELSE 0
  <2>1. deliveries[d] \in Row
    BY DeliveriesAreSequence
  <2>2. wait \in Nat
    BY <2>1 DEF Row
  <2>3. Sooner(d) = [deliveries[d] EXCEPT !.wait = wait]
    OBVIOUS
  <2> HIDE DEF Sooner, wait
  <2> QED BY <2>1, <2>2, <2>3, WaitingRow
<1> HIDE DEF Sooner
<1>3. DOMAIN deliveries' = DOMAIN deliveries
      /\ deliveries' = [d \in DOMAIN deliveries |-> deliveries'[d]]
  BY <1>1
<1> QED BY <1>1, <1>2, <1>3, Rewriting

-----------------------------------------------------------------------------
(* The two steps that add deliveries.                                      *)

New == (DOMAIN deliveries') \ DOMAIN deliveries

LEMMA ResendMoves ==
    ASSUME TypeOK, NEW d \in DOMAIN deliveries, Resend(d)
    PROVE  /\ Onward
           /\ \A f \in DOMAIN deliveries : deliveries'[f] = deliveries[f]
           /\ \A f \in New :
                 deliveries'[f] = Delivery(deliveries[d].hook, deliveries[d].event, TRUE)
<1> DEFINE new == Delivery(deliveries[d].hook, deliveries[d].event, TRUE)
<1>1. deliveries[d] \in Row
  BY DeliveriesAreSequence
<1>2. deliveries[d].hook \in Hooks /\ deliveries[d].event \in Events
  BY <1>1 DEF Row
<1>3. new \in Row
  BY <1>2, NewRow
<1>4. deliveries' = Append(deliveries, new)
  BY DEF Resend
<1> HIDE DEF new
<1>5. deliveries \in Seq(Row)
  BY DEF TypeOK
<1>6. /\ deliveries' \in Seq(Row) /\ Len(deliveries') = Len(deliveries) + 1
      /\ \A f \in 1..Len(deliveries) : deliveries'[f] = deliveries[f]
      /\ deliveries'[Len(deliveries) + 1] = new
  BY <1>3, <1>4, <1>5, AppendProperties
<1>7. DOMAIN deliveries' = 1..(Len(deliveries) + 1)
  BY <1>6, LenProperties
<1>8. New = {Len(deliveries) + 1}
  BY <1>7, DeliveriesAreSequence DEF New
<1>9. Onward
  BY <1>6, <1>7, DeliveriesAreSequence, RowEvolves DEF Onward
<1> QED BY <1>6, <1>8, <1>9, DeliveriesAreSequence DEF new

LEMMA EventsAreFinite == IsFiniteSet(Events)
<1> DEFINE Types == UNION {Subscribed[h] : h \in Hooks}
<1>1. IsFiniteSet(Told)
  <2>1. Told = ({"pending_payment"} \union {"verifying"})
               \union ({"completed"} \union {"expired"}) \union {"payment_anomaly"}
    BY DEF Told
  <2> QED BY <2>1, FS_Singleton, FS_Union
<1>2. Types \subseteq Told
  BY WebhookAssumption DEF WebhookAssumption
<1>3. IsFiniteSet(Types)
  BY <1>1, <1>2, FS_Subset
<1>4. IsFiniteSet(Orders)
  BY WebhookAssumption DEF WebhookAssumption
<1> HIDE DEF Types
<1>5. IsFiniteSet(Orders \X Types)
  BY <1>3, <1>4, FS_Product
<1> QED BY <1>5 DEF Events, Types

LEMMA RowsAreFinite ==
    ASSUME NEW Q, Q \subseteq Hooks \X Events
    PROVE  IsFiniteSet({Delivery(p[1], p[2], FALSE) : p \in Q})
<1> DEFINE S == {Delivery(p[1], p[2], FALSE) : p \in Q}
           f == [p \in Q |-> Delivery(p[1], p[2], FALSE)]
<1>1. IsFiniteSet(Hooks)
  BY WebhookAssumption DEF WebhookAssumption
<1>2. IsFiniteSet(Hooks \X Events)
  BY <1>1, EventsAreFinite, FS_Product
<1>3. IsFiniteSet(Q)
  BY <1>2, FS_Subset
<1>4. f \in Surjection(Q, S)
  BY DEF Surjection
<1> QED BY <1>3, <1>4, FS_Surjection

LEMMA CommitMoves ==
    ASSUME TypeOK, NEW w \in Workers, Commit(w)
    PROVE  /\ Onward
           /\ \A d \in DOMAIN deliveries : deliveries'[d] = deliveries[d]
           /\ \A d \in New : \E p \in worker[w].queued :
                 deliveries'[d] = Delivery(p[1], p[2], FALSE)
           /\ \A d, f \in New : d # f => deliveries'[d] # deliveries'[f]
<1> DEFINE S == {Delivery(p[1], p[2], FALSE) : p \in worker[w].queued}
           n == Cardinality(S)
<1>1. worker[w].queued \subseteq Hooks \X Events
  BY DEF TypeOK, Process
<1>2. S \subseteq Row
  BY <1>1, NewRow
<1>3. n \in Nat
  BY <1>1, RowsAreFinite, FS_CardinalityType
<1>4. PICK added \in SetToSeqs(S) : deliveries' = deliveries \o added
  BY DEF Commit
<1> HIDE DEF S
<1>5. /\ added \in [1..n -> S]
      /\ \A i, j \in 1..n : i # j => added[i] # added[j]
  BY <1>4 DEF SetToSeqs
<1> HIDE DEF n
<1>6. added \in Seq(Row) /\ Len(added) = n
  BY <1>2, <1>3, <1>5, SeqDef
<1>7. deliveries \in Seq(Row)
  BY DEF TypeOK
<1>8. /\ deliveries' \in Seq(Row) /\ Len(deliveries') = Len(deliveries) + n
      /\ \A i \in 1..(Len(deliveries) + n) : deliveries'[i] =
            IF i <= Len(deliveries) THEN deliveries[i] ELSE added[i - Len(deliveries)]
  BY <1>4, <1>6, <1>7, ConcatProperties
<1>9. DOMAIN deliveries' = 1..(Len(deliveries) + n)
  BY <1>8, LenProperties
<1>10. \A d \in DOMAIN deliveries : deliveries'[d] = deliveries[d]
  BY <1>3, <1>8, DeliveriesAreSequence
<1>11. Onward
  BY <1>3, <1>8, <1>9, <1>10, DeliveriesAreSequence, RowEvolves DEF Onward
<1>12. \A d \in New : d - Len(deliveries) \in 1..n
                      /\ deliveries'[d] = added[d - Len(deliveries)]
  BY <1>3, <1>8, <1>9, DeliveriesAreSequence DEF New
<1>13. \A d \in New : deliveries'[d] \in S
  BY <1>5, <1>12
<1>14. \A d, f \in New : d # f => deliveries'[d] # deliveries'[f]
  BY <1>3, <1>5, <1>9, <1>12, DeliveriesAreSequence DEF New
<1> QED BY <1>10, <1>11, <1>13, <1>14 DEF S

-----------------------------------------------------------------------------
(* What every step keeps.                                                  *)

LEMMA StepOnward == TypeOK /\ [Next]_vars => Onward
<1> SUFFICES ASSUME TypeOK, [Next]_vars PROVE Onward
  OBVIOUS
<1>1. ASSUME NEW o \in Orders, NEW status \in L!Stages, ChangeStatus(o, status) PROVE Onward
  BY <1>1, Unmoved DEF ChangeStatus
<1>2. ASSUME NEW h \in Hooks, Disable(h) PROVE Onward
  BY <1>2, Unmoved DEF Disable
<1>3. ASSUME NEW d \in DOMAIN deliveries, Resend(d) PROVE Onward
  BY <1>3, ResendMoves
<1>4. ASSUME NEW w \in Workers, Job(w) PROVE Onward
  <2>1. CASE StartTick(w) \/ Enqueue(w)
    BY <2>1, Unmoved DEF StartTick, Enqueue
  <2>2. CASE Commit(w)
    BY <2>2, CommitMoves
  <2>3. CASE Claim(w)
    BY <2>3, ClaimMoves
  <2>4. ASSUME NEW c \in worker[w].batch, StartPost(w, c) PROVE Onward
    BY <2>4, StartPostMoves
  <2>5. ASSUME NEW c \in worker[w].sending, NEW accepted \in BOOLEAN, NEW heard \in BOOLEAN,
               Answer(w, c, accepted, heard)
        PROVE  Onward
    BY <2>5, AnswerMoves
  <2>6. ASSUME NEW c \in worker[w].sending, Record(w, c) PROVE Onward
    BY <2>6, RecordMoves
  <2> QED BY <1>4, <2>1, <2>2, <2>3, <2>4, <2>5, <2>6 DEF Job
<1>5. ASSUME NEW w \in Workers, Crash(w) PROVE Onward
  BY <1>5, Unmoved DEF Crash
<1>6. CASE Tick
  BY <1>6, TickMoves
<1>7. CASE UNCHANGED vars
  BY <1>7, Unmoved DEF vars
<1> QED BY <1>1, <1>2, <1>3, <1>4, <1>5, <1>6, <1>7 DEF Next

-----------------------------------------------------------------------------
(* Types, variable by variable.                                            *)

LEMMA ProcessesStay == Onward => Process \subseteq Process'
<1> SUFFICES ASSUME Onward PROVE Process \subseteq Process'
  OBVIOUS
<1>1. Claims \subseteq Claims'
  BY DEF Onward, Claims
<1> QED BY <1>1 DEF Process

LEMMA IdleIsProcess ==
    /\ IdleWorker \in Process
    /\ [IdleWorker EXCEPT !.pc = "claiming"] \in Process
    /\ \A batch \in SUBSET Claims :
          [IdleWorker EXCEPT !.pc = "posting", !.batch = batch] \in Process
<1>1. 0 \in 0..PostTime
  BY Constants
<1>2. IdleWorker \in Process
  BY <1>1 DEF IdleWorker, Process
<1>3. [IdleWorker EXCEPT !.pc = "claiming"] \in Process
  BY <1>2 DEF Process
<1>4. ASSUME NEW batch \in SUBSET Claims
      PROVE  [IdleWorker EXCEPT !.pc = "posting", !.batch = batch] \in Process
  BY <1>2 DEF Process
<1> QED BY <1>2, <1>3, <1>4

LEMMA InitTypes == Init => TypeOK
<1> SUFFICES ASSUME Init PROVE TypeOK
  OBVIOUS
<1>1. deliveries \in Seq(Row)
  BY EmptySeq DEF Init
<1>2. worker \in [Workers -> Process]
  BY IdleIsProcess DEF Init
<1>3. stage \in [Orders -> L!Stages]
  BY DEF Init, L!Stages
<1> QED BY <1>1, <1>2, <1>3, Constants DEF Init, TypeOK

LEMMA WorkerTypes == TypeOK /\ [Next]_vars => worker' \in [Workers -> Process']
<1> SUFFICES ASSUME TypeOK, [Next]_vars PROVE worker' \in [Workers -> Process']
  OBVIOUS
<1>1. Process \subseteq Process'
  BY StepOnward, ProcessesStay
<1> DEFINE Goal == worker' \in [Workers -> Process]
<1>2. ASSUME UNCHANGED worker PROVE Goal
  BY <1>2 DEF TypeOK
<1>3. ASSUME NEW w \in Workers, Job(w) PROVE Goal
  <2>1. ASSUME NEW next \in Process, worker' = [worker EXCEPT ![w] = next] PROVE Goal
    BY <2>1 DEF TypeOK
  <2>2. worker[w] \in Process
    BY DEF TypeOK
  <2>3. CASE StartTick(w)
    <3>1. ClaimableRows \subseteq Events
      BY DEF ClaimableRows, QueuedRows
    <3>2. [worker[w] EXCEPT !.pc = "queueing", !.rows = ClaimableRows] \in Process
      BY <2>2, <3>1 DEF Process
    <3> QED BY <2>1, <2>3, <3>2 DEF StartTick
  <2>4. CASE Enqueue(w)
    <3> DEFINE queued == {p \in Hooks \X worker[w].rows :
                            /\ enabled[p[1]]
                            /\ p[2][2] \in Subscribed[p[1]]
                            /\ ~HasDelivery(p[1], p[2])}
    <3>1. queued \subseteq Hooks \X Events
      BY <2>2 DEF Process
    <3>2. worker' = [worker EXCEPT ![w] =
                       [worker[w] EXCEPT !.pc = "committing", !.queued = queued]]
      BY <2>4 DEF Enqueue
    <3> HIDE DEF queued
    <3>3. [worker[w] EXCEPT !.pc = "committing", !.queued = queued] \in Process
      BY <2>2, <3>1 DEF Process
    <3> QED BY <2>1, <3>2, <3>3
  <2>5. CASE Commit(w)
    BY <2>1, <2>5, IdleIsProcess DEF Commit
  <2>6. CASE Claim(w)
    <3>1. PICK S \in SUBSET {d \in DOMAIN deliveries : Due(d)} :
             worker' = [worker EXCEPT
                    ![w] = IF S = {} THEN IdleWorker
                           ELSE [IdleWorker EXCEPT !.pc = "posting",
                                    !.batch = {<<d, deliveries[d].attempt>> : d \in S}]]
      BY <2>6 DEF Claim
    <3>2. {<<d, deliveries[d].attempt>> : d \in S} \subseteq Claims
      BY DeliveriesAreSequence DEF Claims, Row
    <3> QED BY <2>1, <3>1, <3>2, IdleIsProcess
  <2>7. ASSUME NEW c \in worker[w].batch, StartPost(w, c) PROVE Goal
    <3> DEFINE rest == worker[w].batch \ {c}
               this == {c}
    <3>1. rest \in SUBSET Claims /\ this \in SUBSET Claims /\ 0 \in 0..PostTime
      BY <2>2, Constants DEF Process
    <3>2. worker' = [worker EXCEPT ![w] = [worker[w] EXCEPT !.pc = "sending", !.batch = rest,
                                                           !.sending = this, !.spent = 0]]
      BY <2>7 DEF StartPost
    <3> HIDE DEF rest, this
    <3>3. [worker[w] EXCEPT !.pc = "sending", !.batch = rest, !.sending = this, !.spent = 0]
             \in Process
      BY <2>2, <3>1 DEF Process
    <3> QED BY <2>1, <3>2, <3>3
  <2>8. ASSUME NEW c \in worker[w].sending, NEW accepted \in BOOLEAN, NEW heard \in BOOLEAN,
               Answer(w, c, accepted, heard)
        PROVE  Goal
    <3> DEFINE ok == accepted /\ heard
    <3>1. ok \in BOOLEAN
      OBVIOUS
    <3>2. worker' = [worker EXCEPT ![w] = [worker[w] EXCEPT !.pc = "recording", !.ok = ok]]
      BY <2>8 DEF Answer
    <3> HIDE DEF ok
    <3>3. [worker[w] EXCEPT !.pc = "recording", !.ok = ok] \in Process
      BY <2>2, <3>1 DEF Process
    <3> QED BY <2>1, <3>2, <3>3
  <2>9. ASSUME NEW c \in worker[w].sending, Record(w, c) PROVE Goal
    <3> DEFINE next == IF worker[w].batch = {} THEN IdleWorker
                       ELSE [IdleWorker EXCEPT !.pc = "posting", !.batch = worker[w].batch]
    <3>1. worker[w].batch \subseteq Claims
      BY <2>2 DEF Process
    <3>2. next \in Process
      BY <3>1, IdleIsProcess
    <3>3. worker' = [worker EXCEPT ![w] = next]
      BY <2>9 DEF Record
    <3> QED BY <2>1, <3>2, <3>3
  <2> QED BY <1>3, <2>3, <2>4, <2>5, <2>6, <2>7, <2>8, <2>9 DEF Job
<1>4. ASSUME NEW w \in Workers, Crash(w) PROVE Goal
  BY <1>4, IdleIsProcess DEF Crash, TypeOK
<1>5. ASSUME Tick PROVE Goal
  <2> DEFINE next(w) == IF worker[w].pc = "sending" THEN [worker[w] EXCEPT !.spent = @ + 1]
                        ELSE worker[w]
  <2>1. \A w \in Workers : next(w) \in Process
    <3> TAKE w \in Workers
    <3>1. worker[w] \in Process
      BY DEF TypeOK
    <3>2. ASSUME worker[w].pc = "sending" PROVE worker[w].spent + 1 \in 0..PostTime
      BY <1>5, <3>1, <3>2, Constants DEF Tick, CanTick, Process
    <3> QED BY <3>1, <3>2 DEF Process
  <2>2. worker' = [w \in Workers |-> next(w)]
    BY <1>5 DEF Tick
  <2> HIDE DEF next
  <2> QED BY <2>1, <2>2
<1>6. Goal
  <2>1. ASSUME NEW o \in Orders, NEW status \in L!Stages, ChangeStatus(o, status) PROVE Goal
    BY <1>2, <2>1 DEF ChangeStatus
  <2>2. ASSUME NEW h \in Hooks, Disable(h) PROVE Goal
    BY <1>2, <2>2 DEF Disable
  <2>3. ASSUME NEW d \in DOMAIN deliveries, Resend(d) PROVE Goal
    BY <1>2, <2>3 DEF Resend
  <2>4. ASSUME UNCHANGED vars PROVE Goal
    BY <1>2, <2>4 DEF vars
  <2> HIDE DEF Goal
  <2> QED BY <1>3, <1>4, <1>5, <2>1, <2>2, <2>3, <2>4 DEF Next
<1> QED BY <1>1, <1>6

LEMMA TableTypes ==
    TypeOK /\ [Next]_vars =>
        /\ stage' \in [Orders -> L!Stages]
        /\ outbox' \in [Events -> {"none", "queued", "processed"}]
        /\ enabled' \in [Hooks -> BOOLEAN]
        /\ resends' \in 0..MaxResends /\ crashes' \in 0..MaxCrashes
<1> DEFINE Stable == /\ stage \in [Orders -> L!Stages]
                     /\ outbox \in [Events -> {"none", "queued", "processed"}]
                     /\ enabled \in [Hooks -> BOOLEAN]
                     /\ resends \in 0..MaxResends /\ crashes \in 0..MaxCrashes
<1> SUFFICES ASSUME TypeOK, [Next]_vars PROVE Stable'
  OBVIOUS
<1>0. Stable
  BY DEF TypeOK
<1>1. ASSUME NEW o \in Orders, NEW status \in L!Stages, ChangeStatus(o, status) PROVE Stable'
  BY <1>0, <1>1 DEF ChangeStatus
<1>2. ASSUME NEW h \in Hooks, Disable(h) PROVE Stable'
  BY <1>0, <1>2 DEF Disable
<1>3. ASSUME NEW d \in DOMAIN deliveries, Resend(d) PROVE Stable'
  BY <1>0, <1>3, Constants DEF Resend
<1>4. ASSUME NEW w \in Workers, Job(w) PROVE Stable'
  <2>1. UNCHANGED <<stage, enabled, resends, crashes>>
    BY <1>4 DEF Job, StartTick, Enqueue, Commit, Claim, StartPost, Answer, Record, tables
  <2>2. outbox' \in [Events -> {"none", "queued", "processed"}]
    BY <1>0, <1>4 DEF Job, StartTick, Enqueue, Commit, Claim, StartPost, Answer, Record, tables
  <2> QED BY <1>0, <2>1, <2>2
<1>5. ASSUME NEW w \in Workers, Crash(w) PROVE Stable'
  BY <1>0, <1>5, Constants DEF Crash, tables
<1>6. ASSUME Tick PROVE Stable'
  BY <1>0, <1>6 DEF Tick, tables
<1>7. ASSUME UNCHANGED vars PROVE Stable'
  BY <1>0, <1>7 DEF vars
<1> HIDE DEF Stable
<1> QED BY <1>1, <1>2, <1>3, <1>4, <1>5, <1>6, <1>7 DEF Next

LEMMA StepTypes == TypeOK /\ [Next]_vars => TypeOK'
  BY StepOnward, WorkerTypes, TableTypes DEF Onward, TypeOK

\* Every variable has its type: no delivery is ever at an attempt the schedule does not have,
\* and a claim always points at a delivery (webhook-store.mjs).
THEOREM DeliveryTypes == Spec => []TypeOK
  BY InitTypes, StepTypes, PTL DEF Spec

\* A recorded outcome is never taken back, and attempts never go down, whatever slow process
\* answers late (the guards of recordWebhookDeliveryOutcome).
THEOREM OutcomesAreFinal == Spec => OutcomesStand
<1>1. TypeOK /\ [Next]_vars =>
        [\A d \in DOMAIN deliveries :
          /\ deliveries[d].status # "pending" => deliveries'[d].status = deliveries[d].status
          /\ deliveries'[d].attempt >= deliveries[d].attempt]_vars
  BY StepOnward DEF Onward, Evolves
<1> QED BY <1>1, DeliveryTypes, PTL DEF Spec, OutcomesStand

-----------------------------------------------------------------------------
(* An event is queued once: the processes hold disjoint sets of queued     *)
(* rows, and a delivery exists only for a row that is processed.           *)

Locked ==
    /\ \A w \in Workers : worker[w].rows \subseteq QueuedRows
    /\ \A v, w \in Workers : v # w => worker[v].rows \intersect worker[w].rows = {}
    /\ \A w \in Workers : worker[w].queued \subseteq Hooks \X worker[w].rows
    /\ \A w \in Workers : worker[w].pc # "committing" => worker[w].queued = {}

Settled == \A d \in DOMAIN deliveries : outbox[deliveries[d].event] = "processed"

Booked == Locked /\ Settled /\ QueuedOnce

\* What all steps but those of the fan-out do: a process keeps its locks or drops them, no
\* row goes back, and a delivery that is added is a resend.
Aside ==
    /\ \A w \in Workers :
          \/ /\ worker'[w].rows = worker[w].rows /\ worker'[w].queued = worker[w].queued
             /\ worker'[w].pc = "committing" <=> worker[w].pc = "committing"
          \/ worker'[w].rows = {} /\ worker'[w].queued = {}
    /\ \A e \in Events : outbox[e] # "none" => outbox'[e] = outbox[e]
    /\ \A f \in New : /\ deliveries'[f].resend
                      /\ \E d \in DOMAIN deliveries : deliveries'[f].event = deliveries[d].event
    /\ Onward

LEMMA InitBooks == Init => Booked
  BY DEF Init, Booked, Locked, Settled, QueuedOnce, IdleWorker

LEMMA AsideBooks == TypeOK /\ Booked /\ Aside => Booked'
<1> SUFFICES ASSUME TypeOK, Booked, Aside PROVE Booked'
  OBVIOUS
<1>1. Locked'
  <2>1. \A e \in QueuedRows : e \in QueuedRows'
    BY DEF Aside, QueuedRows
  <2> QED BY <2>1 DEF Aside, Booked, Locked
<1>2. \A d \in DOMAIN deliveries :
         deliveries[d].event \in Events /\ outbox[deliveries[d].event] = "processed"
  BY DeliveriesAreSequence DEF Row, Booked, Settled
<1>3. Settled'
  <2> SUFFICES ASSUME NEW d \in DOMAIN deliveries'
               PROVE  outbox'[deliveries'[d].event] = "processed"
    BY DEF Settled
  <2>1. \E f \in DOMAIN deliveries : deliveries'[d].event = deliveries[f].event
    BY DEF Aside, New, Onward, Evolves
  <2> QED BY <2>1, <1>2 DEF Aside
<1>4. QueuedOnce'
  <2> SUFFICES ASSUME NEW d \in DOMAIN deliveries', NEW f \in DOMAIN deliveries', d # f,
                      deliveries'[d].hook = deliveries'[f].hook,
                      deliveries'[d].event = deliveries'[f].event
               PROVE  deliveries'[d].resend \/ deliveries'[f].resend
    BY DEF QueuedOnce
  <2> QED BY DEF Aside, New, Onward, Evolves, Booked, QueuedOnce
<1> QED BY <1>1, <1>3, <1>4 DEF Booked

LEMMA StartTickBooks ==
    ASSUME TypeOK, Booked, NEW w \in Workers, StartTick(w)
    PROVE  Booked'
<1> DEFINE next == [worker[w] EXCEPT !.pc = "queueing", !.rows = ClaimableRows]
<1>1. UNCHANGED <<outbox, deliveries>> /\ worker' = [worker EXCEPT ![w] = next]
  BY DEF StartTick, tables
<1>2. worker[w] \in Process /\ worker[w].pc = "idle"
  BY DEF StartTick, TypeOK
<1>3. /\ next.rows = ClaimableRows /\ next.queued = worker[w].queued
      /\ next.pc = "queueing"
  BY <1>2 DEF Process
<1> HIDE DEF next
<1>4. \A v \in Workers : worker'[v] = IF v = w THEN next ELSE worker[v]
  BY <1>1 DEF TypeOK
<1>5. ClaimableRows \subseteq QueuedRows /\ QueuedRows' = QueuedRows
  BY <1>1 DEF ClaimableRows, QueuedRows
<1>6. \A v \in Workers : worker[v].rows \intersect ClaimableRows = {}
  BY DEF ClaimableRows
<1>7. worker[w].queued = {}
  BY <1>2 DEF Booked, Locked
<1>8. Locked'
  BY <1>3, <1>4, <1>5, <1>6, <1>7 DEF Booked, Locked
<1> QED BY <1>1, <1>8 DEF Booked, Settled, QueuedOnce

LEMMA EnqueueBooks ==
    ASSUME TypeOK, Booked, NEW w \in Workers, Enqueue(w)
    PROVE  Booked'
<1> DEFINE queued == {p \in Hooks \X worker[w].rows :
                        /\ enabled[p[1]]
                        /\ p[2][2] \in Subscribed[p[1]]
                        /\ ~HasDelivery(p[1], p[2])}
           next == [worker[w] EXCEPT !.pc = "committing", !.queued = queued]
<1>1. UNCHANGED <<outbox, deliveries>> /\ worker' = [worker EXCEPT ![w] = next]
  BY DEF Enqueue, tables
<1>2. worker[w] \in Process
  BY DEF TypeOK
<1>3. queued \subseteq Hooks \X worker[w].rows
  OBVIOUS
<1> HIDE DEF queued
<1>4. /\ next.rows = worker[w].rows /\ next.queued = queued
      /\ next.pc = "committing"
  BY <1>2 DEF Process
<1> HIDE DEF next
<1>5. \A v \in Workers : worker'[v] = IF v = w THEN next ELSE worker[v]
  BY <1>1 DEF TypeOK
<1>6. QueuedRows' = QueuedRows
  BY <1>1 DEF QueuedRows
<1>7. Locked'
  BY <1>3, <1>4, <1>5, <1>6 DEF Booked, Locked
<1> QED BY <1>1, <1>7 DEF Booked, Settled, QueuedOnce

LEMMA CommitBooks ==
    ASSUME TypeOK, Booked, NEW w \in Workers, Commit(w)
    PROVE  Booked'
<1> DEFINE rows == worker[w].rows
           next == [IdleWorker EXCEPT !.pc = "claiming"]
<1>1. /\ outbox' = [e \in Events |-> IF e \in rows THEN "processed" ELSE outbox[e]]
      /\ worker' = [worker EXCEPT ![w] = next]
  BY DEF Commit
<1>2. next.rows = {} /\ next.queued = {}
  BY DEF IdleWorker
<1> HIDE DEF next
<1>3. \A v \in Workers : worker'[v] = IF v = w THEN next ELSE worker[v]
  BY <1>1 DEF TypeOK
<1>4. Locked'
  <2>1. \A v \in Workers : v # w => worker[v].rows \subseteq QueuedRows'
    BY <1>1 DEF Booked, Locked, QueuedRows
  <2> QED BY <1>2, <1>3, <2>1 DEF Booked, Locked
<1>5. Onward /\ \A d \in DOMAIN deliveries : deliveries'[d] = deliveries[d]
  BY CommitMoves
<1>6. \A d \in New : /\ deliveries'[d].event \in rows
                     /\ deliveries'[d] = Delivery(deliveries'[d].hook, deliveries'[d].event, FALSE)
  <2> SUFFICES ASSUME NEW d \in New
               PROVE  /\ deliveries'[d].event \in rows
                      /\ deliveries'[d] = Delivery(deliveries'[d].hook,
                                                   deliveries'[d].event, FALSE)
    OBVIOUS
  <2>1. PICK p \in worker[w].queued : deliveries'[d] = Delivery(p[1], p[2], FALSE)
    BY CommitMoves
  <2>2. p[2] \in rows
    BY DEF Booked, Locked
  <2> QED BY <2>1, <2>2 DEF Delivery
<1>7. \A d \in DOMAIN deliveries :
         deliveries[d].event \in Events \ rows /\ outbox[deliveries[d].event] = "processed"
  BY DeliveriesAreSequence DEF Row, Booked, Settled, Locked, QueuedRows
<1>8. rows \subseteq Events
  BY DEF TypeOK, Process
<1>9. Settled'
  BY <1>1, <1>5, <1>6, <1>7, <1>8 DEF Settled, New
<1>10. \A d \in New, f \in DOMAIN deliveries : deliveries'[d].event # deliveries'[f].event
  BY <1>5, <1>6, <1>7
<1>11. QueuedOnce'
  <2> SUFFICES ASSUME NEW d \in DOMAIN deliveries', NEW f \in DOMAIN deliveries', d # f,
                      deliveries'[d].hook = deliveries'[f].hook,
                      deliveries'[d].event = deliveries'[f].event
               PROVE  deliveries'[d].resend \/ deliveries'[f].resend
    BY DEF QueuedOnce
  <2>1. CASE d \in New /\ f \in New
    <3>1. deliveries'[d] = deliveries'[f]
      BY <1>6, <2>1
    <3> QED BY <2>1, <3>1, CommitMoves
  <2>2. CASE d \in DOMAIN deliveries /\ f \in DOMAIN deliveries
    BY <2>2, <1>5 DEF Booked, QueuedOnce
  <2> QED BY <1>10, <2>1, <2>2 DEF New
<1> QED BY <1>4, <1>9, <1>11 DEF Booked

LEMMA StepAside ==
    ASSUME TypeOK, Booked, [Next]_vars
    PROVE  Aside \/ \E w \in Workers : StartTick(w) \/ Enqueue(w) \/ Commit(w)
<1> DEFINE Kept(w) ==
              \/ /\ worker'[w].rows = worker[w].rows /\ worker'[w].queued = worker[w].queued
                 /\ worker'[w].pc = "committing" <=> worker[w].pc = "committing"
              \/ worker'[w].rows = {} /\ worker'[w].queued = {}
<1>1. Onward
  BY StepOnward
<1>2. ASSUME UNCHANGED outbox, NoneAdded, \A w \in Workers : Kept(w) PROVE Aside
  BY <1>1, <1>2 DEF Aside, New, NoneAdded
<1>3. ASSUME UNCHANGED <<outbox, worker>>, NoneAdded PROVE Aside
  BY <1>2, <1>3
<1>4. ASSUME NEW w \in Workers, NEW next, worker' = [worker EXCEPT ![w] = next],
             UNCHANGED outbox, NoneAdded,
             \/ /\ next.rows = worker[w].rows /\ next.queued = worker[w].queued
                /\ next.pc # "committing" /\ worker[w].pc # "committing"
             \/ next.rows = {} /\ next.queued = {}
      PROVE  Aside
  <2>1. \A v \in Workers : worker'[v] = IF v = w THEN next ELSE worker[v]
    BY <1>4 DEF TypeOK
  <2>2. \A v \in Workers : Kept(v)
    BY <1>4, <2>1
  <2> QED BY <1>2, <1>4, <2>2
<1>5. /\ IdleWorker.rows = {} /\ IdleWorker.queued = {}
      /\ \A batch : LET next == [IdleWorker EXCEPT !.pc = "posting", !.batch = batch]
                    IN  next.rows = {} /\ next.queued = {}
  BY DEF IdleWorker
<1>6. ASSUME NEW o \in Orders, NEW status \in L!Stages, ChangeStatus(o, status) PROVE Aside
  <2>1. UNCHANGED <<worker, deliveries>>
    BY <1>6 DEF ChangeStatus
  <2>2. \A e \in Events : outbox[e] # "none" => outbox'[e] = outbox[e]
    BY <1>6 DEF ChangeStatus
  <2> QED BY <1>1, <2>1, <2>2 DEF Aside, New
<1>7. ASSUME NEW h \in Hooks, Disable(h) PROVE Aside
  BY <1>3, <1>7, Unmoved DEF Disable
<1>8. ASSUME NEW d \in DOMAIN deliveries, Resend(d) PROVE Aside
  <2>1. UNCHANGED <<outbox, worker>>
    BY <1>8 DEF Resend
  <2>2. \A f \in New :
           deliveries'[f] = Delivery(deliveries[d].hook, deliveries[d].event, TRUE)
    BY <1>8, ResendMoves
  <2>3. \A f \in New : deliveries'[f].resend /\ deliveries'[f].event = deliveries[d].event
    BY <2>2 DEF Delivery
  <2> QED BY <1>1, <2>1, <2>3 DEF Aside
<1>9. ASSUME NEW w \in Workers, Claim(w) PROVE Aside
  <2>1. NoneAdded /\ UNCHANGED outbox
    BY <1>9, ClaimMoves DEF Claim, tables
  <2>2. PICK S : worker' = [worker EXCEPT
                    ![w] = IF S = {} THEN IdleWorker
                           ELSE [IdleWorker EXCEPT !.pc = "posting",
                                    !.batch = {<<d, deliveries[d].attempt>> : d \in S}]]
    BY <1>9 DEF Claim
  <2> QED BY <1>4, <1>5, <2>1, <2>2
<1>10. ASSUME NEW w \in Workers, NEW c \in worker[w].batch, StartPost(w, c) PROVE Aside
  <2> DEFINE next == [worker[w] EXCEPT !.pc = "sending", !.batch = @ \ {c},
                                       !.sending = {c}, !.spent = 0]
  <2>1. /\ NoneAdded /\ UNCHANGED outbox /\ worker[w].pc # "committing"
        /\ worker' = [worker EXCEPT ![w] = next]
    BY <1>10, StartPostMoves DEF StartPost, tables
  <2>2. worker[w] \in Process
    BY DEF TypeOK
  <2>3. /\ next.rows = worker[w].rows /\ next.queued = worker[w].queued
        /\ next.pc # "committing"
    BY <2>2 DEF Process
  <2> HIDE DEF next
  <2> QED BY <1>4, <2>1, <2>3
<1>11. ASSUME NEW w \in Workers, NEW c \in worker[w].sending, NEW accepted \in BOOLEAN,
              NEW heard \in BOOLEAN, Answer(w, c, accepted, heard)
       PROVE  Aside
  <2> DEFINE next == [worker[w] EXCEPT !.pc = "recording", !.ok = accepted /\ heard]
  <2>1. /\ NoneAdded /\ UNCHANGED outbox /\ worker[w].pc # "committing"
        /\ worker' = [worker EXCEPT ![w] = next]
    BY <1>11, AnswerMoves DEF Answer, tables
  <2>2. worker[w] \in Process
    BY DEF TypeOK
  <2>3. /\ next.rows = worker[w].rows /\ next.queued = worker[w].queued
        /\ next.pc # "committing"
    BY <2>2 DEF Process
  <2> HIDE DEF next
  <2> QED BY <1>4, <2>1, <2>3
<1>12. ASSUME NEW w \in Workers, NEW c \in worker[w].sending, Record(w, c) PROVE Aside
  <2>1. NoneAdded /\ UNCHANGED outbox
    BY <1>12, RecordMoves DEF Record, tables
  <2>2. worker' = [worker EXCEPT ![w] = IF worker[w].batch = {} THEN IdleWorker
                 ELSE [IdleWorker EXCEPT !.pc = "posting", !.batch = worker[w].batch]]
    BY <1>12 DEF Record
  <2> QED BY <1>4, <1>5, <2>1, <2>2
<1>13. ASSUME NEW w \in Workers, Crash(w) PROVE Aside
  BY <1>4, <1>5, <1>13, Unmoved DEF Crash, tables
<1>14. ASSUME Tick PROVE Aside
  <2>1. NoneAdded /\ UNCHANGED outbox
    BY <1>14, TickMoves DEF Tick, tables
  <2>2. \A w \in Workers : Kept(w)
    <3> TAKE w \in Workers
    <3>1. worker[w] \in Process
      BY DEF TypeOK
    <3>2. worker'[w] = worker[w] \/ worker'[w] = [worker[w] EXCEPT !.spent = @ + 1]
      BY <1>14 DEF Tick
    <3> QED BY <3>1, <3>2 DEF Process
  <2> QED BY <1>2, <2>1, <2>2
<1>15. ASSUME UNCHANGED vars PROVE Aside
  BY <1>3, <1>15, Unmoved DEF vars
<1> QED
  BY <1>6, <1>7, <1>8, <1>9, <1>10, <1>11, <1>12, <1>13, <1>14, <1>15 DEF Next, Job

LEMMA StepBooks == TypeOK /\ Booked /\ [Next]_vars => Booked'
  BY StepAside, AsideBooks, StartTickBooks, EnqueueBooks, CommitBooks

\* An event is queued for an endpoint once, whatever processes drain the outbox and die:
\* the lock on the row is enough, the check for an existing delivery is a second belt.
THEOREM EventsAreQueuedOnce == Spec => []QueuedOnce
<1>1. Spec => []Booked
  BY InitBooks, StepBooks, DeliveryTypes, PTL DEF Spec
<1>2. Booked => QueuedOnce
  BY DEF Booked
<1> QED BY <1>1, <1>2, PTL

-----------------------------------------------------------------------------
(* No attempt is counted that was not posted: a pending delivery was tried *)
(* as often as it counts, and a claim that is posted once more than it was *)
(* when it was claimed.                                                    *)

Counted ==
    \A d \in DOMAIN deliveries :
        /\ deliveries[d].status = "pending" => deliveries[d].tries >= deliveries[d].attempt - 1
        /\ deliveries[d].status = "failed" => deliveries[d].tries >= MaxAttempts

Posted ==
    \A w \in Workers :
        /\ \A c \in worker[w].batch : deliveries[c[1]].tries >= c[2] - 1
        /\ \A c \in worker[w].sending : deliveries[c[1]].tries >= c[2]

LEMMA InitCounts == Init => Counted /\ Posted
  BY DEF Init, Counted, Posted, IdleWorker

LEMMA ClaimsStay ==
    ASSUME TypeOK, NEW w \in Workers, NEW c \in worker[w].batch \union worker[w].sending
    PROVE  /\ c[1] \in DOMAIN deliveries /\ c[2] \in Nat
           /\ deliveries[c[1]].tries \in Nat
<1>1. c \in Claims
  BY DEF TypeOK, Process
<1>2. c[1] \in DOMAIN deliveries /\ c[2] \in 1..MaxAttempts
  BY <1>1 DEF Claims
<1> QED BY <1>2, DeliveriesAreSequence, Constants DEF Row

\* Delivery by delivery: a new one, one that keeps its status and attempt, or the one that
\* is being recorded.
LEMMA StepCounts == TypeOK /\ Counted /\ Posted /\ [Next]_vars => Counted'
<1> SUFFICES ASSUME TypeOK, Counted, Posted, [Next]_vars PROVE Counted'
  OBVIOUS
<1> DEFINE Same(d) == /\ deliveries'[d].status = deliveries[d].status
                      /\ deliveries'[d].attempt = deliveries[d].attempt
           Fine(row) == /\ row.status = "pending" => row.tries >= row.attempt - 1
                        /\ row.status = "failed" => row.tries >= MaxAttempts
<1>1. Onward
  BY StepOnward
<1>2. ASSUME NEW d \in DOMAIN deliveries, Same(d) PROVE Fine(deliveries'[d])
  <2>1. /\ deliveries'[d] \in Row /\ deliveries[d] \in Row
        /\ deliveries'[d].tries >= deliveries[d].tries
    BY <1>1, DeliveriesAreSequence, LenProperties, ElementOfSeq DEF Onward, Evolves
  <2>2. /\ deliveries'[d].tries \in Nat /\ deliveries[d].tries \in Nat
        /\ deliveries[d].attempt \in Nat
    BY <2>1, Constants DEF Row
  <2> QED BY <1>2, <2>1, <2>2, Constants DEF Counted
<1>3. ASSUME \A d \in DOMAIN deliveries : Same(d),
             \A d \in New : Fine(deliveries'[d])
      PROVE  Counted'
  BY <1>2, <1>3 DEF Counted, New
<1>4. ASSUME NoneAdded, \A d \in DOMAIN deliveries : Same(d) PROVE Counted'
  BY <1>3, <1>4 DEF NoneAdded, New
<1>5. ASSUME UNCHANGED deliveries PROVE Counted'
  BY <1>4, <1>5 DEF NoneAdded
<1>6. ASSUME NEW d \in DOMAIN deliveries, Resend(d) PROVE Counted'
  <2>1. \A f \in New : Fine(deliveries'[f])
    <3> TAKE f \in New
    <3>1. deliveries'[f] = Delivery(deliveries[d].hook, deliveries[d].event, TRUE)
      BY <1>6, ResendMoves
    <3> QED BY <3>1 DEF Delivery
  <2>2. \A f \in DOMAIN deliveries : Same(f)
    BY <1>6, ResendMoves
  <2> QED BY <1>3, <2>1, <2>2
<1>7. ASSUME NEW w \in Workers, Job(w) PROVE Counted'
  <2>1. ASSUME Commit(w) PROVE Counted'
    <3>1. \A f \in New : Fine(deliveries'[f])
      <4> TAKE f \in New
      <4>1. PICK p \in worker[w].queued : deliveries'[f] = Delivery(p[1], p[2], FALSE)
        BY <2>1, CommitMoves
      <4> QED BY <4>1 DEF Delivery
    <3>2. \A f \in DOMAIN deliveries : Same(f)
      BY <2>1, CommitMoves
    <3> QED BY <1>3, <3>1, <3>2
  <2>2. ASSUME Claim(w) PROVE Counted'
    BY <1>4, <2>2, ClaimMoves
  <2>3. ASSUME NEW c \in worker[w].batch, StartPost(w, c) PROVE Counted'
    <3>1. NoneAdded /\ c[1] \in DOMAIN deliveries
          /\ deliveries' = [deliveries EXCEPT ![c[1]].tries = @ + 1]
      BY <2>3, StartPostMoves DEF StartPost
    <3>2. \A d \in DOMAIN deliveries : deliveries[d] \in Row
      BY DeliveriesAreSequence
    <3>3. \A d \in DOMAIN deliveries : Same(d)
      BY <3>1, <3>2 DEF Row
    <3> QED BY <1>4, <3>1, <3>3
  <2>4. ASSUME NEW c \in worker[w].sending, NEW accepted \in BOOLEAN, NEW heard \in BOOLEAN,
               Answer(w, c, accepted, heard)
        PROVE  Counted'
    BY <1>4, <2>4, AnswerMoves
  <2>5. ASSUME NEW c \in worker[w].sending, Record(w, c) PROVE Counted'
    <3> SUFFICES ASSUME NEW d \in DOMAIN deliveries PROVE Fine(deliveries'[d])
      BY <2>5, RecordMoves DEF Counted, NoneAdded
    <3>1. CASE deliveries'[d] = deliveries[d]
      BY <1>2, <3>1
    <3>2. CASE /\ d = c[1]
               /\ deliveries'[d].tries = deliveries[d].tries
               /\ deliveries'[d].status = "failed" => c[2] = MaxAttempts
               /\ deliveries'[d].status = "pending" => deliveries'[d].attempt = c[2] + 1
      <4>1. deliveries[d].tries >= c[2] /\ c[2] \in Nat /\ deliveries[d].tries \in Nat
        BY <3>2, ClaimsStay DEF Posted
      <4> QED BY <3>2, <4>1, Constants
    <3> QED BY <2>5, <3>1, <3>2, RecordMoves
  <2> QED BY <1>5, <1>7, <2>1, <2>2, <2>3, <2>4, <2>5 DEF Job, StartTick, Enqueue
<1>8. ASSUME Tick PROVE Counted'
  BY <1>4, <1>8, TickMoves
<1>9. ASSUME NEW w \in Workers, Crash(w) PROVE Counted'
  BY <1>5, <1>9 DEF Crash
<1>10. ASSUME \/ \E o \in Orders, status \in L!Stages : ChangeStatus(o, status)
              \/ \E h \in Hooks : Disable(h)
              \/ UNCHANGED vars
       PROVE  Counted'
  BY <1>5, <1>10 DEF ChangeStatus, Disable, vars
<1> QED BY <1>6, <1>7, <1>8, <1>9, <1>10 DEF Next

LEMMA StepPosts == TypeOK /\ Counted /\ Posted /\ [Next]_vars => Posted'
<1> SUFFICES ASSUME TypeOK, Counted, Posted, [Next]_vars, NEW w \in Workers
             PROVE  /\ \A c \in worker'[w].batch : deliveries'[c[1]].tries >= c[2] - 1
                    /\ \A c \in worker'[w].sending : deliveries'[c[1]].tries >= c[2]
  BY DEF Posted
<1> DEFINE Fine(p) == /\ \A c \in p.batch : deliveries'[c[1]].tries >= c[2] - 1
                      /\ \A c \in p.sending : deliveries'[c[1]].tries >= c[2]
<1> SUFFICES Fine(worker'[w])
  OBVIOUS
<1>1. ASSUME NEW c \in worker[w].batch \union worker[w].sending
      PROVE  /\ deliveries'[c[1]].tries >= deliveries[c[1]].tries
             /\ deliveries'[c[1]].tries \in Nat
  <2>1. c[1] \in DOMAIN deliveries
    BY ClaimsStay
  <2>2. Onward
    BY StepOnward
  <2>3. deliveries'[c[1]] \in Row
    BY <2>1, <2>2, LenProperties, ElementOfSeq DEF Onward
  <2> QED BY <2>1, <2>2, <2>3 DEF Onward, Evolves, Row
<1>2. ASSUME NEW p, p.batch \subseteq worker[w].batch, p.sending \subseteq worker[w].sending
      PROVE  Fine(p)
  <2>1. ASSUME NEW c \in p.batch PROVE deliveries'[c[1]].tries >= c[2] - 1
    BY <1>1, <1>2, <2>1, ClaimsStay DEF Posted
  <2>2. ASSUME NEW c \in p.sending PROVE deliveries'[c[1]].tries >= c[2]
    BY <1>1, <1>2, <2>2, ClaimsStay DEF Posted
  <2> QED BY <2>1, <2>2
<1>3. ASSUME UNCHANGED worker PROVE Fine(worker'[w])
  BY <1>2, <1>3
<1>4. Fine(IdleWorker) /\ Fine([IdleWorker EXCEPT !.pc = "claiming"])
  BY DEF IdleWorker
<1>5. ASSUME NEW v \in Workers, NEW next, worker' = [worker EXCEPT ![v] = next],
             v = w => Fine(next)
      PROVE  Fine(worker'[w])
  <2>1. worker'[w] = IF v = w THEN next ELSE worker[w]
    BY <1>5 DEF TypeOK
  <2>2. Fine(worker[w])
    BY <1>2
  <2> HIDE DEF Fine
  <2> QED BY <1>5, <2>1, <2>2
<1>6. ASSUME NEW v \in Workers, StartTick(v) \/ Enqueue(v) PROVE Fine(worker'[w])
  <2>1. worker[w] \in Process
    BY DEF TypeOK
  <2>2. worker'[w].batch = worker[w].batch /\ worker'[w].sending = worker[w].sending
    BY <1>6, <2>1 DEF StartTick, Enqueue, TypeOK, Process
  <2> QED BY <1>2, <2>2
<1>7. ASSUME NEW v \in Workers, Commit(v) PROVE Fine(worker'[w])
  <2> HIDE DEF Fine
  <2> QED BY <1>4, <1>5, <1>7 DEF Commit
<1>8. ASSUME NEW v \in Workers, Claim(v) PROVE Fine(worker'[w])
  <2>1. PICK S \in SUBSET {d \in DOMAIN deliveries : Due(d)} :
           worker' = [worker EXCEPT
              ![v] = IF S = {} THEN IdleWorker
                     ELSE [IdleWorker EXCEPT !.pc = "posting",
                              !.batch = {<<d, deliveries[d].attempt>> : d \in S}]]
    BY <1>8 DEF Claim
  <2> DEFINE claims == {<<d, deliveries[d].attempt>> : d \in S}
             next == [IdleWorker EXCEPT !.pc = "posting", !.batch = claims]
  <2>2. \A c \in claims : deliveries'[c[1]].tries >= c[2] - 1
    <3> SUFFICES ASSUME NEW d \in S
                 PROVE  deliveries'[d].tries >= deliveries[d].attempt - 1
      OBVIOUS
    <3>1. d \in DOMAIN deliveries /\ deliveries[d].status = "pending"
      BY DEF Due
    <3>2. deliveries[d] \in Row /\ deliveries'[d] \in Row
          /\ deliveries'[d].tries >= deliveries[d].tries
      BY <3>1, StepOnward, DeliveriesAreSequence, LenProperties, ElementOfSeq
         DEF Onward, Evolves
    <3>3. /\ deliveries[d].tries \in Nat /\ deliveries'[d].tries \in Nat
          /\ deliveries[d].attempt \in Nat
      BY <3>2, Constants DEF Row
    <3> QED BY <3>1, <3>2, <3>3 DEF Counted
  <2> HIDE DEF claims
  <2>3. next.batch = claims /\ next.sending = {}
    BY DEF IdleWorker
  <2>4. Fine(next)
    BY <2>2, <2>3
  <2>5. worker' = [worker EXCEPT ![v] = IF S = {} THEN IdleWorker ELSE next]
    BY <2>1 DEF claims
  <2> HIDE DEF Fine, next
  <2> QED BY <1>4, <1>5, <2>4, <2>5
<1>9. ASSUME NEW v \in Workers, NEW c \in worker[v].batch, StartPost(v, c)
      PROVE  Fine(worker'[w])
  <2> DEFINE next == [worker[v] EXCEPT !.pc = "sending", !.batch = @ \ {c},
                                       !.sending = {c}, !.spent = 0]
  <2>1. worker' = [worker EXCEPT ![v] = next]
    BY <1>9 DEF StartPost
  <2>2. next.batch = worker[v].batch \ {c} /\ next.sending = {c}
    <3>1. worker[v] \in Process
      BY DEF TypeOK
    <3> QED BY <3>1 DEF Process
  <2>3. ASSUME v = w PROVE Fine(next)
    <3>1. deliveries'[c[1]].tries >= c[2]
      <4>1. /\ c[1] \in DOMAIN deliveries /\ c[2] \in Nat
            /\ deliveries[c[1]].tries \in Nat /\ deliveries[c[1]].tries >= c[2] - 1
        BY <1>9, ClaimsStay DEF Posted
      <4>2. deliveries'[c[1]] = [deliveries[c[1]] EXCEPT !.tries = @ + 1]
        BY <1>9, StartPostMoves
      <4>3. deliveries'[c[1]].tries = deliveries[c[1]].tries + 1
        BY <4>1, <4>2, TriedRow, DeliveriesAreSequence
      <4> QED BY <4>1, <4>3
    <3>2. ASSUME NEW b \in worker[w].batch PROVE deliveries'[b[1]].tries >= b[2] - 1
      BY <1>1, <3>2, ClaimsStay DEF Posted
    <3> HIDE DEF next
    <3> QED BY <2>2, <2>3, <3>1, <3>2
  <2> HIDE DEF Fine, next
  <2> QED BY <1>5, <2>1, <2>3
<1>10. ASSUME NEW v \in Workers, NEW c \in worker[v].sending, NEW accepted \in BOOLEAN,
              NEW heard \in BOOLEAN, Answer(v, c, accepted, heard)
       PROVE  Fine(worker'[w])
  <2>1. worker[w] \in Process
    BY DEF TypeOK
  <2>2. worker'[w].batch = worker[w].batch /\ worker'[w].sending = worker[w].sending
    BY <1>10, <2>1 DEF Answer, TypeOK, Process
  <2> QED BY <1>2, <2>2
<1>11. ASSUME NEW v \in Workers, NEW c \in worker[v].sending, Record(v, c)
       PROVE  Fine(worker'[w])
  <2> DEFINE next == [IdleWorker EXCEPT !.pc = "posting", !.batch = worker[v].batch]
  <2>1. next.batch = worker[v].batch /\ next.sending = {}
    BY DEF IdleWorker
  <2>2. v = w => Fine(next)
    BY <1>2, <2>1
  <2>3. worker' = [worker EXCEPT ![v] = IF worker[v].batch = {} THEN IdleWorker ELSE next]
    BY <1>11 DEF Record
  <2> HIDE DEF Fine, next
  <2> QED BY <1>4, <1>5, <2>2, <2>3
<1>12. ASSUME NEW v \in Workers, Crash(v) PROVE Fine(worker'[w])
  <2> HIDE DEF Fine
  <2> QED BY <1>4, <1>5, <1>12 DEF Crash
<1>13. ASSUME Tick PROVE Fine(worker'[w])
  <2>1. worker[w] \in Process
    BY DEF TypeOK
  <2>2. worker'[w].batch = worker[w].batch /\ worker'[w].sending = worker[w].sending
    BY <1>13, <2>1 DEF Tick, Process
  <2> QED BY <1>2, <2>2
<1>14. ASSUME \/ \E o \in Orders, status \in L!Stages : ChangeStatus(o, status)
              \/ \E h \in Hooks : Disable(h)
              \/ \E d \in DOMAIN deliveries : Resend(d)
              \/ UNCHANGED vars
       PROVE  Fine(worker'[w])
  <2>1. UNCHANGED worker
    BY <1>14 DEF ChangeStatus, Disable, Resend, vars
  <2> QED BY <1>3, <2>1
<1> HIDE DEF Fine
<1> QED BY <1>6, <1>7, <1>8, <1>9, <1>10, <1>11, <1>12, <1>13, <1>14 DEF Next, Job

\* A delivery is given up on only after its whole schedule was posted, whatever batch
\* outlives its lease or its process, and whoever else posts the same delivery meanwhile
\* (claimPendingWebhookDeliveries, recordWebhookDeliveryOutcome).
THEOREM NoAttemptIsLost == Spec => []GivenUpAfterAllAttempts
<1>1. Spec => [](Counted /\ Posted)
  BY InitCounts, StepCounts, StepPosts, DeliveryTypes, PTL DEF Spec
<1>2. Counted => GivenUpAfterAllAttempts
  BY DEF Counted, GivenUpAfterAllAttempts
<1> QED BY <1>1, <1>2, PTL
=============================================================================
