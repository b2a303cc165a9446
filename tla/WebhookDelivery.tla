--------------------------- MODULE WebhookDelivery ---------------------------
(***************************************************************************)
(* From a status change of an order to the merchant's endpoint.  A trigger *)
(* on payment_orders puts each kind of event of an order into an outbox,   *)
(* once, in the transaction that changes the status.  A job in every API   *)
(* process drains the outbox into webhook_deliveries in one transaction,   *)
(* claims due deliveries under a lease and posts them one after the other. *)
(*                                                                         *)
(* Times are ticks to go (next_retry_at less the current time), so that    *)
(* time needs no bound.  An event is its order and status: the outbox is   *)
(* unique in (order_id, event_type).  Payloads, signatures, the LIMIT of   *)
(* the outbox claim and test events are left out.                          *)
(***************************************************************************)
EXTENDS Integers, Sequences, FiniteSets, FiniteSetsExt, SequencesExt

CONSTANTS
    Orders,       \* order ids
    Hooks,        \* webhook endpoints of the merchant
    Subscribed,   \* the statuses an endpoint subscribes to
    Workers,      \* API processes that run the delivery job
    Batch,        \* deliveries claimed at a time
    Lease,        \* how long a claim lasts
    PostTime,     \* WEBHOOK_HTTP_TIMEOUT_MS
    Delays,       \* WEBHOOK_RETRY_DELAYS_SECONDS
    MaxResends,   \* bound: manual resends
    MaxCrashes    \* bound: crashes of processes

Told == {"pending_payment", "verifying", "completed", "expired", "payment_anomaly"}
\* Rows of a type nobody subscribes to are left out: fan-out only marks them processed.
Events == Orders \X UNION {Subscribed[h] : h \in Hooks}
MaxAttempts == Len(Delays) + 1

ASSUME WebhookAssumption ==
    /\ IsFiniteSet(Orders) /\ IsFiniteSet(Hooks)
    /\ Subscribed \in [Hooks -> SUBSET Told]
    /\ Batch \in Nat \ {0} /\ Lease \in Nat \ {0} /\ PostTime \in Nat \ {0}
    /\ PostTime <= Lease
    /\ Delays \in Seq(Nat)
    /\ MaxResends \in Nat /\ MaxCrashes \in Nat

VARIABLES
    stage,        \* the status of each order
    outbox,       \* payment_order_webhook_outbox
    enabled,      \* webhook_endpoints.enabled
    deliveries,   \* webhook_deliveries, in the order of insertion
    worker,       \* the job of each process
    resends, crashes

vars == <<stage, outbox, enabled, deliveries, worker, resends, crashes>>
tables == <<stage, outbox, enabled, resends>>

\* A new row of webhook_deliveries.  `tries` and `accepted` record what the endpoint saw.
Delivery(h, e, resend) ==
    [hook |-> h, event |-> e, resend |-> resend, status |-> "pending", attempt |-> 1,
     wait |-> 0, tries |-> 0, accepted |-> FALSE]

IdleWorker == [pc |-> "idle", rows |-> {}, queued |-> {}, batch |-> {}, sending |-> {},
               spent |-> 0, ok |-> FALSE]

-----------------------------------------------------------------------------
(***************************************************************************)
(* Orders and the trigger; the merchant.                                   *)
(***************************************************************************)
L == INSTANCE OrderLifecycle WITH
        Credits <- {1}, NoCredit <- 0, credit <- [o \in Orders |-> 0]

\* An order moves as OrderLifecycle allows, credited or not.
ChangeStatus(o, status) ==
    /\ status \in (L!Uncredited(stage[o]) \union L!Credited(stage[o])) \ {stage[o]}
    /\ stage' = [stage EXCEPT ![o] = status]
    /\ outbox' = [e \in Events |-> IF e = <<o, status>> /\ outbox[e] = "none"
                                   THEN "queued" ELSE outbox[e]]
    /\ UNCHANGED <<enabled, deliveries, worker, resends, crashes>>

Disable(h) ==
    /\ enabled[h]
    /\ enabled' = [enabled EXCEPT ![h] = FALSE]
    /\ UNCHANGED <<stage, outbox, deliveries, worker, resends, crashes>>

Resend(d) ==
    /\ resends < MaxResends
    /\ enabled[deliveries[d].hook]
    /\ deliveries[d].status \in {"success", "failed"}
    /\ deliveries' = Append(deliveries, Delivery(deliveries[d].hook, deliveries[d].event, TRUE))
    /\ resends' = resends + 1
    /\ UNCHANGED <<stage, outbox, enabled, worker, crashes>>

-----------------------------------------------------------------------------
(***************************************************************************)
(* Fan-out: one transaction that locks queued rows (SKIP LOCKED), inserts  *)
(* deliveries nobody sees before the commit, and marks the rows processed. *)
(***************************************************************************)
\* Mutant: the claim does not skip rows another transaction has locked.
QueuedRows == {e \in Events : outbox[e] = "queued"}
ClaimableRows == {e \in QueuedRows : \A w \in Workers : e \notin worker[w].rows}

StartTick(w) ==
    /\ worker[w].pc = "idle"
    /\ worker' = [worker EXCEPT ![w].pc = "queueing", ![w].rows = ClaimableRows]
    /\ UNCHANGED <<tables, deliveries, crashes>>

HasDelivery(h, e) ==
    \E d \in DOMAIN deliveries : deliveries[d].hook = h /\ deliveries[d].event = e

Enqueue(w) ==
    /\ worker[w].pc = "queueing"
    /\ worker' = [worker EXCEPT
          ![w].pc = "committing",
          ![w].queued = {p \in Hooks \X worker[w].rows :
                            /\ enabled[p[1]]
                            /\ p[2][2] \in Subscribed[p[1]]
                            /\ ~HasDelivery(p[1], p[2])}]
    /\ UNCHANGED <<tables, deliveries, crashes>>

Commit(w) ==
    /\ worker[w].pc = "committing"
    /\ \E added \in SetToSeqs({Delivery(p[1], p[2], FALSE) : p \in worker[w].queued}) :
          deliveries' = deliveries \o added
    /\ outbox' = [e \in Events |-> IF e \in worker[w].rows THEN "processed" ELSE outbox[e]]
    /\ worker' = [worker EXCEPT ![w] = [IdleWorker EXCEPT !.pc = "claiming"]]
    /\ UNCHANGED <<stage, enabled, resends, crashes>>

-----------------------------------------------------------------------------
(***************************************************************************)
(* Delivery: claim a batch under a lease, post one after the other, record *)
(* each outcome under a guard.                                             *)
(***************************************************************************)
Due(d) == /\ deliveries[d].status = "pending"
          /\ deliveries[d].wait = 0
          /\ enabled[deliveries[d].hook]

\* Mutant: a claimed delivery counts as sent before it is posted.
HoldAsSent(row) == [row EXCEPT !.status = "success"]
Hold(row) == [row EXCEPT !.wait = Lease]

Claim(w) ==
    LET due == {d \in DOMAIN deliveries : Due(d)}
    IN  /\ worker[w].pc = "claiming"
        /\ \E S \in SUBSET due :
              /\ Cardinality(S) = Min({Batch, Cardinality(due)})
              /\ deliveries' = [d \in DOMAIN deliveries |->
                                   IF d \in S THEN Hold(deliveries[d]) ELSE deliveries[d]]
              /\ worker' = [worker EXCEPT
                    ![w] = IF S = {} THEN IdleWorker
                           ELSE [IdleWorker EXCEPT !.pc = "posting",
                                    !.batch = {<<d, deliveries[d].attempt>> : d \in S}]]
        /\ UNCHANGED <<tables, crashes>>

\* `sending` holds the delivery being posted, with the attempt it was claimed at.
StartPost(w, c) ==
    /\ worker[w].pc = "posting"
    /\ c \in worker[w].batch
    /\ worker' = [worker EXCEPT ![w].pc = "sending", ![w].batch = @ \ {c},
                                ![w].sending = {c}, ![w].spent = 0]
    /\ deliveries' = [deliveries EXCEPT ![c[1]].tries = @ + 1]
    /\ UNCHANGED <<tables, crashes>>

\* The endpoint accepts the event or not, and the process hears "2xx" or not.
Answer(w, c, accepted, heard) ==
    /\ worker[w].pc = "sending"
    /\ c \in worker[w].sending
    /\ worker' = [worker EXCEPT ![w].pc = "recording", ![w].ok = accepted /\ heard]
    /\ deliveries' = [deliveries EXCEPT ![c[1]].accepted = @ \/ accepted]
    /\ UNCHANGED <<tables, crashes>>

\* webhookRetryAfterFailure.
\* Mutant: gives up one retry early.
GivesUpEarly(attempt) == attempt >= Len(Delays)
GivesUp(attempt) == attempt > Len(Delays)

\* The delay runs from the start of the post.
RetryWait(attempt, spent) == IF Delays[attempt] > spent THEN Delays[attempt] - spent ELSE 0

\* Mutant: giving up counts one more attempt.
CloseOneMore(row, status, attempt) ==
    [row EXCEPT !.status = status, !.attempt = attempt + 1, !.wait = 0]
Close(row, status, attempt) == [row EXCEPT !.status = status, !.attempt = attempt, !.wait = 0]

Outcome(row, attempt, ok, spent) ==
    CASE ok -> Close(row, "success", attempt)
      [] ~ok /\ GivesUp(attempt) -> Close(row, "failed", attempt)
      [] OTHER -> [row EXCEPT !.attempt = attempt + 1, !.wait = RetryWait(attempt, spent)]

\* Mutant: whoever posted it last records it.
RecordsAlways(row, attempt) == TRUE
Records(row, attempt) == row.status = "pending" /\ row.attempt = attempt

Record(w, c) ==
    /\ worker[w].pc = "recording"
    /\ c \in worker[w].sending
    /\ deliveries' = [deliveries EXCEPT ![c[1]] =
          IF Records(@, c[2]) THEN Outcome(@, c[2], worker[w].ok, worker[w].spent) ELSE @]
    /\ worker' = [worker EXCEPT
          ![w] = IF @.batch = {} THEN IdleWorker
                 ELSE [IdleWorker EXCEPT !.pc = "posting", !.batch = worker[w].batch]]
    /\ UNCHANGED <<tables, crashes>>

\* A process dies, or an error ends its tick: its transaction rolls back, its claims stay.
Crash(w) ==
    /\ crashes < MaxCrashes
    /\ worker[w].pc # "idle"
    /\ worker' = [worker EXCEPT ![w] = IdleWorker]
    /\ crashes' = crashes + 1
    /\ UNCHANGED <<tables, deliveries>>

\* Time passes but not between the posts of a batch, and no post uses more than its time.
CanTick ==
    /\ \A w \in Workers : /\ worker[w].pc \notin {"posting", "recording"}
                          /\ worker[w].pc = "sending" => worker[w].spent < PostTime
    /\ \/ \E w \in Workers : worker[w].pc = "sending"
       \/ \E d \in DOMAIN deliveries : deliveries[d].wait > 0

Tick ==
    /\ CanTick
    /\ deliveries' = [d \in DOMAIN deliveries |->
          [deliveries[d] EXCEPT !.wait = IF @ > 0 THEN @ - 1 ELSE 0]]
    /\ worker' = [w \in Workers |->
          IF worker[w].pc = "sending" THEN [worker[w] EXCEPT !.spent = @ + 1] ELSE worker[w]]
    /\ UNCHANGED <<tables, crashes>>

-----------------------------------------------------------------------------
Init ==
    /\ stage = [o \in Orders |-> "absent"]
    /\ outbox = [e \in Events |-> "none"]
    /\ enabled = [h \in Hooks |-> TRUE]
    /\ deliveries = <<>>
    /\ worker = [w \in Workers |-> IdleWorker]
    /\ resends = 0
    /\ crashes = 0

Job(w) ==
    \/ StartTick(w) \/ Enqueue(w) \/ Commit(w) \/ Claim(w)
    \/ \E c \in worker[w].batch : StartPost(w, c)
    \/ \E c \in worker[w].sending :
          \/ \E accepted, heard \in BOOLEAN : Answer(w, c, accepted, heard)
          \/ Record(w, c)

Next ==
    \/ \E o \in Orders, status \in L!Stages : ChangeStatus(o, status)
    \/ \E h \in Hooks : Disable(h)
    \/ \E d \in DOMAIN deliveries : Resend(d)
    \/ \E w \in Workers : Job(w) \/ Crash(w)
    \/ Tick

Spec == Init /\ [][Next]_vars

\* The job of every process ticks for ever and none of its steps waits for another process,
\* which is weak fairness of Job(w); time passes whatever the processes do, which is strong
\* fairness of Tick.  Both are written without ENABLED: a job always has a step to take.
FairSpec ==
    /\ Spec
    /\ \A w \in Workers : []<><<Job(w)>>_vars
    /\ <>[]~CanTick \/ []<><<Tick>>_vars

-----------------------------------------------------------------------------
Row == [hook : Hooks, event : Events, resend : BOOLEAN,
        status : {"pending", "success", "failed"}, attempt : 1..MaxAttempts,
        wait : Nat, tries : Nat, accepted : BOOLEAN]

Claims == (DOMAIN deliveries) \X (1..MaxAttempts)

Process ==
    [pc : {"idle", "queueing", "committing", "claiming", "posting", "sending", "recording"},
     rows : SUBSET Events, queued : SUBSET (Hooks \X Events),
     batch : SUBSET Claims, sending : SUBSET Claims,
     spent : 0..PostTime, ok : BOOLEAN]

\* Every variable has its type; a delivery is never at an attempt the schedule does not have.
TypeOK ==
    /\ stage \in [Orders -> L!Stages]
    /\ outbox \in [Events -> {"none", "queued", "processed"}]
    /\ enabled \in [Hooks -> BOOLEAN]
    /\ deliveries \in Seq(Row)
    /\ worker \in [Workers -> Process]
    /\ resends \in 0..MaxResends
    /\ crashes \in 0..MaxCrashes

\* An event is queued for an endpoint once, however many processes drain the outbox and
\* wherever one of them dies; only a resend queues it again.
QueuedOnce ==
    \A d, f \in DOMAIN deliveries :
        /\ d # f
        /\ deliveries[d].hook = deliveries[f].hook
        /\ deliveries[d].event = deliveries[f].event
        => deliveries[d].resend \/ deliveries[f].resend

\* A delivery is given up on only after the whole schedule of attempts was posted: a batch
\* that outlives its lease or its process never uses an attempt up without posting it.
GivenUpAfterAllAttempts ==
    \A d \in DOMAIN deliveries :
        deliveries[d].status = "failed" => deliveries[d].tries >= MaxAttempts

\* What was recorded stands: a slow process that answers late neither takes a success or a
\* failure back nor rewinds the attempts of a delivery another process has posted since.
OutcomesStand ==
    [][\A d \in DOMAIN deliveries :
          /\ deliveries[d].status # "pending" => deliveries'[d].status = deliveries[d].status
          /\ deliveries'[d].attempt >= deliveries[d].attempt]_vars

\* "no other tick or process picks the same row while it is being posted"
\* (webhook-store.mjs:207).  A batch posted one after the other outlasts its lease.
LeaseCoversPosting ==
    \A v, w \in Workers : v # w /\ worker[v].pc = "sending" /\ worker[w].pc = "sending" =>
        \A c \in worker[v].sending, e \in worker[w].sending : c[1] # e[1]

\* A status change reaches every endpoint that subscribes to it, at least once: the endpoint
\* accepts it, or the whole schedule was tried in vain, or it was disabled; whatever process
\* crashed with the event in hand.
Concluded(h, e) ==
    \E d \in DOMAIN deliveries :
        /\ deliveries[d].hook = h /\ deliveries[d].event = e
        /\ deliveries[d].accepted \/ deliveries[d].status = "failed"

EveryEventConcludes ==
    \A h \in Hooks : \A e \in Orders \X Subscribed[h] :
        outbox[e] = "queued" ~> Concluded(h, e) \/ ~enabled[h]
=============================================================================
