--------------------------- MODULE PaymentOrders ---------------------------
(***************************************************************************)
(* The payment_orders table and everything that writes it: the API's       *)
(* create, re-quote, cancel, expire and resolve operations, and the        *)
(* watcher, a separate process that lists open orders, polls the chain,    *)
(* matches transfers against what it listed and follows confirmations.     *)
(*                                                                         *)
(* The watcher never holds a database lock across its work.  A scope run   *)
(* (one asset on one network) lists rows, polls, and then for each         *)
(* transfer decides from the LISTED rows, re-reads the rows it is about to *)
(* write with a SELECT, and writes with a guarded UPDATE: three separate   *)
(* statements with any API or watcher step in between.  Confirmation       *)
(* follow-up is listed, observed, selected and written in the same way, by *)
(* the scope run itself and by a priority pass over all orders.  A crash   *)
(* of the watcher forgets everything but the tables.                       *)
(***************************************************************************)
EXTENDS Integers, FiniteSets

CONSTANTS
    Orders,          \* order ids
    Scopes,          \* asset/network pairs
    NetworkOf,       \* the network of a scope
    WalletsOf,       \* the settlement addresses the merchant may set for a scope in turn
    Required,        \* required_confirmations of a scope
    Modes,           \* matching modes the merchant may set
    Quotes,          \* payable amounts a quote may ask for
    Transfers,       \* token transfers (outputs) the payers may make
    HashOf,          \* the transaction a transfer belongs to
    Payments,        \* what a transfer may carry: [scope, addr, amount, memo]
    Memos,           \* memos Mode D may hand out
    None,            \* the SQL NULL
    Dust, Step, MaxSteps, MemoSupported,
    Validity,        \* payment window, in clock ticks
    Lookback,        \* LATE_PAYMENT_LOOKBACK_MS, in clock ticks
    DropMin,         \* REORG_CONFIRMATION_DROP_MIN
    MissingMin,      \* MISSING_OBSERVATIONS_FOR_REORG
    Horizon,         \* bound: the clock stops here
    MaxDepth,        \* bound: deepest confirmation count of a transaction
    MaxCrashes,      \* bound: crashes of the watcher
    Requotes,        \* whether payers re-quote orders
    Followers,       \* bound: who follows confirmations up, Scopes and the priority pass
    LossyPolls,      \* whether a poll may miss transfers it should list
    MaxReorgs        \* bound: reorganisations of one transaction

M == INSTANCE Matching WITH NoMemo <- None

Hashes == {HashOf[t] : t \in Transfers}
Priority == "priority"
Confirmers == Scopes \union {Priority}

ASSUME TableAssumption ==
    /\ NetworkOf \in [Scopes -> STRING]
    /\ Required \in [Scopes -> Nat]
    /\ DOMAIN WalletsOf = Scopes
    /\ DOMAIN HashOf = Transfers
    /\ None \notin Orders \union Scopes \union Memos \union Hashes
    /\ Priority \notin Scopes
ASSUME AmountAssumption ==
    /\ Quotes \subseteq Nat
    /\ Payments \subseteq [scope : Scopes, addr : {p.addr : p \in Payments}, amount : Nat,
                           memo : Memos \union {None}]
    /\ Dust \in Nat /\ Step \in Nat \ {0} /\ Dust < Step /\ MaxSteps \in Nat
    /\ Modes \subseteq {"B", "C", "D"}
ASSUME TimeAssumption ==
    /\ Validity \in Nat \ {0} /\ Lookback \in Nat
    /\ DropMin \in Nat \ {0} /\ MissingMin \in Nat \ {0}
    /\ Horizon \in Nat /\ MaxDepth \in Nat
    /\ MaxCrashes \in Nat /\ MaxReorgs \in Nat
ASSUME SwitchAssumption ==
    Followers \subseteq Confirmers /\ Requotes \in BOOLEAN /\ LossyPolls \in BOOLEAN

VARIABLES
    now,       \* the clock
    orders,    \* the payment_orders table
    tx,        \* transactions on the chain
    paid,      \* what each mined transfer carries
    run,       \* the watcher's run of each scope
    job,       \* confirmation follow-ups in progress
    streak,    \* consecutive "missing" answers per order
    crashes    \* crashes of the watcher so far

vars == <<now, orders, tx, paid, run, job, streak, crashes>>
watcherVars == <<run, job, streak, crashes>>
chainVars == <<tx, paid>>

-----------------------------------------------------------------------------
(***************************************************************************)
(* Types.                                                                  *)
(***************************************************************************)
Statuses == {"absent", "pending_payment", "verifying", "completed", "expired",
             "cancelled", "payment_anomaly"}
Reasons == {"none", "late", "collision", "mismatch", "memo_missing",
            "memo_collision", "memo_mismatch", "wrong_rail", "reorg"}

NullRow == [status |-> "absent", mode |-> None, scope |-> None, addr |-> None,
            payable |-> 0, memo |-> None, created |-> 0, expires |-> 0,
            tx |-> None, received |-> None, confs |-> 0, reason |-> "none"]

NullPayment == [scope |-> None, addr |-> None, amount |-> 0, memo |-> None, at |-> 0]
NoHit == [t |-> None, status |-> "none", reason |-> "none", writes |-> {}, holder |-> None]
IdleRun == [pc |-> "idle", rows |-> [o \in Orders |-> NullRow], watched |-> {},
            batch |-> {}, fresh |-> {}, hit |-> NoHit]
NoJob == [stage |-> "none", confs |-> 0, next |-> "none"]

Addrs == (UNION {WalletsOf[s] : s \in Scopes}) \union {p.addr : p \in Payments}

Row == [status : Statuses, mode : Modes \union {None}, scope : Scopes \union {None},
        addr : Addrs \union {None}, payable : Nat, memo : Memos \union {None},
        created : Nat, expires : Nat, tx : Hashes \union {None},
        received : Nat \union {None}, confs : Nat, reason : Reasons]

Hit == [t : Transfers \union {None},
        status : {"none", "verifying", "payment_anomaly"}, reason : Reasons,
        writes : SUBSET Orders, holder : Orders \union {None}]

Transaction == [state : {"unseen", "mined", "failed", "gone"}, depth : 0..MaxDepth,
                peak : 0..MaxDepth, reorgs : 0..MaxReorgs]

Payment == [scope : Scopes \union {None}, addr : Addrs \union {None}, amount : Nat,
            memo : Memos \union {None}, at : Nat]

Run == [pc : {"idle", "polling", "matching", "writing", "confirming"},
        rows : [Orders -> Row], watched : SUBSET (Addrs \union {None}), batch : SUBSET Transfers,
        fresh : SUBSET Hashes, hit : Hit]

Job == [stage : {"none", "listed", "decided", "selected"}, confs : Nat,
        next : {"none", "completed", "payment_anomaly"}]

-----------------------------------------------------------------------------
(***************************************************************************)
(* The row groups the code queries by.                                     *)
(***************************************************************************)
MatchStatuses == {"pending_payment", "verifying", "payment_anomaly"}
\* Mutant: an order cancelled while its payment was in hand is matched all the same.
MatchApplyUnlessSettled == {"pending_payment", "verifying", "payment_anomaly", "expired",
                            "cancelled"}
MatchApplyStatuses == {"pending_payment", "verifying", "payment_anomaly", "expired"}
ConfirmStatuses == {"verifying"}
ModeBBlockStatuses == {"pending_payment", "verifying"}
ReservedStatuses == {"pending_payment", "verifying", "payment_anomaly"}

\* Mutant: expired orders are not listed.
ListedOpen(o) == orders[o].status \in MatchStatuses

\* Rows the watcher lists: open, or expired within the late-payment lookback.
Listed(o) ==
    \/ orders[o].status \in MatchStatuses
    \/ orders[o].status = "expired" /\ orders[o].expires >= now - Lookback

AwaitingConfirmation(o) == orders[o].status \in ConfirmStatuses /\ orders[o].tx # None

AtWallet(s, w, statuses) ==
    {o \in Orders : /\ orders[o].scope = s
                    /\ orders[o].addr = w
                    /\ orders[o].status \in statuses}

\* The unique index on (network, tx_hash, receive_address).
SameOutput(r, q) == /\ r.tx # None /\ r.tx = q.tx /\ r.addr = q.addr
                    /\ NetworkOf[r.scope] = NetworkOf[q.scope]
UniqueOutputs(table) ==
    \A o, p \in Orders : o # p => ~SameOutput(table[o], table[p])

KnownOutput(t) ==
    \E o \in Orders : /\ orders[o].tx = HashOf[t]
                      /\ orders[o].addr = paid[t].addr
                      /\ NetworkOf[orders[o].scope] = NetworkOf[paid[t].scope]

-----------------------------------------------------------------------------
(***************************************************************************)
(* The API.  Create and re-quote run assignOnOrderCreate under the         *)
(* advisory lock of the wallet and rail, so each is one step: it reads the *)
(* settlement address of the moment and the reservations at it and writes  *)
(* the row.                                                                *)
(***************************************************************************)
\* What matching assigns to a quote q on scope s at wallet w, the order `self` excluded.
Assignment(mode, s, w, q, self) ==
    LET others(statuses) == AtWallet(s, w, statuses) \ {self}
        reserved == {orders[o].payable : o \in others(ReservedStatuses)}
        taken == {orders[o].memo : o \in others(ReservedStatuses)}
    IN  CASE mode = "B" ->
                IF \E o \in others(ModeBBlockStatuses) : M!AbsDiff(orders[o].payable, q) <= Dust
                THEN {} ELSE {[payable |-> q, memo |-> None]}
          [] mode = "C" ->
                {[payable |-> p, memo |-> None] : p \in M!UniquePayables(q, reserved)}
          [] mode = "D" ->
                IF ~MemoSupported THEN {}
                ELSE {[payable |-> q, memo |-> m] : m \in Memos \ taken}

CreateOrder(o, mode, s, q) ==
    /\ orders[o].status = "absent"
    /\ \E w \in WalletsOf[s] : \E a \in Assignment(mode, s, w, q, o) :
          orders' = [orders EXCEPT ![o] =
              [NullRow EXCEPT !.status = "pending_payment", !.mode = mode, !.scope = s,
                              !.addr = w, !.payable = a.payable, !.memo = a.memo,
                              !.created = now, !.expires = now + Validity]]
    /\ UNCHANGED <<now, chainVars, watcherVars>>

\* lockQuotableOrder takes only a pending, unexpired row; on the same scope the payer may
\* already have sent to the order's address, so a changed wallet refuses the re-quote.
RequoteOrder(o, mode, s, q) ==
    /\ Requotes
    /\ orders[o].status = "pending_payment"
    /\ orders[o].expires > now
    /\ \E w \in WalletsOf[s] : \E a \in Assignment(mode, s, w, q, o) :
          /\ orders[o].scope = s => orders[o].addr = w
          /\ orders' = [orders EXCEPT ![o] =
              [@ EXCEPT !.mode = mode, !.scope = s, !.addr = w,
                        !.payable = a.payable, !.memo = a.memo, !.expires = now + Validity]]
    /\ UNCHANGED <<now, chainVars, watcherVars>>

CancelOrder(o) ==
    /\ orders[o].status = "pending_payment"
    /\ orders' = [orders EXCEPT ![o].status = "cancelled"]
    /\ UNCHANGED <<now, chainVars, watcherVars>>

ResolveAnomaly(o) ==
    /\ orders[o].status = "payment_anomaly"
    /\ orders' = [orders EXCEPT ![o].status = "cancelled"]
    /\ UNCHANGED <<now, chainVars, watcherVars>>

Due(o) == orders[o].status = "pending_payment" /\ orders[o].expires <= now

\* One UPDATE expires every due row.
ExpireDue ==
    /\ \E o \in Orders : Due(o)
    /\ orders' = [o \in Orders |-> IF Due(o) THEN [orders[o] EXCEPT !.status = "expired"]
                                   ELSE orders[o]]
    /\ UNCHANGED <<now, chainVars, watcherVars>>

-----------------------------------------------------------------------------
(***************************************************************************)
(* The chain: a transaction is mined with all its outputs, gains           *)
(* confirmations, and may be reorganised: shallower, failed or gone.       *)
(* peak is the deepest it ever was.                                        *)
(***************************************************************************)
Deepest(a, b) == IF a >= b THEN a ELSE b

OutputsOf(h) == {t \in Transfers : HashOf[t] = h}

Mine(h) ==
    /\ tx[h].state = "unseen"
    /\ \E f \in [OutputsOf(h) -> Payments] :
          /\ \A t, u \in OutputsOf(h) : NetworkOf[f[t].scope] = NetworkOf[f[u].scope]
          /\ paid' = [t \in Transfers |->
                        IF t \in OutputsOf(h)
                        THEN [scope |-> f[t].scope, addr |-> f[t].addr,
                              amount |-> f[t].amount, memo |-> f[t].memo, at |-> now]
                        ELSE paid[t]]
    /\ tx' = [tx EXCEPT ![h].state = "mined"]
    /\ UNCHANGED <<now, orders, watcherVars>>

Deepen(h) ==
    /\ tx[h].state = "mined"
    /\ tx[h].depth < MaxDepth
    /\ tx' = [tx EXCEPT ![h].depth = @ + 1, ![h].peak = Deepest(@, tx[h].depth + 1)]
    /\ UNCHANGED <<now, orders, paid, watcherVars>>

Reorganise(h) ==
    /\ tx[h].state = "mined"
    /\ tx[h].reorgs < MaxReorgs
    /\ \E state \in {"mined", "failed", "gone"}, d \in 0..MaxDepth :
          /\ IF state = "mined" THEN d < tx[h].depth ELSE d = 0
          /\ tx' = [tx EXCEPT ![h].state = state, ![h].depth = d, ![h].reorgs = @ + 1]
    /\ UNCHANGED <<now, orders, paid, watcherVars>>

Tick ==
    /\ now < Horizon
    /\ now' = now + 1
    /\ UNCHANGED <<orders, chainVars, watcherVars>>

-----------------------------------------------------------------------------
(***************************************************************************)
(* The watcher: one run of a scope.                                        *)
(***************************************************************************)
NoFollowUps(c) == \A o \in Orders : job[c][o].stage = "none"

\* Orders of the scope, the addresses they and the rows missing a payer address are watched
\* at, and the orders of any rail at those addresses.  The priority pass of a tick ends
\* before its scope runs start.
ListScope(s) ==
    LET mine == {o \in Orders : Listed(o) /\ orders[o].scope = s}
        backfill == {o \in Orders : orders[o].scope = s /\ orders[o].tx # None}
        watched == {orders[o].addr : o \in mine \union backfill}
        cross == {o \in Orders : Listed(o) /\ orders[o].addr \in watched}
    IN  /\ run[s].pc = "idle"
        /\ NoFollowUps(Priority)
        /\ mine # {}
        /\ run' = [run EXCEPT ![s] =
              [IdleRun EXCEPT !.pc = "polling", !.watched = watched,
                  !.rows = [o \in Orders |-> IF o \in mine \union cross THEN orders[o]
                                             ELSE NullRow]]]
        /\ UNCHANGED <<now, orders, chainVars, job, streak, crashes>>

SameKey(t, u) == HashOf[t] = HashOf[u] /\ paid[t].addr = paid[u].addr

NewTransfers(s) ==
    {t \in Transfers : /\ tx[HashOf[t]].state = "mined"
                       /\ paid[t].scope = s
                       /\ paid[t].addr \in run[s].watched
                       /\ ~KnownOutput(t)}

\* The polled transfers less the outputs some order already holds; the chain clients list
\* one transfer per transaction and address.
PollScope(s) ==
    /\ run[s].pc = "polling"
    /\ \E batch \in SUBSET NewTransfers(s) :
          /\ \A t, u \in batch : SameKey(t, u) => t = u
          /\ LossyPolls \/ \A t \in NewTransfers(s) : \E u \in batch : SameKey(t, u)
          /\ run' = [run EXCEPT ![s].pc = "matching", ![s].batch = batch]
    /\ UNCHANGED <<now, orders, chainVars, job, streak, crashes>>

\* What the listed rows say of a transfer.  `fresh` remembers the transactions whose match
\* said "verifying", applied or not.
Outcome(s, t) == M!MatchInbound(paid[t], run[s].rows)
\* Mutant: remembers the transfer instead of its transaction.
FreshTransferAfter(s, t, status) ==
    IF status = "verifying" THEN run[s].fresh \union {t} ELSE run[s].fresh
FreshAfter(s, t, status) ==
    IF status = "verifying" THEN run[s].fresh \union {HashOf[t]} ELSE run[s].fresh

\* A row with a transaction takes nothing of another; asked by the SELECT and the UPDATE.
\* Mutant: the latest transaction wins.
TakesLatest(row, t) == TRUE
TakesTransaction(row, t) == row.tx \in {None, HashOf[t]}

\* matchWriteNeeded, on the row as the SELECT finds it.
MatchWriteNeeded(row, status, t) ==
    /\ row.status \in MatchApplyStatuses
    /\ row.status = "expired" => status \in {"payment_anomaly", "verifying"}
    /\ TakesTransaction(row, t)
    /\ row.status = status /\ row.tx = HashOf[t] =>
          \/ status = "verifying" /\ row.received # paid[t].amount
          \/ row.received = None

\* A collision already recorded: the hash sits on one order of the group, the others are
\* anomalies without it.
Recorded(ids, o, status, t) ==
    /\ \E p \in ids : orders[p].tx = HashOf[t]
    /\ orders[o].tx = None
    /\ orders[o].status = "payment_anomaly"
    /\ status = "payment_anomaly"

RowsToWrite(ids, status, t) ==
    {o \in ids : ~Recorded(ids, o, status, t) /\ MatchWriteNeeded(orders[o], status, t)}

\* The order of the group that will carry the hash of an anomaly: the one that has it, else
\* the oldest without a hash.
Holders(ids, writes, t) ==
    LET having == {o \in ids : orders[o].tx = HashOf[t]}
        free == {o \in writes : orders[o].tx = None}
    IN  CASE having # {} -> having
          [] having = {} /\ free # {} ->
                {o \in free : \A p \in free : orders[o].created <= orders[p].created}
          [] OTHER -> {None}

SkipTransfer(s, t) ==
    LET out == Outcome(s, t)
    IN  /\ run[s].pc = "matching"
        /\ t \in run[s].batch
        /\ RowsToWrite(out.ids, out.status, t) = {}
        /\ run' = [run EXCEPT ![s].batch = @ \ {t},
                              ![s].fresh = FreshAfter(s, t, out.status)]
        /\ UNCHANGED <<now, orders, chainVars, job, streak, crashes>>

SelectRows(s, t) ==
    LET out == Outcome(s, t)
        writes == RowsToWrite(out.ids, out.status, t)
    IN  /\ run[s].pc = "matching"
        /\ t \in run[s].batch
        /\ writes # {}
        /\ \E holder \in Holders(out.ids, writes, t) :
              run' = [run EXCEPT ![s].pc = "writing",
                                 ![s].batch = @ \ {t},
                                 ![s].fresh = FreshAfter(s, t, out.status),
                                 ![s].hit = [t |-> t, status |-> out.status,
                                             reason |-> IF out.status = "verifying" THEN "none"
                                                        ELSE out.reason,
                                             writes |-> writes, holder |-> holder]]
        /\ UNCHANGED <<now, orders, chainVars, job, streak, crashes>>

\* The guard of the UPDATE, evaluated on the row as it is when the UPDATE runs.
MatchApplies(o, hit) ==
    /\ o \in hit.writes
    /\ orders[o].status \in MatchApplyStatuses
    /\ TakesTransaction(orders[o], hit.t)

MatchedRow(o, hit) ==
    [orders[o] EXCEPT
        !.status = hit.status,
        !.reason = hit.reason,
        !.received = paid[hit.t].amount,
        !.tx = IF hit.status = "verifying" \/ (@ = None /\ o = hit.holder)
               THEN HashOf[hit.t] ELSE @]

\* The UPDATE fails as a whole on the unique index, and the run goes on.
ApplyMatch(s) ==
    LET hit == run[s].hit
        table == [o \in Orders |-> IF MatchApplies(o, hit) THEN MatchedRow(o, hit) ELSE orders[o]]
    IN  /\ run[s].pc = "writing"
        /\ orders' = IF UniqueOutputs(table) THEN table ELSE orders
        /\ run' = [run EXCEPT ![s].pc = "matching", ![s].hit = NoHit]
        /\ UNCHANGED <<now, chainVars, job, streak, crashes>>

-----------------------------------------------------------------------------
(***************************************************************************)
(* Confirmations.  A follow-up of an order by a confirmer is listed,       *)
(* observed on the chain, re-read by a SELECT, and written.                *)
(***************************************************************************)
ListedJob(o) == [stage |-> "listed", confs |-> orders[o].confs, next |-> "none"]

\* A match-only tick ends the run; a full one follows up the orders it just matched.
EndMatching(s) ==
    LET mine == {o \in Orders : /\ AwaitingConfirmation(o)
                                /\ orders[o].scope = s
                                /\ orders[o].tx \in run[s].fresh}
    IN  /\ run[s].pc = "matching"
        /\ run[s].batch = {}
        /\ \/ run' = [run EXCEPT ![s] = IdleRun] /\ UNCHANGED job
           \/ /\ s \in Followers
              /\ run' = [run EXCEPT ![s] = [IdleRun EXCEPT !.pc = "confirming"]]
              /\ job' = [job EXCEPT ![s] = [o \in Orders |-> IF o \in mine THEN ListedJob(o)
                                                             ELSE NoJob]]
        /\ UNCHANGED <<now, orders, chainVars, streak, crashes>>

EndScope(s) ==
    /\ run[s].pc = "confirming"
    /\ NoFollowUps(s)
    /\ run' = [run EXCEPT ![s] = IdleRun]
    /\ UNCHANGED <<now, orders, chainVars, job, streak, crashes>>

StartPriority ==
    /\ Priority \in Followers
    /\ NoFollowUps(Priority)
    /\ \E o \in Orders : AwaitingConfirmation(o)
    /\ job' = [job EXCEPT ![Priority] = [o \in Orders |-> IF AwaitingConfirmation(o)
                                                          THEN ListedJob(o) ELSE NoJob]]
    /\ UNCHANGED <<now, orders, chainVars, run, streak, crashes>>

\* Consecutive "missing" answers, counted up to the number that matters, and whether the
\* first is DROPPED_TX_AFTER_MS old.
NoStreak == [count |-> 0, old |-> FALSE]

StreakAges(o) ==
    /\ streak[o].count > 0 /\ ~streak[o].old
    /\ streak' = [streak EXCEPT ![o].old = TRUE]
    /\ UNCHANGED <<now, orders, chainVars, run, job, crashes>>

\* Mutant: one confirmation short is deep enough.
DeepEnoughOneShort(o, chain) == chain + 1 >= Required[orders[o].scope]
DeepEnough(o, chain) == chain >= Required[orders[o].scope]

\* Mutant: a transaction that vanished before its first confirmation is waited for.
VanishedOnceConfirmed(stored, count, old) == count >= MissingMin /\ stored >= 1
Vanished(stored, count, old) == count >= MissingMin /\ (stored >= 1 \/ old)

\* evaluateConfirmationObservation: what an answer means for an order listed with `stored`
\* confirmations.  stage "none" is skipWrite.
Follow(confs, next) == [stage |-> "decided", confs |-> confs, next |-> next]

Evaluate(o, stored, presence, chain, count, old) ==
    CASE presence = "failed" -> Follow(0, "payment_anomaly")
      [] presence = "missing" ->
            IF Vanished(stored, count, old)
            THEN Follow(0, "payment_anomaly") ELSE NoJob
      [] presence = "confirmed" ->
            CASE stored - chain >= DropMin -> Follow(chain, "payment_anomaly")
              [] stored - chain < DropMin /\ ~DeepEnough(o, chain) -> Follow(chain, "none")
              [] OTHER -> Follow(chain, "completed")
      [] presence = "unknown" -> NoJob

\* An answer updates the order's streak of missing answers; a decision to move the order
\* forgets it.
Observe(c, o, presence, chain) ==
    LET count == IF streak[o].count < MissingMin THEN streak[o].count + 1 ELSE MissingMin
        answer == Evaluate(o, job[c][o].confs, presence, chain, count, streak[o].old)
        missed == IF presence = "missing" THEN [streak[o] EXCEPT !.count = count]
                  ELSE IF presence = "unknown" THEN streak[o] ELSE NoStreak
    IN  /\ job[c][o].stage = "listed"
        /\ job' = [job EXCEPT ![c][o] = answer]
        /\ streak' = [streak EXCEPT ![o] = IF answer.next # "none" THEN NoStreak ELSE missed]
        /\ UNCHANGED <<now, orders, chainVars, run, crashes>>

\* The transaction as the order's network shows it.  Tron also asks for a transfer to the
\* order's address and calls its absence a failure.
OnNetwork(o) ==
    \E t \in OutputsOf(orders[o].tx) : /\ paid[t].scope # None
                                       /\ NetworkOf[paid[t].scope] = NetworkOf[orders[o].scope]
ToAddress(o) ==
    \E t \in OutputsOf(orders[o].tx) : /\ paid[t].scope = orders[o].scope
                                       /\ paid[t].addr = orders[o].addr

ObserveTruth(c, o) ==
    /\ orders[o].tx # None
    /\ LET chain == tx[orders[o].tx]
       IN  CASE chain.state \in {"unseen", "gone"} \/ ~OnNetwork(o) -> Observe(c, o, "missing", 0)
             [] chain.state = "failed" /\ OnNetwork(o) -> Observe(c, o, "failed", 0)
             [] OTHER -> \/ Observe(c, o, "confirmed", chain.depth)
                         \/ ~ToAddress(o) /\ Observe(c, o, "failed", 0)

\* A lagging or load-balanced node answers "missing", or with fewer confirmations than there
\* are; a failed call is "unknown".
ObserveGlitch(c, o) ==
    /\ orders[o].tx # None
    /\ \/ \E presence \in {"missing", "unknown"} : Observe(c, o, presence, 0)
       \/ /\ tx[orders[o].tx].state = "mined" /\ OnNetwork(o)
          /\ \E depth \in 0..MaxDepth :
                depth < tx[orders[o].tx].depth /\ Observe(c, o, "confirmed", depth)

\* confirmationWriteNeeded, on the row as the SELECT finds it.
ConfirmationWriteNeeded(row, j) ==
    /\ row.status \in ConfirmStatuses
    /\ \/ j.next = "payment_anomaly"
       \/ j.next = "completed" /\ j.confs >= row.confs
       \/ j.next = "none" /\ j.confs > row.confs

SelectConfirmation(c, o) ==
    /\ job[c][o].stage = "decided"
    /\ job' = [job EXCEPT ![c][o] =
                  IF ConfirmationWriteNeeded(orders[o], @) THEN [@ EXCEPT !.stage = "selected"]
                  ELSE NoJob]
    /\ UNCHANGED <<now, orders, chainVars, run, streak, crashes>>

\* Mutant: the UPDATE writes its count whatever the row has by now.
ConfirmedRowLastWriter(row, j) ==
    [row EXCEPT !.status = IF j.next = "none" THEN @ ELSE j.next, !.confs = j.confs]

\* The three UPDATEs of applyConfirmationUpdate, each with its own WHERE.
ConfirmedRow(row, j) ==
    CASE j.next = "payment_anomaly" ->
            [row EXCEPT !.status = "payment_anomaly", !.reason = "reorg", !.confs = j.confs]
      [] j.next = "completed" ->
            [row EXCEPT !.status = "completed", !.confs = Deepest(@, j.confs)]
      [] j.next = "none" -> [row EXCEPT !.confs = Deepest(@, j.confs)]

ConfirmationApplies(o) == orders[o].status \in ConfirmStatuses /\ orders[o].tx # None

WriteConfirmation(c, o) ==
    /\ job[c][o].stage = "selected"
    /\ orders' = [orders EXCEPT ![o] =
                     IF ConfirmationApplies(o) THEN ConfirmedRow(@, job[c][o]) ELSE @]
    /\ job' = [job EXCEPT ![c][o] = NoJob]
    /\ UNCHANGED <<now, chainVars, run, streak, crashes>>

\* The watcher process dies and restarts: only the tables survive.
CrashWatcher ==
    /\ crashes < MaxCrashes
    /\ crashes' = crashes + 1
    /\ run' = [s \in Scopes |-> IdleRun]
    /\ job' = [c \in Confirmers |-> [o \in Orders |-> NoJob]]
    /\ streak' = [o \in Orders |-> NoStreak]
    /\ UNCHANGED <<now, orders, chainVars>>

-----------------------------------------------------------------------------
(***************************************************************************)
(* The specification.                                                      *)
(***************************************************************************)
Init ==
    /\ now = 0
    /\ crashes = 0
    /\ orders = [o \in Orders |-> NullRow]
    /\ tx = [h \in Hashes |-> [state |-> "unseen", depth |-> 0, peak |-> 0, reorgs |-> 0]]
    /\ paid = [t \in Transfers |-> NullPayment]
    /\ run = [s \in Scopes |-> IdleRun]
    /\ job = [c \in Confirmers |-> [o \in Orders |-> NoJob]]
    /\ streak = [o \in Orders |-> NoStreak]

Api ==
    \/ \E o \in Orders :
          \/ \E mode \in Modes, s \in Scopes, q \in Quotes :
                CreateOrder(o, mode, s, q) \/ RequoteOrder(o, mode, s, q)
          \/ CancelOrder(o)
          \/ ResolveAnomaly(o)
    \/ ExpireDue

Chain ==
    \/ \E h \in Hashes : Mine(h) \/ Deepen(h) \/ Reorganise(h)
    \/ Tick

ScopeRun(s) ==
    \/ ListScope(s) \/ PollScope(s) \/ ApplyMatch(s) \/ EndMatching(s) \/ EndScope(s)
    \/ \E t \in Transfers : SkipTransfer(s, t) \/ SelectRows(s, t)

FollowUp(c, o) ==
    ObserveTruth(c, o) \/ ObserveGlitch(c, o) \/ SelectConfirmation(c, o) \/ WriteConfirmation(c, o)

Watcher ==
    \/ \E s \in Scopes : ScopeRun(s)
    \/ \E c \in Confirmers, o \in Orders : FollowUp(c, o)
    \/ \E o \in Orders : StreakAges(o)
    \/ StartPriority
    \/ CrashWatcher

Next == Api \/ Chain \/ Watcher

Spec == Init /\ [][Next]_vars

(***************************************************************************)
(* Fairness.  The watcher's loop runs for ever and none of its steps waits *)
(* for anything but itself, so each is weakly fair; every tick starts the  *)
(* scope runs after its priority pass, so listing is strongly fair; an     *)
(* order asked about again and again is eventually answered truthfully;    *)
(* the expiry job runs for ever and blocks go on being mined on top of a   *)
(* transaction.  Nobody is obliged to pay, cancel or crash.                *)
(***************************************************************************)
FairSpec ==
    /\ Spec
    /\ \A s \in Scopes : WF_vars(ScopeRun(s)) /\ SF_vars(ListScope(s))
    /\ WF_vars(StartPriority)
    /\ \A c \in Confirmers, o \in Orders :
          WF_vars(FollowUp(c, o)) /\ SF_vars(ObserveTruth(c, o))
    /\ \A h \in Hashes : WF_vars(Deepen(h))
    /\ \A o \in Orders : WF_vars(StreakAges(o))
    /\ WF_vars(ExpireDue)
    /\ WF_vars(Tick)

-----------------------------------------------------------------------------
(***************************************************************************)
(* Properties.                                                             *)
(***************************************************************************)
\* Every variable has its type (the shapes order-store.mjs and tick.mjs work with).
TypeOK ==
    /\ now \in 0..Horizon
    /\ crashes \in 0..MaxCrashes
    /\ orders \in [Orders -> Row]
    /\ tx \in [Hashes -> Transaction]
    /\ paid \in [Transfers -> Payment]
    /\ run \in [Scopes -> Run]
    /\ job \in [Confirmers -> [Orders -> Job]]
    /\ streak \in [Orders -> [count : 0..MissingMin, old : BOOLEAN]]

\* An order completes only on the depth its transaction really reached: the confirmations it
\* records were all seen on the chain and are at least the required number, whatever a reorg,
\* a lagging node or a second follow-up of the same order did in between.
CompletedByChain ==
    \A o \in Orders :
        /\ orders[o].confs > 0 => orders[o].tx # None /\ orders[o].confs <= tx[orders[o].tx].peak
        /\ orders[o].status = "completed" =>
              orders[o].tx # None /\ orders[o].confs >= Required[orders[o].scope]

\* What a matched order was credited with is a transfer of its transaction to its address on
\* its rail, in its amount, made while its payment window was open, and naming it when the
\* order asked for a memo.  It fails when an order is re-quoted between listing and matching.
PaysFor(t, row) ==
    /\ HashOf[t] = row.tx
    /\ paid[t].scope = row.scope
    /\ paid[t].addr = row.addr
    /\ paid[t].amount = row.received
    /\ M!AmountFits(row.payable, paid[t].amount)
    /\ paid[t].at >= row.created
    /\ paid[t].at < row.expires
    /\ row.mode = "D" => paid[t].memo = row.memo

CreditsMatchPayments ==
    \A o \in Orders : orders[o].status \in {"verifying", "completed"} =>
        \E t \in Transfers : PaysFor(t, orders[o])

\* An order flagged for a collision was not paid its exact amount: where quotes are a multiple
\* of the step apart, assignment keeps the amounts of orders at one address far enough apart
\* for the matcher to tell them.  (Other quotes it only keeps unequal.)
CollisionsAreAmbiguous ==
    \A o \in Orders :
        orders[o].status = "payment_anomaly" /\ orders[o].reason = "collision" =>
            orders[o].received # orders[o].payable

\* "Never two Completeds from one tx" (doc/Phase1-Acceptance-Pack.md): orders completed by one
\* transaction were each paid by an output of their own.  A re-quote between listing and
\* matching breaks it.
NeverTwoCompletedsFromOnePayment ==
    \A o, p \in Orders :
        /\ o # p
        /\ orders[o].status = "completed" /\ orders[p].status = "completed"
        /\ orders[o].tx = orders[p].tx
        => \E t, u \in OutputsOf(orders[o].tx) : t # u /\ paid[t].scope # None /\ paid[u].scope # None

\* Confirmations go down only when the order leaves for review: two follow-ups of one order
\* that finish out of order never rewind its count.
ConfirmationsGrow ==
    [][\A o \in Orders : orders'[o].confs < orders[o].confs =>
          orders[o].status = "verifying" /\ orders'[o].status = "payment_anomaly"]_vars

\* The watcher never takes back an anomaly it recorded with its payment: an order under review
\* that holds a transaction stays there until somebody resolves it, whatever else the payer
\* sends and whatever a crash makes the watcher see again.
ReviewWithPaymentIsFinal ==
    [][\A o \in Orders :
          orders[o].status = "payment_anomaly" /\ orders[o].tx # None =>
              orders'[o].status \in {"payment_anomaly", "cancelled"}]_vars

\* A credit is never older than the order it is on, re-quoted or not, and its recorded amount
\* is one that transaction paid.
CreditFollowsOrder ==
    \A o \in Orders : orders[o].tx # None =>
        \E t \in OutputsOf(orders[o].tx) : /\ paid[t].amount = orders[o].received
                                           /\ paid[t].at >= orders[o].created

\* The API, the watcher and the chain together implement the life cycle of OrderLifecycle.
\* A credit is the output an order holds: its network, transaction and receive address.
NoCredit == <<>>
CreditOf(row) == IF row.tx = None THEN NoCredit ELSE <<NetworkOf[row.scope], row.tx, row.addr>>
Outputs == {NetworkOf[s] : s \in Scopes} \X Hashes \X Addrs

L == INSTANCE OrderLifecycle WITH
        Credits <- Outputs, NoCredit <- NoCredit,
        stage <- [o \in Orders |-> orders[o].status],
        credit <- [o \in Orders |-> CreditOf(orders[o])]

ImplementsLifecycle == L!Spec

\* A payment in full, to an order's address on its rail while its window was open, is
\* noticed: the order does not stay pending or expired for ever, not even when the watcher
\* crashed with the transfer in hand or the payment was first seen after the expiry job ran.
\* With Lookback = Horizon, as in orders_live, an expired order stays listed: nothing is said of
\* a payment that is first seen after the code has stopped listing the order.
PaidInFull(o, t) ==
    /\ orders[o].status \in {"pending_payment", "expired"}
    /\ tx[HashOf[t]].state = "mined"
    /\ paid[t].scope = orders[o].scope
    /\ paid[t].addr = orders[o].addr
    /\ paid[t].amount = orders[o].payable
    /\ paid[t].at >= orders[o].created
    /\ paid[t].at < orders[o].expires

PaidOrderIsNoticed ==
    \A o \in Orders, t \in Transfers :
        PaidInFull(o, t) ~> \/ orders[o].status \notin {"pending_payment", "expired"}
                            \/ tx[HashOf[t]].state # "mined"

\* An order whose payment was matched does not verify for ever: its transaction is confirmed,
\* or fails or disappears and the order goes to review.
VerifyingConcludes ==
    \A o \in Orders : orders[o].status = "verifying" ~> orders[o].status # "verifying"
=============================================================================
