----------------------------- MODULE ChainIngest -----------------------------
(***************************************************************************)
(* How the watcher reads one asset and network scope: a tick lists the     *)
(* open orders, picks the addresses to poll (AddressBudget), asks the      *)
(* chain client for their transfers and matches what came back             *)
(* (apps/watcher/src/tick.mjs, packages/chain-clients).  The clients       *)
(* differ in what they remember between ticks:                             *)
(*   "erc20"  one cursor per address, logs read in chunks of addresses;    *)
(*   "native" one cursor for the network, whole blocks, all addresses;     *)
(*   "paged"  nothing: each address is listed back to its oldest order     *)
(*            (Tron and Solana).                                           *)
(* A transfer is the pair [addr, block]; block numbers are also the clock. *)
(***************************************************************************)
EXTENDS AddressBudget

CONSTANTS
    Addresses,      \* receive addresses, a set of naturals above 0
    Clients,        \* the kinds of chain client to consider
    Budget,         \* WATCHER_ADDRESS_POLL_BUDGET
    Rescan,         \* ERC20_RESCAN_BLOCKS
    NativeOverlap,  \* blocks the native scan reads again
    ChunkSize,      \* ERC20_ADDRESS_CHUNK
    MaxSpan,        \* ERC20_MAX_SPAN_BLOCKS
    BlocksPerTick,  \* nativeMaxBlocksPerTick
    Turn,           \* the rotation cursor is kept modulo this, see below
    MaxLag,         \* how far an answering RPC node may be behind the head
    MaxDrift,       \* blocks mined between a run's listing and its head read
    MaxHead,        \* bound on the chain
    MaxFaults,      \* bound on failed runs and lagging answers
    MaxCrashes      \* bound on watcher restarts

ASSUME IngestAssumption ==
    /\ Addresses \subseteq Nat \ {0} /\ IsFiniteSet(Addresses)
    /\ Clients \subseteq {"erc20", "native", "paged"}
    /\ {Budget, ChunkSize, MaxSpan, BlocksPerTick} \subseteq Nat \ {0}
    /\ Turn \in Nat \ {0} /\ MaxHead \in Nat
    \* The code's cursor grows without end and is only used modulo the
    \* length of a list of addresses, each of which divides Turn.
    /\ \A n \in 1..Cardinality(Addresses) : Turn % n = 0
    /\ {Rescan, NativeOverlap, MaxLag, MaxDrift} \subseteq Nat

VARIABLES
    client,     \* the kind of client this scope uses
    head,       \* the chain's head block
    owed,       \* transfers on chain to an open order, not yet matched with it
    order,      \* per address, its open order
    cursor,     \* last block scanned, per address and, under Shared, per network
    rot,        \* rotation cursor of the scope
    run,        \* the scope run in flight
    discarded,  \* transfers a failed run had read and dropped
    faults, crashes

vars == <<client, head, owed, order, cursor, rot, run, discarded,
          faults, crashes>>

Shared  == 0
NoBlock == -1
NoOrder == [status |-> "none", since |-> NoBlock]
Idle    == [pc |-> "idle", addrs |-> <<>>, listed |-> [a \in Addresses |-> NoBlock],
            latest |-> 0, todo |-> <<>>, got |-> {}]

Open(a)   == order[a].status # "none"
MaxOf(x, y) == IF x > y THEN x ELSE y
MinOf(x, y) == IF x < y THEN x ELSE y

Transfers == [addr : Addresses, block : 1..MaxHead]
ToAddress(T, a) == {t \in T : t.addr = a}

-----------------------------------------------------------------------------
(* Where a client reads from and which calls it makes.                     *)

Key(a) == IF client = "native" THEN Shared ELSE a

(* The first block a scan without a cursor reads: blocks are the clock, so *)
(* the slot arithmetic of blockAtOrBefore is the order's block less Rescan. *)
FirstScanBlock(since) == MaxOf(0, since - Rescan)

ScanFrom(c, startIfNew, overlap) ==
    MaxOf(0, IF c = NoBlock THEN startIfNew ELSE c + 1 - overlap)

Erc20From(a, since) == ScanFrom(cursor[a], FirstScanBlock(since), Rescan)

Call(addrs, from, to) == [addrs |-> addrs, from |-> from, to |-> to]

Chunks(s) == [i \in 1..((Len(s) + ChunkSize - 1) \div ChunkSize) |->
                 SubSeq(s, (i - 1) * ChunkSize + 1, MinOf(i * ChunkSize, Len(s)))]

(* One getLogs per chunk: addresses within one span of the head together,  *)
(* the ones further behind after them, oldest first.  The groups hold the  *)
(* places of the addresses in the list.                                    *)
Erc20Calls(addrs, listed, latest) ==
    LET from(i)  == Erc20From(addrs[i], listed[addrs[i]])
        isNear(i) == latest - from(i) + 1 <= MaxSpan
        near   == InOrder({i \in DOMAIN addrs : isNear(i)}, LAMBDA i, j : i < j)
        behind == InOrder({i \in DOMAIN addrs : ~isNear(i)},
                      LAMBDA i, j : \/ from(i) < from(j)
                                    \/ from(i) = from(j) /\ i < j)
        groups == Chunks(near) \o Chunks(behind)
        call(g) == LET first == Min({from(i) : i \in Range(groups[g])})
                   IN  Call({addrs[i] : i \in Range(groups[g])},
                            first, MinOf(latest, first + MaxSpan - 1))
        made   == InOrder({g \in DOMAIN groups : call(g).from <= call(g).to},
                      LAMBDA g, h : g < h)
    IN  [k \in DOMAIN made |-> call(made[k])]

(* One call per block, for every address with an open order. *)
NativeCalls(listed, latest) ==
    LET watched == {a \in Addresses : listed[a] # NoBlock}
        from    == ScanFrom(cursor[Shared],
                            FirstScanBlock(Min({listed[a] : a \in watched})),
                            NativeOverlap)
        to      == MinOf(latest, from + BlocksPerTick - 1)
    IN  [i \in 1..MaxOf(0, to - from + 1) |-> Call(watched, from + i - 1, from + i - 1)]

(* One listing per address, since its order and as far as the node knows.  *)
PagedCalls(addrs, listed) ==
    [i \in DOMAIN addrs |-> Call({addrs[i]}, listed[addrs[i]], MaxHead)]

CallsOf(addrs, listed, latest) ==
    CASE client = "erc20"  -> Erc20Calls(addrs, listed, latest)
      [] client = "native" -> NativeCalls(listed, latest)
      [] client = "paged"  -> PagedCalls(addrs, listed)

(* What a node that knows the chain up to block n answers to a call. *)
Answer(call, n) ==
    {t \in owed : t.addr \in call.addrs /\ t.block \in call.from..MinOf(call.to, n)}

Moves(k, call) == client # "paged" /\ k \in {Key(a) : a \in call.addrs}

\* Mutant: a cursor jumps to the head though the call stopped at its span.
AdvanceToHead(call) ==
    [k \in DOMAIN cursor |-> IF Moves(k, call) THEN run.latest ELSE cursor[k]]

\* Mutant: the cursor names the next block, and the scan starts after it.
AdvanceTooFar(call) ==
    [k \in DOMAIN cursor |-> IF Moves(k, call) THEN call.to + 1 ELSE cursor[k]]

(* The cursors after a call, moved as soon as the call has answered. *)
Advance(call) ==
    [k \in DOMAIN cursor |->
        IF ~Moves(k, call) THEN cursor[k]
        ELSE IF client = "erc20" THEN MaxOf(cursor[k], call.to) ELSE call.to]

NodeHeads == MaxOf(0, head - MaxLag)..head
LagFault(n) == IF n < head THEN 1 ELSE 0

-----------------------------------------------------------------------------
Init ==
    /\ client \in Clients
    /\ head = 0 /\ owed = {} /\ rot = 0 /\ run = Idle
    /\ order = [a \in Addresses |-> NoOrder]
    /\ cursor = [k \in Addresses \cup {Shared} |-> NoBlock]
    /\ discarded = {}
    /\ faults = 0 /\ crashes = 0

(* The world: a block is mined, paying some address with an open order or  *)
(* none; orders are created, lapse or are paid, and leave the watch list.  *)
MineBlock ==
    /\ head < MaxHead
    /\ run.pc = "listed" => head - run.latest < MaxDrift
    /\ head' = head + 1
    /\ \E payees \in {P \in SUBSET {a \in Addresses : Open(a)} : Cardinality(P) <= 1} :
           owed' = owed \cup {[addr |-> a, block |-> head'] : a \in payees}
    /\ UNCHANGED <<client, order, cursor, rot, run, discarded, faults, crashes>>

OpenOrder(a) ==
    /\ ~Open(a)
    /\ head < MaxHead      \* at the bound it could never be paid
    /\ order' = [order EXCEPT ![a] = [status |-> "pending", since |-> head]]
    /\ UNCHANGED <<client, head, owed, cursor, rot, run, discarded, faults, crashes>>

Lapse(a) ==
    /\ order[a].status = "pending"
    /\ order' = [order EXCEPT ![a].status = "open"]
    /\ UNCHANGED <<client, head, owed, cursor, rot, run, discarded, faults, crashes>>

(* The order is over: completed, cancelled, or expired longer ago than the *)
(* late-payment window.  Its transfers are no one's concern any more.      *)
Close(a) ==
    /\ Open(a)
    /\ order' = [order EXCEPT ![a] = NoOrder]
    /\ owed' = owed \ ToAddress(owed, a)
    /\ discarded' = discarded \ ToAddress(discarded, a)
    /\ UNCHANGED <<client, head, cursor, rot, run, faults, crashes>>

-----------------------------------------------------------------------------
(* One run of the scope (ingestScope); runScopeOnce allows one at a time.  *)

ListOrders ==
    /\ run.pc = "idle"
    /\ \E a \in Addresses : Open(a)
    /\ LET selected == SelectAddressesForPoll(order, Budget, rot)
       IN  /\ rot' = selected.nextCursor % Turn
           /\ run' = [Idle EXCEPT !.pc = "listed",
                                  !.addrs = selected.addresses,
                                  !.listed = [a \in Addresses |-> order[a].since],
                                  !.latest = head]
    /\ UNCHANGED <<client, head, owed, order, cursor, discarded, faults, crashes>>

ReadHead ==
    /\ run.pc = "listed"
    /\ \E n \in NodeHeads :
           /\ faults + LagFault(n) <= MaxFaults
           /\ faults' = faults + LagFault(n)
           /\ LET calls == CallsOf(run.addrs, run.listed, n)
              IN  run' = [run EXCEPT !.pc = IF calls = <<>> THEN "matching" ELSE "fetching",
                                     !.latest = n,
                                     !.todo = calls]
    /\ UNCHANGED <<client, head, owed, order, cursor, rot, discarded, crashes>>

(* The next call answers, and the last answer ends the fetch.  A node that *)
(* is behind answers without the blocks it lacks (no logs, a null block),  *)
(* and the client takes that for an empty answer.                          *)
ReadCall ==
    /\ run.pc = "fetching"
    /\ \E n \in NodeHeads :
           /\ faults + LagFault(n) <= MaxFaults
           /\ faults' = faults + LagFault(n)
           /\ run' = [run EXCEPT !.pc = IF Len(run.todo) = 1 THEN "matching" ELSE @,
                                 !.todo = Tail(@),
                                 !.got = @ \cup Answer(Head(run.todo), n)]
    /\ cursor' = Advance(Head(run.todo))
    /\ UNCHANGED <<client, head, owed, order, rot, discarded, crashes>>

(* The transfers that pay an order the run listed. *)
Matched(T) == {t \in T \cap owed : run.listed[t.addr] = order[t.addr].since}

Match(T) ==
    /\ owed' = owed \ Matched(T)
    /\ order' = [a \in Addresses |-> IF ToAddress(Matched(T), a) = {} THEN order[a]
                                     ELSE [order[a] EXCEPT !.status = "open"]]

(* What was read is matched against the orders the run listed.             *)
MatchTransfers ==
    /\ run.pc = "matching"
    /\ Match(run.got)
    /\ discarded' = discarded \cap owed'
    /\ run' = Idle
    /\ UNCHANGED <<client, head, cursor, rot, faults, crashes>>

(* A call fails for good after its retries, or the database does: the      *)
(* client returns no transfers, the tick reports the scope's error, and    *)
(* what the run had read and not yet matched is dropped.  The cursors stay *)
(* where they are.                                                         *)
FailRun ==
    /\ run.pc # "idle" /\ faults < MaxFaults
    /\ \E T \in SUBSET run.got :
           /\ run.pc = "fetching" => T = {}
           /\ Match(T)
           /\ discarded' = (discarded \cup run.got) \cap owed'
    /\ run' = Idle
    /\ faults' = faults + 1
    /\ UNCHANGED <<client, head, cursor, rot, crashes>>

(* The process restarts: cursors, rotation and the run are in its memory.  *)
Crash ==
    /\ crashes < MaxCrashes
    /\ cursor' = [k \in DOMAIN cursor |-> NoBlock]
    /\ rot' = 0 /\ run' = Idle
    /\ crashes' = crashes + 1
    /\ UNCHANGED <<client, head, owed, order, discarded, faults>>

RunStep == ListOrders \/ ReadHead \/ ReadCall \/ MatchTransfers

Next ==
    \/ MineBlock
    \/ \E a \in Addresses : OpenOrder(a) \/ Lapse(a) \/ Close(a)
    \/ RunStep
    \/ FailRun \/ Crash

(* The loop keeps ticking and every call of a run returns or fails: this   *)
(* is WF_vars(RunStep) with ENABLED RunStep written out, which TLC         *)
(* evaluates much faster.  The world, failures and crashes are never       *)
(* obliged to happen.                                                      *)
CanRun == run.pc # "idle" \/ \E a \in Addresses : Open(a)
Fairness == []<>~CanRun \/ []<><<RunStep>>_vars

Spec == Init /\ [][Next]_vars
FairSpec == Spec /\ Fairness

-----------------------------------------------------------------------------
(* Properties.                                                             *)

(* The state of a scope's ingest is what the code keeps. *)
TypeOK ==
    /\ client \in Clients /\ head \in 0..MaxHead /\ rot \in 0..Turn - 1
    /\ owed \subseteq Transfers /\ discarded \subseteq owed
    /\ order \in [Addresses -> [status : {"none", "pending", "open"},
                                since : NoBlock..MaxHead]]
    /\ cursor \in [Addresses \cup {Shared} -> NoBlock..MaxHead]
    /\ run.pc \in {"idle", "listed", "fetching", "matching"}
    /\ run.got \subseteq Transfers

(* The next scan of the address reads from here on. *)
NextFrom(a) ==
    CASE client = "erc20"  -> Erc20From(a, order[a].since)
      [] client = "native" -> ScanFrom(cursor[Shared], FirstScanBlock(order[a].since),
                                       NativeOverlap)
      [] client = "paged"  -> order[a].since

Reachable(t) ==
    \/ t \in run.got /\ run.listed[t.addr] = order[t.addr].since
    \/ t.block >= NextFrom(t.addr)

(* However runs, restarts, lagging nodes and new orders interleave, a      *)
(* transfer to an open order has been matched, is held by the run in       *)
(* flight, or lies in what the next scan of its address reads - unless a   *)
(* failed run had already read it (tick.mjs:93-102, rpc.mjs:258-265).      *)
SkippedOnlyByFailure == \A t \in owed : Reachable(t) \/ t \in discarded

(* tick.mjs:93-94: "where a chain client starts scanning an address it has *)
(* no cursor for (fresh process, outage), so transfers since the order are *)
(* never skipped (H5)."  Without the exception the cursors break it: they  *)
(* move with each call, before what it returned is matched.                *)
NeverSkipped == \A t \in owed : Reachable(t)

(* What an address was paid and no failed run has dropped. *)
Unmatched(a) == ToAddress(owed, a) \ discarded

(* A payment to a pending order is found while the order is pending, or    *)
(* the order stops being pending, or a failed run dropped it: no address   *)
(* of the pending tier is rotated past for ever (address-budget.mjs:144).  *)
PendingPaymentFound ==
    \A a \in Addresses :
        (order[a].status = "pending" /\ Unmatched(a) # {})
            ~> (order[a].status # "pending" \/ Unmatched(a) = {})
=============================================================================
