---------------------------- MODULE AddressBudget ----------------------------
(***************************************************************************)
(* Which addresses one watcher tick polls: apps/watcher/src/ingest/        *)
(* address-budget.mjs.  An order at an address is [status, since], where   *)
(* status is "pending" (pending_payment), "open" (any other status the     *)
(* watcher still matches) or "none", and since is the chain head when the  *)
(* order was created.  All orders live equally long, so the soonest        *)
(* expiry is the oldest order.  Addresses are natural numbers, their       *)
(* order standing for the code's localeCompare.                            *)
(***************************************************************************)
EXTENDS Integers, Sequences, FiniteSets, SequencesExt

(* The elements of S, sorted by a strict total order of them. *)
InOrder(S, Before(_, _)) == CHOOSE s \in SetToSeqs(S) : IsSorted(s, Before)

HasStatus(order, status) == {a \in DOMAIN order : order[a].status = status}

(* Pending addresses by expiry and then name, the rest by name. *)
RankPending(order) ==
    InOrder(HasStatus(order, "pending"),
        LAMBDA a, b : \/ order[a].since < order[b].since
                      \/ order[a].since = order[b].since /\ a < b)

RankRest(order) ==
    InOrder(HasStatus(order, "open"), LAMBDA a, b : a < b)

\* Mutant: no rotation.
NeverRotate(items, cursor) == items

RotateFromCursor(items, cursor) ==
    IF items = <<>> THEN <<>>
    ELSE LET start == cursor % Len(items)
         IN  SubSeq(items, start + 1, Len(items)) \o SubSeq(items, 1, start)

FirstOf(items, n) == SubSeq(items, 1, IF n < Len(items) THEN n ELSE Len(items))

(* Everything when it fits the budget, with the rotation back at 0; else   *)
(* both tiers rotated by the one cursor, pending first, and the cursor     *)
(* moved by the number of addresses taken from the two tiers together.     *)
SelectAddressesForPoll(order, budget, cursor) ==
    LET pending == RankPending(order)
        rest    == RankRest(order)
        ranked  == pending \o rest
        takePending == FirstOf(RotateFromCursor(pending, cursor), budget)
        takeRest    == FirstOf(RotateFromCursor(rest, cursor),
                               budget - Len(takePending))
        selected    == takePending \o takeRest
    IN  IF Len(ranked) <= budget
        THEN [addresses |-> ranked, nextCursor |-> 0]
        ELSE [addresses |-> selected, nextCursor |-> cursor + Len(selected)]
=============================================================================
