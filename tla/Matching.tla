------------------------------ MODULE Matching ------------------------------
(***************************************************************************)
(* The pure matching rules of packages/matching and of the watcher's       *)
(* inbound.mjs: given a transfer seen on the chain and the order rows the  *)
(* watcher listed, which orders does the transfer bind and with what       *)
(* outcome.  Amounts are naturals in the asset's smallest accounting unit. *)
(*                                                                         *)
(* A row is a record with at least status, mode, scope (an asset on a      *)
(* network), addr, payable, memo, created and expires; a row whose status  *)
(* is "absent" was not listed.  A transfer is a record with scope, addr,   *)
(* amount, memo and at (the time of its block).                            *)
(*                                                                         *)
(* Every order is created with an underpay tolerance of "0"                *)
(* (order-routes.mjs:244), so the tolerance branch of amountFits cannot be *)
(* taken and is left out.  Every row is dated and every mined transfer has *)
(* a block time, so eligibility is the comparison of the two.              *)
(***************************************************************************)
EXTENDS Integers, FiniteSets, FiniteSetsExt

CONSTANTS
    Dust,            \* platform dust floor of the asset
    Step,            \* amountStep, the spacing of Mode C fingerprints
    MaxSteps,        \* how far above the request Mode C may go
    MemoSupported,   \* whether the network carries memos (Mode D)
    NoMemo           \* the absent memo

ASSUME DustAssumption == Dust \in Nat /\ Step \in Nat \ {0} /\ Dust < Step
ASSUME MaxStepsAssumption == MaxSteps \in Nat
ASSUME MemoAssumption == MemoSupported \in BOOLEAN

AllModes == {"B", "C", "D", "S"}
ModeOrder == <<"B", "C", "D", "S">>

(***************************************************************************)
(* Amounts.                                                                *)
(***************************************************************************)
AbsDiff(a, b) == IF a >= b THEN a - b ELSE b - a

\* Dust absorbs rounding, never more than 1% of the order.
OrderDust(payable) == IF Dust < payable \div 100 THEN Dust ELSE payable \div 100

AmountFits(payable, received) == AbsDiff(payable, received) <= OrderDust(payable)

DustOnly(received) == Dust > 0 /\ received <= Dust

(***************************************************************************)
(* Outcomes.  A binding names the orders it binds; an unbound transfer     *)
(* names none and leaves every order as it was.                            *)
(***************************************************************************)
Unbound(reason) == [status |-> "pending_payment", ids |-> {}, reason |-> reason]
Flagged(ids, reason) == [status |-> "payment_anomaly", ids |-> ids, reason |-> reason]
Settling(ids, reason) == [status |-> "verifying", ids |-> ids, reason |-> reason]

Binds(outcome) == outcome.ids # {}
NobodyHere(outcome) == ~Binds(outcome) /\ outcome.reason = "no_open_order_at_address"

(***************************************************************************)
(* Which orders of a group a transfer may concern.  Expiry is judged when  *)
(* the payment was mined, not when it is seen.                             *)
(***************************************************************************)
\* Mutant: a transfer older than the order still concerns it.
EligibleUndated(t, row, S) == S
Eligible(t, row, S) == {o \in S : t.at >= row[o].created}

\* Mutant: the last moment of the window is taken for the first after it.
LateInclusive(t, row, S) == {o \in S : row[o].expires < t.at}
Late(t, row, S) == {o \in S : row[o].expires <= t.at}

\* Mutant: lapsed orders compete with the open ones.
OpenWithLapsed(t, row, S) == S
Open(t, row, S) == S \ Late(t, row, S)
Fitting(t, row, S) == {o \in S : AmountFits(row[o].payable, t.amount)}

(***************************************************************************)
(* matchExactPayable: modes B, C and S.                                    *)
(***************************************************************************)
MatchLate(mode, t, row, late) ==
    LET fitting == Fitting(t, row, late)
        flagged == IF fitting # {} THEN fitting
                   ELSE IF mode = "S" /\ Cardinality(late) = 1 THEN late
                   ELSE {}
    IN  IF flagged = {} THEN Unbound("no_open_order_at_address")
        ELSE Flagged(flagged, "late")

\* Mutant: of several orders with the paid amount, one is taken.
MatchOpenFirst(t, row, open) ==
    LET exact == Fitting(t, row, open)
    IN  IF exact # {} THEN Settling({CHOOSE o \in exact : TRUE}, "exact")
        ELSE Unbound("no_exact_amount_match")

MatchOpen(t, row, open) ==
    LET exact == Fitting(t, row, open)
    IN  CASE Cardinality(exact) >= 2 -> Flagged(exact, "collision")
          [] Cardinality(exact) = 1 -> Settling(exact, "exact")
          [] exact = {} /\ DustOnly(t.amount) -> Unbound("dust_ignored")
          [] exact = {} /\ ~DustOnly(t.amount) /\ Cardinality(open) = 1 ->
                Flagged(open, "mismatch")
          [] OTHER -> Unbound("no_exact_amount_match")

MatchExact(mode, t, row, group) ==
    LET eligible == Eligible(t, row, group)
        late == Late(t, row, eligible)
        open == Open(t, row, eligible)
    IN  CASE eligible = {} ->
                Unbound(IF DustOnly(t.amount) THEN "dust_ignored"
                        ELSE "transfer_before_order_created")
          [] eligible # {} /\ open = {} -> MatchLate(mode, t, row, late)
          [] OTHER -> MatchOpen(t, row, open)

(***************************************************************************)
(* matchModeDForConfig: the exact payable rules plus the memo.             *)
(***************************************************************************)
SameMemo(t, row, S) == {o \in S : row[o].memo = t.memo}

MatchMemoOpen(t, row, open) ==
    LET exact == Fitting(t, row, open)
        named == SameMemo(t, row, exact)
    IN  CASE exact = {} -> MatchOpen(t, row, open)
          [] exact # {} /\ t.memo = NoMemo -> Flagged(exact, "memo_missing")
          [] exact # {} /\ t.memo # NoMemo /\ Cardinality(named) >= 2 ->
                Flagged(named, "memo_collision")
          [] exact # {} /\ t.memo # NoMemo /\ Cardinality(named) = 1 ->
                Settling(named, "exact")
          [] OTHER -> Flagged(exact, "memo_mismatch")

MatchMemo(t, row, group) ==
    LET eligible == Eligible(t, row, group)
        late == Late(t, row, eligible)
        open == Open(t, row, eligible)
        named == IF t.memo = NoMemo THEN {} ELSE SameMemo(t, row, late)
    IN  CASE ~MemoSupported -> Unbound("memo_unsupported")
          [] MemoSupported /\ eligible = {} -> Unbound("transfer_before_order_created")
          [] MemoSupported /\ eligible # {} /\ open = {} ->
                IF named = {} THEN Unbound("no_open_order_at_address")
                ELSE Flagged(named, "late")
          [] OTHER -> MatchMemoOpen(t, row, open)

MatchTransaction(mode, t, row, group) ==
    IF mode = "D" THEN MatchMemo(t, row, group) ELSE MatchExact(mode, t, row, group)

(***************************************************************************)
(* classifyWrongNetworkOrAsset: a transfer on a rail where nobody waits at *)
(* the address flags the orders that wait there on another rail.           *)
(***************************************************************************)
MatchWrongRail(t, row) ==
    LET elsewhere == {o \in DOMAIN row : /\ row[o].status # "absent"
                                         /\ row[o].addr = t.addr
                                         /\ row[o].scope # t.scope}
    IN  IF Eligible(t, row, elsewhere) = {} THEN Unbound("no_open_order_at_address")
        ELSE Flagged(Eligible(t, row, elsewhere), "wrong_rail")

(***************************************************************************)
(* matchInboundTransfer: group the orders that still await a payment by    *)
(* mode and take the first mode whose answer is not "nobody here".         *)
(***************************************************************************)
AwaitingStatuses == {"pending_payment", "expired"}

MatchInbound(t, row) ==
    LET here == {o \in DOMAIN row : /\ row[o].status # "absent"
                                    /\ row[o].addr = t.addr
                                    /\ row[o].scope = t.scope}
        group(i) == {o \in here : /\ row[o].status \in AwaitingStatuses
                                  /\ row[o].mode = ModeOrder[i]}
        answer(i) == MatchTransaction(ModeOrder[i], t, row, group(i))
        answering == {i \in DOMAIN ModeOrder : group(i) # {} /\ ~NobodyHere(answer(i))}
    IN  CASE here = {} -> MatchWrongRail(t, row)
          [] here # {} /\ answering = {} -> Unbound("no_exact_amount_match")
          [] OTHER -> answer(Min(answering))

(***************************************************************************)
(* pickUniquePayableMinor: the free fingerprint nearest above the request, *)
(* or none when every step up to the last is reserved.                     *)
(***************************************************************************)
FreeFingerprints(requested, reserved) ==
    {k \in 0..MaxSteps : requested + k * Step \notin reserved}

\* Mutant: the request itself, reserved or not.
UniquePayablesUnchecked(requested, reserved) == {requested}
UniquePayables(requested, reserved) ==
    {requested + k * Step : k \in {j \in FreeFingerprints(requested, reserved) :
        \A i \in FreeFingerprints(requested, reserved) : j <= i}}
=============================================================================
