----------------------------- MODULE AddressPool -----------------------------
(***************************************************************************)
(* The pool of derived receive addresses of Mode S on one asset and        *)
(* network (apps/api/src/mode-s), shared by the sites that inherit the     *)
(* merchant's xpub.  A create or re-quote that needs an address of its own *)
(* claims a free row or derives the next one in its transaction, under the *)
(* advisory lock of its site's wallet; the expiry job cools rows down and  *)
(* frees them beside it; the xpub changes after a cooldown of its own.     *)
(*                                                                         *)
(* An address is the pair [xpub, index].  Times are ticks to go.  The      *)
(* status of an order is "open" for verifying, confirmed and               *)
(* payment_anomaly and "final" for completed, cancelled and failed.        *)
(* Orders at the main address and on other pairs hold no row: addr is      *)
(* NoAddress.                                                              *)
(***************************************************************************)
EXTENDS Integers

CONSTANTS
    Orders,
    Sites,          \* each with a wallet, and so with a create lock, of its own
    Xpubs,
    MaxIndex,       \* bound: per xpub, the last index derived
    Validity,       \* ticks to pay a quote in
    LateWindow,     \* LATE_PAYMENT_LOOKBACK_MS
    Cooldown,       \* hdPoolCooldownMs
    XpubCooldown,   \* the cooldown of a changed xpub
    NoXpub, NoOrder, NoAddress

ASSUME PoolAssumption ==
    /\ {Validity, LateWindow, Cooldown, XpubCooldown} \subseteq Nat
    /\ MaxIndex \in [Xpubs -> Nat]
    /\ NoXpub \notin Xpubs /\ NoOrder \notin Orders
    \* hd-pool-rules.mjs:18-26: the cooldown covers the late-payment window, plus a day.
    /\ Cooldown > LateWindow

Addresses == UNION {[xpub : {k}, index : 0..MaxIndex[k]] : k \in Xpubs}

ASSUME AddressAssumption == NoAddress \notin Addresses

VARIABLES
    stage,   \* payment_orders.status
    addr,    \* the pool address the order has, if any
    left,    \* ticks until expires_at; negative when past
    pool,    \* hd_pool_addresses
    xpub,    \* merchant_xpubs
    tx       \* per site, the create or re-quote in its transaction

orderVars == <<stage, addr, left>>
vars == <<orderVars, pool, xpub, tx>>

Stages == {"absent", "pending_payment", "expired", "open", "final"}

NoRow  == [status |-> "none", order |-> NoOrder, wait |-> 0]
NoTx   == [order |-> NoOrder, xpub |-> NoXpub, addr |-> NoAddress, derived |-> FALSE]

InState(status) == {a \in Addresses : pool[a].status = status}

(* The row lock of lockQuotableOrder: writes of the order wait for it.     *)
Locked(o) == \E s \in Sites : tx[s].order = o

(* The watcher matches transfers to the order's address against it.        *)
Payable(o) ==
    \/ stage[o] = "pending_payment"
    \/ stage[o] = "expired" /\ left[o] >= -LateWindow

-----------------------------------------------------------------------------
(* An order gets an address of its own.                                    *)

(* The transaction starts: for a new order that collides with an open one  *)
(* at the main address, or one re-quoted from another pair.  A change of   *)
(* the xpub that is due has been activated (getActiveXpub).                *)
Begin(s, o) ==
    /\ tx[s] = NoTx /\ ~Locked(o)
    /\ \/ stage[o] = "absent"
       \/ stage[o] = "pending_payment" /\ left[o] > 0 /\ addr[o] = NoAddress
    /\ xpub.active # NoXpub
    /\ xpub.pending # NoXpub => xpub.wait > 0
    /\ tx' = [tx EXCEPT ![s] = [order |-> o, xpub |-> xpub.active, addr |-> NoAddress,
                                derived |-> FALSE]]
    /\ UNCHANGED <<orderVars, pool, xpub>>

\* Mutant: a free row of any xpub will do (review M10).
FreeOfAny(key) ==
    {a \in InState("FREE") : \A s \in Sites : tx[s].addr # a}
\* Mutant: rows that another claim has locked are picked too.
FreeOrLocked(key) == {a \in InState("FREE") : a.xpub = key}
FreeRows(key) ==
    {a \in InState("FREE") : a.xpub = key /\ \A s \in Sites : tx[s].addr # a}

Used(key) == {a.index : a \in {b \in Addresses : b.xpub = key /\ pool[b].status # "none"}}
NextIndex(key) ==
    IF Used(key) = {} THEN 0
    ELSE 1 + (CHOOSE i \in Used(key) : \A j \in Used(key) : j <= i)

(* claimFreeRow skips rows another claim has locked; without a free row    *)
(* the next index is derived and inserted.                                 *)
Claim(s) ==
    LET free == FreeRows(tx[s].xpub)
    IN  /\ tx[s].order # NoOrder /\ tx[s].addr = NoAddress
        /\ \/ \E a \in free :
                 /\ \A b \in free : a.index <= b.index
                 /\ tx' = [tx EXCEPT ![s].addr = a]
           \/ /\ free = {}
              /\ \E a \in Addresses :
                    /\ a.xpub = tx[s].xpub
                    /\ a.index = NextIndex(tx[s].xpub)
                    /\ tx' = [tx EXCEPT ![s].addr = a, ![s].derived = TRUE]
        /\ UNCHANGED <<orderVars, pool, xpub>>

(* Order and row are written and bound to one another.                     *)
Commit(s) ==
    LET o == tx[s].order
        a == tx[s].addr
    IN  /\ a # NoAddress
        /\ tx[s].derived => pool[a] = NoRow
        /\ pool' = [pool EXCEPT ![a] = [status |-> "IN_USE", order |-> o, wait |-> 0]]
        /\ stage' = [stage EXCEPT ![o] = "pending_payment"]
        /\ addr' = [addr EXCEPT ![o] = a]
        /\ left' = [left EXCEPT ![o] = Validity]
        /\ tx' = [tx EXCEPT ![s] = NoTx]
        /\ UNCHANGED <<xpub>>

(* The transaction fails: the insert met a row another site has inserted   *)
(* meanwhile, which aborts it, or some other statement failed.             *)
Abort(s) ==
    /\ tx[s] # NoTx
    /\ tx' = [tx EXCEPT ![s] = NoTx]
    /\ UNCHANGED <<orderVars, pool, xpub>>

(* An order at the main address or on another pair.                        *)
CreateElsewhere(o) ==
    /\ stage[o] = "absent" /\ ~Locked(o)
    /\ stage' = [stage EXCEPT ![o] = "pending_payment"]
    /\ left' = [left EXCEPT ![o] = Validity]
    /\ UNCHANGED <<addr, pool, xpub, tx>>

Quotable(o) == stage[o] = "pending_payment" /\ left[o] > 0 /\ ~Locked(o)

(* A new quote for the same pair keeps the order's own address.            *)
RequoteHere(o) ==
    /\ Quotable(o) /\ addr[o] # NoAddress
    /\ left' = [left EXCEPT ![o] = Validity]
    /\ UNCHANGED <<stage, addr, pool, xpub, tx>>

\* Mutant: a day, less than the late-payment window (review M14).
ShortCooldown == LateWindow
\* Mutant: the xpub's cooldown on top.
BothCooldowns == Cooldown + XpubCooldown
CooldownTicks == Cooldown

GivenUp(o) == [status |-> "COOLDOWN", order |-> o, wait |-> CooldownTicks]

\* Mutant: the re-quote leaves the old row alone.
NoRows(o) == {}
RowsOf(o) == {a \in InState("IN_USE") : pool[a].order = o}

(* A new quote for another pair: the old address cools down.               *)
RequoteAway(o) ==
    /\ Quotable(o) /\ addr[o] # NoAddress
    /\ pool' = [a \in Addresses |-> IF a \in RowsOf(o) THEN GivenUp(o) ELSE pool[a]]
    /\ addr' = [addr EXCEPT ![o] = NoAddress]
    /\ left' = [left EXCEPT ![o] = Validity]
    /\ UNCHANGED <<stage, xpub, tx>>

(* The watcher or a clerk moves the order; an expired order only while its *)
(* late payments are looked for.                                           *)
ChangeStatus(o, status) ==
    /\ ~Locked(o)
    /\ \/ Payable(o) /\ status = "open"
       \/ stage[o] \in {"pending_payment", "open"} /\ status = "final"
    /\ stage' = [stage EXCEPT ![o] = status]
    /\ left' = [left EXCEPT ![o] = 0]
    /\ UNCHANGED <<addr, pool, xpub, tx>>

-----------------------------------------------------------------------------
(* The order expiry job of each API process; statements of two processes   *)
(* interleave in any order.                                                *)

Due == {o \in Orders : stage[o] = "pending_payment" /\ left[o] <= 0 /\ ~Locked(o)}

ExpireDue ==
    /\ Due # {}
    /\ stage' = [o \in Orders |-> IF o \in Due THEN "expired" ELSE stage[o]]
    /\ UNCHANGED <<addr, left, pool, xpub, tx>>

ReleaseStatuses == {"final", "expired"}

Held == {a \in InState("IN_USE") :
            pool[a].order # NoOrder /\ stage[pool[a].order] \in ReleaseStatuses}

CooldownFinal ==
    /\ Held # {}
    /\ pool' = [a \in Addresses |->
                  IF a \in Held THEN GivenUp(pool[a].order) ELSE pool[a]]
    /\ UNCHANGED <<orderVars, xpub, tx>>

Cooled == {a \in InState("COOLDOWN") : pool[a].wait = 0}

ReleaseDue ==
    /\ Cooled # {}
    /\ pool' = [a \in Addresses |-> IF a \in Cooled THEN [NoRow EXCEPT !.status = "FREE"]
                                    ELSE pool[a]]
    /\ UNCHANGED <<orderVars, xpub, tx>>

-----------------------------------------------------------------------------
(* The merchant's xpub.                                                    *)

(* Every read of the xpub and the job activate a change that is due.       *)
ActivateDue ==
    /\ xpub.pending # NoXpub /\ xpub.wait = 0
    /\ xpub' = [active |-> xpub.pending, pending |-> NoXpub, wait |-> 0]
    /\ UNCHANGED <<orderVars, pool, tx>>

(* upsertXpub: the first is active at once, another waits, and putting the *)
(* active one again drops the one that waits.                              *)
PutXpub(k) ==
    /\ xpub.pending # NoXpub => xpub.wait > 0
    /\ xpub' = CASE xpub.active = NoXpub -> [xpub EXCEPT !.active = k]
                 [] xpub.active = k -> [xpub EXCEPT !.pending = NoXpub, !.wait = 0]
                 [] OTHER -> [xpub EXCEPT !.pending = k, !.wait = XpubCooldown]
    /\ UNCHANGED <<orderVars, pool, tx>>

-----------------------------------------------------------------------------
Tick ==
    LET less(n) == IF n > 0 THEN n - 1 ELSE 0
    IN  /\ left' = [o \in Orders |-> IF Payable(o) /\ left[o] >= -LateWindow
                                     THEN left[o] - 1 ELSE left[o]]
        /\ pool' = [a \in Addresses |-> [pool[a] EXCEPT !.wait = less(@)]]
        /\ xpub' = [xpub EXCEPT !.wait = less(@)]
        /\ UNCHANGED <<stage, addr, tx>>

Init ==
    /\ stage = [o \in Orders |-> "absent"]
    /\ addr = [o \in Orders |-> NoAddress]
    /\ left = [o \in Orders |-> 0]
    /\ pool = [a \in Addresses |-> NoRow]
    /\ xpub = [active |-> NoXpub, pending |-> NoXpub, wait |-> 0]
    /\ tx = [s \in Sites |-> NoTx]

Next ==
    \/ \E s \in Sites : (\E o \in Orders : Begin(s, o)) \/ Claim(s) \/ Commit(s) \/ Abort(s)
    \/ \E o \in Orders : CreateElsewhere(o) \/ RequoteHere(o) \/ RequoteAway(o)
    \/ \E o \in Orders, status \in Stages : ChangeStatus(o, status)
    \/ ExpireDue \/ CooldownFinal \/ ReleaseDue
    \/ ActivateDue \/ (\E k \in Xpubs : PutXpub(k))
    \/ Tick

Spec == Init /\ [][Next]_vars

-----------------------------------------------------------------------------
(* The shapes of the tables. *)
TypeOK ==
    /\ stage \in [Orders -> Stages]
    /\ addr \in [Orders -> Addresses \union {NoAddress}]
    /\ left \in [Orders -> -(LateWindow + 1)..Validity]
    /\ pool \in [Addresses -> [status : {"none", "FREE", "IN_USE", "COOLDOWN"},
                               order : Orders \union {NoOrder}, wait : 0..Cooldown]]
    /\ xpub \in [active : Xpubs \union {NoXpub}, pending : Xpubs \union {NoXpub},
                 wait : 0..XpubCooldown]
    /\ tx \in [Sites -> [order : Orders \union {NoOrder}, xpub : Xpubs \union {NoXpub},
                         addr : Addresses \union {NoAddress}, derived : BOOLEAN]]

(* A payment to a pool address can be matched with one order only: two     *)
(* orders never share one while transfers to both are looked for, late     *)
(* payments of an expired one included (review M14), whatever sites, jobs  *)
(* and re-quotes do at the same time.                                      *)
PoolAddressIsExclusive ==
    \A o, p \in Orders :
        o # p /\ addr[o] # NoAddress /\ addr[o] = addr[p] => ~(Payable(o) /\ Payable(p))

(* An order that can still be paid in time holds its row.                  *)
PayableHoldsRow ==
    \A o \in Orders : addr[o] # NoAddress /\ stage[o] = "pending_payment" =>
        /\ pool[addr[o]].status = "IN_USE"
        /\ pool[addr[o]].order = o

(* Once a changed xpub is active, an order created thereafter never gets   *)
(* an address of the one it replaced (hd-pool-store.mjs:82-83, review      *)
(* M10): its keys may be in the wrong hands.  A create that had begun may. *)
RetiredXpubNotReused ==
    [][\A o \in Orders : addr'[o] # addr[o] /\ addr'[o] # NoAddress =>
          \E s \in Sites : tx[s].order = o /\ addr'[o].xpub = tx[s].xpub]_vars

(* No row is lost to the pool: one in use is bound to the order that has   *)
(* its address, so that the job cools it down when that order is over.     *)
NoRowLost ==
    \A a \in InState("IN_USE") : pool[a].order \in Orders /\ addr[pool[a].order] = a
=============================================================================
