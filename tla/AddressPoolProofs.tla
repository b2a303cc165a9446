-------------------------- MODULE AddressPoolProofs --------------------------
(***************************************************************************)
(* A pool address is matched with one order at a time, for any number of   *)
(* orders, sites and xpubs and any lengths of the windows, as long as the  *)
(* cooldown covers the late-payment window.                                *)
(***************************************************************************)
EXTENDS AddressPool, TLAPS

(* A claim in flight: a free row is its own until the commit, and its      *)
(* order has no address yet and no other transaction.                      *)
ClaimOK(s) ==
    /\ tx[s].addr # NoAddress => /\ tx[s].order \in Orders
                                 /\ tx[s].addr.xpub = tx[s].xpub
                                 /\ ~tx[s].derived => pool[tx[s].addr].status = "FREE"
    /\ tx[s].order # NoOrder => addr[tx[s].order] = NoAddress

Apart(s, t) ==
    /\ tx[s].order # NoOrder => tx[s].order # tx[t].order
    /\ tx[s].addr # NoAddress /\ ~tx[s].derived /\ ~tx[t].derived => tx[s].addr # tx[t].addr

ClaimsOK ==
    /\ \A s \in Sites : ClaimOK(s)
    /\ \A s, t \in Sites : s # t => Apart(s, t)

(* The row of an order that can be matched is the order's: in use, or in a *)
(* cooldown that ends after the order's late payments are given up.        *)
Covers(row, o) ==
    /\ row.order = o
    /\ \/ row.status = "IN_USE"
       \/ stage[o] = "expired" /\ row.status = "COOLDOWN" /\ row.wait > left[o] + LateWindow

Covered == \A o \in Orders : addr[o] # NoAddress /\ Payable(o) => Covers(pool[addr[o]], o)

StagesOK == \A o \in Orders : /\ stage[o] = "expired" => left[o] <= 0
                              /\ stage[o] = "absent" => addr[o] = NoAddress

Inv == TypeOK /\ ClaimsOK /\ NoRowLost /\ Covered /\ StagesOK

-----------------------------------------------------------------------------
LEMMA Constants ==
    /\ Validity \in Nat /\ LateWindow \in Nat /\ Cooldown \in Nat /\ XpubCooldown \in Nat
    /\ NoXpub \notin Xpubs /\ NoOrder \notin Orders /\ NoAddress \notin Addresses
    /\ Cooldown > LateWindow
  BY PoolAssumption, AddressAssumption DEF PoolAssumption, AddressAssumption

USE Constants

LEMMA InitInv == Init => Inv
<1> SUFFICES ASSUME Init PROVE Inv
  OBVIOUS
<1>1. TypeOK
  BY DEF Init, TypeOK, Stages, NoRow, NoTx
<1>2. ClaimsOK
  BY DEF Init, ClaimsOK, ClaimOK, Apart, NoTx
<1>3. NoRowLost /\ Covered /\ StagesOK
  BY DEF Init, NoRowLost, InState, NoRow, Covered, StagesOK
<1> QED BY <1>1, <1>2, <1>3 DEF Inv

Row == [status : {"none", "FREE", "IN_USE", "COOLDOWN"},
        order : Orders \union {NoOrder}, wait : 0..Cooldown]
Tx == [order : Orders \union {NoOrder}, xpub : Xpubs \union {NoXpub},
       addr : Addresses \union {NoAddress}, derived : BOOLEAN]

LEMMA ClaimTypes ==
    ASSUME tx \in [Sites -> Tx], NEW s \in Sites, NEW a \in Addresses, NEW d \in BOOLEAN,
           \/ tx' = [tx EXCEPT ![s].addr = a]
           \/ tx' = [tx EXCEPT ![s].addr = a, ![s].derived = d]
    PROVE  tx' \in [Sites -> Tx]
<1>1. tx[s] \in Tx
  OBVIOUS
<1>2. [tx[s] EXCEPT !.addr = a] \in Tx
  BY <1>1 DEF Tx
<1>3. [tx[s] EXCEPT !.addr = a, !.derived = d] \in Tx
  BY <1>1 DEF Tx
<1> QED BY <1>2, <1>3

(* Types, action by action.                                                *)
LEMMA TypeStep == TypeOK /\ [Next]_vars => TypeOK'
<1> SUFFICES ASSUME TypeOK, [Next]_vars PROVE TypeOK'
  OBVIOUS
<1> USE DEF TypeOK
<1>1. ASSUME NEW s \in Sites, NEW o \in Orders, Begin(s, o) PROVE TypeOK'
  BY <1>1 DEF Begin, orderVars
<1>2. ASSUME NEW s \in Sites, Claim(s) PROVE TypeOK'
  <2>1. PICK a \in Addresses :
           \/ tx' = [tx EXCEPT ![s].addr = a]
           \/ tx' = [tx EXCEPT ![s].addr = a, ![s].derived = TRUE]
    BY <1>2 DEF Claim, FreeRows, InState
  <2>2. tx' \in [Sites -> Tx]
    BY <2>1, ClaimTypes DEF Tx
  <2> QED BY <1>2, <2>2 DEF Claim, orderVars, Tx
<1>3. ASSUME NEW s \in Sites, Commit(s) PROVE TypeOK'
  <2>1. tx[s].addr \in Addresses /\ tx[s].order \in Orders \union {NoOrder}
    BY <1>3 DEF Commit
  <2>2. pool' \in [Addresses -> Row]
    <3>1. [status |-> "IN_USE", order |-> tx[s].order, wait |-> 0] \in Row
      BY <2>1 DEF Row
    <3>2. pool \in [Addresses -> Row]
      BY DEF Row
    <3>3. pool' = [pool EXCEPT ![tx[s].addr] =
                     [status |-> "IN_USE", order |-> tx[s].order, wait |-> 0]]
      BY <1>3 DEF Commit
    <3> QED BY <3>1, <3>2, <3>3
  <2>3. stage' \in [Orders -> Stages]
    BY <1>3, <2>1 DEF Commit, Stages
  <2>7. left' \in [Orders -> -(LateWindow + 1)..Validity]
    <3>1. left' = [left EXCEPT ![tx[s].order] = Validity]
      BY <1>3 DEF Commit
    <3>2. Validity \in -(LateWindow + 1)..Validity
      OBVIOUS
    <3> HIDE DEF TypeOK
    <3>3. left \in [Orders -> -(LateWindow + 1)..Validity]
      BY DEF TypeOK
    <3> QED BY <3>1, <3>2, <3>3
  <2>4. addr' \in [Orders -> Addresses \union {NoAddress}]
    BY <1>3, <2>1 DEF Commit
  <2>5. tx' = [tx EXCEPT ![s] = NoTx] /\ xpub' = xpub
    BY <1>3 DEF Commit
  <2>6. tx' \in [Sites -> Tx]
    BY <2>5 DEF Tx, NoTx
  <2> QED BY <2>2, <2>3, <2>4, <2>5, <2>6, <2>7 DEF Row, Tx
<1>4. ASSUME NEW s \in Sites, Abort(s) PROVE TypeOK'
  BY <1>4 DEF Abort, NoTx, orderVars
<1>5. ASSUME NEW o \in Orders, CreateElsewhere(o) PROVE TypeOK'
  BY <1>5 DEF CreateElsewhere, Stages
<1>6. ASSUME NEW o \in Orders, RequoteHere(o) PROVE TypeOK'
  BY <1>6 DEF RequoteHere
<1>7. ASSUME NEW o \in Orders, RequoteAway(o) PROVE TypeOK'
  BY <1>7 DEF RequoteAway, GivenUp, CooldownTicks
<1>8. ASSUME NEW o \in Orders, NEW status \in Stages, ChangeStatus(o, status) PROVE TypeOK'
  BY <1>8 DEF ChangeStatus
<1>9. ASSUME ExpireDue PROVE TypeOK'
  BY <1>9 DEF ExpireDue, Stages
<1>10. ASSUME CooldownFinal PROVE TypeOK'
  BY <1>10 DEF CooldownFinal, GivenUp, CooldownTicks, orderVars
<1>11. ASSUME ReleaseDue PROVE TypeOK'
  BY <1>11 DEF ReleaseDue, NoRow, orderVars
<1>12. ASSUME ActivateDue \/ \E k \in Xpubs : PutXpub(k) PROVE TypeOK'
  <2>1. CASE ActivateDue
    BY <2>1 DEF ActivateDue, orderVars
  <2>2. ASSUME NEW k \in Xpubs, PutXpub(k) PROVE TypeOK'
    <3>1. xpub' \in {[active |-> k, pending |-> xpub.pending, wait |-> xpub.wait],
                     [active |-> xpub.active, pending |-> NoXpub, wait |-> 0],
                     [active |-> xpub.active, pending |-> k, wait |-> XpubCooldown]}
      BY <2>2 DEF PutXpub
    <3>2. xpub' \in [active : Xpubs \union {NoXpub}, pending : Xpubs \union {NoXpub},
                     wait : 0..XpubCooldown]
      BY <3>1
    <3> QED BY <2>2, <3>2 DEF PutXpub, orderVars
  <2> QED BY <1>12, <2>1, <2>2
<1>13. ASSUME Tick PROVE TypeOK'
  <2>1. left' \in [Orders -> -(LateWindow + 1)..Validity]
    BY <1>13 DEF Tick
  <2>2. pool' \in [Addresses -> Row]
    <3>1. pool' = [a \in Addresses |-> [status |-> pool[a].status, order |-> pool[a].order,
                     wait |-> IF pool[a].wait > 0 THEN pool[a].wait - 1 ELSE 0]]
      BY <1>13 DEF Tick
    <3> QED BY <3>1 DEF Row
  <2>3. xpub' = [active |-> xpub.active, pending |-> xpub.pending,
                 wait |-> IF xpub.wait > 0 THEN xpub.wait - 1 ELSE 0]
    BY <1>13 DEF Tick
  <2>4. xpub' \in [active : Xpubs \union {NoXpub}, pending : Xpubs \union {NoXpub},
                   wait : 0..XpubCooldown]
    BY <2>3
  <2> QED BY <1>13, <2>1, <2>2, <2>4 DEF Tick, Row
<1>14. CASE UNCHANGED vars
  BY <1>14 DEF vars, orderVars
<1> QED
  BY <1>1, <1>2, <1>3, <1>4, <1>5, <1>6, <1>7, <1>8, <1>9, <1>10, <1>11, <1>12, <1>13, <1>14
  DEF Next

-----------------------------------------------------------------------------
(* The claims in flight stay good: only the commit that ends a claim       *)
(* touches its row and its order's address.                                *)
LEMMA ClaimsStep == Inv /\ [Next]_vars => ClaimsOK'
<1> SUFFICES ASSUME Inv, [Next]_vars PROVE ClaimsOK'
  OBVIOUS
<1>0. TypeOK /\ ClaimsOK /\ StagesOK
  BY DEF Inv
<1>1. ASSUME NEW s \in Sites, NEW o \in Orders, Begin(s, o) PROVE ClaimsOK'
  <2>1. /\ tx' = [tx EXCEPT ![s] = [order |-> o, xpub |-> xpub.active, addr |-> NoAddress,
                                    derived |-> FALSE]]
        /\ \A t \in Sites : tx[t].order # o
        /\ addr' = addr /\ pool' = pool
    BY <1>1 DEF Begin, Locked, orderVars
  <2>2. addr[o] = NoAddress
    BY <1>0, <1>1 DEF Begin, StagesOK
  <2>3. ASSUME NEW t \in Sites PROVE ClaimOK(t)'
    BY <1>0, <2>1, <2>2 DEF ClaimsOK, ClaimOK, TypeOK
  <2>4. ASSUME NEW t \in Sites, NEW u \in Sites, t # u PROVE Apart(t, u)'
    BY <1>0, <2>1, <2>4 DEF ClaimsOK, Apart, TypeOK
  <2> QED BY <2>3, <2>4 DEF ClaimsOK
<1>2. ASSUME NEW s \in Sites, Claim(s) PROVE ClaimsOK'
  <2> DEFINE x == tx[s].xpub
  <2>1. addr' = addr /\ pool' = pool /\ tx[s].order \in Orders /\ tx[s].addr = NoAddress
    BY <1>0, <1>2 DEF Claim, orderVars, TypeOK
  <2>2. CASE \E a \in FreeRows(x) : tx' = [tx EXCEPT ![s].addr = a]
    <3>1. PICK a \in FreeRows(x) : tx' = [tx EXCEPT ![s].addr = a]
      BY <2>2
    <3>2. /\ a \in Addresses /\ pool[a].status = "FREE" /\ a.xpub = x
          /\ \A t \in Sites : tx[t].addr # a
      BY <3>1 DEF FreeRows, InState
    <3>3. ASSUME NEW t \in Sites PROVE ClaimOK(t)'
      BY <1>0, <2>1, <3>1, <3>2 DEF ClaimsOK, ClaimOK, TypeOK
    <3>4. ASSUME NEW t \in Sites, NEW u \in Sites, t # u PROVE Apart(t, u)'
      BY <1>0, <2>1, <3>1, <3>2, <3>4 DEF ClaimsOK, Apart, TypeOK
    <3> QED BY <3>3, <3>4 DEF ClaimsOK
  <2>3. CASE \E a \in Addresses : a.xpub = x /\ tx' = [tx EXCEPT ![s].addr = a, ![s].derived = TRUE]
    <3>1. PICK a \in Addresses : /\ a.xpub = x
                                 /\ tx' = [tx EXCEPT ![s].addr = a, ![s].derived = TRUE]
      BY <2>3
    <3>3. ASSUME NEW t \in Sites PROVE ClaimOK(t)'
      BY <1>0, <2>1, <3>1 DEF ClaimsOK, ClaimOK, TypeOK
    <3>4. ASSUME NEW t \in Sites, NEW u \in Sites, t # u PROVE Apart(t, u)'
      BY <1>0, <2>1, <3>1, <3>4 DEF ClaimsOK, Apart, TypeOK
    <3> QED BY <3>3, <3>4 DEF ClaimsOK
  <2> QED BY <1>2, <2>2, <2>3 DEF Claim
<1>3. ASSUME NEW s \in Sites, Commit(s) PROVE ClaimsOK'
  <2> DEFINE o == tx[s].order
             a == tx[s].addr
  <2>1. /\ a \in Addresses /\ o \in Orders
        /\ tx' = [tx EXCEPT ![s] = NoTx]
        /\ addr' = [addr EXCEPT ![o] = a]
        /\ \A b \in Addresses : b # a => pool'[b] = pool[b]
        /\ tx[s].derived => pool[a] = NoRow
    BY <1>0, <1>3 DEF Commit, TypeOK, ClaimsOK, ClaimOK
  <2>2. ASSUME NEW t \in Sites, t # s PROVE ClaimOK(t)'
    <3>1. tx'[t] = tx[t] /\ ClaimOK(t) /\ Apart(s, t) /\ Apart(t, s)
      BY <1>0, <2>1, <2>2 DEF TypeOK, ClaimsOK
    <3>2. tx[t].order # NoOrder => addr'[tx[t].order] = NoAddress
      BY <1>0, <2>1, <3>1 DEF Apart, ClaimOK, TypeOK
    <3>3. tx[t].addr # NoAddress /\ ~tx[t].derived => tx[t].addr # a
      BY <2>1, <3>1 DEF Apart, ClaimOK, NoRow
    <3>4. tx[t].addr # NoAddress => tx[t].addr \in Addresses
      BY <1>0 DEF TypeOK
    <3> QED BY <2>1, <3>1, <3>2, <3>3, <3>4 DEF ClaimOK
  <2>3. ClaimOK(s)'
    BY <1>0, <2>1 DEF ClaimOK, NoTx, TypeOK
  <2>4. ASSUME NEW t \in Sites, NEW u \in Sites, t # u PROVE Apart(t, u)'
    BY <1>0, <2>1, <2>4 DEF ClaimsOK, Apart, TypeOK, NoTx
  <2> QED BY <2>2, <2>3, <2>4 DEF ClaimsOK
<1>4. ASSUME NEW s \in Sites, Abort(s) PROVE ClaimsOK'
  <2>1. tx' = [tx EXCEPT ![s] = NoTx] /\ addr' = addr /\ pool' = pool
    BY <1>4 DEF Abort, orderVars
  <2>2. ASSUME NEW t \in Sites PROVE ClaimOK(t)'
    BY <1>0, <2>1 DEF ClaimsOK, ClaimOK, NoTx, TypeOK
  <2>3. ASSUME NEW t \in Sites, NEW u \in Sites, t # u PROVE Apart(t, u)'
    BY <1>0, <2>1, <2>3 DEF ClaimsOK, Apart, TypeOK, NoTx
  <2> QED BY <2>2, <2>3 DEF ClaimsOK
<1>5. ASSUME tx' = tx,
             \A o \in Orders : addr'[o] = addr[o] \/ addr'[o] = NoAddress,
             \A a \in Addresses : pool[a].status = "FREE" => pool'[a].status = "FREE"
      PROVE  ClaimsOK'
  <2>1. ASSUME NEW t \in Sites PROVE ClaimOK(t)'
    BY <1>0, <1>5 DEF ClaimsOK, ClaimOK, TypeOK
  <2>2. ASSUME NEW t \in Sites, NEW u \in Sites, t # u PROVE Apart(t, u)'
    BY <1>0, <1>5, <2>2 DEF ClaimsOK, Apart
  <2> QED BY <2>1, <2>2 DEF ClaimsOK
<1>6. ASSUME NEW o \in Orders, RequoteAway(o) PROVE ClaimsOK'
  BY <1>0, <1>5, <1>6 DEF RequoteAway, RowsOf, InState, TypeOK
<1>7. ASSUME CooldownFinal \/ ReleaseDue PROVE ClaimsOK'
  BY <1>0, <1>5, <1>7 DEF CooldownFinal, ReleaseDue, Held, Cooled, InState, TypeOK, orderVars
<1>8. ASSUME Tick PROVE ClaimsOK'
  BY <1>0, <1>5, <1>8 DEF Tick, TypeOK
<1>9. ASSUME \/ \E o \in Orders : CreateElsewhere(o) \/ RequoteHere(o)
             \/ \E o \in Orders, status \in Stages : ChangeStatus(o, status)
             \/ ExpireDue \/ ActivateDue \/ \E k \in Xpubs : PutXpub(k)
             \/ UNCHANGED vars
      PROVE ClaimsOK'
  <2>1. tx' = tx /\ addr' = addr /\ pool' = pool
    BY <1>9 DEF CreateElsewhere, RequoteHere, ChangeStatus, ExpireDue, ActivateDue, PutXpub,
                orderVars, vars
  <2> QED BY <1>5, <2>1
<1> QED
  BY <1>1, <1>2, <1>3, <1>4, <1>6, <1>7, <1>8, <1>9 DEF Next

-----------------------------------------------------------------------------
(* Rows in use stay bound to the order that has their address.             *)
LEMMA RowsStep == Inv /\ [Next]_vars => NoRowLost'
<1> SUFFICES ASSUME Inv, [Next]_vars PROVE NoRowLost'
  OBVIOUS
<1>0. TypeOK /\ ClaimsOK /\ NoRowLost
  BY DEF Inv
<1>1. ASSUME NEW s \in Sites, Commit(s) PROVE NoRowLost'
  <2> DEFINE o == tx[s].order
             a == tx[s].addr
  <2>1. /\ a \in Addresses /\ o \in Orders /\ addr[o] = NoAddress
        /\ addr' = [addr EXCEPT ![o] = a]
        /\ pool' = [pool EXCEPT ![a] = [status |-> "IN_USE", order |-> o, wait |-> 0]]
    BY <1>0, <1>1 DEF Commit, TypeOK, ClaimsOK, ClaimOK
  <2>2. ASSUME NEW b \in Addresses, pool'[b].status = "IN_USE"
        PROVE  pool'[b].order \in Orders /\ addr'[pool'[b].order] = b
    <3>1. CASE b = a
      BY <1>0, <2>1, <3>1 DEF TypeOK
    <3>2. CASE b # a
      BY <1>0, <2>1, <2>2, <3>2 DEF TypeOK, NoRowLost, InState
    <3> QED BY <3>1, <3>2
  <2> QED BY <2>2 DEF NoRowLost, InState
<1>2. ASSUME NEW o \in Orders, RequoteAway(o) PROVE NoRowLost'
  <2>1. \A b \in Addresses : pool'[b].status = "IN_USE" =>
            pool'[b] = pool[b] /\ pool[b].order # o
    BY <1>0, <1>2 DEF RequoteAway, RowsOf, InState, GivenUp, TypeOK
  <2>2. \A p \in Orders : p # o => addr'[p] = addr[p]
    BY <1>0, <1>2 DEF RequoteAway, TypeOK
  <2> QED BY <1>0, <2>1, <2>2 DEF NoRowLost, InState
<1>3. ASSUME addr' = addr,
             \A b \in Addresses : pool'[b].status = "IN_USE" =>
                 pool[b].status = "IN_USE" /\ pool'[b].order = pool[b].order
      PROVE  NoRowLost'
  BY <1>0, <1>3 DEF NoRowLost, InState
<1>4. ASSUME CooldownFinal \/ ReleaseDue PROVE NoRowLost'
  BY <1>0, <1>3, <1>4 DEF CooldownFinal, ReleaseDue, GivenUp, NoRow, TypeOK, orderVars
<1>5. ASSUME Tick PROVE NoRowLost'
  BY <1>0, <1>3, <1>5 DEF Tick, TypeOK
<1>6. ASSUME \/ \E s \in Sites : (\E o \in Orders : Begin(s, o)) \/ Claim(s) \/ Abort(s)
             \/ \E o \in Orders : CreateElsewhere(o) \/ RequoteHere(o)
             \/ \E o \in Orders, status \in Stages : ChangeStatus(o, status)
             \/ ExpireDue \/ ActivateDue \/ \E k \in Xpubs : PutXpub(k)
             \/ UNCHANGED vars
      PROVE NoRowLost'
  <2>1. addr' = addr /\ pool' = pool
    BY <1>6 DEF Begin, Claim, Abort, CreateElsewhere, RequoteHere, ChangeStatus, ExpireDue,
                ActivateDue, PutXpub, orderVars, vars
  <2> QED BY <1>3, <2>1
<1> QED
  BY <1>1, <1>2, <1>4, <1>5, <1>6 DEF Next

(* Orders expire after their time, and get an address when they exist.     *)
LEMMA StagesStep == Inv /\ [Next]_vars => StagesOK'
<1> SUFFICES ASSUME Inv, [Next]_vars, NEW p \in Orders
             PROVE  /\ stage'[p] = "expired" => left'[p] <= 0
                    /\ stage'[p] = "absent" => addr'[p] = NoAddress
  BY DEF StagesOK
<1>0. TypeOK /\ StagesOK
  BY DEF Inv
<1> USE DEF TypeOK, StagesOK
<1>1. ASSUME NEW s \in Sites, Commit(s)
      PROVE  /\ stage'[p] = "expired" => left'[p] <= 0
             /\ stage'[p] = "absent" => addr'[p] = NoAddress
  BY <1>0, <1>1 DEF Commit
<1>2. ASSUME NEW o \in Orders, CreateElsewhere(o) \/ RequoteHere(o) \/ RequoteAway(o)
      PROVE  /\ stage'[p] = "expired" => left'[p] <= 0
             /\ stage'[p] = "absent" => addr'[p] = NoAddress
  BY <1>0, <1>2 DEF CreateElsewhere, RequoteHere, RequoteAway, Quotable
<1>3. ASSUME NEW o \in Orders, NEW status \in Stages, ChangeStatus(o, status)
      PROVE  /\ stage'[p] = "expired" => left'[p] <= 0
             /\ stage'[p] = "absent" => addr'[p] = NoAddress
  BY <1>0, <1>3 DEF ChangeStatus
<1>4. ASSUME ExpireDue
      PROVE  /\ stage'[p] = "expired" => left'[p] <= 0
             /\ stage'[p] = "absent" => addr'[p] = NoAddress
  BY <1>0, <1>4 DEF ExpireDue, Due
<1>5. ASSUME Tick
      PROVE  /\ stage'[p] = "expired" => left'[p] <= 0
             /\ stage'[p] = "absent" => addr'[p] = NoAddress
  BY <1>0, <1>5 DEF Tick
<1>6. ASSUME UNCHANGED orderVars
      PROVE  /\ stage'[p] = "expired" => left'[p] <= 0
             /\ stage'[p] = "absent" => addr'[p] = NoAddress
  BY <1>0, <1>6 DEF orderVars
<1>7. ASSUME \/ \E s \in Sites : (\E o \in Orders : Begin(s, o)) \/ Claim(s) \/ Abort(s)
             \/ CooldownFinal \/ ReleaseDue \/ ActivateDue \/ \E k \in Xpubs : PutXpub(k)
             \/ UNCHANGED vars
      PROVE  UNCHANGED orderVars
  BY <1>7 DEF Begin, Claim, Abort, CooldownFinal, ReleaseDue, ActivateDue, PutXpub, vars
<1> QED
  BY <1>1, <1>2, <1>3, <1>4, <1>5, <1>6, <1>7 DEF Next

(* The heart of it: whatever happens, the row of an order that can be      *)
(* matched covers it.                                                      *)
LEMMA CoveredStep == Inv /\ [Next]_vars => Covered'
<1> SUFFICES ASSUME Inv, [Next]_vars, NEW p \in Orders, addr'[p] # NoAddress, Payable(p)'
             PROVE  Covers(pool[addr[p]], p)'
  BY DEF Covered
<1>0. TypeOK /\ ClaimsOK /\ NoRowLost /\ Covered /\ StagesOK
  BY DEF Inv
<1>1. ASSUME NEW s \in Sites, Commit(s) PROVE Covers(pool[addr[p]], p)'
  <2> DEFINE o == tx[s].order
             a == tx[s].addr
  <2>1. /\ a \in Addresses /\ o \in Orders /\ addr[o] = NoAddress
        /\ pool[a].status \in {"FREE", "none"}
        /\ addr' = [addr EXCEPT ![o] = a]
        /\ pool' = [pool EXCEPT ![a] = [status |-> "IN_USE", order |-> o, wait |-> 0]]
        /\ \A q \in Orders : q # o => stage'[q] = stage[q] /\ left'[q] = left[q]
    BY <1>0, <1>1 DEF Commit, TypeOK, ClaimsOK, ClaimOK, NoRow
  <2>2. CASE p = o
    BY <1>0, <2>1, <2>2 DEF TypeOK, Covers
  <2>3. CASE p # o
    <3>1. addr'[p] = addr[p] /\ addr[p] \in Addresses /\ Payable(p)
      BY <1>0, <2>1, <2>3 DEF TypeOK, Payable
    <3>2. Covers(pool[addr[p]], p)
      BY <1>0, <3>1 DEF Covered
    <3>3. addr[p] # a
      BY <2>1, <3>2 DEF Covers
    <3> QED BY <1>0, <2>1, <2>3, <3>1, <3>2, <3>3 DEF Covers, TypeOK
  <2> QED BY <2>2, <2>3
<1>2. ASSUME NEW o \in Orders, RequoteAway(o) PROVE Covers(pool[addr[p]], p)'
  <2>1. p # o /\ addr'[p] = addr[p] /\ addr[p] \in Addresses /\ Payable(p)
    BY <1>0, <1>2 DEF RequoteAway, TypeOK, Payable
  <2>2. Covers(pool[addr[p]], p)
    BY <1>0, <2>1 DEF Covered
  <2>3. pool'[addr[p]] = pool[addr[p]]
    BY <1>0, <1>2, <2>1, <2>2 DEF RequoteAway, RowsOf, InState, Covers, TypeOK
  <2>4. left'[p] = left[p] /\ stage'[p] = stage[p]
    BY <1>0, <1>2, <2>1 DEF RequoteAway, TypeOK
  <2> QED BY <2>1, <2>2, <2>3, <2>4 DEF Covers
<1>3. ASSUME NEW o \in Orders, CreateElsewhere(o) \/ RequoteHere(o)
      PROVE  Covers(pool[addr[p]], p)'
  <2>1. /\ addr' = addr /\ pool' = pool
        /\ stage[p] # "absent"
        /\ stage'[p] = stage[p]
        /\ stage[p] = "expired" => left'[p] = left[p]
    BY <1>0, <1>3 DEF CreateElsewhere, RequoteHere, Quotable, TypeOK, StagesOK
  <2>2. Payable(p)
    BY <2>1 DEF Payable
  <2> QED BY <1>0, <2>1, <2>2 DEF Covered, Covers
<1>9. ASSUME NEW o \in Orders, NEW status \in Stages, ChangeStatus(o, status)
      PROVE  Covers(pool[addr[p]], p)'
  <2>1. addr' = addr /\ pool' = pool /\ status \in {"open", "final"}
    BY <1>9 DEF ChangeStatus
  <2>2. p # o
    BY <1>0, <1>9, <2>1 DEF ChangeStatus, Payable, TypeOK
  <2>3. stage'[p] = stage[p] /\ left'[p] = left[p]
    BY <1>0, <1>9, <2>2 DEF ChangeStatus, TypeOK
  <2>4. Payable(p)
    BY <2>3 DEF Payable
  <2> QED BY <1>0, <2>1, <2>3, <2>4 DEF Covered, Covers
<1>4. ASSUME ExpireDue PROVE Covers(pool[addr[p]], p)'
  <2>1. addr' = addr /\ pool' = pool /\ left' = left /\ Payable(p)
    BY <1>0, <1>4 DEF ExpireDue, Due, Payable, TypeOK
  <2>2. Covers(pool[addr[p]], p) /\ (stage[p] = "expired" => stage'[p] = "expired")
    BY <1>0, <1>4, <2>1 DEF Covered, ExpireDue, TypeOK
  <2> QED BY <2>1, <2>2 DEF Covers
<1>5. ASSUME CooldownFinal PROVE Covers(pool[addr[p]], p)'
  <2>1. addr' = addr /\ left' = left /\ stage' = stage /\ Payable(p) /\ addr[p] \in Addresses
    BY <1>0, <1>5 DEF CooldownFinal, orderVars, Payable, TypeOK
  <2>2. Covers(pool[addr[p]], p)
    BY <1>0, <2>1 DEF Covered
  <2>3. CASE addr[p] \in Held
    <3>1. stage[p] = "expired"
      BY <2>1, <2>2, <2>3 DEF Held, Covers, Payable, ReleaseStatuses
    <3>2. left[p] <= 0 /\ left[p] \in Int
      BY <1>0, <3>1 DEF StagesOK, TypeOK
    <3>3. pool'[addr[p]] = [status |-> "COOLDOWN", order |-> p, wait |-> Cooldown]
      BY <1>5, <2>1, <2>2, <2>3 DEF CooldownFinal, GivenUp, CooldownTicks, Covers
    <3>4. Cooldown > left[p] + LateWindow
      BY <3>2
    <3> QED BY <2>1, <3>1, <3>3, <3>4 DEF Covers
  <2>4. CASE addr[p] \notin Held
    BY <1>5, <2>1, <2>2, <2>4 DEF CooldownFinal, Covers
  <2> QED BY <2>3, <2>4
<1>6. ASSUME ReleaseDue PROVE Covers(pool[addr[p]], p)'
  <2>1. addr' = addr /\ left' = left /\ stage' = stage /\ Payable(p) /\ addr[p] \in Addresses
    BY <1>0, <1>6 DEF ReleaseDue, orderVars, Payable, TypeOK
  <2>2. Covers(pool[addr[p]], p)
    BY <1>0, <2>1 DEF Covered
  <2>3. addr[p] \notin Cooled
    BY <1>0, <2>1, <2>2 DEF Cooled, InState, Covers, Payable, TypeOK
  <2> QED BY <1>6, <2>1, <2>2, <2>3 DEF ReleaseDue, Covers
<1>7. ASSUME Tick PROVE Covers(pool[addr[p]], p)'
  <2>1. addr' = addr /\ stage' = stage /\ addr[p] \in Addresses
    BY <1>0, <1>7 DEF Tick, TypeOK
  <2>2. /\ left[p] \in Int
        /\ left'[p] = IF Payable(p) /\ left[p] >= -LateWindow THEN left[p] - 1 ELSE left[p]
    BY <1>0, <1>7 DEF Tick, TypeOK
  <2>3. Payable(p)
    BY <2>1, <2>2 DEF Payable
  <2>4. Covers(pool[addr[p]], p)
    BY <1>0, <2>1, <2>3 DEF Covered
  <2>5. /\ pool'[addr[p]].status = pool[addr[p]].status
        /\ pool'[addr[p]].order = pool[addr[p]].order
        /\ pool'[addr[p]].wait = IF pool[addr[p]].wait > 0 THEN pool[addr[p]].wait - 1 ELSE 0
        /\ pool[addr[p]].wait \in Int
    BY <1>0, <1>7, <2>1 DEF Tick, TypeOK
  <2> QED BY <2>1, <2>2, <2>3, <2>4, <2>5 DEF Covers, Payable
<1>8. ASSUME \/ \E s \in Sites : (\E o \in Orders : Begin(s, o)) \/ Claim(s) \/ Abort(s)
             \/ ActivateDue \/ \E k \in Xpubs : PutXpub(k)
             \/ UNCHANGED vars
      PROVE Covers(pool[addr[p]], p)'
  <2>1. UNCHANGED orderVars /\ pool' = pool
    BY <1>8 DEF Begin, Claim, Abort, ActivateDue, PutXpub, vars
  <2>2. Payable(p)
    BY <2>1 DEF orderVars, Payable
  <2> QED BY <1>0, <2>1, <2>2 DEF orderVars, Covered, Covers
<1> QED
  BY <1>1, <1>2, <1>3, <1>4, <1>5, <1>6, <1>7, <1>8, <1>9 DEF Next

-----------------------------------------------------------------------------
LEMMA Invariance == Spec => []Inv
<1>1. Inv /\ [Next]_vars => Inv'
  BY TypeStep, ClaimsStep, RowsStep, CoveredStep, StagesStep DEF Inv
<1> QED BY InitInv, <1>1, PTL DEF Spec

(* The tables keep their types. *)
THEOREM PoolTypes == Spec => []TypeOK
<1>1. Inv => TypeOK
  BY DEF Inv
<1> QED BY Invariance, <1>1, PTL

(* A transfer to a pool address can be matched with one order only, late   *)
(* payments of an expired one included (hd-pool-rules.mjs, review M14).    *)
THEOREM PoolIsExclusive == Spec => []PoolAddressIsExclusive
<1>1. Inv => PoolAddressIsExclusive
  BY DEF Inv, Covered, Covers, PoolAddressIsExclusive
<1> QED BY Invariance, <1>1, PTL

(* An order that can be paid in time holds its row. *)
THEOREM PayableOrdersHoldRows == Spec => []PayableHoldsRow
<1>1. Inv => PayableHoldsRow
  BY DEF Inv, Covered, Covers, Payable, PayableHoldsRow
<1> QED BY Invariance, <1>1, PTL

(* No row in use is lost to the pool. *)
THEOREM RowsStayBound == Spec => []NoRowLost
<1>1. Inv => NoRowLost
  BY DEF Inv
<1> QED BY Invariance, <1>1, PTL

(* A create that began after a change of the xpub gets no address of the   *)
(* replaced one (hd-pool-store.mjs, review M10).                           *)
THEOREM RetiredXpubs == Spec => RetiredXpubNotReused
<1>1. ASSUME Inv, [Next]_vars, NEW o \in Orders, addr'[o] # addr[o], addr'[o] # NoAddress
      PROVE  \E s \in Sites : tx[s].order = o /\ addr'[o].xpub = tx[s].xpub
  <2>1. ASSUME NEW s \in Sites, Commit(s)
        PROVE  tx[s].order = o /\ addr'[o].xpub = tx[s].xpub
    <3>1. /\ addr' = [addr EXCEPT ![tx[s].order] = tx[s].addr]
          /\ tx[s].addr # NoAddress /\ ClaimOK(s)
      BY <1>1, <2>1 DEF Commit, Inv, ClaimsOK
    <3> QED BY <1>1, <3>1 DEF Inv, TypeOK, ClaimOK
  <2>2. ASSUME NEW p \in Orders, RequoteAway(p) PROVE FALSE
    BY <1>1, <2>2 DEF RequoteAway, Inv, TypeOK
  <2>3. ASSUME \/ \E s \in Sites : (\E p \in Orders : Begin(s, p)) \/ Claim(s) \/ Abort(s)
               \/ \E p \in Orders : CreateElsewhere(p) \/ RequoteHere(p)
               \/ \E p \in Orders, status \in Stages : ChangeStatus(p, status)
               \/ ExpireDue \/ CooldownFinal \/ ReleaseDue \/ Tick
               \/ ActivateDue \/ \E k \in Xpubs : PutXpub(k)
               \/ UNCHANGED vars
        PROVE FALSE
    BY <1>1, <2>3 DEF Begin, Claim, Abort, CreateElsewhere, RequoteHere, ChangeStatus, ExpireDue,
                      CooldownFinal, ReleaseDue, Tick, ActivateDue, PutXpub, orderVars, vars
  <2> QED BY <1>1, <2>1, <2>2, <2>3 DEF Next
<1>2. Inv /\ [Next]_vars =>
        [\A o \in Orders : addr'[o] # addr[o] /\ addr'[o] # NoAddress =>
            \E s \in Sites : tx[s].order = o /\ addr'[o].xpub = tx[s].xpub]_vars
  BY <1>1
<1> QED BY Invariance, <1>2, PTL DEF Spec, RetiredXpubNotReused
=============================================================================
