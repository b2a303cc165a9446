--------------------------- MODULE MatchingProofs ---------------------------
(***************************************************************************)
(* What a transfer may do to the orders, for any number of orders in any   *)
(* modes, statuses and amounts.  The amounts' fit is never opened: the     *)
(* theorems rest on how fitting orders are counted and named, not on dust. *)
(***************************************************************************)
EXTENDS MatchingInputs, FiniteSetTheorems, TLAPS

Types == transfer \in Transfers /\ row \in [Orders -> Rows]

LEMMA RowTypes ==
    ASSUME Types
    PROVE  /\ DOMAIN row = Orders /\ transfer.at \in Int
           /\ \A o \in Orders : /\ row[o].mode \in AllModes
                                /\ row[o].created \in Int /\ row[o].expires \in Int
  BY InputAssumption DEF InputAssumption, Types

LEMMA Single ==
    ASSUME NEW S \in SUBSET Orders, Cardinality(S) = 1
    PROVE  \E o \in S : S = {o}
<1>1. IsFiniteSet(S)
  BY InputAssumption, FS_Subset DEF InputAssumption
<1> QED BY <1>1, FS_Singleton

LEMMA SingleCount == \A o : Cardinality({o}) = 1
  BY FS_Singleton

-----------------------------------------------------------------------------
(* One group of orders of one mode.                                        *)

\* The orders of a group that are open when the transfer is mined, and those it would pay.
Opens(group) == Open(transfer, row, Eligible(transfer, row, group))
Paid(group) == Fitting(transfer, row, Opens(group))

LEMMA GroupSets ==
    ASSUME Types, NEW group \in SUBSET Orders
    PROVE  /\ Opens(group) = {o \in group : /\ row[o].created <= transfer.at
                                            /\ transfer.at < row[o].expires}
           /\ Paid(group) = {o \in group : /\ row[o].created <= transfer.at
                                           /\ transfer.at < row[o].expires
                                           /\ AmountFits(row[o].payable, transfer.amount)}
  BY RowTypes DEF Opens, Paid, Open, Late, Eligible, Fitting

\* An open order that is alone with the paid amount is settled, and nothing else is.
LEMMA OpenOutcome ==
    ASSUME Types, NEW group \in SUBSET Orders
    PROVE  LET answer == MatchOpen(transfer, row, Opens(group))
           IN  /\ answer.status = "verifying" => \E o \in group : Paid(group) = {o}
                                                                  /\ answer.ids = Paid(group)
               /\ answer.ids \subseteq Opens(group)
               /\ \A o : Paid(group) = {o} =>
                      answer.status = "verifying" /\ answer.ids = {o}
<1> DEFINE answer == MatchOpen(transfer, row, Opens(group))
           paid == Paid(group)
<1>1. paid \subseteq Opens(group) /\ paid \subseteq group /\ paid \subseteq Orders
  BY GroupSets
<1>2. paid = Fitting(transfer, row, Opens(group))
  BY DEF Paid
<1> HIDE DEF paid
<1>0. Cardinality(paid) \in Nat /\ (paid = {} => Cardinality(paid) = 0)
  BY <1>1, InputAssumption, FS_Subset, FS_CardinalityType, FS_EmptySet DEF InputAssumption
<1>3. CASE Cardinality(paid) >= 2
  <2>1. answer = Flagged(paid, "collision")
    BY <1>0, <1>2, <1>3 DEF MatchOpen
  <2> QED BY <1>1, <1>3, <2>1, SingleCount DEF Flagged, paid
<1>4. CASE Cardinality(paid) = 1 /\ ~(Cardinality(paid) >= 2)
  <2>1. answer = Settling(paid, "exact")
    BY <1>0, <1>2, <1>4 DEF MatchOpen
  <2> QED BY <1>1, <1>4, <2>1, Single DEF Settling, paid
<1>5. CASE Cardinality(paid) # 1 /\ ~(Cardinality(paid) >= 2)
  <2>1. \/ answer = Flagged(Opens(group), "mismatch")
        \/ \E reason : answer = Unbound(reason)
    BY <1>2, <1>5 DEF MatchOpen
  <2>2. \A o : paid # {o}
    BY <1>5, SingleCount
  <2> QED BY <2>1, <2>2 DEF Flagged, Unbound, paid
<1> QED BY <1>3, <1>4, <1>5

\* With memos, the paid orders are those that the transfer names as well.
NamedPaid(group) == IF transfer.memo = NoMemo THEN {}
                    ELSE SameMemo(transfer, row, Paid(group))

LEMMA MemoOpenOutcome ==
    ASSUME Types, NEW group \in SUBSET Orders
    PROVE  LET answer == MatchMemoOpen(transfer, row, Opens(group))
           IN  /\ answer.status = "verifying" =>
                      \E o \in group : NamedPaid(group) = {o} /\ answer.ids = {o}
               /\ answer.ids \subseteq Opens(group)
               /\ \A o : NamedPaid(group) = {o} =>
                      answer.status = "verifying" /\ answer.ids = {o}
<1> DEFINE answer == MatchMemoOpen(transfer, row, Opens(group))
           paid == Paid(group)
           named == SameMemo(transfer, row, paid)
<1>1. paid \subseteq Opens(group) /\ paid \subseteq group /\ paid \subseteq Orders
  BY GroupSets
<1>2. paid = Fitting(transfer, row, Opens(group))
  BY DEF Paid
<1>3. named \subseteq paid
  BY DEF SameMemo
<1>4. NamedPaid(group) = IF transfer.memo = NoMemo THEN {} ELSE named
  BY DEF NamedPaid
<1> HIDE DEF paid
<1>5. Cardinality(named) \in Nat /\ (named = {} => Cardinality(named) = 0)
  BY <1>1, <1>3, InputAssumption, FS_Subset, FS_CardinalityType, FS_EmptySet DEF InputAssumption
<1>6. CASE paid = {}
  <2>1. answer = MatchOpen(transfer, row, Opens(group))
    BY <1>2, <1>6 DEF MatchMemoOpen
  <2>2. named = {}
    BY <1>3, <1>6
  <2>3. /\ answer.status # "verifying"
        /\ answer.ids \subseteq Opens(group)
    BY <1>6, <2>1, OpenOutcome DEF paid
  <2> QED BY <1>4, <2>2, <2>3
<1>7. CASE paid # {} /\ transfer.memo = NoMemo
  <2>1. answer = Flagged(paid, "memo_missing")
    BY <1>2, <1>7 DEF MatchMemoOpen
  <2> QED BY <1>1, <1>4, <1>7, <2>1 DEF Flagged
<1>8. CASE paid # {} /\ transfer.memo # NoMemo /\ Cardinality(named) >= 2
  <2>1. answer = Flagged(named, "memo_collision")
    BY <1>2, <1>5, <1>8 DEF MatchMemoOpen
  <2> HIDE DEF named
  <2>2. \A o : named # {o}
    BY <1>8, SingleCount
  <2> QED BY <1>1, <1>3, <1>4, <1>8, <2>1, <2>2 DEF Flagged
<1>9. CASE paid # {} /\ transfer.memo # NoMemo /\ Cardinality(named) = 1
  <2>1. answer = Settling(named, "exact")
    BY <1>2, <1>5, <1>9 DEF MatchMemoOpen
  <2>2. \E o \in named : named = {o}
    BY <1>1, <1>3, <1>9, Single
  <2> HIDE DEF named
  <2> QED BY <1>1, <1>3, <1>4, <1>9, <2>1, <2>2 DEF Settling
<1>10. CASE paid # {} /\ transfer.memo # NoMemo /\ Cardinality(named) = 0
  <2>1. answer = Flagged(paid, "memo_mismatch")
    BY <1>2, <1>5, <1>10 DEF MatchMemoOpen
  <2> HIDE DEF named
  <2>2. \A o : NamedPaid(group) # {o}
    BY <1>4, <1>10, SingleCount
  <2>3. answer.status # "verifying" /\ answer.ids = paid
    BY <2>1 DEF Flagged
  <2> QED BY <1>1, <2>2, <2>3
<1> QED BY <1>5, <1>6, <1>7, <1>8, <1>9, <1>10

\* The orders of a group of one mode that the transfer pays.
Payees(mode, group) == IF mode = "D" THEN NamedPaid(group) ELSE Paid(group)

LEMMA LateOutcome ==
    ASSUME NEW mode, NEW late
    PROVE  LET answer == MatchLate(mode, transfer, row, late)
           IN  answer.status # "verifying" /\ answer.ids \subseteq late
  BY DEF MatchLate, Fitting, Flagged, Unbound

LEMMA GroupOutcome ==
    ASSUME Types, NEW mode \in AllModes, NEW group \in SUBSET Orders
    PROVE  LET answer == MatchTransaction(mode, transfer, row, group)
           IN  /\ answer.status = "verifying" =>
                      \E o \in group : Payees(mode, group) = {o} /\ answer.ids = {o}
               /\ answer.ids \subseteq Eligible(transfer, row, group)
               /\ (mode = "D" => MemoSupported)
                  => \A o : Payees(mode, group) = {o} =>
                        answer.status = "verifying" /\ answer.ids = {o}
<1> DEFINE answer == MatchTransaction(mode, transfer, row, group)
           eligible == Eligible(transfer, row, group)
           late == Late(transfer, row, eligible)
           open == Open(transfer, row, eligible)
<1>1. open = Opens(group) /\ open \subseteq eligible /\ late \subseteq eligible
  BY DEF Opens, Open, Late
<1>2. Payees(mode, group) \subseteq open
  BY GroupSets DEF Payees, NamedPaid, SameMemo, Opens
<1> HIDE DEF eligible, late, open
<1>3. CASE mode # "D"
  <2>1. answer = MatchExact(mode, transfer, row, group)
    BY <1>3 DEF MatchTransaction
  <2>2. CASE eligible = {}
    <3>1. \E reason : answer = Unbound(reason)
      BY <2>1, <2>2 DEF MatchExact, eligible
    <3> QED BY <1>1, <1>2, <2>2, <3>1 DEF Unbound
  <2>3. CASE eligible # {} /\ open = {}
    <3>1. answer = MatchLate(mode, transfer, row, late)
      BY <2>1, <2>3 DEF MatchExact, eligible, late, open
    <3> QED BY <1>1, <1>2, <2>3, <3>1, LateOutcome DEF eligible
  <2>4. CASE eligible # {} /\ open # {}
    <3>1. answer = MatchOpen(transfer, row, open)
      BY <2>1, <2>4 DEF MatchExact, eligible, open
    <3> QED BY <1>1, <1>3, <3>1, OpenOutcome DEF Payees, eligible
  <2> QED BY <2>2, <2>3, <2>4
<1>4. CASE mode = "D"
  <2>1. answer = MatchMemo(transfer, row, group)
    BY <1>4 DEF MatchTransaction
  <2>2. CASE ~MemoSupported \/ eligible = {}
    <3>1. \E reason : answer = Unbound(reason)
      BY <2>1, <2>2 DEF MatchMemo, eligible
    <3> QED BY <1>1, <1>2, <1>4, <2>2, <3>1 DEF Unbound
  <2>3. CASE MemoSupported /\ eligible # {} /\ open = {}
    <3> DEFINE named == IF transfer.memo = NoMemo THEN {} ELSE SameMemo(transfer, row, late)
    <3>1. named \subseteq eligible
      BY <1>1 DEF SameMemo
    <3>2. answer = IF named = {} THEN Unbound("no_open_order_at_address")
                   ELSE Flagged(named, "late")
      BY <2>1, <2>3 DEF MatchMemo, eligible, late, open
    <3> HIDE DEF named
    <3> QED BY <1>2, <2>3, <3>1, <3>2 DEF Flagged, Unbound, eligible
  <2>4. CASE MemoSupported /\ eligible # {} /\ open # {}
    <3>1. answer = MatchMemoOpen(transfer, row, open)
      BY <2>1, <2>4 DEF MatchMemo, eligible, open
    <3> QED BY <1>1, <1>4, <3>1, MemoOpenOutcome DEF Payees, eligible
  <2> QED BY <2>2, <2>3, <2>4
<1> QED BY <1>3, <1>4

-----------------------------------------------------------------------------
(* The whole table: a group per mode, and the first mode that answers.     *)

Here == {o \in Orders : /\ row[o].status # "absent"
                        /\ row[o].addr = transfer.addr
                        /\ row[o].scope = transfer.scope}
Group(i) == {o \in Here : row[o].status \in AwaitingStatuses /\ row[o].mode = ModeOrder[i]}
Reply(i) == MatchTransaction(ModeOrder[i], transfer, row, Group(i))
Answering == {i \in DOMAIN ModeOrder : Group(i) # {} /\ ~NobodyHere(Reply(i))}

LEMMA Modes ==
    /\ DOMAIN ModeOrder = 1..4
    /\ \A i \in 1..4 : ModeOrder[i] \in AllModes
    /\ \A mode \in AllModes : \E i \in 1..4 : ModeOrder[i] = mode
    /\ \A i, j \in 1..4 : ModeOrder[i] = ModeOrder[j] => i = j
  BY DEF ModeOrder, AllModes

LEMMA FirstMode == Answering # {} => Min(Answering) \in Answering
<1> SUFFICES ASSUME Answering # {} PROVE Min(Answering) \in Answering
  OBVIOUS
<1>1. Answering \subseteq 1..4
  BY Modes DEF Answering
<1> HIDE DEF Answering
<1>2. \E i \in Answering : \A j \in Answering : i <= j
  <2>1. CASE 1 \in Answering
    BY <1>1, <2>1
  <2>2. CASE 1 \notin Answering /\ 2 \in Answering
    BY <1>1, <2>2
  <2>3. CASE 1 \notin Answering /\ 2 \notin Answering /\ 3 \in Answering
    BY <1>1, <2>3
  <2>4. CASE 1 \notin Answering /\ 2 \notin Answering /\ 3 \notin Answering
    <3>1. \A j \in Answering : j = 4
      BY <1>1, <2>4
    <3> QED BY <3>1
  <2> QED BY <2>1, <2>2, <2>3, <2>4
<1> QED BY <1>2 DEF Min

LEMMA InboundCases ==
    ASSUME Types
    PROVE  \/ Here = {} /\ Result = MatchWrongRail(transfer, row)
           \/ Here # {} /\ Answering = {} /\ \E reason : Result = Unbound(reason)
           \/ Here # {} /\ \E i \in Answering : Result = Reply(i)
<1>1. Result = CASE Here = {} -> MatchWrongRail(transfer, row)
                 [] Here # {} /\ Answering = {} -> Unbound("no_exact_amount_match")
                 [] OTHER -> Reply(Min(Answering))
  BY RowTypes DEF Result, MatchInbound, Here, Group, Reply, Answering
<1>2. CASE Here = {}
  BY <1>1, <1>2
<1>3. CASE Here # {} /\ Answering = {}
  BY <1>1, <1>3
<1>4. CASE Here # {} /\ Answering # {}
  BY <1>1, <1>4, FirstMode
<1> QED BY <1>2, <1>3, <1>4

LEMMA WrongRailOutcome ==
    ASSUME Types
    PROVE  LET answer == MatchWrongRail(transfer, row)
           IN  /\ answer.status # "verifying"
               /\ \A o \in answer.ids : /\ o \in Orders /\ row[o].addr = transfer.addr
                                        /\ row[o].created <= transfer.at
<1> DEFINE elsewhere == {o \in DOMAIN row : /\ row[o].status # "absent"
                                            /\ row[o].addr = transfer.addr
                                            /\ row[o].scope # transfer.scope}
           answer == MatchWrongRail(transfer, row)
<1>1. \A o \in Eligible(transfer, row, elsewhere) :
         o \in Orders /\ row[o].addr = transfer.addr /\ row[o].created <= transfer.at
  BY RowTypes DEF Eligible
<1>2. \/ \E reason : answer = Unbound(reason)
      \/ answer = Flagged(Eligible(transfer, row, elsewhere), "wrong_rail")
  BY DEF MatchWrongRail
<1> HIDE DEF elsewhere, answer
<1>3. answer.status # "verifying" /\ answer.ids \subseteq Eligible(transfer, row, elsewhere)
  BY <1>2 DEF Unbound, Flagged
<1> QED BY <1>1, <1>3 DEF answer

\* The payees of a mode's group are the orders of that mode the transfer pays.
LEMMA PayeesArePaid ==
    ASSUME Types, NEW i \in 1..4, NEW o \in Orders
    PROVE  o \in Payees(ModeOrder[i], Group(i)) <=> PaidBy(o) /\ row[o].mode = ModeOrder[i]
<1>1. Group(i) \in SUBSET Orders
  BY DEF Group, Here
<1>2. o \in Group(i) <=> /\ row[o].status \in AwaitingStatuses
                         /\ row[o].addr = transfer.addr /\ row[o].scope = transfer.scope
                         /\ row[o].mode = ModeOrder[i]
  BY DEF Group, Here, AwaitingStatuses
<1>3. o \in Paid(Group(i)) <=> /\ Payable(o) /\ row[o].mode = ModeOrder[i]
                               /\ AmountFits(row[o].payable, transfer.amount)
  BY <1>1, <1>2, GroupSets DEF Payable
<1> QED BY <1>3 DEF Payees, NamedPaid, SameMemo, PaidBy, Named

-----------------------------------------------------------------------------
LEMMA Guess == Types => NeverGuesses
<1> SUFFICES ASSUME Types, Result.status = "verifying"
             PROVE  \E o \in Orders :
                       /\ Result.ids = {o}
                       /\ PaidBy(o)
                       /\ \A p \in Orders \ {o} : row[p].mode = row[o].mode => ~PaidBy(p)
  BY DEF NeverGuesses
<1>1. PICK i \in Answering : Result = Reply(i)
  BY InboundCases, WrongRailOutcome DEF Unbound
<1>2. i \in 1..4 /\ ModeOrder[i] \in AllModes /\ Group(i) \in SUBSET Orders
  BY Modes DEF Answering, Group, Here
<1>3. PICK o \in Group(i) : Payees(ModeOrder[i], Group(i)) = {o} /\ Result.ids = {o}
  BY <1>1, <1>2, GroupOutcome DEF Reply
<1>4. o \in Orders /\ PaidBy(o) /\ row[o].mode = ModeOrder[i]
  BY <1>2, <1>3, PayeesArePaid
<1>5. \A p \in Orders \ {o} : row[p].mode = row[o].mode => ~PaidBy(p)
  BY <1>2, <1>3, <1>4, PayeesArePaid
<1> QED BY <1>3, <1>4, <1>5

LEMMA Concern == Types => OnlyConcernedOrders
<1> SUFFICES ASSUME Types, NEW o \in Result.ids
             PROVE  /\ row[o].addr = transfer.addr
                    /\ row[o].created <= transfer.at
                    /\ row[o].scope # transfer.scope =>
                          \A p \in Orders :
                             row[p].status # "absent" /\ row[p].addr = transfer.addr =>
                                row[p].scope # transfer.scope
  BY DEF OnlyConcernedOrders
<1>1. CASE Here = {} /\ Result = MatchWrongRail(transfer, row)
  BY <1>1, WrongRailOutcome DEF Here
<1>2. CASE \E reason : Result = Unbound(reason)
  BY <1>2 DEF Unbound
<1>3. ASSUME NEW i \in Answering, Result = Reply(i)
      PROVE  /\ row[o].addr = transfer.addr /\ row[o].created <= transfer.at
             /\ row[o].scope = transfer.scope
  <2>1. i \in 1..4 /\ ModeOrder[i] \in AllModes /\ Group(i) \in SUBSET Orders
    BY Modes DEF Answering, Group, Here
  <2>2. o \in Eligible(transfer, row, Group(i))
    BY <1>3, <2>1, GroupOutcome DEF Reply
  <2> QED BY <2>1, <2>2, RowTypes DEF Eligible, Group, Here
<1> QED BY <1>1, <1>2, <1>3, InboundCases

LEMMA Settle == Types => FullPaymentSettles
<1> SUFFICES ASSUME Types, NEW o \in Orders, PaidBy(o),
                    MemoSupported \/ row[o].mode # "D",
                    \A p \in Orders \ {o} :
                       /\ row[p].status \in AwaitingStatuses
                       /\ row[p].scope = transfer.scope /\ row[p].addr = transfer.addr
                       => row[p].mode = row[o].mode /\ ~PaidBy(p)
             PROVE  Result.status = "verifying" /\ Result.ids = {o}
  BY DEF FullPaymentSettles
<1>1. row[o].mode \in AllModes
  BY RowTypes
<1>2. PICK i \in 1..4 : ModeOrder[i] = row[o].mode
  BY <1>1, Modes
<1>3. Group(i) \in SUBSET Orders
  BY DEF Group, Here
<1>4. o \in Group(i) /\ o \in Here
  BY <1>2 DEF Group, Here, PaidBy, Payable, AwaitingStatuses
<1>5. Payees(ModeOrder[i], Group(i)) = {o}
  <2>1. Payees(ModeOrder[i], Group(i)) \subseteq Orders
    BY <1>3, GroupSets DEF Payees, NamedPaid, SameMemo
  <2>2. \A p \in Orders \ {o} : ~PaidBy(p)
    BY DEF PaidBy, Payable
  <2> QED BY <1>2, <2>1, <2>2, PayeesArePaid
<1>6. Reply(i).status = "verifying" /\ Reply(i).ids = {o}
  <2>1. ModeOrder[i] = "D" => MemoSupported
    BY <1>2
  <2>2. ModeOrder[i] \in AllModes
    BY <1>1, <1>2
  <2>3. LET answer == MatchTransaction(ModeOrder[i], transfer, row, Group(i))
        IN  \A q : Payees(ModeOrder[i], Group(i)) = {q} =>
                answer.status = "verifying" /\ answer.ids = {q}
    BY <1>3, <2>1, <2>2, GroupOutcome
  <2>4. \A q : Payees(ModeOrder[i], Group(i)) = {q} =>
           Reply(i).status = "verifying" /\ Reply(i).ids = {q}
    BY <2>3 DEF Reply
  <2> QED BY <1>5, <2>4
<1>7. \A j \in 1..4 : j # i => Group(j) = {}
  BY <1>2, Modes DEF Group, Here
<1>8. Answering = {i}
  BY <1>4, <1>6, <1>7, Modes DEF Answering, NobodyHere, Binds
<1> QED BY <1>4, <1>6, <1>8, InboundCases

LEMMA InputsStay == Spec => []Types
<1>1. Init => Types
  BY DEF Init, Types
<1>2. Types /\ [Next]_<<transfer, row>> => Types'
  BY DEF Next, Types
<1> QED BY <1>1, <1>2, PTL DEF Spec

\* Whatever orders wait at an address, in whatever modes: a payment settles an order only when
\* it pays that order and no other of its mode (matchInboundTransfer).
THEOREM PaymentsAreNeverGuessed == Spec => []NeverGuesses
  BY InputsStay, Guess, PTL

\* However many lapsed, younger or matched orders are listed with it, the one order that is
\* paid in full is settled.
THEOREM FullPaymentsSettle == Spec => []FullPaymentSettles
  BY InputsStay, Settle, PTL

\* A transfer never touches an order of another address, one created after it, or one of
\* another rail while its own rail has an order (classifyWrongNetworkOrAsset).
THEOREM OthersAreLeftAlone == Spec => []OnlyConcernedOrders
  BY InputsStay, Concern, PTL
=============================================================================
