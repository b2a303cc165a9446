-------------------------- MODULE ChainIngestProofs --------------------------
(***************************************************************************)
(* Proofs about ChainIngest, for every value of its constants.             *)
(*                                                                         *)
(* A transfer to an open order is safe for good when a failed run dropped  *)
(* it or the run in flight holds it.  Until then it must lie in what the   *)
(* next scan of its address reads, and stay there whatever the calls still *)
(* to come do to the cursors: either it lies above all that they can move  *)
(* a cursor past (Later), or each of them starts at or below it, or one    *)
(* before it reads it (Planned).                                           *)
(***************************************************************************)
EXTENDS ChainIngest, FiniteSetTheorems, SequenceTheorems, WellFoundedInduction, TLAPS

(* The blocks a scan with a cursor reads again cover how far a node may be *)
(* behind, and what is mined between a run's listing and its head read.    *)
OverlapsCover ==
    /\ MaxLag <= Rescan /\ MaxDrift <= Rescan
    /\ MaxLag <= NativeOverlap /\ MaxDrift <= NativeOverlap

Overlap == IF client = "erc20" THEN Rescan ELSE NativeOverlap

CallType == [addrs : SUBSET Addresses, from : Int, to : Int]

RunTyped ==
    run \in [pc : {"idle", "listed", "fetching", "matching"}, addrs : Seq(Addresses),
             listed : [Addresses -> NoBlock..MaxHead], latest : 0..MaxHead,
             todo : Seq(CallType), got : SUBSET Transfers]

\* The listing of the run names the order that is open at the address now.
Same(a) == run.listed[a] = order[a].since

CallsOK ==
    client # "paged" =>
        \A i \in DOMAIN run.todo :
            LET c == run.todo[i]
            IN  /\ c.addrs # {} => 0 <= c.from /\ c.from <= c.to /\ c.to <= run.latest
                /\ client = "native" => \A a \in Addresses : run.listed[a] # NoBlock => a \in c.addrs

RunOK ==
    /\ run.pc = "idle" => run = Idle
    /\ run.pc # "idle" => \E a \in Addresses : run.listed[a] # NoBlock
    /\ run.pc # "fetching" => run.todo = <<>>
    /\ run.pc = "fetching" => run.todo # <<>>
    /\ run.latest <= head
    /\ run.pc = "listed" => head <= run.latest + MaxDrift
    /\ CallsOK

OrdersOK ==
    \A a \in Addresses :
        /\ Open(a) <=> order[a].since # NoBlock
        /\ order[a].since <= head
        \* An order that is not the listed one was opened after the listing.
        /\ Open(a) /\ ~Same(a) /\ run.pc = "listed" => run.latest <= order[a].since
        /\ Open(a) /\ ~Same(a) /\ run.pc = "fetching" => run.latest <= order[a].since + MaxDrift

OwedOK == \A t \in owed : Open(t.addr) /\ order[t.addr].since < t.block /\ t.block <= head

CursorsOK == \A k \in DOMAIN cursor : cursor[k] <= head

Later(t) == t.block > run.latest - Overlap

Reads(c, t) == t.addr \in c.addrs /\ c.from <= t.block /\ t.block <= c.to

Planned(t) ==
    /\ Same(t.addr)
    /\ \A i \in DOMAIN run.todo :
           t.addr \in run.todo[i].addrs =>
               \/ run.todo[i].from <= t.block
               \/ \E j \in 1..(i - 1) : Reads(run.todo[j], t)

Safe(t) ==
    \/ t \in discarded
    \/ t \in run.got /\ Same(t.addr)
    \/ /\ t.block >= NextFrom(t.addr)
       /\ client # "paged" /\ run.pc = "fetching" => Later(t) \/ Planned(t)

AllSafe == OverlapsCover => \A t \in owed : Safe(t)

IInv == TypeOK /\ RunTyped /\ RunOK /\ OrdersOK /\ OwedOK /\ CursorsOK /\ AllSafe

-----------------------------------------------------------------------------
(* Least numbers and sorted sequences.                                     *)

LEMMA LeastElement ==
    ASSUME NEW T, T \subseteq Nat, T # {}
    PROVE  \E x \in T : \A y \in T : x <= y
<1>1. PICK x \in T : \A y \in T : ~(<<y, x>> \in OpToRel(<, Nat))
  BY WFMin, NatLessThanWellFounded
<1>2. ASSUME NEW y \in T PROVE x <= y
  <2>1. ~(y < x)
    BY <1>1 DEF OpToRel
  <2> QED BY <2>1
<1> QED BY <1>2

LEMMA MinIsLeast ==
    ASSUME NEW T, T \subseteq Nat, T # {}
    PROVE  Min(T) \in T /\ \A y \in T : Min(T) <= y
  BY LeastElement DEF Min

(* R puts the elements of S in a line, as far as different elements go. *)
Sorts(R, S) ==
    /\ \A a, b \in S : a # b => <<a, b>> \in R \/ <<b, a>> \in R
    /\ \A a, b, c \in S : <<a, b>> \in R /\ <<b, c>> \in R => <<a, c>> \in R

IsFirst(x, T, R) == \A y \in T \ {x} : <<x, y>> \in R

LEMMA FirstExists ==
    ASSUME NEW S, IsFiniteSet(S), NEW R, Sorts(R, S), S # {}
    PROVE  \E x \in S : IsFirst(x, S, R)
<1> DEFINE Bad == {n \in Nat : \E T \in SUBSET S : /\ Cardinality(T) = n /\ T # {}
                                                 /\ ~ \E x \in T : IsFirst(x, T, R)}
<1>1. Cardinality(S) \in Nat
  BY FS_CardinalityType
<1> SUFFICES ASSUME Bad # {} PROVE FALSE
  BY <1>1
<1>2. PICK n \in Bad : \A m \in Bad : n <= m
  <2> HIDE DEF Bad
  <2>1. Bad \subseteq Nat
    BY DEF Bad
  <2> QED BY <2>1, LeastElement
<1>3. PICK T \in SUBSET S : /\ Cardinality(T) = n /\ T # {}
                            /\ ~ \E x \in T : IsFirst(x, T, R)
  BY <1>2
<1>4. PICK x \in T : TRUE
  BY <1>3
<1> DEFINE U == T \ {x}
<1>5. IsFiniteSet(T)
  BY FS_Subset
<1>6. Cardinality(U) = n - 1
  BY <1>3, <1>4, <1>5, FS_RemoveElement
<1>7. U # {}
  BY <1>3, <1>4 DEF IsFirst
<1>8. n - 1 \in Nat
  <2>1. IsFiniteSet(U) /\ Cardinality(U) \in Nat
    BY <1>5, FS_RemoveElement, FS_CardinalityType
  <2> QED BY <1>6, <2>1
<1>9. PICK m \in U : IsFirst(m, U, R)
  <2>1. n - 1 \notin Bad
    BY <1>2, <1>8
  <2> QED BY <1>6, <1>7, <1>8, <2>1
<1>10. CASE <<x, m>> \in R
  <2>1. IsFirst(x, T, R)
    BY <1>4, <1>9, <1>10 DEF IsFirst, Sorts
  <2> QED BY <1>3, <1>4, <2>1
<1>11. CASE <<m, x>> \in R
  <2>1. IsFirst(m, T, R)
    BY <1>4, <1>9, <1>11 DEF IsFirst
  <2> QED BY <1>3, <1>9, <2>1
<1> QED BY <1>4, <1>9, <1>10, <1>11 DEF Sorts

SortsBy(s, S, R) ==
    /\ s \in SetToSeqs(S)
    /\ \A i, j \in DOMAIN s : i < j => <<s[i], s[j]>> \in R

LEMMA SortedExists ==
    ASSUME NEW S, IsFiniteSet(S), NEW R, Sorts(R, S)
    PROVE  \E s : SortsBy(s, S, R)
<1> DEFINE Bad == {n \in Nat : \E T \in SUBSET S : /\ Cardinality(T) = n
                                                 /\ ~ \E s : SortsBy(s, T, R)}
<1>1. Cardinality(S) \in Nat
  BY FS_CardinalityType
<1> SUFFICES ASSUME Bad # {} PROVE FALSE
  BY <1>1
<1>2. PICK n \in Bad : \A m \in Bad : n <= m
  <2> HIDE DEF Bad
  <2>1. Bad \subseteq Nat
    BY DEF Bad
  <2> QED BY <2>1, LeastElement
<1>3. PICK T \in SUBSET S : Cardinality(T) = n /\ ~ \E s : SortsBy(s, T, R)
  BY <1>2
<1>4. IsFiniteSet(T) /\ Sorts(R, T)
  BY FS_Subset DEF Sorts
<1>5. T # {}
  <2>1. SUFFICES ASSUME T = {} PROVE SortsBy(<<>>, T, R)
    BY <1>3
  <2>2. Cardinality(T) = 0
    BY <2>1, FS_EmptySet
  <2>3. <<>> \in [1..0 -> T]
    OBVIOUS
  <2> QED BY <2>2, <2>3 DEF SortsBy, SetToSeqs
<1>6. PICK x \in T : IsFirst(x, T, R)
  BY <1>4, <1>5, FirstExists
<1> DEFINE U == T \ {x}
<1>7. Cardinality(U) = n - 1 /\ n - 1 \in Nat
  <2>1. IsFiniteSet(U) /\ Cardinality(U) \in Nat /\ Cardinality(U) = Cardinality(T) - 1
    BY <1>4, FS_RemoveElement, FS_CardinalityType
  <2> QED BY <1>3, <2>1
<1>8. PICK s : SortsBy(s, U, R)
  <2>1. n - 1 \notin Bad
    BY <1>2, <1>7
  <2> QED BY <1>7, <2>1
<1> DEFINE r == [i \in 1..n |-> IF i = 1 THEN x ELSE s[i - 1]]
<1>9. s \in [1..(n - 1) -> U] /\ \A i, j \in 1..(n - 1) : i # j => s[i] # s[j]
  BY <1>7, <1>8 DEF SortsBy, SetToSeqs
<1>10. \A i, j \in 1..(n - 1) : i < j => <<s[i], s[j]>> \in R
  BY <1>8, <1>9 DEF SortsBy
<1>11. \A i \in 2..n : i - 1 \in 1..(n - 1) /\ r[i] = s[i - 1] /\ r[i] \in U
  BY <1>2, <1>9
<1>12. r \in [1..n -> T]
  <2>1. \A i \in 1..n : i = 1 \/ i \in 2..n
    BY <1>2
  <2>2. \A i \in 1..n : r[i] \in T
    BY <1>6, <1>11, <2>1
  <2> QED BY <2>2
<1>13. ASSUME NEW i \in 1..n, NEW j \in 1..n, i < j
       PROVE  r[i] # r[j] /\ <<r[i], r[j]>> \in R
  <2>1. j \in 2..n
    BY <1>2, <1>13
  <2>2. CASE i = 1
    BY <1>6, <1>11, <2>1, <2>2 DEF IsFirst
  <2>3. CASE i # 1
    <3>1. i \in 2..n /\ i - 1 < j - 1
      BY <1>2, <1>13, <2>3
    <3> HIDE DEF r
    <3> QED BY <1>9, <1>10, <1>11, <2>1, <3>1
  <2> QED BY <2>2, <2>3
<1>14. ASSUME NEW i \in 1..n, NEW j \in 1..n, i # j PROVE r[i] # r[j]
  <2>1. i < j \/ j < i
    BY <1>2, <1>14
  <2> HIDE DEF r
  <2> QED BY <1>13, <2>1
<1>15. SortsBy(r, T, R)
  <2>1. DOMAIN r = 1..n
    OBVIOUS
  <2> HIDE DEF r
  <2> QED BY <1>3, <1>12, <1>13, <1>14, <2>1 DEF SortsBy, SetToSeqs
<1> QED BY <1>3, <1>15

(* A sorted sequence lists elements of its set. *)
LEMMA SortedIsSeq ==
    ASSUME NEW S, NEW s \in SetToSeqs(S), IsFiniteSet(S)
    PROVE  s \in Seq(S)
<1>1. Cardinality(S) \in Nat
  BY FS_CardinalityType
<1> QED BY <1>1 DEF SetToSeqs

(* Numbers can be sorted by a key, and among equal keys by themselves. *)
LEMMA KeysSort ==
    ASSUME NEW S, S \subseteq Nat, IsFiniteSet(S), NEW key \in [S -> Int]
    PROVE  \E s \in SetToSeqs(S) : \A i, j \in DOMAIN s :
               i < j => (key[s[i]] < key[s[j]]) \/ (key[s[i]] = key[s[j]] /\ s[i] < s[j])
<1> DEFINE Sooner(a, b) == (key[a] < key[b]) \/ (key[a] = key[b] /\ a < b)
           R == {ab \in S \X S : Sooner(ab[1], ab[2])}
<1>1. \A a, b \in S : <<a, b>> \in R <=> Sooner(a, b)
  <2> HIDE DEF Sooner
  <2> QED OBVIOUS
<1>2. Sorts(R, S)
  <2>1. \A a, b \in S : a # b => Sooner(a, b) \/ Sooner(b, a)
    OBVIOUS
  <2>2. \A a, b, c \in S : Sooner(a, b) /\ Sooner(b, c) => Sooner(a, c)
    OBVIOUS
  <2> HIDE DEF R, Sooner
  <2> QED BY <1>1, <2>1, <2>2 DEF Sorts
<1>3. PICK s : SortsBy(s, S, R)
  BY <1>2, SortedExists
<1>4. s \in [1..Cardinality(S) -> S]
  BY <1>3 DEF SortsBy, SetToSeqs
<1>5. \A i, j \in DOMAIN s : i < j => Sooner(s[i], s[j])
  <2> HIDE DEF R, Sooner
  <2> QED BY <1>1, <1>3, <1>4 DEF SortsBy
<1> QED BY <1>3, <1>5 DEF SortsBy

LEMMA NumbersSort ==
    ASSUME NEW S, S \subseteq Nat, IsFiniteSet(S)
    PROVE  \E s \in SetToSeqs(S) : \A i, j \in DOMAIN s : i < j => s[i] < s[j]
<1> DEFINE key == [a \in S |-> 0]
<1>1. PICK s \in SetToSeqs(S) : \A i, j \in DOMAIN s :
          i < j => (key[s[i]] < key[s[j]]) \/ (key[s[i]] = key[s[j]] /\ s[i] < s[j])
  <2>1. key \in [S -> Int]
    OBVIOUS
  <2> HIDE DEF key
  <2> QED BY <2>1, KeysSort
<1>2. s \in [1..Cardinality(S) -> S]
  BY DEF SetToSeqs
<1>3. \A i, j \in DOMAIN s : i < j => s[i] < s[j]
  BY <1>1, <1>2
<1> QED BY <1>3

-----------------------------------------------------------------------------
(* The addresses of a tick.                                                *)

LEMMA Constants ==
    /\ Addresses \subseteq Nat \ {0} /\ IsFiniteSet(Addresses)
    /\ Budget \in Nat \ {0} /\ ChunkSize \in Nat \ {0} /\ MaxSpan \in Nat \ {0}
    /\ BlocksPerTick \in Nat \ {0} /\ Turn \in Nat \ {0} /\ MaxHead \in Nat
    /\ Rescan \in Nat /\ NativeOverlap \in Nat /\ MaxLag \in Nat /\ MaxDrift \in Nat
  BY IngestAssumption DEF IngestAssumption

USE Constants

OrderTypes == [Addresses -> [status : {"none", "pending", "open"}, since : NoBlock..MaxHead]]

LEMMA RankedAreSeq ==
    ASSUME NEW o \in OrderTypes
    PROVE  RankPending(o) \in Seq(Addresses) /\ RankRest(o) \in Seq(Addresses)
<1> DEFINE P == HasStatus(o, "pending")
           Q == HasStatus(o, "open")
<1>1. P \subseteq Addresses /\ Q \subseteq Addresses /\ IsFiniteSet(P) /\ IsFiniteSet(Q)
  <2>1. P \subseteq Addresses /\ Q \subseteq Addresses
    BY DEF HasStatus, OrderTypes
  <2> QED BY <2>1, FS_Subset
<1>2. P \subseteq Nat /\ Q \subseteq Nat
  BY <1>1
<1>3. \A a \in Addresses : o[a].since \in Int
  BY DEF OrderTypes, NoBlock
<1>4. RankPending(o) \in Seq(Addresses)
  <2> DEFINE key == [a \in P |-> o[a].since]
  <2>1. key \in [P -> Int]
    BY <1>1, <1>3
  <2>2. PICK s \in SetToSeqs(P) : \A i, j \in DOMAIN s :
            i < j => (key[s[i]] < key[s[j]]) \/ (key[s[i]] = key[s[j]] /\ s[i] < s[j])
    <3> HIDE DEF key, P
    <3> QED BY <1>1, <1>2, <2>1, KeysSort
  <2>3. s \in [1..Cardinality(P) -> P]
    BY DEF SetToSeqs
  <2>4. \A i \in DOMAIN s : key[s[i]] = o[s[i]].since
    BY <2>3
  <2>5. RankPending(o) \in SetToSeqs(P)
    <3> HIDE DEF key
    <3> QED BY <2>2, <2>4 DEF RankPending, InOrder, IsSorted
  <2> QED BY <1>1, <2>5, SortedIsSeq, SeqMonotonic
<1>5. RankRest(o) \in Seq(Addresses)
  <2>1. PICK s \in SetToSeqs(Q) : \A i, j \in DOMAIN s : i < j => s[i] < s[j]
    BY <1>1, <1>2, NumbersSort
  <2>2. RankRest(o) \in SetToSeqs(Q)
    BY <2>1 DEF RankRest, InOrder, IsSorted
  <2> QED BY <1>1, <2>2, SortedIsSeq, SeqMonotonic
<1> QED BY <1>4, <1>5

LEMMA TakenIsSeq ==
    ASSUME NEW S, NEW s \in Seq(S), NEW c \in Nat, NEW n \in Int
    PROVE  FirstOf(RotateFromCursor(s, c), n) \in Seq(S)
<1>1. RotateFromCursor(s, c) \in Seq(S)
  <2>1. CASE s = <<>>
    BY <2>1 DEF RotateFromCursor
  <2>2. CASE s # <<>>
    <3>1. Len(s) \in Nat \ {0} /\ DOMAIN s = 1..Len(s) /\ \A i \in 1..Len(s) : s[i] \in S
      BY <2>2, EmptySeq, LenProperties, ElementOfSeq
    <3>2. PICK k \in 0..(Len(s) - 1) : k = c % Len(s)
      BY <3>1
    <3>3. SubSeq(s, k + 1, Len(s)) \in Seq(S) /\ SubSeq(s, 1, k) \in Seq(S)
      <4>1. \A i \in (k + 1)..Len(s) : s[i] \in S
        BY <3>1, <3>2
      <4>2. \A i \in 1..k : s[i] \in S
        BY <3>1, <3>2
      <4> QED BY <3>1, <3>2, <4>1, <4>2, SubSeqProperties
    <3> QED BY <2>2, <3>2, <3>3, ConcatProperties DEF RotateFromCursor
  <2> QED BY <2>1, <2>2
<1>2. ASSUME NEW r \in Seq(S) PROVE FirstOf(r, n) \in Seq(S)
  <2>1. Len(r) \in Nat /\ \A i \in 1..Len(r) : r[i] \in S
    BY LenProperties, ElementOfSeq
  <2>2. PICK m \in Int : m = (IF n < Len(r) THEN n ELSE Len(r)) /\ m <= Len(r)
    BY <2>1
  <2>3. \A i \in 1..m : r[i] \in S
    BY <2>1, <2>2
  <2>4. SubSeq(r, 1, m) \in Seq(S)
    BY <2>2, <2>3, SubSeqProperties
  <2> QED BY <2>2, <2>4 DEF FirstOf
<1> QED BY <1>1, <1>2

(* A tick polls watched addresses, and the rotation stays a number. *)
LEMMA SelectedAreAddresses ==
    ASSUME NEW o \in OrderTypes, NEW c \in Nat
    PROVE  LET selected == SelectAddressesForPoll(o, Budget, c)
           IN  selected.addresses \in Seq(Addresses) /\ selected.nextCursor \in Nat
<1> DEFINE p == RankPending(o)
           q == RankRest(o)
           takeP == FirstOf(RotateFromCursor(p, c), Budget)
           takeQ == FirstOf(RotateFromCursor(q, c), Budget - Len(takeP))
<1>1. p \in Seq(Addresses) /\ q \in Seq(Addresses) /\ p \o q \in Seq(Addresses)
  BY RankedAreSeq, ConcatProperties
<1> HIDE DEF p, q
<1>2. takeP \in Seq(Addresses) /\ Len(takeP) \in Nat
  <2>1. takeP \in Seq(Addresses)
    BY <1>1, TakenIsSeq
  <2> HIDE DEF takeP
  <2> QED BY <2>1, LenProperties
<1>3. takeQ \in Seq(Addresses)
  <2> HIDE DEF takeP
  <2> QED BY <1>1, <1>2, TakenIsSeq
<1>4. takeP \o takeQ \in Seq(Addresses) /\ Len(takeP \o takeQ) \in Nat
  <2> HIDE DEF takeP, takeQ
  <2> QED BY <1>2, <1>3, ConcatProperties, LenProperties
<1>5. SelectAddressesForPoll(o, Budget, c) =
          IF Len(p \o q) <= Budget THEN [addresses |-> p \o q, nextCursor |-> 0]
          ELSE [addresses |-> takeP \o takeQ, nextCursor |-> c + Len(takeP \o takeQ)]
  BY DEF SelectAddressesForPoll, p, q
<1> HIDE DEF takeP, takeQ
<1> QED BY <1>1, <1>4, <1>5

-----------------------------------------------------------------------------
(* The calls of a run.                                                     *)

LEMMA QuotientBound ==
    ASSUME NEW n \in Nat, NEW c \in Nat \ {0}
    PROVE  n \div c \in Nat /\ (n \div c) * c <= n
  OBVIOUS

LEMMA ProductGrows ==
    ASSUME NEW i \in Nat, NEW j \in Nat, i <= j, NEW c \in Nat
    PROVE  i * c \in Nat /\ i * c <= j * c
  OBVIOUS

(* A list is cut into chunks that are not empty. *)
LEMMA ChunksAreParts ==
    ASSUME NEW S, NEW s \in Seq(S)
    PROVE  Chunks(s) \in Seq({r \in Seq(S) : r # <<>>})
<1> DEFINE n == (Len(s) + ChunkSize - 1) \div ChunkSize
           from(i) == (i - 1) * ChunkSize + 1
           to(i) == MinOf(i * ChunkSize, Len(s))
<1>1. Len(s) \in Nat /\ \A i \in 1..Len(s) : s[i] \in S
  BY LenProperties, ElementOfSeq
<1>2. n \in Nat /\ n * ChunkSize <= Len(s) + ChunkSize - 1
  BY <1>1, QuotientBound
<1> HIDE DEF n
<1>3. ASSUME NEW i \in 1..n PROVE SubSeq(s, from(i), to(i)) \in {r \in Seq(S) : r # <<>>}
  <2>1. PICK p \in Nat : p = (i - 1) * ChunkSize
    BY <1>2, ProductGrows
  <2>2. i * ChunkSize = p + ChunkSize
    BY <1>2, <2>1
  <2>3. i * ChunkSize <= n * ChunkSize /\ n * ChunkSize \in Nat
    BY <1>2, ProductGrows
  <2>4. p + 1 <= Len(s)
    BY <1>1, <1>2, <2>2, <2>3
  <2>5. PICK e \in Nat : e = to(i) /\ e <= Len(s) /\ p + 1 <= e
    BY <1>1, <2>2, <2>4 DEF MinOf
  <2>6. \A k \in (p + 1)..e : s[k] \in S
    BY <1>1, <2>5
  <2>7. SubSeq(s, p + 1, e) \in Seq(S) /\ Len(SubSeq(s, p + 1, e)) = e - p
    BY <2>5, <2>6, SubSeqProperties
  <2>8. SubSeq(s, p + 1, e) # <<>>
    <3>1. Len(SubSeq(s, p + 1, e)) # 0
      BY <2>5, <2>7
    <3>2. Len(<<>>) = 0
      OBVIOUS
    <3> QED BY <3>1, <3>2
  <2> QED BY <2>1, <2>5, <2>7, <2>8
<1>4. Chunks(s) = [i \in 1..n |-> SubSeq(s, from(i), to(i))]
  BY DEF Chunks, n
<1> HIDE DEF from, to
<1> QED BY <1>2, <1>3, <1>4

LEMMA StartsAreBlocks ==
    ASSUME TypeOK, NEW c \in NoBlock..MaxHead, NEW since \in NoBlock..MaxHead,
           NEW overlap \in Nat
    PROVE  ScanFrom(c, FirstScanBlock(since), overlap) \in Nat
  BY DEF ScanFrom, FirstScanBlock, MaxOf, NoBlock

(* Every ERC-20 call starts no later than the scan of each of its          *)
(* addresses has to, and ends by the head it was planned with.             *)
LEMMA Erc20Plan ==
    ASSUME TypeOK, NEW addrs \in Seq(Addresses),
           NEW listed \in [Addresses -> NoBlock..MaxHead], NEW n \in Nat
    PROVE  /\ Erc20Calls(addrs, listed, n) \in Seq(CallType)
           /\ \A k \in DOMAIN Erc20Calls(addrs, listed, n) :
                  LET c == Erc20Calls(addrs, listed, n)[k]
                  IN  /\ 0 <= c.from /\ c.from <= c.to /\ c.to <= n
                      /\ \A a \in c.addrs : c.from <= Erc20From(a, listed[a])
<1> DEFINE from(i) == Erc20From(addrs[i], listed[addrs[i]])
           isNear(i) == n - from(i) + 1 <= MaxSpan
           N == {i \in DOMAIN addrs : isNear(i)}
           B == {i \in DOMAIN addrs : ~isNear(i)}
           near == InOrder(N, LAMBDA i, j : i < j)
           behind == InOrder(B, LAMBDA i, j : \/ from(i) < from(j)
                                              \/ from(i) = from(j) /\ i < j)
           groups == Chunks(near) \o Chunks(behind)
           Starts(g) == {from(i) : i \in Range(groups[g])}
           call(g) == LET first == Min({from(i) : i \in Range(groups[g])})
                      IN  Call({addrs[i] : i \in Range(groups[g])},
                               first, MinOf(n, first + MaxSpan - 1))
           G == {g \in DOMAIN groups : call(g).from <= call(g).to}
           made == InOrder(G, LAMBDA g, h : g < h)
<1>1. Len(addrs) \in Nat /\ DOMAIN addrs = 1..Len(addrs)
      /\ \A i \in DOMAIN addrs : addrs[i] \in Addresses
  BY LenProperties, ElementOfSeq
<1>2. \A i \in DOMAIN addrs : from(i) \in Nat
  <2>1. \A a \in Addresses : cursor[a] \in NoBlock..MaxHead
    BY DEF TypeOK
  <2> QED BY <1>1, <2>1, StartsAreBlocks DEF Erc20From
<1>3. N \subseteq Nat /\ B \subseteq Nat /\ IsFiniteSet(N) /\ IsFiniteSet(B)
  <2>1. IsFiniteSet(DOMAIN addrs)
    BY <1>1, FS_Interval
  <2>2. N \subseteq DOMAIN addrs /\ B \subseteq DOMAIN addrs
    OBVIOUS
  <2> HIDE DEF N, B
  <2> QED BY <1>1, <2>1, <2>2, FS_Subset
<1>4. near \in Seq(DOMAIN addrs)
  <2>1. PICK s \in SetToSeqs(N) : \A i, j \in DOMAIN s : i < j => s[i] < s[j]
    <3> HIDE DEF N
    <3> QED BY <1>3, NumbersSort
  <2>2. near \in SetToSeqs(N)
    <3> HIDE DEF N
    <3> QED BY <2>1 DEF InOrder, IsSorted
  <2>3. N \subseteq DOMAIN addrs
    OBVIOUS
  <2> HIDE DEF N, near
  <2> QED BY <1>3, <2>2, <2>3, SortedIsSeq, SeqMonotonic
<1>5. behind \in Seq(DOMAIN addrs)
  <2> DEFINE key == [i \in B |-> from(i)]
  <2>1. key \in [B -> Int]
    BY <1>2
  <2>2. PICK s \in SetToSeqs(B) : \A i, j \in DOMAIN s :
            i < j => (key[s[i]] < key[s[j]]) \/ (key[s[i]] = key[s[j]] /\ s[i] < s[j])
    <3> HIDE DEF B, key
    <3> QED BY <1>3, <2>1, KeysSort
  <2>3. s \in [1..Cardinality(B) -> B]
    BY DEF SetToSeqs
  <2>4. \A i \in DOMAIN s : key[s[i]] = from(s[i])
    <3> HIDE DEF B, from
    <3> QED BY <2>3
  <2>5. behind \in SetToSeqs(B)
    <3> HIDE DEF B, key, from
    <3> QED BY <2>2, <2>4 DEF InOrder, IsSorted
  <2>6. B \subseteq DOMAIN addrs
    OBVIOUS
  <2> HIDE DEF B, behind
  <2> QED BY <1>3, <2>5, <2>6, SortedIsSeq, SeqMonotonic
<1> DEFINE Part == {r \in Seq(DOMAIN addrs) : r # <<>>}
<1>6. Chunks(near) \in Seq(Part) /\ Chunks(behind) \in Seq(Part)
  <2> HIDE DEF near, behind
  <2> QED BY <1>4, <1>5, ChunksAreParts
<1>7. groups \in Seq(Part) /\ Len(groups) \in Nat /\ DOMAIN groups = 1..Len(groups)
  <2> HIDE DEF near, behind, Part
  <2> QED BY <1>6, ConcatProperties, LenProperties
<1>8. ASSUME NEW g \in DOMAIN groups
      PROVE  Range(groups[g]) \subseteq DOMAIN addrs /\ Range(groups[g]) # {}
  <2>1. groups[g] \in Seq(DOMAIN addrs) /\ groups[g] # <<>>
    <3> HIDE DEF groups
    <3>1. groups[g] \in Part
      <4> HIDE DEF Part
      <4> QED BY <1>7, <1>8, ElementOfSeq
    <3> QED BY <3>1
  <2> HIDE DEF groups
  <2>2. Len(groups[g]) \in Nat \ {0} /\ DOMAIN groups[g] = 1..Len(groups[g])
        /\ \A i \in DOMAIN groups[g] : groups[g][i] \in DOMAIN addrs
    BY <2>1, EmptySeq, LenProperties, ElementOfSeq
  <2>3. PICK r : r = groups[g]
    OBVIOUS
  <2>4. 1 \in DOMAIN r /\ \A i \in DOMAIN r : r[i] \in DOMAIN addrs
    BY <2>2, <2>3
  <2>5. Range(r) \subseteq DOMAIN addrs /\ r[1] \in Range(r)
    BY <2>4 DEF Range
  <2> QED BY <2>3, <2>5
<1>9. ASSUME NEW g \in DOMAIN groups
      PROVE  /\ Min(Starts(g)) \in Nat
             /\ \A i \in Range(groups[g]) : Min(Starts(g)) <= from(i)
  <2>1. Starts(g) \subseteq Nat /\ Starts(g) # {}
    <3> HIDE DEF groups, from
    <3> QED BY <1>2, <1>8
  <2>2. Min(Starts(g)) \in Starts(g) /\ \A y \in Starts(g) : Min(Starts(g)) <= y
    <3> HIDE DEF Starts
    <3> QED BY <2>1, MinIsLeast
  <2> HIDE DEF groups, from
  <2> QED BY <2>1, <2>2
<1>10. ASSUME NEW g \in DOMAIN groups
       PROVE  /\ call(g) \in CallType
              /\ 0 <= call(g).from /\ call(g).to <= n
              /\ \A a \in call(g).addrs : call(g).from <= Erc20From(a, listed[a])
  <2> DEFINE first == Min(Starts(g))
  <2>1. first \in Nat /\ \A i \in Range(groups[g]) : first <= from(i)
    BY <1>9
  <2>2. call(g) = [addrs |-> {addrs[i] : i \in Range(groups[g])},
                   from |-> first, to |-> MinOf(n, first + MaxSpan - 1)]
    BY DEF Call
  <2> HIDE DEF first, groups, call
  <2>3. MinOf(n, first + MaxSpan - 1) \in Int /\ MinOf(n, first + MaxSpan - 1) <= n
    BY <2>1 DEF MinOf
  <2>4. {addrs[i] : i \in Range(groups[g])} \in SUBSET Addresses
    BY <1>1, <1>8
  <2>5. \A a \in call(g).addrs : call(g).from <= Erc20From(a, listed[a])
    BY <2>1, <2>2
  <2> HIDE DEF from
  <2> QED BY <2>1, <2>2, <2>3, <2>4, <2>5 DEF CallType
<1>11. made \in Seq(G) /\ DOMAIN made = 1..Len(made) /\ Len(made) \in Nat
       /\ \A k \in DOMAIN made : made[k] \in G
  <2>1. G \subseteq Nat /\ IsFiniteSet(G)
    <3>1. IsFiniteSet(DOMAIN groups) /\ DOMAIN groups \subseteq Nat
      <4> HIDE DEF groups
      <4> QED BY <1>7, FS_Interval
    <3>2. G \subseteq DOMAIN groups
      OBVIOUS
    <3> HIDE DEF G, groups
    <3> QED BY <3>1, <3>2, FS_Subset
  <2>2. PICK s \in SetToSeqs(G) : \A i, j \in DOMAIN s : i < j => s[i] < s[j]
    <3> HIDE DEF G
    <3> QED BY <2>1, NumbersSort
  <2>3. made \in SetToSeqs(G)
    <3> HIDE DEF G
    <3> QED BY <2>2 DEF InOrder, IsSorted
  <2> HIDE DEF G, made
  <2> QED BY <2>1, <2>3, SortedIsSeq, LenProperties, ElementOfSeq
<1>12. Erc20Calls(addrs, listed, n) = [k \in DOMAIN made |-> call(made[k])]
  BY DEF Erc20Calls
<1>13. ASSUME NEW k \in DOMAIN made
       PROVE  made[k] \in DOMAIN groups /\ call(made[k]).from <= call(made[k]).to
  <2>1. made[k] \in G
    BY <1>11
  <2> HIDE DEF made, groups, call
  <2> QED BY <2>1
<1> HIDE DEF made, groups, call
<1>14. [k \in DOMAIN made |-> call(made[k])] \in Seq(CallType)
  BY <1>10, <1>11, <1>13
<1> QED BY <1>10, <1>12, <1>13, <1>14

(* The native scan reads one block after the other, for all who were       *)
(* listed, from a block no scan of theirs has to start before.             *)
ScansBlocks(calls, from, listed, n) ==
    /\ \A k \in DOMAIN calls :
           /\ calls[k].from = from + k - 1 /\ calls[k].to = calls[k].from
           /\ calls[k].to <= n
           /\ calls[k].addrs = {a \in Addresses : listed[a] # NoBlock}
    /\ \A a \in Addresses : listed[a] # NoBlock =>
           from <= ScanFrom(cursor[Shared], FirstScanBlock(listed[a]), NativeOverlap)

LEMMA NativePlan ==
    ASSUME TypeOK, NEW listed \in [Addresses -> NoBlock..MaxHead], NEW n \in Nat,
           NEW b \in Addresses, listed[b] # NoBlock,
           NEW calls, calls = NativeCalls(listed, n)
    PROVE  calls \in Seq(CallType) /\ \E from \in Nat : ScansBlocks(calls, from, listed, n)
<1> DEFINE watched == {a \in Addresses : listed[a] # NoBlock}
           oldest == Min({listed[a] : a \in watched})
           from == ScanFrom(cursor[Shared], FirstScanBlock(oldest), NativeOverlap)
           to == MinOf(n, from + BlocksPerTick - 1)
           m == MaxOf(0, to - from + 1)
<1>1. oldest \in 0..MaxHead /\ \A a \in watched : oldest <= listed[a]
  <2> DEFINE T == {listed[a] : a \in watched}
  <2>1. T \subseteq 0..MaxHead
    <3>1. ASSUME NEW a \in watched PROVE listed[a] \in 0..MaxHead
      <4>1. listed[a] \in NoBlock..MaxHead /\ listed[a] # NoBlock
        OBVIOUS
      <4> QED BY <4>1 DEF NoBlock
    <3> QED BY <3>1
  <2>2. T \subseteq Nat /\ listed[b] \in T
    BY <2>1
  <2>3. Min(T) \in T /\ \A y \in T : Min(T) <= y
    <3> HIDE DEF T
    <3> QED BY <2>2, MinIsLeast
  <2> QED BY <2>1, <2>3
<1> HIDE DEF oldest
<1>2. cursor[Shared] \in NoBlock..MaxHead
  BY DEF TypeOK
<1>3. from \in Nat
  <2>1. oldest \in NoBlock..MaxHead
    BY <1>1 DEF NoBlock
  <2> QED BY <1>2, <2>1, StartsAreBlocks
<1>4. \A a \in watched :
          from <= ScanFrom(cursor[Shared], FirstScanBlock(listed[a]), NativeOverlap)
  <2>1. \A a \in watched : listed[a] \in Nat /\ oldest <= listed[a]
    BY <1>1 DEF NoBlock
  <2> QED BY <1>1, <1>2, <2>1 DEF ScanFrom, FirstScanBlock, MaxOf, NoBlock
<1>5. calls = [k \in 1..m |-> Call(watched, from + k - 1, from + k - 1)]
  BY DEF NativeCalls, oldest
<1> HIDE DEF from
<1>6. m \in Nat /\ \A k \in 1..m : from + k - 1 \in Int /\ from + k - 1 <= n
  BY <1>3 DEF MaxOf, MinOf
<1> HIDE DEF m, watched
<1>7. watched \in SUBSET Addresses
  BY DEF watched
<1>8. \A k \in 1..m : Call(watched, from + k - 1, from + k - 1) \in CallType
  BY <1>6, <1>7 DEF Call, CallType
<1>9. calls \in Seq(CallType) /\ DOMAIN calls = 1..m
  BY <1>5, <1>6, <1>8
<1>10. \A k \in 1..m : /\ calls[k].from = from + k - 1 /\ calls[k].to = calls[k].from
                      /\ calls[k].to <= n /\ calls[k].addrs = watched
  BY <1>5, <1>6 DEF Call
<1> QED BY <1>3, <1>4, <1>9, <1>10 DEF watched, ScansBlocks

LEMMA CallTypes ==
    ASSUME NEW calls \in Seq(CallType), NEW i \in DOMAIN calls
    PROVE  /\ i \in 1..Len(calls) /\ calls[i] \in CallType
           /\ calls[i].from \in Int /\ calls[i].to \in Int /\ calls[i].addrs \subseteq Addresses
<1>1. i \in 1..Len(calls) /\ calls[i] \in CallType
  BY LenProperties, ElementOfSeq
<1> QED BY <1>1 DEF CallType

LEMMA PagedPlan ==
    ASSUME NEW addrs \in Seq(Addresses), NEW listed \in [Addresses -> NoBlock..MaxHead]
    PROVE  PagedCalls(addrs, listed) \in Seq(CallType)
<1>1. Len(addrs) \in Nat /\ DOMAIN addrs = 1..Len(addrs)
      /\ \A i \in DOMAIN addrs : addrs[i] \in Addresses
  BY LenProperties, ElementOfSeq
<1>2. \A i \in DOMAIN addrs : Call({addrs[i]}, listed[addrs[i]], MaxHead) \in CallType
  BY <1>1 DEF Call, CallType, NoBlock
<1>3. PagedCalls(addrs, listed) =
          [i \in 1..Len(addrs) |-> Call({addrs[i]}, listed[addrs[i]], MaxHead)]
  BY <1>1 DEF PagedCalls
<1>4. [i \in 1..Len(addrs) |-> Call({addrs[i]}, listed[addrs[i]], MaxHead)]
          \in [1..Len(addrs) -> CallType]
  BY <1>1, <1>2
<1>5. [1..Len(addrs) -> CallType] \subseteq Seq(CallType)
  BY <1>1
<1> QED BY <1>3, <1>4, <1>5

-----------------------------------------------------------------------------
(* Every step preserves IInv.                                              *)

LEMMA InitOK == Init => IInv
<1> SUFFICES ASSUME Init PROVE IInv
  OBVIOUS
<1> USE DEF Init, Idle, NoOrder, NoBlock
<1>1. TypeOK
  BY DEF TypeOK, Transfers
<1>2. RunTyped
  BY DEF RunTyped, CallType, Transfers
<1>3. RunOK
  BY DEF RunOK, CallsOK
<1>4. OrdersOK
  BY DEF OrdersOK, Open
<1>5. OwedOK /\ AllSafe
  BY DEF OwedOK, AllSafe
<1>6. CursorsOK
  BY DEF CursorsOK
<1> QED BY <1>1, <1>2, <1>3, <1>4, <1>5, <1>6 DEF IInv

LEMMA NextFromIsBlock ==
    ASSUME TypeOK, CursorsOK, OrdersOK, NEW a \in Addresses
    PROVE  NextFrom(a) \in Int /\ NextFrom(a) <= head + 1
<1>1. /\ head \in Nat /\ cursor[a] \in NoBlock..MaxHead /\ cursor[Shared] \in NoBlock..MaxHead
      /\ order[a].since \in NoBlock..MaxHead /\ client \in {"erc20", "native", "paged"}
  BY IngestAssumption DEF TypeOK, IngestAssumption
<1>2. cursor[a] <= head /\ cursor[Shared] <= head /\ order[a].since <= head
  BY DEF CursorsOK, OrdersOK, TypeOK
<1> QED BY <1>1, <1>2 DEF NextFrom, Erc20From, ScanFrom, FirstScanBlock, MaxOf, NoBlock

(* What the world does to other orders leaves a transfer where it is. *)
LEMMA SafeStays ==
    ASSUME UNCHANGED <<client, cursor, run>>, NEW t, Safe(t),
           order'[t.addr].since = order[t.addr].since, t \in discarded => t \in discarded'
    PROVE  Safe(t)'
<1>1. NextFrom(t.addr)' = NextFrom(t.addr)
  BY DEF NextFrom, Erc20From
<1>2. (Same(t.addr) <=> Same(t.addr)') /\ (Later(t) <=> Later(t)')
  BY DEF Same, Later, Overlap
<1>3. Planned(t) <=> Planned(t)'
  BY <1>2 DEF Planned
<1> QED BY <1>1, <1>2, <1>3 DEF Safe

LEMMA TransferTypes ==
    ASSUME TypeOK, NEW t \in owed
    PROVE  t.addr \in Addresses /\ t.block \in 1..MaxHead
  BY DEF TypeOK, Transfers

LEMMA OwedTypes ==
    ASSUME IInv, NEW t \in owed
    PROVE  /\ t.addr \in Addresses /\ t.block \in Nat /\ NextFrom(t.addr) \in Int
           /\ order[t.addr].since \in Int
<1>1. t.addr \in Addresses /\ t.block \in Nat
  BY TransferTypes DEF IInv
<1>2. order[t.addr].since \in NoBlock..MaxHead
  BY <1>1 DEF IInv, TypeOK
<1>3. TypeOK /\ CursorsOK /\ OrdersOK
  BY DEF IInv
<1>4. NextFrom(t.addr) \in Int
  BY <1>1, <1>3, NextFromIsBlock
<1>5. order[t.addr].since \in Int
  BY <1>2 DEF NoBlock
<1> QED BY <1>1, <1>4, <1>5

LEMMA MineBlockOK == IInv /\ MineBlock => IInv'
<1> SUFFICES ASSUME IInv, MineBlock PROVE IInv'
  OBVIOUS
<1> USE DEF IInv
<1>1. PICK payees \in SUBSET {a \in Addresses : Open(a)} :
          owed' = owed \cup {[addr |-> a, block |-> head'] : a \in payees}
  BY DEF MineBlock
<1>2. /\ head' = head + 1 /\ head \in Nat /\ head' \in 0..MaxHead
      /\ UNCHANGED <<client, order, cursor, rot, run, discarded>>
  BY DEF MineBlock, TypeOK
<1>3. TypeOK'
  <2>1. owed' \subseteq Transfers
    BY <1>1, <1>2 DEF TypeOK, Transfers
  <2>2. discarded' \subseteq owed'
    BY <1>1, <1>2 DEF TypeOK
  <2> QED BY <1>2, <2>1, <2>2 DEF TypeOK
<1>4. RunTyped'
  BY <1>2 DEF RunTyped
<1>5. RunOK'
  <2>1. CallsOK'
    BY <1>2 DEF RunOK, CallsOK
  <2>2. run.latest \in Nat
    BY DEF RunTyped
  <2>3. run.pc = "listed" => head' <= run.latest + MaxDrift
    BY <1>2, <2>2 DEF MineBlock
  <2> QED BY <1>2, <2>1, <2>2, <2>3 DEF RunOK
<1>6. OrdersOK'
  <2>1. \A a \in Addresses : order[a].since \in NoBlock..MaxHead
    BY DEF TypeOK
  <2> QED BY <1>2, <2>1 DEF OrdersOK, Open, Same, NoBlock
<1>7. OwedOK'
  <2>1. \A a \in Addresses : order[a].since \in NoBlock..MaxHead /\ order[a].since <= head
    BY DEF TypeOK, OrdersOK
  <2>2. ASSUME NEW t \in owed' PROVE Open(t.addr)' /\ order'[t.addr].since < t.block /\ t.block <= head'
    <3>1. CASE t \in owed
      BY <1>2, <3>1, TransferTypes DEF OwedOK, Open
    <3>2. CASE t \in {[addr |-> a, block |-> head'] : a \in payees}
      BY <1>1, <1>2, <2>1, <3>2 DEF Open, NoBlock
    <3> QED BY <1>1, <3>1, <3>2
  <2> QED BY <2>2 DEF OwedOK
<1>8. CursorsOK'
  <2>1. \A k \in DOMAIN cursor : cursor[k] \in NoBlock..MaxHead
    BY DEF TypeOK
  <2> QED BY <1>2, <2>1 DEF CursorsOK, NoBlock
<1>9. AllSafe'
  <2>1. ASSUME OverlapsCover, NEW t \in owed PROVE Safe(t)'
    BY <1>2, <2>1, SafeStays DEF AllSafe
  <2>2. ASSUME NEW a \in payees, NEW t, t = [addr |-> a, block |-> head']
        PROVE  Safe(t)'
    <3>1. t.addr = a /\ t.block = head + 1
      BY <1>2, <2>2
    <3>2. NextFrom(a) <= head + 1 /\ NextFrom(a)' = NextFrom(a)
      BY <1>1, <1>2, NextFromIsBlock DEF NextFrom, Erc20From
    <3>3. NextFrom(t.addr)' <= t.block
      BY <3>1, <3>2
    <3>4. run.latest \in Nat /\ run.latest <= head /\ Overlap \in Nat
      BY DEF RunTyped, RunOK, Overlap
    <3>5. Later(t)
      BY <1>2, <3>1, <3>4 DEF Later
    <3>6. Later(t)'
      BY <1>2, <3>5 DEF Later, Overlap
    <3>7. t.block \in Int /\ NextFrom(t.addr)' \in Int
      BY <1>1, <1>2, <3>1, <3>2, NextFromIsBlock
    <3> QED BY <3>3, <3>6, <3>7 DEF Safe
  <2> QED BY <1>1, <2>1, <2>2 DEF AllSafe
<1> QED BY <1>3, <1>4, <1>5, <1>6, <1>7, <1>8, <1>9 DEF IInv

(* Orders come, lapse and go. *)
LEMMA OpenOrderOK == ASSUME NEW a \in Addresses PROVE IInv /\ OpenOrder(a) => IInv'
<1> SUFFICES ASSUME IInv, OpenOrder(a) PROVE IInv'
  OBVIOUS
<1> USE DEF IInv
<1>1. /\ ~Open(a) /\ order' = [order EXCEPT ![a] = [status |-> "pending", since |-> head]]
      /\ UNCHANGED <<client, head, owed, cursor, rot, run, discarded>>
      /\ head \in 0..MaxHead /\ order \in OrderTypes
  BY DEF OpenOrder, TypeOK, OrderTypes
<1>2. /\ order' \in OrderTypes /\ order'[a].since = head /\ Open(a)'
      /\ \A x \in Addresses \ {a} : order'[x] = order[x]
  BY <1>1 DEF OrderTypes, NoBlock, Open
<1>3. \A t \in owed : t.addr \in Addresses \ {a}
  BY <1>1, TransferTypes DEF OwedOK
<1>4. TypeOK'
  BY <1>1, <1>2 DEF TypeOK, OrderTypes
<1>5. RunTyped' /\ RunOK' /\ CursorsOK'
  BY <1>1 DEF RunTyped, RunOK, CallsOK, CursorsOK
<1>6. OrdersOK'
  <2>1. run.latest \in Nat /\ run.latest <= head
    BY DEF RunTyped, RunOK
  <2>2. ASSUME NEW x \in Addresses \ {a}
        PROVE  (Open(x) <=> Open(x)') /\ (Same(x) <=> Same(x)')
    BY <1>1, <1>2 DEF Open, Same
  <2> QED BY <1>1, <1>2, <2>1, <2>2 DEF OrdersOK, NoBlock
<1>7. OwedOK'
  BY <1>1, <1>2, <1>3 DEF OwedOK, Open
<1>8. AllSafe'
  BY <1>1, <1>2, <1>3, SafeStays DEF AllSafe
<1> QED BY <1>4, <1>5, <1>6, <1>7, <1>8 DEF IInv

LEMMA LapseOK == ASSUME NEW a \in Addresses PROVE IInv /\ Lapse(a) => IInv'
<1> SUFFICES ASSUME IInv, Lapse(a) PROVE IInv'
  OBVIOUS
<1> USE DEF IInv
<1>1. /\ order[a].status = "pending" /\ order' = [order EXCEPT ![a].status = "open"]
      /\ UNCHANGED <<client, head, owed, cursor, rot, run, discarded>> /\ order \in OrderTypes
  BY DEF Lapse, TypeOK, OrderTypes
<1>2. /\ order' \in OrderTypes
      /\ \A x \in Addresses : order'[x].since = order[x].since /\ (Open(x)' <=> Open(x))
  BY <1>1 DEF OrderTypes, Open
<1>3. TypeOK'
  BY <1>1, <1>2 DEF TypeOK, OrderTypes
<1>4. RunTyped' /\ RunOK' /\ CursorsOK'
  BY <1>1 DEF RunTyped, RunOK, CallsOK, CursorsOK
<1>5. OrdersOK'
  BY <1>1, <1>2 DEF OrdersOK, Same
<1>6. OwedOK'
  BY <1>1, <1>2, TransferTypes DEF OwedOK
<1>7. AllSafe'
  BY <1>1, <1>2, TransferTypes, SafeStays DEF AllSafe
<1> QED BY <1>3, <1>4, <1>5, <1>6, <1>7 DEF IInv

LEMMA CloseOK == ASSUME NEW a \in Addresses PROVE IInv /\ Close(a) => IInv'
<1> SUFFICES ASSUME IInv, Close(a) PROVE IInv'
  OBVIOUS
<1> USE DEF IInv
<1>1. /\ order' = [order EXCEPT ![a] = NoOrder]
      /\ owed' = owed \ ToAddress(owed, a) /\ discarded' = discarded \ ToAddress(discarded, a)
      /\ UNCHANGED <<client, head, cursor, rot, run>> /\ order \in OrderTypes
  BY DEF Close, TypeOK, OrderTypes
<1>2. /\ order' \in OrderTypes /\ order'[a] = NoOrder
      /\ \A x \in Addresses \ {a} : order'[x] = order[x]
  BY <1>1 DEF OrderTypes, NoOrder, NoBlock
<1>3. \A t \in owed' : t \in owed /\ t.addr \in Addresses \ {a}
  BY <1>1, TransferTypes DEF ToAddress
<1>4. TypeOK'
  <2>1. discarded' \subseteq owed' /\ owed' \subseteq owed
    BY <1>1 DEF TypeOK, ToAddress
  <2> QED BY <1>1, <1>2, <2>1 DEF TypeOK, OrderTypes
<1>5. RunTyped' /\ RunOK' /\ CursorsOK'
  BY <1>1 DEF RunTyped, RunOK, CallsOK, CursorsOK
<1>6. OrdersOK'
  <2>1. ASSUME NEW x \in Addresses \ {a}
        PROVE  (Open(x) <=> Open(x)') /\ (Same(x) <=> Same(x)')
    BY <1>1, <1>2 DEF Open, Same
  <2>2. ~Open(a)' /\ order'[a].since = NoBlock /\ NoBlock <= head'
    BY <1>1, <1>2 DEF Open, NoOrder, NoBlock, TypeOK
  <2> QED BY <1>1, <1>2, <2>1, <2>2 DEF OrdersOK
<1>7. OwedOK'
  BY <1>1, <1>2, <1>3 DEF OwedOK, Open
<1>8. AllSafe'
  <2>1. ASSUME OverlapsCover, NEW t \in owed' PROVE Safe(t)'
    BY <1>1, <2>1, <1>2, <1>3, SafeStays DEF AllSafe, ToAddress
  <2> QED BY <2>1 DEF AllSafe
<1> QED BY <1>4, <1>5, <1>6, <1>7, <1>8 DEF IInv

(* The run itself: it lists, reads the head and plans its calls.           *)
LEMMA ListOrdersOK == IInv /\ ListOrders => IInv'
<1> SUFFICES ASSUME IInv, ListOrders PROVE IInv'
  OBVIOUS
<1> USE DEF IInv
<1> DEFINE selected == SelectAddressesForPoll(order, Budget, rot)
<1>1. /\ run = Idle /\ rot' = selected.nextCursor % Turn
      /\ run' = [Idle EXCEPT !.pc = "listed", !.addrs = selected.addresses,
                             !.listed = [a \in Addresses |-> order[a].since],
                             !.latest = head]
      /\ UNCHANGED <<client, head, owed, order, cursor, discarded>>
      /\ \E a \in Addresses : Open(a)
  BY DEF ListOrders, RunOK
<1>2. order \in OrderTypes /\ rot \in Nat /\ head \in 0..MaxHead
  BY DEF TypeOK, OrderTypes
<1>3. selected.addresses \in Seq(Addresses) /\ selected.nextCursor \in Nat
  BY <1>2, SelectedAreAddresses
<1> HIDE DEF selected
<1>4. /\ run'.pc = "listed" /\ run'.addrs = selected.addresses /\ run'.latest = head
      /\ run'.listed = [a \in Addresses |-> order[a].since]
      /\ run'.todo = <<>> /\ run'.got = {} /\ run.got = {} /\ run.pc = "idle"
  BY <1>1 DEF Idle
<1>5. TypeOK'
  <2>1. rot' \in 0..Turn - 1
    BY <1>1, <1>3
  <2> QED BY <1>1, <1>4, <2>1 DEF TypeOK
<1>6. RunTyped'
  <2>1. [a \in Addresses |-> order[a].since] \in [Addresses -> NoBlock..MaxHead]
    BY <1>2 DEF OrderTypes
  <2>2. run' = [pc |-> "listed", addrs |-> selected.addresses,
                listed |-> [a \in Addresses |-> order[a].since],
                latest |-> head, todo |-> <<>>, got |-> {}]
    BY <1>1 DEF Idle
  <2> QED BY <1>2, <1>3, <2>1, <2>2 DEF RunTyped
<1>7. RunOK'
  <2>1. \E a \in Addresses : order[a].since # NoBlock
    BY <1>1 DEF OrdersOK
  <2> QED BY <1>1, <1>2, <1>4, <2>1 DEF RunOK, CallsOK
<1>8. OrdersOK'
  <2>1. \A a \in Addresses : Same(a)'
    BY <1>1, <1>4 DEF Same
  <2> QED BY <1>1, <2>1 DEF OrdersOK, Open
<1>9. OwedOK' /\ CursorsOK'
  BY <1>1 DEF OwedOK, CursorsOK, Open
<1>10. AllSafe'
  <2>1. ASSUME OverlapsCover, NEW t \in owed PROVE Safe(t)'
    <3>1. NextFrom(t.addr)' = NextFrom(t.addr)
      BY <1>1 DEF NextFrom, Erc20From
    <3> QED BY <1>1, <2>1, <1>4, <3>1 DEF AllSafe, Safe
  <2> QED BY <1>1, <2>1 DEF AllSafe
<1> QED BY <1>5, <1>6, <1>7, <1>8, <1>9, <1>10 DEF IInv

(* What a planned call means to a block that the next scan has to reach.   *)
LEMMA PlanReaches ==
    ASSUME IInv, run.pc = "listed", NEW n \in 0..head,
           NEW calls, calls = CallsOf(run.addrs, run.listed, n)
    PROVE  /\ calls \in Seq(CallType)
           /\ client # "paged" => \A k \in DOMAIN calls :
                  /\ calls[k].addrs # {} =>
                         0 <= calls[k].from /\ calls[k].from <= calls[k].to /\ calls[k].to <= n
                  /\ client = "native" =>
                         \A a \in Addresses : run.listed[a] # NoBlock => a \in calls[k].addrs
           /\ client # "paged" => \A t \in owed : Same(t.addr) /\ t.block >= NextFrom(t.addr) =>
                  \A i \in DOMAIN calls : t.addr \in calls[i].addrs =>
                      \/ calls[i].from <= t.block
                      \/ \E j \in 1..(i - 1) : Reads(calls[j], t)
<1> USE DEF IInv
<1>1. /\ run.addrs \in Seq(Addresses) /\ run.listed \in [Addresses -> NoBlock..MaxHead]
      /\ n \in Nat /\ client \in {"erc20", "native", "paged"}
  BY IngestAssumption DEF RunTyped, TypeOK, IngestAssumption
<1>2. CASE client = "paged"
  BY <1>1, <1>2, PagedPlan DEF CallsOf
<1>3. CASE client = "erc20"
  <2>1. calls = Erc20Calls(run.addrs, run.listed, n)
    BY <1>3 DEF CallsOf
  <2>2. /\ calls \in Seq(CallType)
        /\ \A k \in DOMAIN calls :
               /\ 0 <= calls[k].from /\ calls[k].from <= calls[k].to /\ calls[k].to <= n
               /\ \A a \in calls[k].addrs : calls[k].from <= Erc20From(a, run.listed[a])
    BY <1>1, <2>1, Erc20Plan
  <2>3. ASSUME NEW t \in owed, Same(t.addr), t.block >= NextFrom(t.addr),
               NEW i \in DOMAIN calls, t.addr \in calls[i].addrs
        PROVE  calls[i].from <= t.block
    <3>1. NextFrom(t.addr) = Erc20From(t.addr, run.listed[t.addr])
      BY <1>3, <2>3 DEF NextFrom, Same
    <3>2. calls[i].from \in Int
      BY <2>2, CallTypes
    <3>3. NextFrom(t.addr) \in Int /\ t.block \in Int
      BY OwedTypes
    <3> QED BY <2>2, <2>3, <3>1, <3>2, <3>3
  <2> QED BY <1>3, <2>2, <2>3
<1>4. CASE client = "native"
  <2>1. calls = NativeCalls(run.listed, n)
    BY <1>4 DEF CallsOf
  <2>2. PICK b \in Addresses : run.listed[b] # NoBlock
    BY DEF RunOK
  <2>3. calls \in Seq(CallType)
        /\ \E from \in Nat : ScansBlocks(calls, from, run.listed, n)
    BY <1>1, <2>1, <2>2, NativePlan
  <2>4. PICK from \in Nat : ScansBlocks(calls, from, run.listed, n)
    BY <2>3
  <2> USE DEF ScansBlocks
  <2>5. Len(calls) \in Nat /\ DOMAIN calls = 1..Len(calls)
    BY <2>3, LenProperties
  <2>6. ASSUME NEW t \in owed, Same(t.addr), t.block >= NextFrom(t.addr),
               NEW i \in DOMAIN calls, t.addr \in calls[i].addrs
        PROVE  calls[i].from <= t.block \/ \E j \in 1..(i - 1) : Reads(calls[j], t)
    <3>1. NextFrom(t.addr) = ScanFrom(cursor[Shared], FirstScanBlock(run.listed[t.addr]),
                                      NativeOverlap)
      BY <1>4, <2>6 DEF NextFrom, Same
    <3>2. t.addr \in Addresses /\ run.listed[t.addr] # NoBlock
      BY <2>4, <2>6, TransferTypes
    <3>3. t.block \in Nat /\ NextFrom(t.addr) \in Int
      BY OwedTypes
    <3>4. from <= t.block
      <4>1. from <= NextFrom(t.addr)
        BY <2>4, <3>1, <3>2
      <4>2. NextFrom(t.addr) <= t.block
        BY <2>6, <3>3
      <4> HIDE DEF ScansBlocks
      <4> QED BY <3>3, <4>1, <4>2
    <3>5. CASE calls[i].from > t.block
      <4>1. PICK j \in Nat : j = t.block - from + 1
        BY <3>3, <3>4
      <4>2. i \in Nat /\ i <= Len(calls) /\ calls[i].from = from + i - 1
        BY <2>4, <2>5
      <4>3. j \in 1..(i - 1) /\ j \in DOMAIN calls
        BY <2>5, <3>3, <3>4, <3>5, <4>1, <4>2
      <4>4. calls[j].from = t.block /\ calls[j].to = t.block
        BY <2>4, <3>3, <4>1, <4>3
      <4>5. t.addr \in calls[j].addrs
        BY <2>4, <3>2, <4>3
      <4>6. Reads(calls[j], t)
        BY <3>3, <4>4, <4>5 DEF Reads
      <4> QED BY <4>3, <4>6
    <3>6. calls[i].from \in Int
      BY <2>4, <2>5
    <3> QED BY <3>3, <3>5, <3>6
  <2>7. ASSUME NEW k \in DOMAIN calls
        PROVE  0 <= calls[k].from /\ calls[k].from <= calls[k].to
    BY <2>4, <2>5
  <2> QED BY <2>3, <2>4, <2>6, <2>7
<1> QED BY <1>1, <1>2, <1>3, <1>4

LEMMA ReadHeadOK == IInv /\ ReadHead => IInv'
<1> SUFFICES ASSUME IInv, ReadHead PROVE IInv'
  OBVIOUS
<1> USE DEF IInv
<1>1. PICK n \in NodeHeads :
          LET calls == CallsOf(run.addrs, run.listed, n)
          IN  run' = [run EXCEPT !.pc = IF calls = <<>> THEN "matching" ELSE "fetching",
                                 !.latest = n, !.todo = calls]
  BY DEF ReadHead
<1>2. PICK calls : calls = CallsOf(run.addrs, run.listed, n)
  OBVIOUS
<1>3. /\ run.pc = "listed" /\ UNCHANGED <<client, head, owed, order, cursor, rot, discarded>>
      /\ run' = [run EXCEPT !.pc = IF calls = <<>> THEN "matching" ELSE "fetching",
                            !.latest = n, !.todo = calls]
  BY <1>1, <1>2 DEF ReadHead
<1>4. n \in 0..head /\ head \in 0..MaxHead /\ n \in 0..MaxHead
  BY DEF NodeHeads, MaxOf, TypeOK
<1>5. /\ calls \in Seq(CallType)
      /\ client # "paged" => \A k \in DOMAIN calls :
             /\ calls[k].addrs # {} =>
                    0 <= calls[k].from /\ calls[k].from <= calls[k].to /\ calls[k].to <= n
             /\ client = "native" =>
                    \A a \in Addresses : run.listed[a] # NoBlock => a \in calls[k].addrs
      /\ client # "paged" => \A t \in owed : Same(t.addr) /\ t.block >= NextFrom(t.addr) =>
             \A i \in DOMAIN calls : t.addr \in calls[i].addrs =>
                 \/ calls[i].from <= t.block
                 \/ \E j \in 1..(i - 1) : Reads(calls[j], t)
  BY <1>2, <1>3, <1>4, PlanReaches
<1>6. /\ run'.pc = (IF calls = <<>> THEN "matching" ELSE "fetching")
      /\ run'.latest = n /\ run'.todo = calls
      /\ run'.listed = run.listed /\ run'.addrs = run.addrs /\ run'.got = run.got
  BY <1>3 DEF RunTyped
<1>7. TypeOK'
  BY <1>3, <1>6 DEF TypeOK
<1>8. RunTyped'
  BY <1>3, <1>4, <1>5 DEF RunTyped
<1>9. RunOK'
  <2>1. CallsOK'
    BY <1>3, <1>5, <1>6 DEF CallsOK
  <2> QED BY <1>3, <1>4, <1>6, <2>1 DEF RunOK
<1>10. ASSUME NEW a \in Addresses, Open(a), ~Same(a)
       PROVE  n <= order[a].since + MaxDrift
  <2>1. run.latest <= order[a].since /\ head <= run.latest + MaxDrift
    BY <1>3, <1>10 DEF OrdersOK, RunOK
  <2>2. run.latest \in Int /\ order[a].since \in Int
    BY DEF RunTyped, TypeOK, NoBlock
  <2> QED BY <1>4, <2>1, <2>2
<1>11. \A a \in Addresses : (Same(a) <=> Same(a)') /\ (Open(a) <=> Open(a)')
  BY <1>3, <1>6 DEF Same, Open
<1>12. OrdersOK'
  BY <1>3, <1>6, <1>10, <1>11 DEF OrdersOK
<1>13. OwedOK' /\ CursorsOK'
  BY <1>3 DEF OwedOK, CursorsOK, Open
<1>14. ASSUME OverlapsCover, NEW t \in owed PROVE Safe(t)'
  <2>1. NextFrom(t.addr)' = NextFrom(t.addr)
    BY <1>3 DEF NextFrom, Erc20From
  <2>2. t.addr \in Addresses /\ t.block \in Nat /\ Open(t.addr)
        /\ order[t.addr].since < t.block
    BY TransferTypes DEF OwedOK
  <2>3. CASE t \in discarded \/ (t \in run.got /\ Same(t.addr))
    BY <1>3, <1>6, <1>11, <2>2, <2>3 DEF Safe
  <2>4. CASE t.block >= NextFrom(t.addr)
    <3>1. CASE ~Same(t.addr)
      <4>1. n <= order[t.addr].since + MaxDrift
        BY <1>10, <2>2, <3>1
      <4>2. order[t.addr].since \in Int
        BY OwedTypes
      <4>3. Overlap \in Nat /\ MaxDrift <= Overlap
        BY <1>14 DEF Overlap, OverlapsCover
      <4>4. t.block > n - Overlap
        BY <1>4, <2>2, <4>1, <4>2, <4>3
      <4>5. Later(t)'
        BY <1>3, <1>6, <4>4 DEF Later, Overlap
      <4> QED BY <2>1, <2>4, <4>5 DEF Safe
    <3>2. CASE Same(t.addr)
      <4>1. client # "paged" => Planned(t)'
        BY <1>3, <1>5, <1>6, <1>11, <2>2, <2>4, <3>2 DEF Planned, Reads
      <4> QED BY <1>3, <2>1, <2>4, <4>1 DEF Safe
    <3> QED BY <3>1, <3>2
  <2> QED BY <1>14, <2>3, <2>4 DEF AllSafe, Safe
<1>15. AllSafe'
  BY <1>3, <1>14 DEF AllSafe
<1> QED BY <1>7, <1>8, <1>9, <1>12, <1>13, <1>15 DEF IInv

(* A call moves the cursors of its addresses to where it ended at the most. *)
LEMMA AdvanceTypes ==
    ASSUME IInv, NEW c \in CallType,
           client # "paged" /\ c.addrs # {} => 0 <= c.from /\ c.from <= c.to /\ c.to <= run.latest
    PROVE  /\ Advance(c) \in [Addresses \cup {Shared} -> NoBlock..MaxHead]
           /\ \A k \in Addresses \cup {Shared} :
                  /\ Advance(c)[k] <= head
                  /\ ~Moves(k, c) => Advance(c)[k] = cursor[k]
                  /\ Moves(k, c) => Advance(c)[k] = cursor[k] \/ Advance(c)[k] = c.to
<1> USE DEF IInv
<1>1. /\ cursor \in [Addresses \cup {Shared} -> NoBlock..MaxHead]
      /\ \A k \in Addresses \cup {Shared} : cursor[k] <= head
      /\ head \in 0..MaxHead /\ run.latest \in 0..MaxHead /\ run.latest <= head
      /\ c.to \in Int /\ c.from \in Int
  BY DEF TypeOK, CursorsOK, RunTyped, RunOK, CallType
<1>2. ASSUME NEW k \in Addresses \cup {Shared}
      PROVE  /\ Advance(c)[k] \in NoBlock..MaxHead /\ Advance(c)[k] <= head
             /\ ~Moves(k, c) => Advance(c)[k] = cursor[k]
             /\ Moves(k, c) => Advance(c)[k] = cursor[k] \/ Advance(c)[k] = c.to
  <2>1. Moves(k, c) => c.to \in NoBlock..MaxHead /\ c.to <= head
    BY <1>1 DEF Moves, NoBlock
  <2>2. Advance(c)[k] = IF ~Moves(k, c) THEN cursor[k]
                        ELSE IF client = "erc20" THEN MaxOf(cursor[k], c.to) ELSE c.to
    BY <1>1 DEF Advance
  <2> HIDE DEF IInv
  <2> QED BY <1>1, <2>1, <2>2 DEF MaxOf
<1>3. DOMAIN Advance(c) = Addresses \cup {Shared}
  BY <1>1 DEF Advance
<1>4. Advance(c) = [k \in Addresses \cup {Shared} |-> Advance(c)[k]]
  BY <1>1 DEF Advance
<1> QED BY <1>2, <1>4

LEMMA ReadCallOK == IInv /\ ReadCall => IInv'
<1> SUFFICES ASSUME IInv, ReadCall PROVE IInv'
  OBVIOUS
<1> USE DEF IInv
<1>1. PICK n \in NodeHeads :
          run' = [run EXCEPT !.pc = IF Len(run.todo) = 1 THEN "matching" ELSE @,
                             !.todo = Tail(@),
                             !.got = @ \cup Answer(Head(run.todo), n)]
  BY DEF ReadCall
<1>2. PICK c : c = Head(run.todo)
  OBVIOUS
<1>3. PICK todo : todo = run.todo
  OBVIOUS
<1>4. /\ run.pc = "fetching" /\ cursor' = Advance(c)
      /\ UNCHANGED <<client, head, owed, order, rot, discarded>>
  BY <1>2 DEF ReadCall
<1>5. /\ todo \in Seq(CallType) /\ todo # <<>> /\ c = todo[1] /\ c \in CallType
      /\ 1 \in DOMAIN todo /\ Len(todo) \in Nat \ {0} /\ DOMAIN todo = 1..Len(todo)
  <2>1. todo \in Seq(CallType) /\ todo # <<>>
    BY <1>3, <1>4 DEF RunTyped, RunOK
  <2>2. Len(todo) \in Nat \ {0} /\ DOMAIN todo = 1..Len(todo)
    BY <2>1, EmptySeq, LenProperties
  <2>3. c = todo[1]
    BY <1>2, <1>3
  <2> QED BY <2>1, <2>2, <2>3, ElementOfSeq
<1>6. /\ Tail(todo) \in Seq(CallType) /\ Len(Tail(todo)) = Len(todo) - 1
      /\ DOMAIN Tail(todo) = 1..(Len(todo) - 1)
      /\ \A i \in 1..(Len(todo) - 1) : Tail(todo)[i] = todo[i + 1]
  BY <1>5, HeadTailProperties, LenProperties
<1>7. /\ run'.pc = (IF Len(todo) = 1 THEN "matching" ELSE "fetching")
      /\ run'.todo = Tail(todo) /\ run'.got = run.got \cup Answer(c, n)
      /\ run'.latest = run.latest /\ run'.listed = run.listed /\ run'.addrs = run.addrs
  BY <1>1, <1>2, <1>3, <1>4 DEF RunTyped
<1>8. Answer(c, n) \subseteq owed
  BY DEF Answer
<1>9. /\ head \in 0..MaxHead /\ run.latest \in 0..MaxHead /\ run.latest <= head
      /\ n \in Nat /\ n >= head - MaxLag
  BY DEF TypeOK, RunTyped, RunOK, NodeHeads, MaxOf
<1>10. client # "paged" =>
           /\ c.addrs # {} => 0 <= c.from /\ c.from <= c.to /\ c.to <= run.latest
           /\ client = "native" =>
                  \A a \in Addresses : run.listed[a] # NoBlock => a \in c.addrs
  BY <1>3, <1>5 DEF RunOK, CallsOK
<1>11. /\ cursor' \in [Addresses \cup {Shared} -> NoBlock..MaxHead]
       /\ \A k \in Addresses \cup {Shared} :
              /\ cursor'[k] <= head
              /\ ~Moves(k, c) => cursor'[k] = cursor[k]
              /\ Moves(k, c) => cursor'[k] = cursor[k] \/ cursor'[k] = c.to
  BY <1>4, <1>5, <1>10, AdvanceTypes
<1>12. TypeOK'
  <2>1. run'.got \subseteq Transfers
    BY <1>7, <1>8 DEF TypeOK
  <2> QED BY <1>4, <1>7, <1>11, <2>1 DEF TypeOK
<1>13. RunTyped'
  <2>1. run'.got \in SUBSET Transfers
    BY <1>7, <1>8 DEF TypeOK
  <2>2. run' = [run EXCEPT !.pc = run'.pc, !.todo = run'.todo, !.got = run'.got]
    BY <1>1 DEF RunTyped
  <2>3. run'.pc \in {"idle", "listed", "fetching", "matching"} /\ run'.todo \in Seq(CallType)
    BY <1>6, <1>7
  <2> QED BY <2>1, <2>2, <2>3 DEF RunTyped
<1>14. RunOK'
  <2>1. ASSUME NEW i \in 1..(Len(todo) - 1)
        PROVE  i + 1 \in DOMAIN run.todo /\ Tail(todo)[i] = run.todo[i + 1]
    BY <1>3, <1>5, <1>6
  <2>2. CallsOK'
    <3>1. ASSUME client # "paged", NEW i \in DOMAIN run'.todo
          PROVE  LET d == run'.todo[i]
                 IN  /\ d.addrs # {} => 0 <= d.from /\ d.from <= d.to /\ d.to <= run.latest
                     /\ client = "native" =>
                            \A a \in Addresses : run.listed[a] # NoBlock => a \in d.addrs
      <4>1. i \in 1..(Len(todo) - 1)
        BY <1>6, <1>7, <3>1
      <4> QED BY <1>7, <2>1, <3>1, <4>1 DEF RunOK, CallsOK
    <3> QED BY <1>4, <1>7, <3>1 DEF CallsOK
  <2>3. Len(todo) = 1 => Tail(todo) = <<>>
    BY <1>6, EmptySeq
  <2>4. Len(todo) # 1 => Tail(todo) # <<>>
    <3>1. Len(<<>>) = 0
      OBVIOUS
    <3>2. Len(todo) # 1 => Len(Tail(todo)) # 0
      BY <1>5, <1>6
    <3> QED BY <3>1, <3>2
  <2> QED BY <1>4, <1>7, <2>2, <2>3, <2>4 DEF RunOK
<1>15. \A a \in Addresses : (Same(a) <=> Same(a)') /\ (Open(a) <=> Open(a)')
  BY <1>4, <1>7 DEF Same, Open
<1>16. OrdersOK'
  BY <1>4, <1>7, <1>15 DEF OrdersOK
<1>17. OwedOK' /\ CursorsOK'
  BY <1>4, <1>11 DEF OwedOK, CursorsOK, Open
<1>18. ASSUME OverlapsCover, NEW t \in owed PROVE Safe(t)'
  <2>1. /\ t.addr \in Addresses /\ t.block \in Nat /\ NextFrom(t.addr) \in Int
        /\ order[t.addr].since \in Int /\ Open(t.addr) /\ order[t.addr].since # NoBlock
    BY OwedTypes DEF OwedOK, OrdersOK
  <2>2. CASE t \in discarded \/ (t \in run.got /\ Same(t.addr))
    BY <1>4, <1>7, <1>15, <2>1, <2>2 DEF Safe
  <2>3. CASE client = "paged" /\ t.block >= NextFrom(t.addr)
    <3>1. NextFrom(t.addr)' = NextFrom(t.addr)
      BY <1>4, <2>3 DEF NextFrom
    <3> QED BY <1>4, <2>3, <3>1 DEF Safe
  <2>4. CASE client # "paged" /\ t.block >= NextFrom(t.addr)
    <3>1. client \in {"erc20", "native"} /\ Overlap \in Nat /\ MaxLag <= Overlap
      BY <1>18, <2>4, IngestAssumption DEF TypeOK, IngestAssumption, Overlap, OverlapsCover
    <3>2. Key(t.addr) \in Addresses \cup {Shared}
      BY <2>1 DEF Key
    <3>3. NextFrom(t.addr) = ScanFrom(cursor[Key(t.addr)],
                                      FirstScanBlock(order[t.addr].since), Overlap)
      BY <3>1 DEF NextFrom, Erc20From, Key, Overlap
    <3>4. NextFrom(t.addr)' = ScanFrom(cursor'[Key(t.addr)],
                                       FirstScanBlock(order[t.addr].since), Overlap)
      BY <1>4, <3>1 DEF NextFrom, Erc20From, Key, Overlap
    <3>5. cursor'[Key(t.addr)] # cursor[Key(t.addr)] =>
              /\ Moves(Key(t.addr), c) /\ c.to \in Nat /\ c.to <= run.latest /\ c.from \in Nat
              /\ NextFrom(t.addr)' = MaxOf(0, c.to + 1 - Overlap)
      <4>1. SUFFICES ASSUME cursor'[Key(t.addr)] # cursor[Key(t.addr)]
                     PROVE  /\ Moves(Key(t.addr), c) /\ c.to \in Nat /\ c.to <= run.latest
                            /\ c.from \in Nat
                            /\ NextFrom(t.addr)' = MaxOf(0, c.to + 1 - Overlap)
        OBVIOUS
      <4>2. Moves(Key(t.addr), c) /\ cursor'[Key(t.addr)] = c.to
        BY <1>11, <3>2, <4>1
      <4>3. c.addrs # {}
        BY <4>2 DEF Moves
      <4>4. c.to \in Int /\ c.from \in Int
        BY <1>5 DEF CallType
      <4>5. c.to \in Nat /\ c.from \in Nat /\ c.to <= run.latest
        BY <1>10, <2>4, <4>3, <4>4
      <4> QED BY <3>4, <4>2, <4>5 DEF ScanFrom, NoBlock
    <3>6. CASE Later(t)
      <4>1. NextFrom(t.addr)' <= t.block
        <5>1. CASE cursor'[Key(t.addr)] = cursor[Key(t.addr)]
          BY <2>1, <2>4, <3>3, <3>4, <5>1
        <5>2. CASE cursor'[Key(t.addr)] # cursor[Key(t.addr)]
          BY <1>9, <2>1, <3>1, <3>5, <3>6, <5>2 DEF Later, MaxOf
        <5> QED BY <5>1, <5>2
      <4>2. Later(t)'
        BY <1>4, <1>7, <3>6 DEF Later, Overlap
      <4> QED BY <4>1, <4>2 DEF Safe
    <3>7. CASE Planned(t) /\ Reads(c, t)
      <4>1. CASE t.block <= n
        <5>1. t \in Answer(c, n)
          BY <1>5, <1>9, <2>1, <3>7, <4>1 DEF Answer, Reads, MinOf, CallType
        <5> QED BY <1>7, <1>15, <2>1, <3>7, <5>1 DEF Safe, Planned
      <4>2. CASE t.block > n
        <5>1. Later(t)
          BY <1>9, <2>1, <3>1, <4>2 DEF Later
        <5> QED BY <3>6, <5>1
      <4> QED BY <1>9, <2>1, <4>1, <4>2
    <3>8. CASE Planned(t) /\ ~Reads(c, t)
      <4>1. t.addr \in c.addrs => c.from <= t.block
        BY <1>3, <1>5, <3>8 DEF Planned
      <4>2. Moves(Key(t.addr), c) => t.addr \in c.addrs
        <5>1. CASE client = "erc20"
          BY <5>1 DEF Moves, Key
        <5>2. CASE client = "native"
          <6>1. run.listed[t.addr] # NoBlock
            BY <2>1, <3>8 DEF Planned, Same
          <6> QED BY <1>10, <2>1, <5>2, <6>1
        <5> QED BY <3>1, <5>1, <5>2
      <4>3. NextFrom(t.addr)' <= t.block
        <5>1. CASE cursor'[Key(t.addr)] = cursor[Key(t.addr)]
          BY <2>1, <2>4, <3>3, <3>4, <5>1
        <5>2. CASE cursor'[Key(t.addr)] # cursor[Key(t.addr)]
          <6>1. t.addr \in c.addrs /\ c.from <= t.block
            BY <3>5, <4>1, <4>2, <5>2
          <6>2. c.to < t.block
            BY <2>1, <3>5, <3>8, <5>2, <6>1 DEF Reads
          <6> QED BY <2>1, <3>1, <3>5, <5>2, <6>2 DEF MaxOf
        <5> QED BY <5>1, <5>2
      <4>4. Planned(t)'
        <5>1. ASSUME NEW i \in DOMAIN Tail(todo), t.addr \in Tail(todo)[i].addrs
              PROVE  \/ Tail(todo)[i].from <= t.block
                     \/ \E j \in 1..(i - 1) : Reads(Tail(todo)[j], t)
          <6>1. i \in 1..(Len(todo) - 1) /\ i + 1 \in DOMAIN todo /\ Tail(todo)[i] = todo[i + 1]
            BY <1>5, <1>6, <5>1
          <6>2. CASE todo[i + 1].from <= t.block
            BY <6>1, <6>2
          <6>3. CASE \E j \in 1..i : Reads(todo[j], t)
            <7>1. PICK j \in 1..i : Reads(todo[j], t)
              BY <6>3
            <7>2. j # 1
              BY <1>5, <3>8, <7>1
            <7>3. j - 1 \in 1..(i - 1) /\ j - 1 \in 1..(Len(todo) - 1)
              BY <1>5, <6>1, <7>1, <7>2
            <7>4. Tail(todo)[j - 1] = todo[j]
              BY <1>6, <7>1, <7>3
            <7> QED BY <7>1, <7>3, <7>4
          <6>4. (i + 1) - 1 = i
            BY <6>1
          <6> QED BY <1>3, <3>8, <5>1, <6>1, <6>2, <6>3, <6>4 DEF Planned
        <5> QED BY <1>7, <1>15, <2>1, <3>8, <5>1 DEF Planned, Reads
      <4> QED BY <4>3, <4>4 DEF Safe
    <3> QED BY <1>4, <1>18, <2>4, <3>6, <3>7, <3>8, <2>2 DEF AllSafe, Safe
  <2> QED BY <1>18, <2>2, <2>3, <2>4 DEF AllSafe, Safe
<1>19. AllSafe'
  BY <1>4, <1>18 DEF AllSafe
<1> QED BY <1>12, <1>13, <1>14, <1>16, <1>17, <1>19 DEF IInv

(* The run ends: what it read is matched, dropped or forgotten.            *)
LEMMA EndsTyped == run' = Idle => RunTyped'
<1> SUFFICES ASSUME run' = Idle PROVE RunTyped'
  OBVIOUS
<1>1. [a \in Addresses |-> NoBlock] \in [Addresses -> NoBlock..MaxHead]
  BY DEF NoBlock
<1>2. <<>> \in Seq(Addresses) /\ <<>> \in Seq(CallType)
  BY EmptySeq
<1> QED BY <1>1, <1>2 DEF RunTyped, Idle

LEMMA MatchKeeps ==
    ASSUME IInv, NEW T \in SUBSET run.got, Match(T)
    PROVE  /\ order' \in OrderTypes /\ owed' \subseteq owed
           /\ \A a \in Addresses : order'[a].since = order[a].since /\ (Open(a) <=> Open(a)')
           /\ \A t \in owed' : ~(t \in T /\ Same(t.addr))
<1> USE DEF IInv
<1>1. order \in OrderTypes /\ owed \subseteq Transfers
  BY DEF TypeOK, OrderTypes
<1>2. owed' = owed \ Matched(T)
      /\ order' = [a \in Addresses |-> IF ToAddress(Matched(T), a) = {} THEN order[a]
                                       ELSE [order[a] EXCEPT !.status = "open"]]
  BY DEF Match
<1>3. \A a \in Addresses : ToAddress(Matched(T), a) # {} => Open(a)
  BY DEF ToAddress, Matched, OwedOK
<1>4. \A a \in Addresses : /\ order'[a] = order[a] \/ order'[a] = [order[a] EXCEPT !.status = "open"]
                           /\ order'[a] # order[a] => Open(a)
  BY <1>2, <1>3
<1>5. order' \in OrderTypes
  BY <1>1, <1>2 DEF OrderTypes
<1>6. ASSUME NEW a \in Addresses
      PROVE  order'[a].since = order[a].since /\ (Open(a) <=> Open(a)')
  <2>1. order[a] \in [status : {"none", "pending", "open"}, since : NoBlock..MaxHead]
    BY <1>1 DEF OrderTypes
  <2>2. CASE order'[a] = order[a]
    BY <2>2 DEF Open
  <2>3. CASE order'[a] # order[a]
    <3>1. order'[a].since = order[a].since /\ order'[a].status = "open" /\ Open(a)
      BY <1>4, <2>1, <2>3
    <3> QED BY <3>1 DEF Open
  <2> QED BY <2>2, <2>3
<1>7. \A t \in owed' : ~(t \in T /\ Same(t.addr))
  BY <1>2 DEF Matched, Same
<1> QED BY <1>2, <1>5, <1>6, <1>7

LEMMA RunEnds ==
    ASSUME IInv, NEW T \in SUBSET run.got, Match(T), run' = Idle,
           UNCHANGED <<client, head, cursor, rot>>, discarded' \subseteq owed',
           \A t \in owed' : t \in discarded \/ t \in run.got \ T => t \in discarded'
    PROVE  IInv'
<1> USE DEF IInv
<1>1. /\ order' \in OrderTypes /\ owed' \subseteq owed
      /\ \A a \in Addresses : order'[a].since = order[a].since /\ (Open(a) <=> Open(a)')
      /\ \A t \in owed' : ~(t \in T /\ Same(t.addr))
  BY MatchKeeps
<1>2. /\ run'.pc = "idle" /\ run'.got = {} /\ run'.todo = <<>> /\ run'.latest = 0
  BY DEF Idle
<1>3. head \in Nat /\ \A t \in owed' : t.addr \in Addresses
  BY <1>1, TransferTypes DEF TypeOK
<1>4. TypeOK'
  BY <1>1, <1>2 DEF TypeOK, OrderTypes
<1>5. RunTyped'
  BY EndsTyped
<1>6. RunOK'
  BY <1>2, <1>3 DEF RunOK, CallsOK
<1>7. OrdersOK' /\ CursorsOK'
  BY <1>1, <1>2 DEF OrdersOK, CursorsOK
<1>8. OwedOK'
  BY <1>1, <1>3 DEF OwedOK
<1>9. ASSUME OverlapsCover, NEW t \in owed' PROVE Safe(t)'
  <2>1. NextFrom(t.addr)' = NextFrom(t.addr)
    BY <1>1, <1>3 DEF NextFrom, Erc20From
  <2>2. Safe(t)
    BY <1>1, <1>9 DEF AllSafe
  <2>3. CASE t \in discarded \/ (t \in run.got /\ Same(t.addr))
    BY <1>1, <2>3 DEF Safe
  <2>4. CASE t.block >= NextFrom(t.addr)
    BY <1>2, <2>1, <2>4 DEF Safe
  <2> QED BY <2>2, <2>3, <2>4 DEF Safe
<1>10. AllSafe'
  BY <1>9 DEF AllSafe
<1> QED BY <1>4, <1>5, <1>6, <1>7, <1>8, <1>10 DEF IInv

LEMMA MatchTransfersOK == IInv /\ MatchTransfers => IInv'
<1> SUFFICES ASSUME IInv, MatchTransfers PROVE IInv'
  OBVIOUS
<1>1. /\ Match(run.got) /\ discarded' = discarded \cap owed' /\ run' = Idle
      /\ UNCHANGED <<client, head, cursor, rot>>
  BY DEF MatchTransfers
<1>2. \A t \in owed' : t \in discarded \/ t \in run.got \ run.got => t \in discarded'
  BY <1>1
<1> QED BY <1>1, <1>2, RunEnds

LEMMA FailRunOK == IInv /\ FailRun => IInv'
<1> SUFFICES ASSUME IInv, FailRun PROVE IInv'
  OBVIOUS
<1>1. PICK T \in SUBSET run.got :
          Match(T) /\ discarded' = (discarded \cup run.got) \cap owed'
  BY DEF FailRun
<1>2. run' = Idle /\ UNCHANGED <<client, head, cursor, rot>>
  BY DEF FailRun
<1>3. \A t \in owed' : t \in discarded \/ t \in run.got \ T => t \in discarded'
  BY <1>1
<1> QED BY <1>1, <1>2, <1>3, RunEnds

LEMMA CrashOK == IInv /\ Crash => IInv'
<1> SUFFICES ASSUME IInv, Crash PROVE IInv'
  OBVIOUS
<1> USE DEF IInv
<1>1. /\ cursor' = [k \in Addresses \cup {Shared} |-> NoBlock] /\ rot' = 0 /\ run' = Idle
      /\ UNCHANGED <<client, head, owed, order, discarded>>
  BY DEF Crash, TypeOK
<1>2. run'.pc = "idle" /\ run'.got = {} /\ run'.todo = <<>> /\ run'.latest = 0
  BY <1>1 DEF Idle
<1>3. cursor' \in [Addresses \cup {Shared} -> NoBlock..MaxHead] /\ head \in Nat
  BY <1>1 DEF TypeOK, NoBlock
<1>4. TypeOK'
  BY <1>1, <1>2, <1>3 DEF TypeOK
<1>5. RunTyped'
  BY <1>1, EndsTyped
<1>6. RunOK'
  BY <1>1, <1>2, <1>3 DEF RunOK, CallsOK
<1>7. OrdersOK' /\ OwedOK'
  BY <1>1, <1>2 DEF OrdersOK, OwedOK, Open
<1>8. CursorsOK'
  BY <1>1, <1>3 DEF CursorsOK, NoBlock
<1>9. ASSUME OverlapsCover, NEW t \in owed PROVE Safe(t)'
  <2>1. /\ t.addr \in Addresses /\ t.block \in Nat /\ order[t.addr].since \in Int
        /\ order[t.addr].since < t.block
    BY OwedTypes DEF OwedOK
  <2>2. NextFrom(t.addr)' <= t.block
    <3>1. client \in {"erc20", "native", "paged"}
      BY IngestAssumption DEF TypeOK, IngestAssumption
    <3>2. cursor'[t.addr] = NoBlock /\ cursor'[Shared] = NoBlock
      BY <1>1, <2>1
    <3> QED BY <1>1, <2>1, <3>1, <3>2
        DEF NextFrom, Erc20From, ScanFrom, FirstScanBlock, MaxOf
  <2> QED BY <1>2, <2>2 DEF Safe
<1>10. AllSafe'
  BY <1>1, <1>9 DEF AllSafe
<1> QED BY <1>4, <1>5, <1>6, <1>7, <1>8, <1>10 DEF IInv

LEMMA StutterOK == IInv /\ UNCHANGED vars => IInv'
<1> SUFFICES ASSUME IInv, UNCHANGED vars PROVE IInv'
  OBVIOUS
<1> USE DEF IInv
<1>1. UNCHANGED <<client, head, owed, order, cursor, rot, run, discarded>>
  BY DEF vars
<1>2. TypeOK' /\ RunTyped' /\ OwedOK' /\ CursorsOK'
  BY <1>1 DEF TypeOK, RunTyped, OwedOK, CursorsOK, Open
<1>3. RunOK' /\ OrdersOK'
  BY <1>1 DEF RunOK, CallsOK, OrdersOK, Open, Same
<1>4. AllSafe'
  BY <1>1, SafeStays DEF AllSafe
<1> QED BY <1>2, <1>3, <1>4

-----------------------------------------------------------------------------
(* The theorems.                                                           *)

(* The inductive invariant, for any number of addresses, any budget, span, *)
(* chunk and overlap, and any number of failures and restarts.             *)
THEOREM IngestInvariance == Spec => []IInv
<1>1. ASSUME IInv, Next PROVE IInv'
  <2>1. CASE MineBlock
    BY <1>1, <2>1, MineBlockOK
  <2>2. CASE \E a \in Addresses : OpenOrder(a) \/ Lapse(a) \/ Close(a)
    BY <1>1, <2>2, OpenOrderOK, LapseOK, CloseOK
  <2>3. CASE ListOrders
    BY <1>1, <2>3, ListOrdersOK
  <2>4. CASE ReadHead
    BY <1>1, <2>4, ReadHeadOK
  <2>5. CASE ReadCall
    BY <1>1, <2>5, ReadCallOK
  <2>6. CASE MatchTransfers
    BY <1>1, <2>6, MatchTransfersOK
  <2>7. CASE FailRun
    BY <1>1, <2>7, FailRunOK
  <2>8. CASE Crash
    BY <1>1, <2>8, CrashOK
  <2> QED BY <1>1, <2>1, <2>2, <2>3, <2>4, <2>5, <2>6, <2>7, <2>8 DEF Next, RunStep
<1>2. IInv /\ [Next]_vars => IInv'
  BY <1>1, StutterOK
<1> QED BY InitOK, <1>2, PTL DEF Spec

(* What the scope's ingest keeps has its type in every behaviour. *)
THEOREM IngestTypes == Spec => []TypeOK
<1>1. IInv => TypeOK
  BY DEF IInv
<1> QED BY <1>1, IngestInvariance, PTL

(* However the blocks, the orders, the runs and the restarts interleave,   *)
(* only a run that fails can leave a transfer behind the cursors, as long  *)
(* as the overlaps cover the lag of the nodes and the drift of the head.   *)
THEOREM OnlyFailureSkips == OverlapsCover => (Spec => []SkippedOnlyByFailure)
<1>1. SUFFICES ASSUME OverlapsCover PROVE Spec => []SkippedOnlyByFailure
  OBVIOUS
<1>2. IInv => SkippedOnlyByFailure
  BY <1>1 DEF IInv, AllSafe, Safe, SkippedOnlyByFailure, Reachable, Same
<1> QED BY <1>2, IngestInvariance, PTL
=============================================================================
