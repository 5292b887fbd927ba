--------------------- MODULE GetPeersLookupManagerProofs --------------------
(***************************************************************************)
(* Proofs about KademliaLookup and GetPeersLookupManager, for any network, *)
(* any number of lookups and any limits.                                   *)
(***************************************************************************)
EXTENDS GetPeersLookupManager, FiniteSetTheorems, TLAPS

-----------------------------------------------------------------------------
(* Sorting.                                                                 *)

\* A non-empty set of numbers has a least element.
LEMMA LeastNumber ==
  ASSUME NEW S \in SUBSET Nat, S # {}
  PROVE  \E x \in S : \A y \in S : x <= y
<1>1. PICK x \in S : \A y \in S : ~(<<y, x>> \in OpToRel(<, Nat))
  BY Zenon, NatLessThanWellFounded, WFMin
<1>2. ASSUME NEW y \in S
      PROVE  x <= y
  <2>1. <<y, x>> \in Nat \X Nat
    BY Zenon
  <2>2. ~(<<y, x>>[1] < <<y, x>>[2])
    BY <1>1, <2>1, Zenon DEF OpToRel
  <2>. QED
    BY <2>2
<1>. QED
  BY Zenon, <1>2

\* The order of distances is transitive.
LEMMA Transitivity ==
  ASSUME NEW a \in Nat, NEW b \in Nat, NEW c \in Nat, a <= b, b <= c
  PROVE  a <= c
  OBVIOUS

\* The numbers from 1 to n are n numbers.
LEMMA PrefixCount ==
  ASSUME NEW n \in Nat
  PROVE  IsFiniteSet(1 .. n) /\ Cardinality(1 .. n) = n
<1>1. 1 \in Int /\ n \in Int
  OBVIOUS
<1>2. /\ IsFiniteSet(1 .. n)
      /\ Cardinality(1 .. n) = IF 1 > n THEN 0 ELSE n - 1 + 1
  BY Zenon, <1>1, FS_Interval
<1>. QED
  BY <1>2

\* The numbers of a list are bounded.
LEMMA Bounded ==
  ASSUME NEW s \in Seq(Nat)
  PROVE  \E x \in Nat : \A j \in DOMAIN s : s[j] <= x
<1>. DEFINE Bound(m) == \E x \in Nat : \A j \in 1 .. m : s[j] <= x
            Q == {m \in 0 .. Len(s) : ~Bound(m)}
<1>1. Len(s) \in Nat /\ DOMAIN s = 1 .. Len(s) /\ \A j \in 1 .. Len(s) : s[j] \in Nat
  OBVIOUS
<1>2. Bound(0)
  BY <1>1
<1>3. ASSUME NEW m \in 1 .. Len(s), Bound(m - 1)
      PROVE  Bound(m)
  <2>1. PICK x \in Nat : \A j \in 1 .. m - 1 : s[j] <= x
    BY Zenon, <1>3
  <2>2. s[m] \in Nat
    BY Zenon, <1>1
  <2>3. PICK y \in Nat : x <= y /\ s[m] <= y
    BY <2>2
  <2>4. ASSUME NEW j \in 1 .. m
        PROVE  s[j] <= y
    <3>1. j = m \/ j \in 1 .. m - 1
      BY <1>1
    <3>2. CASE j \in 1 .. m - 1
      <4>1. s[j] <= x /\ s[j] \in Nat
        BY <1>1, <2>1, <3>2
      <4>. QED
        BY <2>3, <4>1
    <3>. QED
      BY Zenon, <2>3, <3>1, <3>2
  <2>. QED
    BY Zenon, <2>4
<1>4. Q = {}
  <2>1. SUFFICES ASSUME Q # {}
                 PROVE  FALSE
    BY Zenon
  <2>2. Q \in SUBSET Nat
    BY <1>1
  <2>3. PICK m \in Q : \A y \in Q : m <= y
    BY Zenon, <2>1, <2>2, LeastNumber
  <2>4. m \in 0 .. Len(s) /\ ~Bound(m)
    BY Zenon, <2>3
  <2>5. m # 0
    BY Zenon, <1>2, <2>4
  <2>. HIDE DEF Bound
  <2>6. m \in 1 .. Len(s) /\ m - 1 \in 0 .. Len(s) /\ ~(m <= m - 1)
    BY <1>1, <2>4, <2>5
  <2>. QED
    BY Zenon, <1>3, <2>3, <2>4, <2>6
<1>5. Len(s) \in 0 .. Len(s)
  BY <1>1
<1>. QED
  BY Zenon, <1>1, <1>4, <1>5

\* The places of a list whose nodes are closer than x, and not farther than x.
Before(s, x) == {j \in DOMAIN s : s[j] < x}
UpTo(s, x) == {j \in DOMAIN s : s[j] <= x}

\* These sets are finite, and grow with x.
LEMMA Counts ==
  ASSUME NEW s \in Seq(Nat), NEW x \in Nat
  PROVE  /\ IsFiniteSet(Before(s, x)) /\ Cardinality(Before(s, x)) \in Nat
         /\ IsFiniteSet(UpTo(s, x)) /\ Cardinality(UpTo(s, x)) \in Nat
<1>1. IsFiniteSet(DOMAIN s)
  <2>1. DOMAIN s = 1 .. Len(s) /\ Len(s) \in Nat
    OBVIOUS
  <2>. QED
    BY Zenon, <2>1, PrefixCount
<1>2. Before(s, x) \in SUBSET DOMAIN s /\ UpTo(s, x) \in SUBSET DOMAIN s
  BY Zenon DEF Before, UpTo
<1>. QED
  BY Zenon, <1>1, <1>2, FS_Subset, FS_CardinalityType

\* A node that is closer than another one has fewer nodes before it.
LEMMA CountsGrow ==
  ASSUME NEW s \in Seq(Nat), NEW x \in Nat, NEW y \in Nat, x < y
  PROVE  Cardinality(UpTo(s, x)) <= Cardinality(Before(s, y))
<1>1. UpTo(s, x) \in SUBSET Before(s, y)
  <2>1. \A j \in DOMAIN s : s[j] \in Nat
    OBVIOUS
  <2>. QED
    BY <2>1 DEF UpTo, Before
<1>. QED
  BY Zenon, <1>1, Counts, FS_Subset

\* Every place of the sorted list has its node.
LEMMA NthProperties ==
  ASSUME NEW s \in Seq(Nat), NEW i \in DOMAIN s
  PROVE  /\ Nth(s, i) \in Range(s) /\ Nth(s, i) \in Nat
         /\ Cardinality(Before(s, Nth(s, i))) < i
         /\ i <= Cardinality(UpTo(s, Nth(s, i)))
<1>. DEFINE S == {x \in Nat : i <= Cardinality(UpTo(s, x))}
            Fits(x) == /\ Cardinality(Before(s, x)) < i
                       /\ i <= Cardinality(UpTo(s, x))
<1>1. /\ i \in Nat /\ 1 <= i /\ i <= Len(s) /\ Len(s) \in Nat
      /\ DOMAIN s = 1 .. Len(s)
      /\ \A j \in DOMAIN s : s[j] \in Nat
  OBVIOUS
<1>2. \E x \in Nat : \A j \in DOMAIN s : s[j] <= x
  BY Zenon, <1>1, Bounded
<1>3. S # {}
  <2>1. PICK x \in Nat : \A j \in DOMAIN s : s[j] <= x
    BY <1>2
  <2>2. UpTo(s, x) = 1 .. Len(s)
    BY <2>1, <1>1 DEF UpTo
  <2>3. Cardinality(1 .. Len(s)) = Len(s)
    BY Zenon, <1>1, PrefixCount
  <2>4. x \in S
    BY <2>2, <2>3, <1>1
  <2>. QED
    BY <2>4
<1>4. PICK x \in S : \A y \in S : x <= y
  BY Zenon, <1>3, LeastNumber
<1>5. x \in Nat /\ i <= Cardinality(UpTo(s, x))
  BY Zenon, <1>4
<1>6. Cardinality(Before(s, x)) < i
  <2>1. CASE x = 0
    <3>1. Before(s, x) = {}
      BY <2>1, <1>1 DEF Before
    <3>. QED
      BY <3>1, <1>1, FS_EmptySet
  <2>2. CASE x # 0
    <3>1. x - 1 \in Nat /\ x - 1 \notin S
      BY <1>4, <1>5, <2>2
    <3>2. Before(s, x) = UpTo(s, x - 1)
      BY <1>1, <1>5, <3>1 DEF Before, UpTo
    <3>3. ~(i <= Cardinality(UpTo(s, x - 1)))
      BY Zenon, <3>1
    <3>. QED
      BY <1>1, <3>1, <3>2, <3>3, Counts
  <2>. QED
    BY <2>1, <2>2
<1>7. x \in Range(s)
  <2>1. SUFFICES ASSUME \A j \in DOMAIN s : s[j] # x
                 PROVE  FALSE
    BY Zenon DEF Range
  <2>2. UpTo(s, x) = Before(s, x)
    BY <2>1, <1>1, <1>5 DEF UpTo, Before
  <2>. QED
    BY <2>2, <1>1, <1>5, <1>6, Counts
<1>8. \E y \in Range(s) : Fits(y)
  BY Zenon, <1>5, <1>6, <1>7
<1>9. Nth(s, i) = CHOOSE y \in Range(s) : Fits(y)
  BY Zenon DEF Nth, Before, UpTo
<1>10. Nth(s, i) \in Range(s) /\ Fits(Nth(s, i))
  BY Zenon, <1>8, <1>9
<1>11. Range(s) \subseteq Nat
  BY Zenon, <1>1 DEF Range
<1>. QED
  BY Zenon, <1>10, <1>11

Sorted(s) == \A i, j \in DOMAIN s : i <= j => s[i] <= s[j]

\* sort arranges the nodes of a list in the order of their distance.
LEMMA SortProperties ==
  ASSUME NEW s \in Seq(Nat)
  PROVE  /\ sort(s) \in Seq(Nat) /\ Len(sort(s)) = Len(s)
         /\ DOMAIN sort(s) = DOMAIN s
         /\ Range(sort(s)) \subseteq Range(s)
         /\ Sorted(sort(s))
<1>1. Len(s) \in Nat /\ DOMAIN s = 1 .. Len(s)
  OBVIOUS
<1>2. DOMAIN sort(s) = DOMAIN s /\ \A i \in DOMAIN s : sort(s)[i] = Nth(s, i)
  BY Zenon DEF sort
<1>3. \A i \in DOMAIN s : Nth(s, i) \in Nat
  BY Zenon, NthProperties
<1>4. sort(s) \in Seq(Nat) /\ Len(sort(s)) = Len(s)
  BY <1>1, <1>3 DEF sort
<1>5. Range(sort(s)) \subseteq Range(s)
  <2>1. SUFFICES ASSUME NEW i \in DOMAIN s
                 PROVE  Nth(s, i) \in Range(s)
    BY Zenon, <1>2 DEF Range
  <2>. QED
    BY Zenon, NthProperties
<1>6. ASSUME NEW i \in DOMAIN s, NEW j \in DOMAIN s, i <= j
      PROVE  Nth(s, i) <= Nth(s, j)
  <2>. DEFINE x == Nth(s, i)
              y == Nth(s, j)
  <2>1. /\ x \in Nat /\ y \in Nat
        /\ Cardinality(Before(s, x)) < i
        /\ j <= Cardinality(UpTo(s, y))
    BY Zenon, NthProperties
  <2>. HIDE DEF x, y
  <2>2. SUFFICES ASSUME y < x
                 PROVE  FALSE
    BY <2>1 DEF x, y
  <2>3. Cardinality(UpTo(s, y)) <= Cardinality(Before(s, x))
    BY Zenon, <2>1, <2>2, CountsGrow
  <2>4. /\ Cardinality(UpTo(s, y)) \in Nat
        /\ Cardinality(Before(s, x)) \in Nat
    BY Zenon, <2>1, Counts
  <2>. QED
    BY <1>1, <1>6, <2>1, <2>3, <2>4
<1>7. Sorted(sort(s))
  BY Zenon, <1>2, <1>6 DEF Sorted
<1>. QED
  BY Zenon, <1>2, <1>4, <1>5, <1>7

\* The first node of the sorted list is the closest of all.
LEMMA SortedFirst ==
  ASSUME NEW s \in Seq(Nat), NEW x \in Range(s)
  PROVE  1 \in DOMAIN s /\ sort(s)[1] <= x
<1>1. PICK k \in DOMAIN s : x = s[k]
  BY Zenon DEF Range
<1>2. 1 \in DOMAIN s /\ x \in Nat
  BY <1>1
<1>3. /\ Nth(s, 1) \in Nat /\ Cardinality(Before(s, Nth(s, 1))) < 1
      /\ sort(s)[1] = Nth(s, 1)
  BY Zenon, <1>2, NthProperties DEF sort
<1>4. Cardinality(Before(s, Nth(s, 1))) = 0
  <2>1. Cardinality(Before(s, Nth(s, 1))) \in Nat
    BY Zenon, <1>3, Counts
  <2>. QED
    BY <1>3, <2>1
<1>5. Before(s, Nth(s, 1)) = {}
  BY Zenon, <1>3, <1>4, Counts, FS_EmptySet
<1>6. ~(s[k] < Nth(s, 1))
  BY Zenon, <1>1, <1>5 DEF Before
<1>. QED
  BY <1>1, <1>2, <1>3, <1>6

\* Listing lists a finite set.
LEMMA ListingProperties ==
  ASSUME NEW S \in SUBSET Nat, IsFiniteSet(S)
  PROVE  /\ Listing(S) \in Seq(Nat) /\ Range(Listing(S)) = S
         /\ Len(Listing(S)) = Cardinality(S) /\ Cardinality(S) \in Nat
<1>. DEFINE n == Cardinality(S)
            e == Listing(S)
<1>1. n \in Nat /\ ExistsBijection(1 .. n, S)
  BY Zenon, FS_CardinalityType
<1>2. PICK f \in Bijection(1 .. n, S) : TRUE
  BY Zenon, <1>1 DEF ExistsBijection
<1>3. f \in Injection(1 .. n, S)
  BY Zenon, <1>2 DEF Bijection
<1>4. e \in Injection(1 .. n, S)
  BY Zenon, <1>3 DEF Listing
<1>. HIDE DEF e
<1>5. e \in [1 .. n -> S]
  BY Zenon, <1>4 DEF Injection
<1>6. Cardinality(1 .. n) = n
  BY Zenon, <1>1, PrefixCount
<1>7. e \in Surjection(1 .. n, S)
  BY Zenon, <1>4, <1>6, FS_Injection
<1>8. Range(e) = S
  BY Zenon, <1>5, <1>7 DEF Range, Surjection
<1>. HIDE DEF n
<1>9. e \in Seq(Nat) /\ Len(e) = n
  <2>1. e \in [1 .. n -> Nat]
    BY Zenon, <1>5
  <2>. QED
    BY <1>1, <2>1
<1>. QED
  BY Zenon, <1>1, <1>8, <1>9 DEF e, n

\* The copies of a node stay when a list is sorted: nothing is lost and nothing
\* is made up.
LEMMA SortKeepsCopies ==
  ASSUME NEW s \in Seq(Nat), NEW x \in Nat
  PROVE  Cardinality({i \in DOMAIN s : sort(s)[i] = x}) =
         Cardinality({i \in DOMAIN s : s[i] = x})
<1>. DEFINE b == Cardinality(Before(s, x))
            u == Cardinality(UpTo(s, x))
            Copies == {i \in DOMAIN s : s[i] = x}
            Places == {i \in DOMAIN s : sort(s)[i] = x}
<1>1. Len(s) \in Nat /\ DOMAIN s = 1 .. Len(s) /\ \A i \in DOMAIN s : s[i] \in Nat
  OBVIOUS
<1>2. /\ b \in Nat /\ u \in Nat
      /\ IsFiniteSet(Before(s, x)) /\ IsFiniteSet(UpTo(s, x))
  BY Zenon, Counts
<1>3. /\ IsFiniteSet(Copies)
      /\ u = b + Cardinality(Copies) /\ Cardinality(Copies) \in Nat
  <2>1. Copies \in SUBSET UpTo(s, x)
    BY <1>1 DEF UpTo
  <2>2. IsFiniteSet(Copies) /\ Cardinality(Copies) \in Nat
    BY Zenon, <1>2, <2>1, FS_Subset, FS_CardinalityType
  <2>3. UpTo(s, x) = Before(s, x) \cup Copies /\ Before(s, x) \cap Copies = {}
    BY <1>1 DEF UpTo, Before
  <2>4. u = b + Cardinality(Copies) - Cardinality({})
    BY Zenon, <1>2, <2>2, <2>3, FS_Union
  <2>5. Cardinality({}) = 0
    BY Zenon, FS_EmptySet
  <2>. HIDE DEF u, b, Copies
  <2>6. u = b + Cardinality(Copies)
    BY <1>2, <2>2, <2>4, <2>5
  <2>. QED
    BY Zenon, <2>2, <2>6 DEF u, b, Copies
<1>4. u <= Len(s)
  <2>1. UpTo(s, x) \in SUBSET (1 .. Len(s))
    BY Zenon, <1>1 DEF UpTo
  <2>2. IsFiniteSet(1 .. Len(s)) /\ Cardinality(1 .. Len(s)) = Len(s)
    BY Zenon, <1>1, PrefixCount
  <2>3. Cardinality(UpTo(s, x)) <= Cardinality(1 .. Len(s))
    BY Zenon, <2>1, <2>2, FS_Subset
  <2>. QED
    BY Zenon, <2>2, <2>3
<1>5. Places = b + 1 .. u
  <2>1. ASSUME NEW i \in DOMAIN s, Nth(s, i) = x
        PROVE  i \in b + 1 .. u
    <3>1. b < i /\ i <= u
      BY Zenon, <2>1, NthProperties
    <3>. QED
      BY <1>1, <1>2, <3>1
  <2>2. ASSUME NEW i \in b + 1 .. u
        PROVE  i \in DOMAIN s /\ Nth(s, i) = x
    <3>1. i \in DOMAIN s /\ b < i /\ i <= u
      BY <1>1, <1>2, <1>4
    <3>. DEFINE y == Nth(s, i)
    <3>2. /\ y \in Nat /\ Cardinality(Before(s, y)) < i
          /\ i <= Cardinality(UpTo(s, y))
      BY Zenon, <3>1, NthProperties
    <3>. HIDE DEF y
    <3>3. ~(y < x)
      <4>1. SUFFICES ASSUME y < x
                     PROVE  FALSE
        BY Zenon
      <4>2. Cardinality(UpTo(s, y)) <= b /\ Cardinality(UpTo(s, y)) \in Nat
        BY Zenon, <3>2, <4>1, CountsGrow, Counts
      <4>. QED
        BY <1>1, <1>2, <3>1, <3>2, <4>2
    <3>4. ~(x < y)
      <4>1. SUFFICES ASSUME x < y
                     PROVE  FALSE
        BY Zenon
      <4>2. u <= Cardinality(Before(s, y)) /\ Cardinality(Before(s, y)) \in Nat
        BY Zenon, <3>2, <4>1, CountsGrow, Counts
      <4>. QED
        BY <1>1, <1>2, <3>1, <3>2, <4>2
    <3>5. y = x
      BY <3>2, <3>3, <3>4
    <3>. QED
      BY Zenon, <3>1, <3>5 DEF y
  <2>3. Places = {i \in DOMAIN s : Nth(s, i) = x}
    BY Zenon DEF sort
  <2>. QED
    BY Zenon, <2>1, <2>2, <2>3
<1>6. Cardinality(b + 1 .. u) = IF b + 1 > u THEN 0 ELSE u - (b + 1) + 1
  <2>1. b + 1 \in Int /\ u \in Int
    BY <1>2
  <2>. QED
    BY Zenon, <2>1, FS_Interval
<1>. HIDE DEF b, u, Copies, Places
<1>7. Cardinality(Places) = Cardinality(Copies)
  BY <1>2, <1>3, <1>5, <1>6
<1>. QED
  BY Zenon, <1>7 DEF Places, Copies

\* sort does what the sort of merge_nodes does: the result is in the order of
\* the distances and holds every node as often as before.
THEOREM SortIsSorting ==
  ASSUME NEW s \in Seq(Nat)
  PROVE  /\ sort(s) \in Seq(Nat) /\ Len(sort(s)) = Len(s) /\ Sorted(sort(s))
         /\ \A x \in Nat : Cardinality({i \in DOMAIN s : sort(s)[i] = x}) =
                           Cardinality({i \in DOMAIN s : s[i] = x})
  BY Zenon, SortProperties, SortKeepsCopies

-----------------------------------------------------------------------------
(* One lookup.                                                              *)

Lookup == [candidates : Seq(Nodes), queried : SUBSET Nodes,
           pending : SUBSET Txns, age : 0 .. GET_PEERS_LOOKUP_TTL,
           heard : SUBSET Nodes]

\* The candidates are sorted, fit into the list, and hold for every node that
\* the lookup has heard of that one or a closer one.
SoundCandidates(s, heard) ==
  /\ s \in Seq(Nodes) /\ Len(s) <= K /\ Sorted(s)
  /\ Range(s) \subseteq heard
  /\ \A x \in heard : \E c \in Range(s) : c <= x

SoundLookup(l) ==
  /\ l \in Lookup
  /\ SoundCandidates(l.candidates, l.heard)
  /\ l.queried \subseteq l.heard
  /\ IsFiniteSet(l.pending) /\ Cardinality(l.pending) <= LOOKUP_ALPHA

\* Cutting a sorted list at K places leaves the closest node.
LEMMA ResizeSound ==
  ASSUME NEW s \in Seq(Nodes), NEW heard \in SUBSET Nodes, Range(s) \subseteq heard,
         \A x \in heard : \E c \in Range(s) : c <= x
  PROVE  SoundCandidates(Resize(sort(s)), heard)
<1>. DEFINE t == sort(s)
            q == Resize(t)
<1>1. Nodes \subseteq Nat /\ K \in Nat \ {0}
  BY Zenon, NodesAssumption, KAssumption
<1>2. s \in Seq(Nat)
  <2>1. Len(s) \in Nat /\ s \in [1 .. Len(s) -> Nodes]
    OBVIOUS
  <2>2. s \in [1 .. Len(s) -> Nat]
    BY Zenon, <1>1, <2>1
  <2>. QED
    BY <2>1, <2>2
<1>3. /\ t \in Seq(Nat) /\ DOMAIN t = DOMAIN s
      /\ Range(t) \subseteq Range(s) /\ Sorted(t)
  BY Zenon, <1>2, SortProperties
<1>4. \A x \in Range(s) : 1 \in DOMAIN s /\ t[1] <= x
  BY Zenon, <1>2, SortedFirst
<1>. HIDE DEF t
<1>5. /\ q \in Seq(Nat) /\ Len(q) <= K /\ DOMAIN q \subseteq DOMAIN t
      /\ \A i \in DOMAIN q : q[i] = t[i]
      /\ 1 \in DOMAIN t => 1 \in DOMAIN q
  BY <1>1, <1>3 DEF Resize
<1>. HIDE DEF q
<1>6. Range(q) \subseteq Range(t)
  BY Zenon, <1>5 DEF Range
<1>7. Range(q) \subseteq heard /\ Range(q) \subseteq Nodes
  BY Zenon, <1>3, <1>6
<1>8. q \in Seq(Nodes)
  <2>1. \A i \in DOMAIN q : q[i] \in Nodes
    BY Zenon, <1>7 DEF Range
  <2>. QED
    BY <1>5, <2>1
<1>9. Sorted(q)
  BY Zenon, <1>3, <1>5 DEF Sorted
<1>10. ASSUME NEW x \in heard
       PROVE  \E c \in Range(q) : c <= x
  <2>1. PICK c \in Range(s) : c <= x
    BY Zenon
  <2>2. 1 \in DOMAIN q /\ t[1] <= c /\ q[1] = t[1]
    BY Zenon, <1>3, <1>4, <1>5, <2>1
  <2>3. c \in Nat /\ x \in Nat /\ t[1] \in Nat
    <3>1. c \in Nodes /\ x \in Nodes
      BY Zenon, <2>1
    <3>2. t[1] \in Nat
      BY <1>3, <1>5, <2>2
    <3>. QED
      BY Zenon, <1>1, <3>1, <3>2
  <2>4. q[1] <= x
    <3>1. t[1] <= x
      BY Zenon, <2>1, <2>2, <2>3, Transitivity
    <3>. QED
      BY Zenon, <2>2, <3>1
  <2>5. q[1] \in Range(q)
    BY Zenon, <2>2 DEF Range
  <2>. QED
    BY Zenon, <2>4, <2>5
<1>. QED
  BY Zenon, <1>5, <1>7, <1>8, <1>9, <1>10 DEF SoundCandidates, q, t

\* The nodes of a finite list joined to another list.
LEMMA ConcatSet ==
  ASSUME NEW s \in Seq(Nodes), NEW t \in Seq(Nodes)
  PROVE  s \o t \in Seq(Nodes) /\ Range(s \o t) = Range(s) \cup Range(t)
<1>1. /\ s \o t \in Seq(Nodes) /\ Len(s \o t) = Len(s) + Len(t)
      /\ Len(s) \in Nat /\ Len(t) \in Nat
      /\ DOMAIN s = 1 .. Len(s) /\ DOMAIN t = 1 .. Len(t)
      /\ DOMAIN (s \o t) = 1 .. Len(s) + Len(t)
  OBVIOUS
<1>2. /\ \A i \in 1 .. Len(s) : i \in DOMAIN (s \o t) /\ (s \o t)[i] = s[i]
      /\ \A i \in 1 .. Len(t) :
           Len(s) + i \in DOMAIN (s \o t) /\ (s \o t)[Len(s) + i] = t[i]
  BY <1>1
<1>3. \A i \in DOMAIN (s \o t) :
        i \in 1 .. Len(s) \/ \E j \in 1 .. Len(t) : i = Len(s) + j
  <2>1. ASSUME NEW i \in DOMAIN (s \o t), i \notin 1 .. Len(s)
        PROVE  i - Len(s) \in 1 .. Len(t) /\ i = Len(s) + (i - Len(s))
    BY <1>1, <2>1
  <2>. QED
    BY Zenon, <2>1
<1>4. Range(s) \cup Range(t) \subseteq Range(s \o t)
  BY Zenon, <1>1, <1>2 DEF Range
<1>5. ASSUME NEW x \in Range(s \o t)
      PROVE  x \in Range(s) \cup Range(t)
  <2>1. PICK i \in DOMAIN (s \o t) : x = (s \o t)[i]
    BY Zenon DEF Range
  <2>2. CASE i \in 1 .. Len(s)
    BY Zenon, <1>1, <1>2, <2>1, <2>2 DEF Range
  <2>3. CASE i \notin 1 .. Len(s)
    <3>1. PICK j \in 1 .. Len(t) : i = Len(s) + j
      BY Zenon, <1>3, <2>3
    <3>2. x = t[j]
      BY Zenon, <1>2, <2>1, <3>1
    <3>. QED
      BY Zenon, <1>1, <3>2 DEF Range
  <2>. QED
    BY Zenon, <2>2, <2>3
<1>. QED
  BY Zenon, <1>1, <1>4, <1>5

\* Listing lists a set of nodes.
LEMMA ListOfNodes ==
  ASSUME NEW nodes \in SUBSET Nodes
  PROVE  Listing(nodes) \in Seq(Nodes) /\ Range(Listing(nodes)) = nodes
<1>1. nodes \in SUBSET Nat /\ IsFiniteSet(nodes)
  BY Zenon, NodesAssumption, FS_Subset
<1>2. Listing(nodes) \in Seq(Nat) /\ Range(Listing(nodes)) = nodes
  BY Zenon, <1>1, ListingProperties
<1>3. \A i \in DOMAIN Listing(nodes) : Listing(nodes)[i] \in Nodes
  BY Zenon, <1>2 DEF Range
<1>. DEFINE e == Listing(nodes)
<1>. HIDE DEF e
<1>4. e \in Seq(Nat) /\ \A i \in DOMAIN e : e[i] \in Nodes
  BY Zenon, <1>2, <1>3 DEF e
<1>5. e \in Seq(Nodes)
  BY <1>4
<1>. QED
  BY Zenon, <1>2, <1>5 DEF e

\* merge_nodes keeps a lookup sound, and waits for the same replies.
LEMMA MergeSound ==
  ASSUME NEW l, SoundLookup(l), NEW nodes \in SUBSET Nodes
  PROVE  /\ SoundLookup(merge_nodes(l, nodes))
         /\ merge_nodes(l, nodes).pending = l.pending
<1>. DEFINE c == l.candidates \o Listing(nodes)
            hs == l.heard \cup nodes
            r == merge_nodes(l, nodes)
<1>1. l \in Lookup /\ SoundCandidates(l.candidates, l.heard)
  BY Zenon DEF SoundLookup
<1>2. l.candidates \in Seq(Nodes) /\ l.heard \subseteq Nodes
  BY Zenon, <1>1 DEF Lookup
<1>3. c \in Seq(Nodes) /\ Range(c) = Range(l.candidates) \cup nodes
  BY Zenon, <1>2, ListOfNodes, ConcatSet
<1>4. Range(c) \subseteq hs /\ hs \subseteq Nodes
  BY Zenon, <1>1, <1>2, <1>3 DEF SoundCandidates
<1>5. ASSUME NEW x \in hs
      PROVE  \E y \in Range(c) : y <= x
  <2>1. CASE x \in l.heard
    BY Zenon, <1>1, <1>3, <2>1 DEF SoundCandidates
  <2>2. CASE x \in nodes
    <3>1. x \in Nat
      BY Zenon, NodesAssumption, <1>4
    <3>2. x <= x
      BY <3>1
    <3>. QED
      BY Zenon, <1>3, <2>2, <3>2
  <2>. QED
    BY Zenon, <2>1, <2>2
<1>6. SoundCandidates(Resize(sort(c)), hs)
  BY Zenon, <1>3, <1>4, <1>5, ResizeSound
<1>7. /\ r \in Lookup
      /\ r.candidates = Resize(sort(c)) /\ r.heard = hs
      /\ r.queried = l.queried /\ r.pending = l.pending
  <2>1. Resize(sort(c)) \in Seq(Nodes)
    BY Zenon, <1>6 DEF SoundCandidates
  <2>2. r = [l EXCEPT !.candidates = Resize(sort(c)), !.heard = hs]
    BY Zenon DEF merge_nodes
  <2>3. hs \in SUBSET Nodes
    BY Zenon, <1>4
  <2>. HIDE DEF c, hs, r
  <2>. QED
    BY Zenon, <1>1, <2>1, <2>2, <2>3 DEF Lookup
<1>. QED
  BY Zenon, <1>6, <1>7 DEF SoundLookup

\* A lookup starts with the closest nodes that the routing table has.
LEMMA NewSound ==
  ASSUME NEW seeds \in SUBSET Nodes, Cardinality(seeds) <= K
  PROVE  SoundLookup(NewLookup(seeds)) /\ NewLookup(seeds).pending = {}
<1>. DEFINE e == Listing(seeds)
            t == sort(e)
            r == NewLookup(seeds)
<1>1. seeds \in SUBSET Nat /\ IsFiniteSet(seeds)
  BY Zenon, NodesAssumption, FS_Subset
<1>2. /\ e \in Seq(Nodes) /\ Range(e) = seeds /\ e \in Seq(Nat)
      /\ Len(e) = Cardinality(seeds)
  BY Zenon, <1>1, ListOfNodes, ListingProperties
<1>3. Len(t) <= K
  BY Zenon, <1>2, SortProperties
<1>4. Resize(t) = t
  BY Zenon, <1>3 DEF Resize
<1>5. \A x \in seeds : \E c \in Range(e) : c <= x
  <2>1. ASSUME NEW x \in seeds
        PROVE  x <= x
    BY <1>1
  <2>. QED
    BY Zenon, <1>2, <2>1
<1>6. SoundCandidates(t, seeds)
  BY Zenon, <1>2, <1>4, <1>5, ResizeSound
<1>7. r = [candidates |-> t, queried |-> {}, pending |-> {}, age |-> 0,
           heard |-> seeds]
  BY Zenon DEF NewLookup
<1>8. t \in Seq(Nodes) /\ 0 \in 0 .. GET_PEERS_LOOKUP_TTL
  <2>1. 0 \in 0 .. GET_PEERS_LOOKUP_TTL
    BY LimitAssumption
  <2>. QED
    BY Zenon, <1>6, <2>1 DEF SoundCandidates
<1>. HIDE DEF r, t
<1>9. /\ r \in Lookup /\ r.candidates = t /\ r.heard = seeds
      /\ r.queried = {} /\ r.pending = {}
  BY <1>7, <1>8 DEF Lookup
<1>10. IsFiniteSet({}) /\ Cardinality({}) <= LOOKUP_ALPHA
  BY LimitAssumption, FS_EmptySet
<1>11. SoundLookup(r) /\ r.pending = {}
  BY Zenon, <1>6, <1>9, <1>10 DEF SoundLookup
<1>. QED
  BY Zenon, <1>11 DEF r

-----------------------------------------------------------------------------
(* How many nodes a lookup asks at a time.                                  *)

\* A finite set of numbers has a greatest element.
LEMMA GreatestNumber ==
  ASSUME NEW S \in SUBSET Nat, IsFiniteSet(S), S # {}
  PROVE  \E x \in S : \A y \in S : y <= x
<1>. DEFINE e == Listing(S)
            B == {b \in Nat : \A y \in S : y <= b}
<1>1. e \in Seq(Nat) /\ Range(e) = S
  BY Zenon, ListingProperties
<1>2. PICK b0 \in Nat : \A j \in DOMAIN e : e[j] <= b0
  BY Zenon, <1>1, Bounded
<1>3. B \in SUBSET Nat /\ B # {}
  BY Zenon, <1>1, <1>2 DEF Range
<1>4. PICK b \in B : \A c \in B : b <= c
  BY Zenon, <1>3, LeastNumber
<1>5. b \in Nat /\ \A y \in S : y \in Nat /\ y <= b
  BY Zenon, <1>4
<1>6. b \in S
  <2>1. SUFFICES ASSUME b \notin S
                 PROVE  FALSE
    BY Zenon
  <2>2. \A y \in S : y \in Nat /\ y < b
    BY <1>5, <2>1
  <2>3. b - 1 \in Nat /\ (\A y \in S : y <= b - 1) /\ ~(b <= b - 1)
    <3>1. PICK z \in S : z \in Nat /\ z < b
      BY Zenon, <2>2
    <3>2. b - 1 \in Nat /\ ~(b <= b - 1)
      BY <1>5, <3>1
    <3>3. ASSUME NEW y \in S
          PROVE  y <= b - 1
      BY <1>5, <2>2
    <3>. QED
      BY Zenon, <3>2, <3>3
  <2>4. b - 1 \in B
    BY Zenon, <2>3
  <2>. QED
    BY Zenon, <1>4, <2>3, <2>4
<1>. QED
  BY Zenon, <1>5, <1>6

\* closest(n) finds no more than n nodes.
LEMMA ClosestCount ==
  ASSUME NEW nodes \in SUBSET Nodes, NEW n \in Nat
  PROVE  /\ Closest(nodes, n) \in SUBSET nodes /\ IsFiniteSet(Closest(nodes, n))
         /\ Cardinality(Closest(nodes, n)) \in Nat
         /\ Cardinality(Closest(nodes, n)) <= n
<1>. DEFINE c == Closest(nodes, n)
            Below(x) == {y \in nodes : y < x}
<1>1. nodes \in SUBSET Nat /\ IsFiniteSet(nodes)
  BY Zenon, NodesAssumption, FS_Subset
<1>2. c \in SUBSET nodes
  BY Zenon DEF Closest
<1>3. IsFiniteSet(c) /\ Cardinality(c) \in Nat
  BY Zenon, <1>1, <1>2, FS_Subset, FS_CardinalityType
<1>4. CASE c = {}
  <2>1. Cardinality(c) = 0
    BY Zenon, <1>4, FS_EmptySet
  <2>2. Cardinality(c) <= n
    BY <2>1
  <2>. QED
    BY Zenon, <1>2, <1>3, <2>2
<1>5. CASE c # {}
  <2>1. c \in SUBSET Nat
    BY Zenon, <1>1, <1>2
  <2>2. PICK x \in c : \A y \in c : y <= x
    BY Zenon, <1>3, <1>5, <2>1, GreatestNumber
  <2>3. Cardinality(Below(x)) < n
    BY Zenon, <2>2 DEF Closest
  <2>4. \A y \in c \ {x} : y < x
    <3>1. ASSUME NEW y \in c, y # x
          PROVE  y < x
      <4>1. y \in Nat /\ x \in Nat /\ y <= x
        BY Zenon, <2>1, <2>2
      <4>. QED
        BY <3>1, <4>1
    <3>. QED
      BY Zenon, <3>1
  <2>5. c \ {x} \in SUBSET Below(x)
    BY Zenon, <1>2, <2>4
  <2>6. IsFiniteSet(Below(x)) /\ Cardinality(Below(x)) \in Nat
    <3>1. Below(x) \in SUBSET nodes
      BY Zenon
    <3>2. IsFiniteSet(Below(x))
      BY Zenon, <1>1, <3>1, FS_Subset
    <3>. QED
      BY Zenon, <3>2, FS_CardinalityType
  <2>7. Cardinality(c \ {x}) <= Cardinality(Below(x))
    BY Zenon, <2>5, <2>6, FS_Subset
  <2>8. Cardinality(c \ {x}) = Cardinality(c) - 1
    BY Zenon, <1>3, <2>2, FS_RemoveElement
  <2>. HIDE DEF c, Below
  <2>9. Cardinality(c) <= n
    BY <1>3, <2>3, <2>6, <2>7, <2>8
  <2>. QED
    BY Zenon, <1>2, <1>3, <2>9 DEF c
<1>. QED
  BY Zenon, <1>4, <1>5

\* n random ids are at most n ids.
LEMMA DrawnIds ==
  ASSUME NEW n \in Nat, NEW d \in random_txn(n)
  PROVE  /\ Range(d) \in SUBSET Txns /\ IsFiniteSet(Range(d))
         /\ Cardinality(Range(d)) \in Nat /\ Cardinality(Range(d)) <= n
<1>1. d \in [1 .. n -> Txns]
  BY Zenon DEF random_txn
<1>2. Range(d) \in SUBSET Txns /\ d \in Surjection(1 .. n, Range(d))
  BY Zenon, <1>1 DEF Range, Surjection
<1>3. IsFiniteSet(1 .. n) /\ Cardinality(1 .. n) = n
  BY Zenon, PrefixCount
<1>4. IsFiniteSet(Range(d)) /\ Cardinality(Range(d)) <= Cardinality(1 .. n)
  BY Zenon, <1>2, <1>3, FS_Surjection
<1>5. Cardinality(Range(d)) <= n
  BY Zenon, <1>3, <1>4
<1>. QED
  BY Zenon, <1>2, <1>4, <1>5, FS_CardinalityType

\* What a lookup may still ask.
LEMMA CanSendBound ==
  ASSUME NEW l, SoundLookup(l)
  PROVE  CanSend(l) \in Nat /\ Cardinality(l.pending) + CanSend(l) <= LOOKUP_ALPHA
<1>. DEFINE p == Cardinality(l.pending)
<1>1. p \in Nat /\ p <= LOOKUP_ALPHA
  BY Zenon, FS_CardinalityType DEF SoundLookup
<1>2. CanSend(l) = IF p >= LOOKUP_ALPHA THEN 0 ELSE LOOKUP_ALPHA - p
  BY Zenon DEF CanSend
<1>. HIDE DEF p
<1>3. CanSend(l) \in Nat /\ p + CanSend(l) <= LOOKUP_ALPHA
  BY <1>1, <1>2, LimitAssumption
<1>. QED
  BY Zenon, <1>3 DEF p

\* A lookup that asks the next nodes stays sound.
LEMMA AskSound ==
  ASSUME NEW l, SoundLookup(l),
         NEW d \in random_txn(Cardinality(select_next_candidates(l, CanSend(l))))
  PROVE  SoundLookup([l EXCEPT
           !.queried = @ \cup select_next_candidates(l, CanSend(l)),
           !.pending = @ \cup Range(d)])
<1>. DEFINE nodes == select_next_candidates(l, CanSend(l))
            q == l.queried \cup nodes
            p == l.pending \cup Range(d)
            r == [l EXCEPT !.queried = q, !.pending = p]
<1>1. /\ l \in Lookup /\ SoundCandidates(l.candidates, l.heard)
      /\ l.queried \subseteq l.heard /\ IsFiniteSet(l.pending)
      /\ Cardinality(l.pending) \in Nat
  BY Zenon, FS_CardinalityType DEF SoundLookup
<1>2. /\ l.heard \subseteq Nodes /\ l.pending \subseteq Txns
      /\ Range(l.candidates) \subseteq l.heard
  BY Zenon, <1>1 DEF Lookup, SoundCandidates
<1>3. CanSend(l) \in Nat /\ Cardinality(l.pending) + CanSend(l) <= LOOKUP_ALPHA
  BY Zenon, CanSendBound
<1>4. /\ nodes \in SUBSET (Range(l.candidates) \ l.queried)
      /\ Cardinality(nodes) \in Nat /\ Cardinality(nodes) <= CanSend(l)
  <2>1. Range(l.candidates) \ l.queried \in SUBSET Nodes
    BY Zenon, <1>2
  <2>. QED
    BY Zenon, <1>3, <2>1, ClosestCount DEF select_next_candidates
<1>5. /\ Range(d) \in SUBSET Txns /\ IsFiniteSet(Range(d))
      /\ Cardinality(Range(d)) \in Nat /\ Cardinality(Range(d)) <= Cardinality(nodes)
  BY Zenon, <1>4, DrawnIds
<1>6. /\ IsFiniteSet(p)
      /\ Cardinality(p) = Cardinality(l.pending) + Cardinality(Range(d))
                            - Cardinality(l.pending \cap Range(d))
      /\ Cardinality(l.pending \cap Range(d)) \in Nat
  <2>1. l.pending \cap Range(d) \in SUBSET Range(d)
    BY Zenon
  <2>. QED
    BY Zenon, <1>1, <1>5, <2>1, FS_Union, FS_Subset, FS_CardinalityType
<1>7. q \subseteq l.heard /\ q \in SUBSET Nodes /\ p \in SUBSET Txns
  BY Zenon, <1>1, <1>2, <1>4, <1>5
<1>. HIDE DEF p, q, nodes
<1>8. Cardinality(p) <= LOOKUP_ALPHA
  BY <1>1, <1>3, <1>4, <1>5, <1>6, LimitAssumption
<1>9. /\ r \in Lookup /\ r.queried = q /\ r.pending = p
      /\ r.candidates = l.candidates /\ r.heard = l.heard
  BY Zenon, <1>1, <1>7 DEF Lookup
<1>10. SoundLookup(r)
  BY Zenon, <1>1, <1>6, <1>7, <1>8, <1>9 DEF SoundLookup
<1>. QED
  BY Zenon, <1>10 DEF p, q, nodes

\* A lookup whose candidates were all asked has asked the closest node that it
\* ever heard of.
LEMMA ExhaustedAsked ==
  ASSUME NEW l, SoundLookup(l), all_candidates_queried(l), l.heard # {}
  PROVE  \E x \in l.queried : \A y \in l.heard : x <= y
<1>1. /\ l.heard \in SUBSET Nat /\ Range(l.candidates) \subseteq l.heard
      /\ \A x \in l.heard : \E c \in Range(l.candidates) : c <= x
  BY Zenon, NodesAssumption DEF SoundLookup, SoundCandidates, Lookup
<1>2. PICK x \in l.heard : \A y \in l.heard : x <= y
  BY Zenon, <1>1, LeastNumber
<1>3. PICK c \in Range(l.candidates) : c <= x
  BY Zenon, <1>1
<1>4. c \in Nat /\ x \in Nat /\ c <= x /\ x <= c
  BY Zenon, <1>1, <1>2, <1>3
<1>5. c = x
  BY <1>4
<1>. QED
  BY Zenon, <1>2, <1>3, <1>5 DEF all_candidates_queried

-----------------------------------------------------------------------------
(* The manager's state, while an operation may be under way.                *)

Mgr(L, T, F, C) == [lookups |-> L, txns |-> T, finished |-> F, collided |-> C]

Txn == [hash : Hashes, age : 0 .. GET_PEERS_TXN_TTL]

SoundLookups(L) ==
  /\ DOMAIN L \subseteq Hashes
  /\ \A h \in DOMAIN L : SoundLookup(L[h])

SoundTxns(T) ==
  /\ DOMAIN T \subseteq Txns
  /\ \A x \in DOMAIN T : T[x] \in Txn

\* The two tables agree, except that nobody waits for the ids of X any more:
\* on_response takes the id of the reply from its lookup first, and from the
\* table of the manager last.
Routed(L, T, X) ==
  /\ X \subseteq DOMAIN T
  /\ \A h \in DOMAIN L : \A x \in L[h].pending :
       x \in DOMAIN T /\ x \notin X /\ T[x].hash = h
  /\ \A x \in DOMAIN T :
       x \notin X => T[x].hash \in DOMAIN L /\ x \in L[T[x].hash].pending

AskedClosest(F) ==
  F.heard # {} => \E x \in F.queried : \A y \in F.heard : x <= y

SoundState(L, T, F, C, X) ==
  /\ SoundLookups(L)
  /\ SoundTxns(T)
  /\ AskedClosest(F)
  /\ C \in BOOLEAN
  /\ ~C => Routed(L, T, X)

Sound(m, X) ==
  /\ m = Mgr(m.lookups, m.txns, m.finished, m.collided)
  /\ SoundState(m.lookups, m.txns, m.finished, m.collided, X)

\* The inductive invariant.
IInv ==
  /\ SoundState(kademlia_lookups_, pending_lookups_, finished, collided, {})
  /\ ticking \subseteq Hashes

\* The fields of a manager's record.
LEMMA MgrFields ==
  ASSUME NEW L, NEW T, NEW F, NEW C
  PROVE  /\ Mgr(L, T, F, C).lookups = L
         /\ Mgr(L, T, F, C).txns = T
         /\ Mgr(L, T, F, C).finished = F
         /\ Mgr(L, T, F, C).collided = C
  BY DEF Mgr

\* A manager's record is sound when its fields are.
LEMMA MgrSound ==
  ASSUME NEW L, NEW T, NEW F, NEW C, NEW X, SoundState(L, T, F, C, X)
  PROVE  Sound(Mgr(L, T, F, C), X)
<1>. DEFINE m == Mgr(L, T, F, C)
<1>1. m.lookups = L /\ m.txns = T /\ m.finished = F /\ m.collided = C
  BY DEF Mgr
<1>2. m = Mgr(m.lookups, m.txns, m.finished, m.collided)
  BY Zenon, <1>1
<1>3. SoundState(m.lookups, m.txns, m.finished, m.collided, X)
  BY Zenon, <1>1
<1>. QED
  BY Zenon, <1>2, <1>3 DEF Sound

\* What is left of a sound table is sound.
LEMMA WithoutSound ==
  ASSUME NEW f, NEW S
  PROVE  /\ SoundLookups(f) => SoundLookups(Without(f, S))
         /\ SoundTxns(f) => SoundTxns(Without(f, S))
<1>. DEFINE g == Without(f, S)
<1>1. DOMAIN g \subseteq DOMAIN f /\ \A x \in DOMAIN g : g[x] = f[x]
  BY Zenon DEF Without, Restrict
<1>. HIDE DEF g
<1>2. /\ SoundLookups(f) => SoundLookups(g)
      /\ SoundTxns(f) => SoundTxns(g)
  BY Zenon, <1>1 DEF SoundLookups, SoundTxns
<1>. QED
  BY Zenon, <1>2 DEF g

\* SetLookup on the fields of the manager ...
LEMMA SetLookupMgr ==
  ASSUME NEW L, NEW T, NEW F, NEW C, NEW h, NEW l
  PROVE  SetLookup(Mgr(L, T, F, C), h, l) = Mgr(Assign(L, {h}, l), T, F, C)
  BY DEF SetLookup, Mgr

\* A lookup is replaced by a sound one that waits for the same replies.
LEMMA SetLookupSound ==
  ASSUME NEW L, NEW T, NEW F, NEW C, NEW X, SoundState(L, T, F, C, X),
         NEW h \in Hashes, NEW l, SoundLookup(l),
         IF h \in DOMAIN L THEN l.pending = L[h].pending ELSE l.pending = {}
  PROVE  SoundState(Assign(L, {h}, l), T, F, C, X)
<1>. DEFINE M == Assign(L, {h}, l)
<1>1. /\ DOMAIN M = DOMAIN L \cup {h} /\ M[h] = l
      /\ \A g \in DOMAIN L : g # h => M[g] = L[g]
  BY Zenon DEF Assign
<1>. HIDE DEF M
<1>2. SoundLookups(M)
  BY Zenon, <1>1 DEF SoundLookups, SoundState
<1>3. ASSUME ~C
      PROVE  Routed(M, T, X)
  <2>1. Routed(L, T, X)
    BY Zenon, <1>3 DEF SoundState
  <2>2. ASSUME NEW g \in DOMAIN M, NEW x \in M[g].pending
        PROVE  g \in DOMAIN L /\ x \in L[g].pending
    BY Zenon, <1>1, <2>2
  <2>3. \A g \in DOMAIN L : g \in DOMAIN M /\ M[g].pending = L[g].pending
    BY Zenon, <1>1
  <2>. QED
    BY Zenon, <2>1, <2>2, <2>3 DEF Routed
<1>4. SoundState(M, T, F, C, X)
  BY Zenon, <1>2, <1>3 DEF SoundState
<1>. QED
  BY Zenon, <1>4 DEF M

\* Ids that no lookup waits for, or the only ones that a forgotten lookup
\* waits for, may be forgotten.
LEMMA FinishSound ==
  ASSUME NEW L, NEW T, NEW F, NEW C, NEW X, SoundState(L, T, F, C, X),
         NEW H \in SUBSET DOMAIN L, NEW G, AskedClosest(G)
  PROVE  SoundState(Without(L, H), Without(T, UNION {L[h].pending : h \in H}),
                    G, C, X)
<1>. DEFINE P == UNION {L[h].pending : h \in H}
            M == Without(L, H)
            U == Without(T, P)
<1>1. /\ DOMAIN M = DOMAIN L \ H /\ \A g \in DOMAIN L \ H : M[g] = L[g]
      /\ DOMAIN U = DOMAIN T \ P /\ \A x \in DOMAIN T \ P : U[x] = T[x]
  BY Zenon DEF Without, Restrict
<1>2. SoundLookups(M) /\ SoundTxns(U)
  BY Zenon, WithoutSound DEF SoundState
<1>3. \A x : x \in P <=> \E h \in H : x \in L[h].pending
  BY Zenon
<1>. HIDE DEF P, M, U
<1>4. ASSUME ~C
      PROVE  Routed(M, U, X)
  <2>1. Routed(L, T, X)
    BY Zenon, <1>4 DEF SoundState
  <2>2. X \subseteq DOMAIN U
    BY Zenon, <1>1, <1>3, <2>1 DEF Routed
  <2>3. ASSUME NEW g \in DOMAIN M, NEW x \in M[g].pending
        PROVE  x \in DOMAIN U /\ x \notin X /\ U[x].hash = g
    <3>1. g \in DOMAIN L /\ g \notin H /\ x \in L[g].pending
      BY Zenon, <1>1, <2>3
    <3>2. x \in DOMAIN T /\ x \notin X /\ T[x].hash = g
      BY Zenon, <2>1, <3>1 DEF Routed
    <3>3. ASSUME NEW h \in H, x \in L[h].pending
          PROVE  FALSE
      <4>1. h \in DOMAIN L
        BY Zenon
      <4>2. T[x].hash = h
        BY Zenon, <2>1, <3>3, <4>1 DEF Routed
      <4>. QED
        BY Zenon, <3>1, <3>2, <4>2
    <3>4. x \notin P
      BY Zenon, <1>3, <3>3
    <3>. QED
      BY Zenon, <1>1, <3>2, <3>4
  <2>4. ASSUME NEW x \in DOMAIN U, x \notin X
        PROVE  U[x].hash \in DOMAIN M /\ x \in M[U[x].hash].pending
    <3>1. x \in DOMAIN T /\ x \notin P /\ U[x] = T[x]
      BY Zenon, <1>1, <2>4
    <3>2. T[x].hash \in DOMAIN L /\ x \in L[T[x].hash].pending
      BY Zenon, <2>1, <2>4, <3>1 DEF Routed
    <3>3. T[x].hash \notin H
      BY Zenon, <1>3, <3>1, <3>2
    <3>. QED
      BY Zenon, <1>1, <3>1, <3>2, <3>3
  <2>. QED
    BY Zenon, <2>2, <2>3, <2>4 DEF Routed
<1>5. SoundState(M, U, G, C, X)
  BY Zenon, <1>2, <1>4 DEF SoundState
<1>. QED
  BY Zenon, <1>5 DEF P, M, U

\* ids are drawn, and a lookup waits for their replies.
LEMMA SendSound ==
  ASSUME NEW L, NEW T, NEW F, NEW C, NEW X, SoundState(L, T, F, C, X),
         NEW h \in DOMAIN L, NEW l, SoundLookup(l), NEW R \in SUBSET Txns,
         l.pending = L[h].pending \cup R, NEW D \in BOOLEAN,
         ~D => R \cap DOMAIN T = {}
  PROVE  SoundState(Assign(L, {h}, l), Assign(T, R, [hash |-> h, age |-> 0]),
                    F, C \/ D, X)
<1>. DEFINE M == Assign(L, {h}, l)
            v == [hash |-> h, age |-> 0]
            U == Assign(T, R, v)
<1>1. /\ DOMAIN M = DOMAIN L /\ M[h] = l
      /\ \A g \in DOMAIN L : g # h => M[g] = L[g]
      /\ DOMAIN U = DOMAIN T \cup R /\ \A x \in R : U[x] = v
      /\ \A x \in DOMAIN T : x \notin R => U[x] = T[x]
  BY Zenon DEF Assign
<1>2. v \in Txn /\ v.hash = h
  <2>1. h \in Hashes
    BY Zenon DEF SoundState, SoundLookups
  <2>. QED
    BY <2>1, LimitAssumption DEF Txn
<1>. HIDE DEF M, U, v
<1>3. SoundLookups(M)
  BY Zenon, <1>1 DEF SoundLookups, SoundState
<1>4. SoundTxns(U)
  BY Zenon, <1>1, <1>2 DEF SoundTxns, SoundState
<1>5. ASSUME ~(C \/ D)
      PROVE  Routed(M, U, X)
  <2>1. Routed(L, T, X) /\ R \cap DOMAIN T = {}
    BY Zenon, <1>5 DEF SoundState
  <2>2. X \subseteq DOMAIN U /\ X \cap R = {}
    BY Zenon, <1>1, <2>1 DEF Routed
  <2>3. ASSUME NEW g \in DOMAIN M, NEW x \in M[g].pending
        PROVE  x \in DOMAIN U /\ x \notin X /\ U[x].hash = g
    <3>1. CASE x \in R /\ g = h
      BY Zenon, <1>1, <1>2, <2>2, <3>1
    <3>2. CASE ~(x \in R /\ g = h)
      <4>1. g \in DOMAIN L /\ x \in L[g].pending
        BY Zenon, <1>1, <2>3, <3>2
      <4>2. x \in DOMAIN T /\ x \notin X /\ T[x].hash = g
        BY Zenon, <2>1, <4>1 DEF Routed
      <4>. QED
        BY Zenon, <1>1, <2>1, <4>2
    <3>. QED
      BY Zenon, <3>1, <3>2
  <2>4. ASSUME NEW x \in DOMAIN U, x \notin X
        PROVE  U[x].hash \in DOMAIN M /\ x \in M[U[x].hash].pending
    <3>1. CASE x \in R
      BY Zenon, <1>1, <1>2, <3>1
    <3>2. CASE x \notin R
      <4>1. x \in DOMAIN T /\ U[x] = T[x]
        BY Zenon, <1>1, <3>2
      <4>2. T[x].hash \in DOMAIN L /\ x \in L[T[x].hash].pending
        BY Zenon, <2>1, <2>4, <4>1 DEF Routed
      <4>. QED
        BY Zenon, <1>1, <4>1, <4>2
    <3>. QED
      BY Zenon, <3>1, <3>2
  <2>. QED
    BY Zenon, <2>2, <2>3, <2>4 DEF Routed
<1>6. SoundState(M, U, F, C \/ D, X)
  <2>1. (C \/ D) \in BOOLEAN /\ AskedClosest(F)
    BY Zenon DEF SoundState
  <2>. QED
    BY Zenon, <1>3, <1>4, <1>5, <2>1 DEF SoundState
<1>. QED
  BY Zenon, <1>6 DEF M, U, v

\* lookup_should_finish keeps the lookup sound.
LEMMA ReplenishedSound ==
  ASSUME NEW l, SoundLookup(l), NEW table \in SUBSET Nodes
  PROVE  /\ SoundLookup(Replenished(l, table))
         /\ Replenished(l, table).pending = l.pending
<1>1. Closest(table, K) \in SUBSET Nodes
  BY Zenon DEF Closest
<1>. QED
  BY Zenon, <1>1, MergeSound DEF Replenished

\* ... and finish_lookup.
LEMMA FinishMgr ==
  ASSUME NEW L, NEW T, NEW F, NEW C, NEW h
  PROVE  finish_lookup(Mgr(L, T, F, C), h) =
           Mgr(Without(L, {h}), Without(T, L[h].pending),
               [queried |-> L[h].queried, heard |-> L[h].heard], C)
<1>. DEFINE m == Mgr(L, T, F, C)
            g == [queried |-> L[h].queried, heard |-> L[h].heard]
<1>1. m.lookups = L /\ m.txns = T
  BY DEF Mgr
<1>2. finish_lookup(m, h) = [m EXCEPT !.lookups = Without(L, {h}),
                                      !.txns = Without(T, L[h].pending),
                                      !.finished = g]
  BY Zenon, <1>1 DEF finish_lookup
<1>. HIDE DEF g
<1>3. finish_lookup(m, h) = Mgr(Without(L, {h}), Without(T, L[h].pending), g, C)
  BY Zenon, <1>2 DEF Mgr
<1>. QED
  BY Zenon, <1>3 DEF g

\* What Send makes of a manager when the ids d are drawn.
Asked(l, nodes, d) == [l EXCEPT !.queried = @ \cup nodes,
                                !.pending = @ \cup Range(d)]

Sent(L, T, F, C, h, l, nodes, d) ==
  Mgr(Assign(L, {h}, Asked(l, nodes, d)),
      Assign(T, Range(d), [hash |-> h, age |-> 0]), F,
      C \/ Collides(Mgr(L, T, F, C), d))

\* The managers of Send are those of Sent.
LEMMA SendMgr ==
  ASSUME NEW L, NEW T, NEW F, NEW C, NEW h, NEW l, NEW nodes,
         NEW n \in Send(Mgr(L, T, F, C), h, l, nodes)
  PROVE  \E d \in random_txn(Cardinality(nodes)) : n = Sent(L, T, F, C, h, l, nodes, d)
<1>. DEFINE m == Mgr(L, T, F, C)
<1>1. PICK d \in random_txn(Cardinality(nodes)) :
        n = [SetLookup(m, h, Asked(l, nodes, d))
               EXCEPT !.txns = Assign(@, Range(d), [hash |-> h, age |-> 0]),
                      !.collided = @ \/ Collides(m, d)]
  BY Zenon DEF Send, Asked
<1>. DEFINE a == Asked(l, nodes, d)
<1>2. SetLookup(m, h, a) = Mgr(Assign(L, {h}, a), T, F, C)
  BY SetLookupMgr
<1>. DEFINE v == [hash |-> h, age |-> 0]
            c == Collides(m, d)
<1>3. n = [Mgr(Assign(L, {h}, a), T, F, C)
             EXCEPT !.txns = Assign(@, Range(d), v), !.collided = @ \/ c]
  BY Zenon, <1>1, <1>2
<1>. HIDE DEF a, v, c
<1>4. n = Mgr(Assign(L, {h}, a), Assign(T, Range(d), v), F, C \/ c)
  BY Zenon, <1>3 DEF Mgr
<1>. QED
  BY Zenon, <1>4 DEF a, v, c, Sent

\* advance_lookup keeps the state sound.
LEMMA AdvanceSound ==
  ASSUME NEW m, NEW X, Sound(m, X), NEW h \in Hashes, NEW table \in SUBSET Nodes,
         NEW n \in advance_lookup(m, h, table)
  PROVE  Sound(n, X)
<1>. DEFINE L == m.lookups
            T == m.txns
            F == m.finished
            C == m.collided
            l == Replenished(L[h], table)
            M == Assign(L, {h}, l)
<1>1. m = Mgr(L, T, F, C) /\ SoundState(L, T, F, C, X)
  BY Zenon DEF Sound
<1>. HIDE DEF L, T, F, C
<1>2. CASE h \notin DOMAIN L
  <2>1. n = m
    BY Zenon, <1>2 DEF advance_lookup, L
  <2>. QED
    BY Zenon, <2>1
<1>3. CASE h \in DOMAIN L
  <2>1. SoundLookup(L[h])
    BY Zenon, <1>1, <1>3 DEF SoundState, SoundLookups
  <2>2. SoundLookup(l) /\ l.pending = L[h].pending
    BY Zenon, <2>1, ReplenishedSound
  <2>3. n \in IF Exhausted(l) THEN {finish_lookup(SetLookup(m, h, l), h)}
             ELSE Send(m, h, l, select_next_candidates(l, CanSend(l)))
    BY Zenon, <1>3 DEF advance_lookup, L
  <2>. HIDE DEF l
  <2>4. CASE Exhausted(l)
    <3>1. n = finish_lookup(Mgr(M, T, F, C), h)
      BY <1>1, <2>3, <2>4, SetLookupMgr
    <3>2. SoundState(M, T, F, C, X)
      BY Zenon, <1>1, <1>3, <2>2, SetLookupSound
    <3>3. h \in DOMAIN M /\ M[h] = l
      BY Zenon DEF Assign
    <3>. DEFINE G == [queried |-> l.queried, heard |-> l.heard]
    <3>. HIDE DEF M
    <3>4. n = Mgr(Without(M, {h}), Without(T, l.pending), G, C)
      BY <3>1, <3>3, FinishMgr
    <3>5. AskedClosest(G)
      <4>1. G.heard = l.heard /\ G.queried = l.queried
        OBVIOUS
      <4>2. all_candidates_queried(l)
        BY Zenon, <2>4 DEF Exhausted
      <4>. QED
        BY Zenon, <2>2, <4>1, <4>2, ExhaustedAsked DEF AskedClosest
    <3>6. UNION {M[g].pending : g \in {h}} = l.pending
      BY Zenon, <3>3
    <3>7. SoundState(Without(M, {h}), Without(T, l.pending), G, C, X)
      <4>1. {h} \in SUBSET DOMAIN M
        BY Zenon, <3>3
      <4>2. SoundState(Without(M, {h}),
                       Without(T, UNION {M[g].pending : g \in {h}}), G, C, X)
        BY Zenon, <3>2, <3>5, <4>1, FinishSound
      <4>. QED
        BY Zenon, <3>6, <4>2
    <3>. QED
      BY Zenon, <3>4, <3>7, MgrSound
  <2>5. CASE ~Exhausted(l)
    <3>. DEFINE nodes == select_next_candidates(l, CanSend(l))
                v == [hash |-> h, age |-> 0]
    <3>1. n \in Send(Mgr(L, T, F, C), h, l, nodes)
      BY Zenon, <1>1, <2>3, <2>5
    <3>2. PICK d \in random_txn(Cardinality(nodes)) :
            n = Sent(L, T, F, C, h, l, nodes, d)
      BY <3>1, SendMgr
    <3>3. SoundLookup(Asked(l, nodes, d))
      BY Zenon, <2>2, AskSound DEF Asked
    <3>4. Asked(l, nodes, d).pending = L[h].pending \cup Range(d)
      BY Zenon, <2>2 DEF SoundLookup, Lookup, Asked
    <3>5. Range(d) \in SUBSET Txns
      BY Zenon DEF random_txn, Range
    <3>. DEFINE D == Collides(Mgr(L, T, F, C), d)
                a == Asked(l, nodes, d)
    <3>6. D \in BOOLEAN /\ (~D => Range(d) \cap DOMAIN T = {})
      BY MgrFields DEF Collides
    <3>. HIDE DEF D, a
    <3>7. SoundState(Assign(L, {h}, a), Assign(T, Range(d), v), F, C \/ D, X)
      <4>1. SoundLookup(a) /\ a.pending = L[h].pending \cup Range(d)
        BY Zenon, <3>3, <3>4 DEF a
      <4>. QED
        BY Zenon, <1>1, <1>3, <3>5, <3>6, <4>1, SendSound
    <3>8. n = Mgr(Assign(L, {h}, a), Assign(T, Range(d), v), F, C \/ D)
      BY Zenon, <3>2 DEF D, a, Sent
    <3>. QED
      BY Zenon, <3>7, <3>8, MgrSound
  <2>. QED
    BY Zenon, <2>4, <2>5
<1>. QED
  BY Zenon, <1>2, <1>3

\* A lookup may stop waiting for replies.
Drop(l, S) == [l EXCEPT !.pending = @ \ S]

\* ... and is sound afterwards.
LEMMA DropSound ==
  ASSUME NEW l, SoundLookup(l), NEW S
  PROVE  SoundLookup(Drop(l, S)) /\ Drop(l, S).pending = l.pending \ S
<1>. DEFINE p == l.pending \ S
            r == [l EXCEPT !.pending = p]
<1>1. /\ l \in Lookup /\ IsFiniteSet(l.pending)
      /\ Cardinality(l.pending) \in Nat /\ Cardinality(l.pending) <= LOOKUP_ALPHA
  BY Zenon, FS_CardinalityType DEF SoundLookup
<1>2. p \in SUBSET l.pending /\ l.pending \in SUBSET Txns
  BY Zenon, <1>1 DEF Lookup
<1>3. IsFiniteSet(p) /\ Cardinality(p) <= Cardinality(l.pending)
  BY Zenon, <1>1, <1>2, FS_Subset
<1>4. Cardinality(p) \in Nat
  BY Zenon, <1>3, FS_CardinalityType
<1>5. p \in SUBSET Txns
  BY Zenon, <1>2
<1>. HIDE DEF p
<1>6. Cardinality(p) <= LOOKUP_ALPHA
  BY <1>1, <1>3, <1>4, LimitAssumption
<1>7. /\ r \in Lookup /\ r.pending = p /\ r.queried = l.queried
      /\ r.candidates = l.candidates /\ r.heard = l.heard
  BY Zenon, <1>1, <1>5 DEF Lookup
<1>8. SoundLookup(r) /\ r.pending = p
  BY Zenon, <1>3, <1>6, <1>7 DEF SoundLookup
<1>. QED
  BY Zenon, <1>8 DEF p, Drop

\* Transactions that are too old are forgotten by the manager and by the
\* lookups that wait for them.
LEMMA ExpirePendingSound ==
  ASSUME NEW m, Sound(m, {})
  PROVE  Sound(expire_pending_lookups_locked(m), {})
<1>. DEFINE L == m.lookups
            T == m.txns
            F == m.finished
            C == m.collided
            dead == {x \in DOMAIN T : T[x].age >= GET_PEERS_TXN_TTL}
            Dead(h) == {x \in dead : T[x].hash = h}
            M == [h \in DOMAIN L |-> Drop(L[h], Dead(h))]
            U == Without(T, dead)
<1>1. m = Mgr(L, T, F, C) /\ SoundState(L, T, F, C, {})
  BY Zenon DEF Sound
<1>2. expire_pending_lookups_locked(m) = [m EXCEPT !.txns = U, !.lookups = M]
  BY Zenon DEF expire_pending_lookups_locked, ForgetTxns, Drop
<1>. HIDE DEF L, T, F, C
<1>3. DOMAIN M = DOMAIN L
  BY Zenon
<1>4. ASSUME NEW h \in DOMAIN L
      PROVE  SoundLookup(M[h]) /\ M[h].pending = L[h].pending \ Dead(h)
  <2>1. SoundLookup(L[h])
    BY Zenon, <1>1 DEF SoundState, SoundLookups
  <2>2. M[h] = Drop(L[h], Dead(h))
    BY Zenon
  <2>. HIDE DEF M, Dead
  <2>3. /\ SoundLookup(Drop(L[h], Dead(h)))
        /\ Drop(L[h], Dead(h)).pending = L[h].pending \ Dead(h)
    BY Zenon, <2>1, DropSound
  <2>. QED
    BY Zenon, <2>2, <2>3
<1>5. DOMAIN U = DOMAIN T \ dead /\ \A x \in DOMAIN T \ dead : U[x] = T[x]
  BY Zenon DEF Without, Restrict
<1>6. \A h, x : x \in Dead(h) <=> x \in dead /\ T[x].hash = h
  BY Zenon
<1>7. SoundTxns(U)
  BY Zenon, <1>1, WithoutSound DEF SoundState
<1>. HIDE DEF M, U, dead, Dead
<1>8. SoundLookups(M)
  BY Zenon, <1>1, <1>3, <1>4 DEF SoundState, SoundLookups
<1>9. ASSUME ~C
      PROVE  Routed(M, U, {})
  <2>1. Routed(L, T, {})
    BY Zenon, <1>1, <1>9 DEF SoundState
  <2>2. ASSUME NEW h \in DOMAIN M, NEW x \in M[h].pending
        PROVE  x \in DOMAIN U /\ x \notin {} /\ U[x].hash = h
    <3>1. h \in DOMAIN L /\ x \in L[h].pending /\ x \notin Dead(h)
      BY Zenon, <1>3, <1>4
    <3>2. x \in DOMAIN T /\ T[x].hash = h
      BY Zenon, <2>1, <3>1 DEF Routed
    <3>. QED
      BY Zenon, <1>5, <1>6, <3>1, <3>2
  <2>3. ASSUME NEW x \in DOMAIN U
        PROVE  U[x].hash \in DOMAIN M /\ x \in M[U[x].hash].pending
    <3>1. x \in DOMAIN T /\ x \notin dead /\ U[x] = T[x]
      BY Zenon, <1>5
    <3>2. T[x].hash \in DOMAIN L /\ x \in L[T[x].hash].pending
      BY Zenon, <2>1, <3>1 DEF Routed
    <3>3. x \notin Dead(T[x].hash)
      BY Zenon, <1>6, <3>1
    <3>4. x \in M[T[x].hash].pending
      BY Zenon, <1>4, <3>2, <3>3
    <3>. QED
      BY Zenon, <1>3, <3>1, <3>2, <3>4
  <2>. QED
    BY Zenon, <2>2, <2>3 DEF Routed
<1>10. SoundState(M, U, F, C, {})
  BY Zenon, <1>1, <1>7, <1>8, <1>9 DEF SoundState
<1>11. expire_pending_lookups_locked(m) = Mgr(M, U, F, C)
  BY Zenon, <1>1, <1>2 DEF Mgr
<1>. QED
  BY Zenon, <1>10, <1>11, MgrSound

\* Lookups that are too old are forgotten with their transactions.
LEMMA ExpireActiveSound ==
  ASSUME NEW m, Sound(m, {})
  PROVE  Sound(expire_active_lookups_locked(m), {})
<1>. DEFINE L == m.lookups
            T == m.txns
            F == m.finished
            C == m.collided
            H == Stale(m)
            M == Without(L, H)
            U == Without(T, UNION {L[h].pending : h \in H})
<1>1. m = Mgr(L, T, F, C) /\ SoundState(L, T, F, C, {})
  BY Zenon DEF Sound
<1>2. H \in SUBSET DOMAIN L
  BY Zenon DEF Stale
<1>3. expire_active_lookups_locked(m) = [m EXCEPT !.txns = U, !.lookups = M]
  BY Zenon DEF expire_active_lookups_locked
<1>4. AskedClosest(F)
  BY Zenon, <1>1 DEF SoundState
<1>. HIDE DEF L, T, F, C, H
<1>5. SoundState(M, U, F, C, {})
  BY Zenon, <1>1, <1>2, <1>4, FinishSound
<1>. HIDE DEF M, U
<1>6. expire_active_lookups_locked(m) = Mgr(M, U, F, C)
  BY Zenon, <1>1, <1>3 DEF Mgr
<1>. QED
  BY Zenon, <1>5, <1>6, MgrSound

\* A new lookup starts.
LEMMA StartSound ==
  ASSUME NEW m, Sound(m, {}), NEW h \in Hashes, NEW seeds \in SUBSET Nodes,
         NEW table \in SUBSET Nodes, NEW n \in StartIfNone(m, h, seeds, table)
  PROVE  Sound(n, {})
<1>. DEFINE L == m.lookups
            T == m.txns
            F == m.finished
            C == m.collided
            l == NewLookup(Closest(seeds, K))
<1>1. m = Mgr(L, T, F, C) /\ SoundState(L, T, F, C, {})
  BY Zenon DEF Sound
<1>2. CASE h \in DOMAIN L
  BY Zenon, <1>2 DEF StartIfNone
<1>3. CASE h \notin DOMAIN L
  <2>1. SoundLookup(l) /\ l.pending = {}
    <3>1. K \in Nat
      BY KAssumption
    <3>2. /\ Closest(seeds, K) \in SUBSET seeds
          /\ Cardinality(Closest(seeds, K)) <= K
      BY Zenon, <3>1, ClosestCount
    <3>3. Closest(seeds, K) \in SUBSET Nodes
      BY Zenon, <3>2
    <3>. QED
      BY Zenon, <3>2, <3>3, NewSound
  <2>2. n \in advance_lookup(SetLookup(m, h, l), h, table)
    BY Zenon, <1>3 DEF StartIfNone
  <2>. HIDE DEF L, T, F, C, l
  <2>3. SoundState(Assign(L, {h}, l), T, F, C, {})
    BY Zenon, <1>1, <1>3, <2>1, SetLookupSound
  <2>4. SetLookup(m, h, l) = Mgr(Assign(L, {h}, l), T, F, C)
    BY <1>1, SetLookupMgr
  <2>5. Sound(SetLookup(m, h, l), {})
    BY Zenon, <2>3, <2>4, MgrSound
  <2>. QED
    BY Zenon, <2>2, <2>5, AdvanceSound
<1>. QED
  BY Zenon, <1>2, <1>3

-----------------------------------------------------------------------------
(* The steps of the manager.                                                *)

\* The manager is sound between its operations.
LEMMA ManagerSound ==
  ASSUME IInv
  PROVE  Sound(manager, {})
<1>1. manager = Mgr(kademlia_lookups_, pending_lookups_, finished, collided)
  BY Zenon DEF manager, Mgr
<1>. QED
  BY Zenon, <1>1, MgrSound DEF IInv

\* An operation whose results are sound leaves the manager sound.
LEMMA BecomesSound ==
  ASSUME NEW S, \A n \in S : Sound(n, {}), BecomesOneOf(S)
  PROVE  SoundState(kademlia_lookups_', pending_lookups_', finished', collided', {})
  BY Zenon DEF BecomesOneOf, Sound

\* start_or_advance preserves the invariant.
LEMMA StartOrAdvance ==
  ASSUME IInv, NEW h \in Hashes, NEW seeds \in SUBSET Nodes,
         NEW table \in SUBSET Nodes, start_or_advance(h, seeds, table)
  PROVE  IInv'
<1>. DEFINE m == expire_active_lookups_locked(expire_pending_lookups_locked(manager))
            waiting == h \in DOMAIN m.lookups /\ m.lookups[h].pending # {}
            S == IF waiting THEN {m}
                 ELSE UNION {StartIfNone(n, h, seeds, table) :
                               n \in advance_lookup(m, h, table)}
<1>1. Sound(m, {})
  BY Zenon, ManagerSound, ExpirePendingSound, ExpireActiveSound
<1>2. BecomesOneOf(S) /\ ticking' = ticking
  BY Zenon DEF start_or_advance
<1>. HIDE DEF m
<1>3. ASSUME NEW r \in S
      PROVE  Sound(r, {})
  <2>1. CASE waiting
    BY Zenon, <1>1, <1>3, <2>1
  <2>2. CASE ~waiting
    <3>1. PICK n \in advance_lookup(m, h, table) : r \in StartIfNone(n, h, seeds, table)
      BY Zenon, <1>3, <2>2
    <3>2. Sound(n, {})
      BY Zenon, <1>1, <3>1, AdvanceSound
    <3>. QED
      BY Zenon, <3>1, <3>2, StartSound
  <2>. QED
    BY Zenon, <2>1, <2>2
<1>. HIDE DEF S
<1>4. SoundState(kademlia_lookups_', pending_lookups_', finished', collided', {})
  BY Zenon, <1>2, <1>3, BecomesSound
<1>. QED
  BY Zenon, <1>2, <1>4 DEF IInv

\* The last line of on_response: the id of the reply is forgotten.
Forget(n, txn) == [n EXCEPT !.txns = Without(@, {txn})]

\* It was exempt from the routing, or ids have collided.
LEMMA ForgetSound ==
  ASSUME NEW m, NEW X, Sound(m, X), NEW txn, m.collided \/ X = {txn}
  PROVE  Sound(Forget(m, txn), {})
<1>. DEFINE L == m.lookups
            T == m.txns
            F == m.finished
            C == m.collided
            U == Without(T, {txn})
<1>1. m = Mgr(L, T, F, C) /\ SoundState(L, T, F, C, X)
  BY Zenon DEF Sound
<1>2. Forget(m, txn) = [m EXCEPT !.txns = U]
  BY Zenon DEF Forget
<1>3. C \/ X = {txn}
  BY Zenon
<1>4. DOMAIN U = DOMAIN T \ {txn} /\ \A x \in DOMAIN T \ {txn} : U[x] = T[x]
  BY Zenon DEF Without, Restrict
<1>5. SoundTxns(U)
  BY Zenon, <1>1, WithoutSound DEF SoundState
<1>. HIDE DEF L, T, F, C, U
<1>6. Forget(m, txn) = Mgr(L, U, F, C)
  BY Zenon, <1>1, <1>2 DEF Mgr
<1>7. ASSUME ~C
      PROVE  Routed(L, U, {})
  <2>1. Routed(L, T, {txn})
    BY Zenon, <1>1, <1>3, <1>7 DEF SoundState
  <2>2. ASSUME NEW h \in DOMAIN L, NEW x \in L[h].pending
        PROVE  x \in DOMAIN U /\ x \notin {} /\ U[x].hash = h
    <3>1. x \in DOMAIN T /\ x \notin {txn} /\ T[x].hash = h
      BY Zenon, <2>1 DEF Routed
    <3>. QED
      BY Zenon, <1>4, <3>1
  <2>3. ASSUME NEW x \in DOMAIN U
        PROVE  U[x].hash \in DOMAIN L /\ x \in L[U[x].hash].pending
    <3>1. x \in DOMAIN T /\ x \notin {txn} /\ U[x] = T[x]
      BY Zenon, <1>4
    <3>2. T[x].hash \in DOMAIN L /\ x \in L[T[x].hash].pending
      BY Zenon, <2>1, <3>1 DEF Routed
    <3>. QED
      BY Zenon, <3>1, <3>2
  <2>. QED
    BY Zenon, <2>2, <2>3 DEF Routed
<1>8. SoundState(L, U, F, C, {})
  BY Zenon, <1>1, <1>5, <1>7 DEF SoundState
<1>. QED
  BY Zenon, <1>6, <1>8, MgrSound

\* on_response preserves the invariant.
LEMMA Response ==
  ASSUME IInv, NEW txn \in Txns, NEW nodes \in SUBSET Nodes,
         NEW table \in SUBSET Nodes, on_response(txn, nodes, table)
  PROVE  IInv'
<1>. DEFINE L == kademlia_lookups_
            T == pending_lookups_
            h == T[txn].hash
            k == Drop(L[h], {txn})
            l == merge_nodes(k, nodes)
            N == IF h \in DOMAIN L
                 THEN advance_lookup(SetLookup(manager, h, l), h, table)
                 ELSE {manager}
            S == {Forget(n, txn) : n \in N}
<1>1. /\ txn \in DOMAIN T /\ BecomesOneOf(S) /\ ticking' = ticking
  BY Zenon DEF on_response, Forget, Drop
<1>2. SoundState(L, T, finished, collided, {})
  BY Zenon DEF IInv
<1>3. h \in Hashes
  BY Zenon, <1>1, <1>2 DEF SoundState, SoundTxns, Txn
<1>4. CASE h \notin DOMAIN L
  <2>1. collided
    BY Zenon, <1>1, <1>2, <1>4 DEF SoundState, Routed
  <2>2. Sound(manager, {}) /\ manager.collided
    BY Zenon, <2>1, ManagerSound DEF manager
  <2>3. N = {manager}
    BY Zenon, <1>4
  <2>4. \A n \in S : Sound(n, {})
    BY Zenon, <2>2, <2>3, ForgetSound
  <2>. HIDE DEF S
  <2>5. SoundState(kademlia_lookups_', pending_lookups_', finished', collided', {})
    BY Zenon, <1>1, <2>4, BecomesSound
  <2>. QED
    BY Zenon, <1>1, <2>5 DEF IInv
<1>5. CASE h \in DOMAIN L
  <2>. DEFINE M == Assign(L, {h}, l)
  <2>1. SoundLookup(L[h])
    BY Zenon, <1>2, <1>5 DEF SoundState, SoundLookups
  <2>2. SoundLookup(k) /\ k.pending = L[h].pending \ {txn}
    BY Zenon, <2>1, DropSound
  <2>3. SoundLookup(l) /\ l.pending = L[h].pending \ {txn}
    <3>. HIDE DEF k, h
    <3>1. SoundLookup(merge_nodes(k, nodes)) /\ merge_nodes(k, nodes).pending = k.pending
      BY Zenon, <2>2, MergeSound
    <3>. QED
      BY Zenon, <2>2, <3>1
  <2>4. SetLookup(manager, h, l) = Mgr(M, T, finished, collided)
    <3>1. manager = Mgr(L, T, finished, collided)
      BY Zenon DEF manager, Mgr
    <3>. HIDE DEF l, h
    <3>. QED
      BY <3>1, SetLookupMgr
  <2>5. N = advance_lookup(SetLookup(manager, h, l), h, table)
    BY Zenon, <1>5
  <2>6. /\ DOMAIN M = DOMAIN L /\ M[h] = l
        /\ \A g \in DOMAIN L : g # h => M[g] = L[g]
    <3>. HIDE DEF l
    <3>. QED
      BY Zenon, <1>5 DEF Assign
  <2>. HIDE DEF M, l
  <2>7. SoundLookups(M)
    BY Zenon, <1>2, <2>3, <2>6 DEF SoundState, SoundLookups
  <2>8. ASSUME ~collided
        PROVE  Routed(M, T, {txn})
    <3>1. Routed(L, T, {})
      BY Zenon, <1>2, <2>8 DEF SoundState
    <3>2. ASSUME NEW g \in DOMAIN M, NEW x \in M[g].pending
          PROVE  x \in DOMAIN T /\ x \notin {txn} /\ T[x].hash = g
      <4>1. g \in DOMAIN L /\ x \in L[g].pending /\ (g = h => x # txn)
        BY Zenon, <2>3, <2>6, <3>2
      <4>2. x \in DOMAIN T /\ T[x].hash = g
        BY Zenon, <3>1, <4>1 DEF Routed
      <4>. QED
        BY Zenon, <4>1, <4>2
    <3>3. ASSUME NEW x \in DOMAIN T, x \notin {txn}
          PROVE  T[x].hash \in DOMAIN M /\ x \in M[T[x].hash].pending
      <4>1. T[x].hash \in DOMAIN L /\ x \in L[T[x].hash].pending
        BY Zenon, <3>1 DEF Routed
      <4>. QED
        BY Zenon, <2>3, <2>6, <3>3, <4>1
    <3>4. {txn} \subseteq DOMAIN T
      BY Zenon, <1>1
    <3>. QED
      BY Zenon, <3>2, <3>3, <3>4 DEF Routed
  <2>9. SoundState(M, T, finished, collided, {txn})
    BY Zenon, <1>2, <2>7, <2>8 DEF SoundState
  <2>10. Sound(SetLookup(manager, h, l), {txn})
    BY Zenon, <2>4, <2>9, MgrSound
  <2>11. \A n \in N : Sound(n, {txn})
    <3>. HIDE DEF N
    <3>. QED
      BY Zenon, <1>3, <2>5, <2>10, AdvanceSound
  <2>. HIDE DEF N
  <2>12. \A n \in S : Sound(n, {})
    BY Zenon, <2>11, ForgetSound
  <2>. HIDE DEF S
  <2>13. SoundState(kademlia_lookups_', pending_lookups_', finished', collided', {})
    BY Zenon, <1>1, <2>12, BecomesSound
  <2>. QED
    BY Zenon, <1>1, <2>13 DEF IInv
<1>. QED
  BY Zenon, <1>4, <1>5

\* tick preserves the invariant ...
LEMMA Tick ==
  ASSUME IInv, tick
  PROVE  IInv'
<1>. DEFINE S == {expire_pending_lookups_locked(manager)}
<1>1. BecomesOneOf(S) /\ ticking' = DOMAIN kademlia_lookups_
  BY Zenon DEF tick
<1>2. \A n \in S : Sound(n, {})
  BY Zenon, ManagerSound, ExpirePendingSound
<1>3. SoundState(kademlia_lookups_', pending_lookups_', finished', collided', {})
  BY Zenon, <1>1, <1>2, BecomesSound
<1>4. DOMAIN kademlia_lookups_ \subseteq Hashes
  BY Zenon DEF IInv, SoundState, SoundLookups
<1>. QED
  BY Zenon, <1>1, <1>3, <1>4 DEF IInv

\* ... and so does an iteration of its loop.
LEMMA TickOne ==
  ASSUME IInv, NEW h \in Hashes, NEW table \in SUBSET Nodes, TickLookup(h, table)
  PROVE  IInv'
<1>. DEFINE S == advance_lookup(manager, h, table)
<1>1. BecomesOneOf(S) /\ ticking' = ticking \ {h}
  BY Zenon DEF TickLookup
<1>2. \A n \in S : Sound(n, {})
  BY Zenon, ManagerSound, AdvanceSound
<1>. HIDE DEF S
<1>3. SoundState(kademlia_lookups_', pending_lookups_', finished', collided', {})
  BY Zenon, <1>1, <1>2, BecomesSound
<1>. QED
  BY Zenon, <1>1, <1>3 DEF IInv

\* expire_active_lookups preserves the invariant.
LEMMA ExpireActive ==
  ASSUME IInv, expire_active_lookups
  PROVE  IInv'
<1>. DEFINE S == {expire_active_lookups_locked(manager)}
<1>1. BecomesOneOf(S) /\ ticking' = ticking
  BY Zenon DEF expire_active_lookups
<1>2. \A n \in S : Sound(n, {})
  BY Zenon, ManagerSound, ExpireActiveSound
<1>3. SoundState(kademlia_lookups_', pending_lookups_', finished', collided', {})
  BY Zenon, <1>1, <1>2, BecomesSound
<1>. QED
  BY Zenon, <1>1, <1>3 DEF IInv

\* An age stops at its limit.
LEMMA Ages ==
  ASSUME NEW limit \in Nat, NEW age \in 0 .. limit
  PROVE  Older(age, limit) \in 0 .. limit
  BY DEF Older

\* The passing of time preserves the invariant.
LEMMA Time ==
  ASSUME IInv, TimePasses
  PROVE  IInv'
<1>. DEFINE L == kademlia_lookups_
            T == pending_lookups_
            Aged(l) == [l EXCEPT !.age = Older(@, GET_PEERS_LOOKUP_TTL)]
            AgedTxn(t) == [t EXCEPT !.age = Older(@, GET_PEERS_TXN_TTL)]
            M == [h \in DOMAIN L |-> Aged(L[h])]
            U == [x \in DOMAIN T |-> AgedTxn(T[x])]
<1>1. /\ kademlia_lookups_' = M /\ pending_lookups_' = U
      /\ UNCHANGED <<ticking, finished, collided>>
  BY Zenon DEF TimePasses
<1>2. SoundState(L, T, finished, collided, {})
  BY Zenon DEF IInv
<1>3. GET_PEERS_LOOKUP_TTL \in Nat /\ GET_PEERS_TXN_TTL \in Nat
  BY LimitAssumption
<1>4. ASSUME NEW h \in DOMAIN L
      PROVE  SoundLookup(M[h]) /\ M[h].pending = L[h].pending
  <2>. DEFINE l == L[h]
              a == Older(l.age, GET_PEERS_LOOKUP_TTL)
              r == [l EXCEPT !.age = a]
  <2>1. SoundLookup(l)
    BY Zenon, <1>2 DEF SoundState, SoundLookups
  <2>2. l \in Lookup /\ l.age \in 0 .. GET_PEERS_LOOKUP_TTL
    BY Zenon, <2>1 DEF SoundLookup, Lookup
  <2>3. a \in 0 .. GET_PEERS_LOOKUP_TTL
    BY Zenon, <1>3, <2>2, Ages
  <2>4. M[h] = r
    BY Zenon
  <2>. HIDE DEF M, l, a
  <2>5. /\ r \in Lookup /\ r.pending = l.pending /\ r.queried = l.queried
        /\ r.candidates = l.candidates /\ r.heard = l.heard
    BY Zenon, <2>2, <2>3 DEF Lookup
  <2>6. SoundLookup(r)
    BY Zenon, <2>1, <2>5 DEF SoundLookup
  <2>. QED
    BY Zenon, <2>4, <2>5, <2>6 DEF l
<1>5. ASSUME NEW x \in DOMAIN T
      PROVE  U[x] \in Txn /\ U[x].hash = T[x].hash
  <2>. DEFINE t == T[x]
              a == Older(t.age, GET_PEERS_TXN_TTL)
  <2>1. t \in Txn /\ t.age \in 0 .. GET_PEERS_TXN_TTL
    BY Zenon, <1>2 DEF SoundState, SoundTxns, Txn
  <2>2. a \in 0 .. GET_PEERS_TXN_TTL
    BY Zenon, <1>3, <2>1, Ages
  <2>3. U[x] = [t EXCEPT !.age = a]
    BY Zenon
  <2>. HIDE DEF U, t, a
  <2>4. U[x] \in Txn /\ U[x].hash = t.hash
    BY Zenon, <2>1, <2>2, <2>3 DEF Txn
  <2>. QED
    BY Zenon, <2>4 DEF t
<1>6. DOMAIN M = DOMAIN L /\ DOMAIN U = DOMAIN T
  BY Zenon
<1>. HIDE DEF M, U
<1>7. SoundLookups(M) /\ SoundTxns(U)
  BY Zenon, <1>2, <1>4, <1>5, <1>6 DEF SoundState, SoundLookups, SoundTxns
<1>8. ASSUME ~collided
      PROVE  Routed(M, U, {})
  <2>1. Routed(L, T, {})
    BY Zenon, <1>2, <1>8 DEF SoundState
  <2>2. ASSUME NEW h \in DOMAIN M, NEW x \in M[h].pending
        PROVE  x \in DOMAIN U /\ x \notin {} /\ U[x].hash = h
    <3>1. h \in DOMAIN L /\ x \in L[h].pending
      BY Zenon, <1>4, <1>6
    <3>2. x \in DOMAIN T /\ T[x].hash = h
      BY Zenon, <2>1, <3>1 DEF Routed
    <3>. QED
      BY Zenon, <1>5, <1>6, <3>2
  <2>3. ASSUME NEW x \in DOMAIN U
        PROVE  U[x].hash \in DOMAIN M /\ x \in M[U[x].hash].pending
    <3>1. T[x].hash \in DOMAIN L /\ x \in L[T[x].hash].pending
      BY Zenon, <1>6, <2>1 DEF Routed
    <3>2. U[x].hash = T[x].hash
      BY Zenon, <1>5, <1>6
    <3>. QED
      BY Zenon, <1>4, <1>6, <3>1, <3>2
  <2>. QED
    BY Zenon, <2>2, <2>3 DEF Routed
<1>9. SoundState(M, U, finished, collided, {})
  BY Zenon, <1>2, <1>7, <1>8 DEF SoundState
<1>. QED
  BY Zenon, <1>1, <1>9 DEF IInv

\* The invariant holds of the empty manager ...
LEMMA InitIInv ==
  ASSUME Init
  PROVE  IInv
<1>1. /\ kademlia_lookups_ = Empty /\ pending_lookups_ = Empty /\ ticking = {}
      /\ finished = None /\ collided = FALSE
  BY Zenon DEF Init
<1>2. DOMAIN Empty = {} /\ None.heard = {}
  BY DEF Empty, None
<1>3. SoundLookups(Empty) /\ SoundTxns(Empty) /\ Routed(Empty, Empty, {})
  BY Zenon, <1>2 DEF SoundLookups, SoundTxns, Routed
<1>4. AskedClosest(None)
  BY Zenon, <1>2 DEF AskedClosest
<1>5. FALSE \in BOOLEAN
  BY Zenon
<1>6. SoundState(Empty, Empty, None, FALSE, {})
  BY Zenon, <1>3, <1>4, <1>5 DEF SoundState
<1>. QED
  BY Zenon, <1>1, <1>6 DEF IInv

\* ... and is preserved by every step.
LEMMA NextIInv ==
  ASSUME IInv, [Next]_vars
  PROVE  IInv'
<1>1. CASE UNCHANGED vars
  BY Zenon, <1>1 DEF vars, IInv, SoundState
<1>2. CASE Next
  <2>1. CASE \E table \in SUBSET Nodes, h \in Hashes, seeds \in SUBSET Nodes :
               start_or_advance(h, seeds, table)
    BY Zenon, <2>1, StartOrAdvance
  <2>2. CASE \E table \in SUBSET Nodes, txn \in Txns, nodes \in SUBSET Nodes :
               on_response(txn, nodes, table)
    BY Zenon, <2>2, Response
  <2>3. CASE \E table \in SUBSET Nodes, h \in Hashes : TickLookup(h, table)
    BY Zenon, <2>3, TickOne
  <2>4. CASE tick
    BY Zenon, <2>4, Tick
  <2>5. CASE expire_active_lookups
    BY Zenon, <2>5, ExpireActive
  <2>6. CASE TimePasses
    BY Zenon, <2>6, Time
  <2>. QED
    BY Zenon, <1>2, <2>1, <2>2, <2>3, <2>4, <2>5, <2>6 DEF Next
<1>. QED
  BY Zenon, <1>1, <1>2

-----------------------------------------------------------------------------
(* What the manager guarantees.                                             *)

\* The inductive invariant holds in every state of the manager.
THEOREM LookupsAreSound == Spec => []IInv
<1>1. Init => IInv
  BY InitIInv
<1>2. IInv /\ [Next]_vars => IInv'
  BY NextIInv
<1>. QED
  BY <1>1, <1>2, PTL DEF Spec

\* The tables of the manager have the shapes that its operations expect: the
\* lists of candidates keep to RoutingTable::K, only nodes that were heard of
\* are asked, no age passes its limit.
THEOREM LookupsWellTyped == Spec => []TypeOK
<1>1. IInv => TypeOK
  <2>1. SUFFICES ASSUME IInv
                 PROVE  TypeOK
    BY Zenon
  <2>2. SoundState(kademlia_lookups_, pending_lookups_, finished, collided, {})
    BY Zenon, <2>1 DEF IInv
  <2>3. ASSUME NEW h \in DOMAIN kademlia_lookups_
        PROVE  LET l == kademlia_lookups_[h]
               IN  /\ l.candidates \in Seq(Nodes) /\ Len(l.candidates) <= K
                   /\ l.queried \subseteq l.heard /\ l.heard \subseteq Nodes
                   /\ l.pending \subseteq Txns
                   /\ l.age \in 0 .. GET_PEERS_LOOKUP_TTL
    <3>1. SoundLookup(kademlia_lookups_[h])
      BY Zenon, <2>2 DEF SoundState, SoundLookups
    <3>. QED
      BY Zenon, <3>1 DEF SoundLookup, SoundCandidates, Lookup
  <2>4. ASSUME NEW x \in DOMAIN pending_lookups_
        PROVE  /\ pending_lookups_[x].hash \in Hashes
               /\ pending_lookups_[x].age \in 0 .. GET_PEERS_TXN_TTL
    BY Zenon, <2>2 DEF SoundState, SoundTxns, Txn
  <2>5. /\ DOMAIN kademlia_lookups_ \subseteq Hashes /\ ticking \subseteq Hashes
        /\ DOMAIN pending_lookups_ \subseteq Txns /\ collided \in BOOLEAN
    BY Zenon, <2>1, <2>2 DEF IInv, SoundState, SoundLookups, SoundTxns
  <2>. QED
    BY Zenon, <2>3, <2>4, <2>5 DEF TypeOK
<1>. QED
  BY <1>1, LookupsAreSound, PTL

\* The pending set of a KademliaLookup and pending_lookups_ agree as long as
\* random_txn drew no id that was in use: no reply is dropped or routed to
\* another lookup, and no lookup waits for a reply that nobody would give it.
THEOREM RepliesAreRouted == Spec => []TxnsRouted
<1>1. IInv => TxnsRouted
  BY Zenon DEF IInv, SoundState, Routed, TxnsRouted
<1>. QED
  BY <1>1, LookupsAreSound, PTL

\* A lookup that ends because its candidates are exhausted has asked the
\* closest node that anybody ever told it of, although merge_nodes sorts and
\* cuts the list at every reply.
THEOREM ExhaustedLookupsAskedClosest == Spec => []ClosestIsAsked
<1>1. IInv => ClosestIsAsked
  BY Zenon DEF IInv, SoundState, AskedClosest, ClosestIsAsked
<1>. QED
  BY <1>1, LookupsAreSound, PTL

\* A lookup never has more than LOOKUP_ALPHA queries in flight, whether or not
\* ids collide: advance_lookup counts what is pending before it sends.
AlphaKept ==
  \A h \in DOMAIN kademlia_lookups_ :
    /\ IsFiniteSet(kademlia_lookups_[h].pending)
    /\ Cardinality(kademlia_lookups_[h].pending) <= LOOKUP_ALPHA

\* The bound on parallel queries of advance_lookup is kept (AlphaKept).
THEOREM AtMostAlphaQueries == Spec => []AlphaKept
<1>1. IInv => AlphaKept
  BY Zenon DEF IInv, SoundState, SoundLookups, SoundLookup, AlphaKept
<1>. QED
  BY <1>1, LookupsAreSound, PTL

\* The candidates of a lookup are always in the order of their distance, are
\* nodes that it was told of, and begin with the closest of all of these: what
\* resize throws away is never the node that the lookup is for.
FirstIsClosest ==
  \A h \in DOMAIN kademlia_lookups_ :
    LET l == kademlia_lookups_[h]
    IN  /\ \A i, j \in DOMAIN l.candidates :
             i <= j => l.candidates[i] <= l.candidates[j]
        /\ Range(l.candidates) \subseteq l.heard
        /\ \A x \in l.heard : Len(l.candidates) > 0 /\ l.candidates[1] <= x

\* The list of candidates is sorted and begins with the closest node
\* (FirstIsClosest).
THEOREM CandidatesBeginWithClosest == Spec => []FirstIsClosest
<1>1. ASSUME IInv, NEW h \in DOMAIN kademlia_lookups_
      PROVE  LET l == kademlia_lookups_[h]
             IN  /\ \A i, j \in DOMAIN l.candidates :
                      i <= j => l.candidates[i] <= l.candidates[j]
                 /\ Range(l.candidates) \subseteq l.heard
                 /\ \A x \in l.heard : Len(l.candidates) > 0 /\ l.candidates[1] <= x
  <2>. DEFINE s == kademlia_lookups_[h].candidates
              H == kademlia_lookups_[h].heard
  <2>1. SoundLookup(kademlia_lookups_[h])
    BY Zenon, <1>1 DEF IInv, SoundState, SoundLookups
  <2>2. SoundCandidates(s, H) /\ H \in SUBSET Nat
    BY Zenon, <2>1, NodesAssumption DEF SoundLookup, Lookup
  <2>. HIDE DEF s, H
  <2>3. /\ s \in Seq(Nodes) /\ Sorted(s) /\ Range(s) \subseteq H
        /\ \A x \in H : \E c \in Range(s) : c <= x
    BY Zenon, <2>2 DEF SoundCandidates
  <2>4. \A i, j \in DOMAIN s : i <= j => s[i] <= s[j]
    BY Zenon, <2>3 DEF Sorted
  <2>5. ASSUME NEW x \in H
        PROVE  Len(s) > 0 /\ s[1] <= x
    <3>1. PICK c \in Range(s) : c <= x
      BY Zenon, <2>3
    <3>2. PICK i \in DOMAIN s : c = s[i]
      BY Zenon DEF Range
    <3>3. 1 \in DOMAIN s /\ 1 <= i /\ Len(s) > 0
      BY <2>3, <3>2
    <3>4. s[1] <= c /\ s[1] \in Range(s)
      BY Zenon, <2>4, <3>2, <3>3 DEF Range
    <3>5. /\ s[1] \in Nat /\ c \in Nat /\ x \in Nat
      BY Zenon, <2>2, <2>3, <3>1, <3>4
    <3>6. s[1] <= x
      BY Zenon, <3>1, <3>4, <3>5, Transitivity
    <3>. QED
      BY Zenon, <3>3, <3>6
  <2>. QED
    BY Zenon, <2>3, <2>4, <2>5 DEF s, H
<1>2. IInv => FirstIsClosest
  BY Zenon, <1>1 DEF FirstIsClosest
<1>. QED
  BY <1>2, LookupsAreSound, PTL

-----------------------------------------------------------------------------
(* What a step may do to a lookup that goes on.                             *)

\* An operation neither makes a lookup younger nor lets it forget a node.
Continues(l, k) ==
  k.age = l.age /\ l.queried \subseteq k.queried /\ l.heard \subseteq k.heard

\* The lookups of M are those of L, or new ones.
Keeps(L, M) ==
  \A h \in DOMAIN M : (h \in DOMAIN L /\ Continues(L[h], M[h])) \/ M[h].age = 0

\* Operations can be combined.
LEMMA KeepsTransitive ==
  ASSUME NEW L, NEW M, NEW N, Keeps(L, M), Keeps(M, N)
  PROVE  Keeps(L, N)
<1>1. ASSUME NEW h \in DOMAIN N
      PROVE  (h \in DOMAIN L /\ Continues(L[h], N[h])) \/ N[h].age = 0
  <2>1. CASE N[h].age = 0
    BY Zenon, <2>1
  <2>2. CASE h \in DOMAIN M /\ Continues(M[h], N[h])
    <3>1. (h \in DOMAIN L /\ Continues(L[h], M[h])) \/ M[h].age = 0
      BY Zenon, <2>2 DEF Keeps
    <3>. QED
      BY Zenon, <2>2, <3>1 DEF Continues
  <2>. QED
    BY Zenon, <2>1, <2>2 DEF Keeps
<1>. QED
  BY Zenon, <1>1 DEF Keeps

\* Removing lookups leaves the others as they are.
LEMMA KeepsWithout ==
  ASSUME NEW L, NEW S
  PROVE  Keeps(L, L) /\ Keeps(L, Without(L, S))
<1>1. \A l : Continues(l, l)
  BY Zenon DEF Continues
<1>. DEFINE M == Without(L, S)
<1>2. \A h \in DOMAIN M : h \in DOMAIN L /\ M[h] = L[h]
  BY Zenon DEF Without, Restrict
<1>. HIDE DEF M
<1>3. Keeps(L, L) /\ Keeps(L, M)
  BY Zenon, <1>1, <1>2 DEF Keeps
<1>. QED
  BY Zenon, <1>3 DEF M

\* Replacing one lookup leaves the others as they are.
LEMMA KeepsAssign ==
  ASSUME NEW L, NEW h, NEW l,
         (h \in DOMAIN L /\ Continues(L[h], l)) \/ l.age = 0
  PROVE  Keeps(L, Assign(L, {h}, l))
<1>. DEFINE M == Assign(L, {h}, l)
<1>1. /\ DOMAIN M = DOMAIN L \cup {h} /\ M[h] = l
      /\ \A g \in DOMAIN L : g # h => M[g] = L[g]
  BY Zenon DEF Assign
<1>2. \A k : Continues(k, k)
  BY Zenon DEF Continues
<1>. HIDE DEF M
<1>3. Keeps(L, M)
  BY Zenon, <1>1, <1>2 DEF Keeps
<1>. QED
  BY Zenon, <1>3 DEF M

\* merge_nodes adds nodes and removes none of those that were heard of.
LEMMA MergeContinues ==
  ASSUME NEW l, SoundLookup(l), NEW nodes
  PROVE  Continues(l, merge_nodes(l, nodes))
<1>. DEFINE c == Resize(sort(l.candidates \o Listing(nodes)))
            hs == l.heard \cup nodes
            r == merge_nodes(l, nodes)
<1>1. r = [l EXCEPT !.candidates = c, !.heard = hs]
  BY Zenon DEF merge_nodes
<1>2. l \in Lookup /\ l.heard \subseteq hs
  BY Zenon DEF SoundLookup
<1>. HIDE DEF c, hs, r
<1>3. r.age = l.age /\ r.queried = l.queried /\ r.heard = hs
  BY Zenon, <1>1, <1>2 DEF Lookup
<1>4. Continues(l, r)
  BY Zenon, <1>2, <1>3 DEF Continues
<1>. QED
  BY Zenon, <1>4 DEF r

\* lookup_should_finish adds nodes, if anything.
LEMMA ReplenishedContinues ==
  ASSUME NEW l, SoundLookup(l), NEW table
  PROVE  Continues(l, Replenished(l, table))
<1>1. Continues(l, l)
  BY Zenon DEF Continues
<1>. QED
  BY Zenon, <1>1, MergeContinues DEF Replenished

\* A lookup that stops waiting for replies forgets nothing else.
LEMMA DropContinues ==
  ASSUME NEW l, SoundLookup(l), NEW S
  PROVE  Continues(l, Drop(l, S))
<1>1. l \in Lookup
  BY Zenon DEF SoundLookup
<1>2. /\ Drop(l, S).age = l.age /\ Drop(l, S).queried = l.queried
      /\ Drop(l, S).heard = l.heard
  BY Zenon, <1>1 DEF Drop, Lookup
<1>. QED
  BY Zenon, <1>2 DEF Continues

\* Asking nodes adds them to those that were asked.
LEMMA AskedContinues ==
  ASSUME NEW l, SoundLookup(l), NEW nodes, NEW d
  PROVE  Continues(l, Asked(l, nodes, d))
<1>. DEFINE q == l.queried \cup nodes
            w == l.pending \cup Range(d)
            r == Asked(l, nodes, d)
<1>1. r = [l EXCEPT !.queried = q, !.pending = w]
  BY Zenon DEF Asked
<1>2. l \in Lookup /\ l.queried \subseteq q
  BY Zenon DEF SoundLookup
<1>. HIDE DEF q, w, r
<1>3. r.age = l.age /\ r.queried = q /\ r.heard = l.heard
  BY Zenon, <1>1, <1>2 DEF Lookup
<1>4. Continues(l, r)
  BY Zenon, <1>2, <1>3 DEF Continues
<1>. QED
  BY Zenon, <1>4 DEF r

\* What continues a lookup that continues another continues that one.
LEMMA ContinuesTransitive ==
  ASSUME NEW l, NEW k, NEW r, Continues(l, k), Continues(k, r)
  PROVE  Continues(l, r)
  BY Zenon DEF Continues

\* A record with the fields of a manager.
IsMgr(n) == n = Mgr(n.lookups, n.txns, n.finished, n.collided)

\* advance_lookup refills the lookup, asks nodes for it or ends it.
LEMMA AdvanceKeeps ==
  ASSUME NEW L, NEW T, NEW F, NEW C, SoundLookups(L), NEW h,
         NEW table \in SUBSET Nodes,
         NEW n \in advance_lookup(Mgr(L, T, F, C), h, table)
  PROVE  Keeps(L, n.lookups) /\ IsMgr(n)
<1>. DEFINE m == Mgr(L, T, F, C)
            l == Replenished(L[h], table)
<1>0. ASSUME NEW L2, NEW T2, NEW F2, NEW C2, n = Mgr(L2, T2, F2, C2)
      PROVE  n.lookups = L2 /\ IsMgr(n)
  BY <1>0, MgrFields DEF IsMgr
<1>1. m.lookups = L
  BY MgrFields
<1>2. CASE h \notin DOMAIN L
  <2>1. n = m
    BY Zenon, <1>1, <1>2 DEF advance_lookup
  <2>. QED
    BY Zenon, <1>0, <1>1, <2>1, KeepsWithout
<1>3. CASE h \in DOMAIN L
  <2>1. SoundLookup(L[h])
    BY Zenon, <1>3 DEF SoundLookups
  <2>2. SoundLookup(l) /\ Continues(L[h], l)
    BY Zenon, <2>1, ReplenishedSound, ReplenishedContinues
  <2>3. n \in IF Exhausted(l) THEN {finish_lookup(SetLookup(m, h, l), h)}
             ELSE Send(m, h, l, select_next_candidates(l, CanSend(l)))
    BY Zenon, <1>1, <1>3 DEF advance_lookup
  <2>. HIDE DEF l
  <2>4. CASE Exhausted(l)
    <3>. DEFINE M == Assign(L, {h}, l)
    <3>1. n = finish_lookup(Mgr(M, T, F, C), h)
      BY <2>3, <2>4, SetLookupMgr
    <3>2. n.lookups = Without(M, {h}) /\ IsMgr(n)
      <4>. HIDE DEF M
      <4>1. finish_lookup(Mgr(M, T, F, C), h) =
              Mgr(Without(M, {h}), Without(T, M[h].pending),
                  [queried |-> M[h].queried, heard |-> M[h].heard], C)
        BY FinishMgr
      <4>. QED
        BY <1>0, <3>1, <4>1
    <3>3. Keeps(L, M)
      BY Zenon, <1>3, <2>2, KeepsAssign
    <3>. HIDE DEF M
    <3>4. Keeps(M, Without(M, {h}))
      BY Zenon, KeepsWithout
    <3>5. Keeps(L, Without(M, {h}))
      BY Zenon, <3>3, <3>4, KeepsTransitive
    <3>. QED
      BY Zenon, <3>2, <3>5
  <2>5. CASE ~Exhausted(l)
    <3>. DEFINE nodes == select_next_candidates(l, CanSend(l))
    <3>1. n \in Send(Mgr(L, T, F, C), h, l, nodes)
      BY Zenon, <2>3, <2>5
    <3>. HIDE DEF nodes
    <3>2. PICK d \in random_txn(Cardinality(nodes)) :
            n = Sent(L, T, F, C, h, l, nodes, d)
      BY <3>1, SendMgr
    <3>. DEFINE a == Asked(l, nodes, d)
    <3>3. n.lookups = Assign(L, {h}, a) /\ IsMgr(n)
      BY <1>0, <3>2 DEF Sent
    <3>4. Continues(l, a)
      BY Zenon, <2>2, AskedContinues
    <3>. HIDE DEF a
    <3>5. Continues(L[h], a)
      BY Zenon, <2>2, <3>4, ContinuesTransitive
    <3>6. Keeps(L, Assign(L, {h}, a))
      BY Zenon, <1>3, <3>5, KeepsAssign
    <3>. QED
      BY Zenon, <3>3, <3>6
  <2>. QED
    BY Zenon, <2>4, <2>5
<1>. QED
  BY Zenon, <1>2, <1>3

\* Forgetting transactions leaves the lookups what they are.
LEMMA ExpirePendingKeeps ==
  ASSUME NEW m, Sound(m, {})
  PROVE  Keeps(m.lookups, expire_pending_lookups_locked(m).lookups)
<1>. DEFINE L == m.lookups
            T == m.txns
            F == m.finished
            C == m.collided
            dead == {x \in DOMAIN T : T[x].age >= GET_PEERS_TXN_TTL}
            Dead(h) == {x \in dead : T[x].hash = h}
            M == [h \in DOMAIN L |-> Drop(L[h], Dead(h))]
            U == Without(T, dead)
<1>1. m = Mgr(L, T, F, C) /\ SoundLookups(L)
  BY Zenon DEF Sound, SoundState
<1>2. expire_pending_lookups_locked(m) = [m EXCEPT !.txns = U, !.lookups = M]
  BY Zenon DEF expire_pending_lookups_locked, ForgetTxns, Drop
<1>. HIDE DEF L, T, F, C
<1>3. \A h \in DOMAIN M : h \in DOMAIN L /\ Continues(L[h], M[h])
  <2>1. ASSUME NEW h \in DOMAIN M
        PROVE  h \in DOMAIN L /\ M[h] = Drop(L[h], Dead(h)) /\ SoundLookup(L[h])
    BY Zenon, <1>1 DEF SoundLookups
  <2>. HIDE DEF M, Dead
  <2>. QED
    BY Zenon, <2>1, DropContinues
<1>. HIDE DEF M, U
<1>4. expire_pending_lookups_locked(m).lookups = M
  BY Zenon, <1>1, <1>2 DEF Mgr
<1>5. Keeps(L, M)
  BY Zenon, <1>3 DEF Keeps
<1>. QED
  BY Zenon, <1>4, <1>5 DEF L

\* expire_active_lookups_locked removes the lookups that are too old, and
\* leaves the others what they are.
LEMMA ExpireActiveKeeps ==
  ASSUME NEW m, Sound(m, {})
  PROVE  LET M == expire_active_lookups_locked(m).lookups
         IN  /\ Keeps(m.lookups, M)
             /\ \A h \in DOMAIN M : M[h].age < GET_PEERS_LOOKUP_TTL
<1>. DEFINE L == m.lookups
            T == m.txns
            H == Stale(m)
            M == Without(L, H)
            U == Without(T, UNION {L[h].pending : h \in H})
<1>1. m = Mgr(L, T, m.finished, m.collided) /\ SoundLookups(L)
  BY Zenon DEF Sound, SoundState
<1>2. expire_active_lookups_locked(m) = [m EXCEPT !.txns = U, !.lookups = M]
  BY Zenon DEF expire_active_lookups_locked
<1>3. H = {h \in DOMAIN L : L[h].age >= GET_PEERS_LOOKUP_TTL}
  BY Zenon DEF Stale
<1>. HIDE DEF L, T, H
<1>4. Keeps(L, M)
  BY Zenon, KeepsWithout
<1>5. ASSUME NEW h \in DOMAIN M
      PROVE  M[h].age < GET_PEERS_LOOKUP_TTL
  <2>1. h \in DOMAIN L /\ M[h] = L[h] /\ ~(L[h].age >= GET_PEERS_LOOKUP_TTL)
    BY Zenon, <1>3 DEF Without, Restrict
  <2>2. L[h].age \in 0 .. GET_PEERS_LOOKUP_TTL
    BY Zenon, <1>1, <2>1 DEF SoundLookups, SoundLookup, Lookup
  <2>. QED
    BY <2>1, <2>2, LimitAssumption
<1>. HIDE DEF M, U
<1>6. expire_active_lookups_locked(m).lookups = M
  BY Zenon, <1>1, <1>2 DEF Mgr
<1>. QED
  BY Zenon, <1>4, <1>5, <1>6 DEF L

\* A lookup that starts is new.
LEMMA StartKeeps ==
  ASSUME NEW m, Sound(m, {}), NEW h \in Hashes, NEW seeds \in SUBSET Nodes,
         NEW table \in SUBSET Nodes, NEW n \in StartIfNone(m, h, seeds, table)
  PROVE  Keeps(m.lookups, n.lookups)
<1>. DEFINE L == m.lookups
            T == m.txns
            F == m.finished
            C == m.collided
            l == NewLookup(Closest(seeds, K))
            M == Assign(L, {h}, l)
<1>1. m = Mgr(L, T, F, C) /\ SoundLookups(L)
  BY Zenon DEF Sound, SoundState
<1>2. CASE h \in DOMAIN L
  <2>1. n = m
    BY Zenon, <1>2 DEF StartIfNone
  <2>. QED
    BY Zenon, <2>1, KeepsWithout
<1>3. CASE h \notin DOMAIN L
  <2>1. SoundLookup(l)
    <3>1. K \in Nat
      BY KAssumption
    <3>2. /\ Closest(seeds, K) \in SUBSET seeds
          /\ Cardinality(Closest(seeds, K)) <= K
      BY Zenon, <3>1, ClosestCount
    <3>3. Closest(seeds, K) \in SUBSET Nodes
      BY Zenon, <3>2
    <3>. QED
      BY Zenon, <3>2, <3>3, NewSound
  <2>2. l.age = 0
    BY Zenon DEF NewLookup
  <2>3. n \in advance_lookup(SetLookup(m, h, l), h, table)
    BY Zenon, <1>3 DEF StartIfNone
  <2>. HIDE DEF L, T, F, C, l
  <2>4. Keeps(L, M)
    BY Zenon, <2>2, KeepsAssign
  <2>5. SetLookup(m, h, l) = Mgr(M, T, F, C)
    BY <1>1, SetLookupMgr
  <2>6. SoundLookups(M)
    BY Zenon, <1>1, <2>1 DEF Assign, SoundLookups
  <2>. HIDE DEF M
  <2>7. n \in advance_lookup(Mgr(M, T, F, C), h, table)
    BY Zenon, <2>3, <2>5
  <2>8. Keeps(M, n.lookups)
    BY Zenon, <2>6, <2>7, AdvanceKeeps
  <2>9. Keeps(L, n.lookups)
    BY Zenon, <2>4, <2>8, KeepsTransitive
  <2>. QED
    BY Zenon, <2>9 DEF L
<1>. QED
  BY Zenon, <1>2, <1>3

\* The fields of the manager.
LEMMA ManagerFields ==
  /\ manager = Mgr(kademlia_lookups_, pending_lookups_, finished, collided)
  /\ manager.lookups = kademlia_lookups_
  BY Zenon DEF manager, Mgr

\* start_or_advance keeps the lookups, or starts one.
LEMMA StartOrAdvanceKeeps ==
  ASSUME IInv, NEW h \in Hashes, NEW seeds \in SUBSET Nodes,
         NEW table \in SUBSET Nodes, start_or_advance(h, seeds, table)
  PROVE  Keeps(kademlia_lookups_, kademlia_lookups_')
<1>. DEFINE m1 == expire_pending_lookups_locked(manager)
            m == expire_active_lookups_locked(m1)
            waiting == h \in DOMAIN m.lookups /\ m.lookups[h].pending # {}
            S == IF waiting THEN {m}
                 ELSE UNION {StartIfNone(n, h, seeds, table) :
                               n \in advance_lookup(m, h, table)}
<1>1. Sound(manager, {}) /\ Sound(m1, {}) /\ Sound(m, {})
  BY Zenon, ManagerSound, ExpirePendingSound, ExpireActiveSound
<1>2. BecomesOneOf(S)
  BY Zenon DEF start_or_advance
<1>3. Keeps(kademlia_lookups_, m1.lookups)
  BY Zenon, <1>1, ManagerFields, ExpirePendingKeeps
<1>4. Keeps(m1.lookups, m.lookups)
  <2>. HIDE DEF m1
  <2>. QED
    BY Zenon, <1>1, ExpireActiveKeeps
<1>. HIDE DEF m, m1
<1>5. Keeps(kademlia_lookups_, m.lookups)
  BY Zenon, <1>3, <1>4, KeepsTransitive
<1>6. ASSUME NEW r \in S
      PROVE  Keeps(kademlia_lookups_, r.lookups)
  <2>1. CASE waiting
    BY Zenon, <1>5, <1>6, <2>1
  <2>2. CASE ~waiting
    <3>1. PICK n \in advance_lookup(m, h, table) : r \in StartIfNone(n, h, seeds, table)
      BY Zenon, <1>6, <2>2
    <3>2. /\ m = Mgr(m.lookups, m.txns, m.finished, m.collided)
          /\ SoundLookups(m.lookups)
      BY Zenon, <1>1 DEF Sound, SoundState
    <3>3. n \in advance_lookup(Mgr(m.lookups, m.txns, m.finished, m.collided), h, table)
      BY Zenon, <3>1, <3>2
    <3>4. Keeps(m.lookups, n.lookups)
      BY Zenon, <3>2, <3>3, AdvanceKeeps
    <3>5. Sound(n, {})
      BY Zenon, <1>1, <3>1, AdvanceSound
    <3>6. Keeps(n.lookups, r.lookups)
      BY Zenon, <3>1, <3>5, StartKeeps
    <3>7. Keeps(m.lookups, r.lookups)
      BY Zenon, <3>4, <3>6, KeepsTransitive
    <3>. QED
      BY Zenon, <1>5, <3>7, KeepsTransitive
  <2>. QED
    BY Zenon, <2>1, <2>2
<1>. HIDE DEF S
<1>. QED
  BY Zenon, <1>2, <1>6 DEF BecomesOneOf

\* on_response keeps the lookups, whatever nodes the reply names.
LEMMA ResponseKeeps ==
  ASSUME IInv, NEW txn \in Txns, NEW nodes \in SUBSET Nodes,
         NEW table \in SUBSET Nodes, on_response(txn, nodes, table)
  PROVE  Keeps(kademlia_lookups_, kademlia_lookups_')
<1>. DEFINE L == kademlia_lookups_
            T == pending_lookups_
            h == T[txn].hash
            k == Drop(L[h], {txn})
            l == merge_nodes(k, nodes)
            N == IF h \in DOMAIN L
                 THEN advance_lookup(SetLookup(manager, h, l), h, table)
                 ELSE {manager}
            S == {Forget(n, txn) : n \in N}
<1>1. BecomesOneOf(S) /\ txn \in DOMAIN T
  BY Zenon DEF on_response, Forget, Drop
<1>2. SoundLookups(L) /\ h \in Hashes
  BY Zenon, <1>1 DEF IInv, SoundState, SoundTxns, Txn
<1>3. ASSUME NEW n \in N
      PROVE  Keeps(L, n.lookups) /\ Forget(n, txn).lookups = n.lookups
  <2>1. CASE h \notin DOMAIN L
    <3>1. n = manager
      BY Zenon, <1>3, <2>1
    <3>2. Forget(n, txn).lookups = n.lookups
      BY <3>1, ManagerFields DEF Forget, Mgr
    <3>. QED
      BY Zenon, <3>1, <3>2, ManagerFields, KeepsWithout
  <2>2. CASE h \in DOMAIN L
    <3>. DEFINE M == Assign(L, {h}, l)
    <3>1. SoundLookup(L[h])
      BY Zenon, <1>2, <2>2 DEF SoundLookups
    <3>2. SoundLookup(k) /\ Continues(L[h], k)
      BY Zenon, <3>1, DropSound, DropContinues
    <3>3. SoundLookup(l) /\ Continues(k, l)
      <4>. HIDE DEF k
      <4>. QED
        BY Zenon, <3>2, MergeSound, MergeContinues
    <3>4. n \in advance_lookup(SetLookup(manager, h, l), h, table)
      BY Zenon, <1>3, <2>2
    <3>. HIDE DEF L, T, h, k, l
    <3>5. Continues(L[h], l)
      BY Zenon, <3>2, <3>3, ContinuesTransitive
    <3>6. Keeps(L, M)
      BY Zenon, <2>2, <3>5, KeepsAssign
    <3>7. manager = Mgr(L, T, finished, collided)
      BY Zenon, ManagerFields DEF L, T
    <3>8. SetLookup(manager, h, l) = Mgr(M, T, finished, collided)
      BY <3>7, SetLookupMgr
    <3>9. SoundLookups(M)
      BY Zenon, <1>2, <3>3 DEF Assign, SoundLookups
    <3>. HIDE DEF M
    <3>10. n \in advance_lookup(Mgr(M, T, finished, collided), h, table)
      BY Zenon, <3>4, <3>8
    <3>11. Keeps(M, n.lookups) /\ IsMgr(n)
      BY Zenon, <3>9, <3>10, AdvanceKeeps
    <3>12. Forget(n, txn).lookups = n.lookups
      <4>. DEFINE a == n.lookups
                  b == n.txns
                  c == n.finished
                  e == n.collided
      <4>1. n = Mgr(a, b, c, e)
        BY Zenon, <3>11 DEF IsMgr
      <4>. HIDE DEF a, b, c, e
      <4>2. Forget(n, txn).lookups = a
        BY Zenon, <4>1 DEF Forget, Mgr
      <4>. QED
        BY Zenon, <4>2 DEF a
    <3>. QED
      BY Zenon, <3>6, <3>11, <3>12, KeepsTransitive
  <2>. QED
    BY Zenon, <2>1, <2>2
<1>4. \A r \in S : Keeps(L, r.lookups)
  <2>. HIDE DEF N, L
  <2>. QED
    BY Zenon, <1>3
<1>. HIDE DEF S
<1>. QED
  BY Zenon, <1>1, <1>4 DEF BecomesOneOf

\* The lookup has become older or has the same age, and has forgotten no node.
Grows(l, k) ==
  l.age <= k.age /\ l.queried \subseteq k.queried /\ l.heard \subseteq k.heard

\* A step keeps the lookups and their ages, unless it is the passing of time.
LEMMA NextKeeps ==
  ASSUME IInv, Next
  PROVE  \/ Keeps(kademlia_lookups_, kademlia_lookups_')
         \/ TimePasses
<1>1. CASE \E table \in SUBSET Nodes, h \in Hashes, seeds \in SUBSET Nodes :
             start_or_advance(h, seeds, table)
  BY Zenon, <1>1, StartOrAdvanceKeeps
<1>2. CASE \E table \in SUBSET Nodes, txn \in Txns, nodes \in SUBSET Nodes :
             on_response(txn, nodes, table)
  BY Zenon, <1>2, ResponseKeeps
<1>3. CASE \E table \in SUBSET Nodes, h \in Hashes : TickLookup(h, table)
  <2>1. PICK table \in SUBSET Nodes, h \in Hashes : TickLookup(h, table)
    BY Zenon, <1>3
  <2>2. PICK n \in advance_lookup(manager, h, table) : kademlia_lookups_' = n.lookups
    BY Zenon, <2>1 DEF TickLookup, BecomesOneOf
  <2>3. SoundLookups(kademlia_lookups_)
    BY Zenon DEF IInv, SoundState
  <2>4. n \in advance_lookup(Mgr(kademlia_lookups_, pending_lookups_,
                                 finished, collided), h, table)
    BY Zenon, <2>2, ManagerFields
  <2>. QED
    BY Zenon, <2>2, <2>3, <2>4, AdvanceKeeps
<1>4. CASE tick
  <2>1. kademlia_lookups_' = expire_pending_lookups_locked(manager).lookups
    BY Zenon, <1>4 DEF tick, BecomesOneOf
  <2>. QED
    BY Zenon, <2>1, ManagerSound, ManagerFields, ExpirePendingKeeps
<1>5. CASE expire_active_lookups
  <2>1. kademlia_lookups_' = expire_active_lookups_locked(manager).lookups
    BY Zenon, <1>5 DEF expire_active_lookups, BecomesOneOf
  <2>. QED
    BY Zenon, <2>1, ManagerSound, ManagerFields, ExpireActiveKeeps
<1>6. CASE TimePasses
  BY Zenon, <1>6
<1>. QED
  BY Zenon, <1>1, <1>2, <1>3, <1>4, <1>5, <1>6 DEF Next

\* A lookup that goes on is made no younger by any operation or reply, and
\* forgets no node that it has asked or heard of; expire_active_lookups leaves
\* none that has lived for GET_PEERS_LOOKUP_TTL.
LookupsOnlyGrow ==
  [][/\ \A h \in DOMAIN kademlia_lookups_ \cap DOMAIN kademlia_lookups_' :
          \/ Grows(kademlia_lookups_[h], kademlia_lookups_'[h])
          \/ kademlia_lookups_'[h].age = 0
     /\ expire_active_lookups =>
          \A h \in DOMAIN kademlia_lookups_' :
            kademlia_lookups_'[h].age < GET_PEERS_LOOKUP_TTL]_vars

\* No node can prolong a lookup by the replies it sends, and none is asked
\* twice because it was forgotten (LookupsOnlyGrow): every lookup grows old,
\* and the maintenance loop removes it then.
THEOREM LookupsGrowOld == Spec => LookupsOnlyGrow
<1>. DEFINE L == kademlia_lookups_
            A == /\ \A h \in DOMAIN L \cap DOMAIN L' :
                      Grows(L[h], L'[h]) \/ L'[h].age = 0
                 /\ expire_active_lookups =>
                      \A h \in DOMAIN L' : L'[h].age < GET_PEERS_LOOKUP_TTL
<1>1. ASSUME IInv, Next
      PROVE  A
  <2>1. \A h \in DOMAIN L : L[h] \in Lookup /\ L[h].age \in 0 .. GET_PEERS_LOOKUP_TTL
    BY Zenon, <1>1 DEF IInv, SoundState, SoundLookups, SoundLookup, Lookup
  <2>2. ASSUME expire_active_lookups, NEW h \in DOMAIN L'
        PROVE  L'[h].age < GET_PEERS_LOOKUP_TTL
    <3>1. L' = expire_active_lookups_locked(manager).lookups
      BY Zenon, <2>2 DEF expire_active_lookups, BecomesOneOf
    <3>. QED
      BY Zenon, <1>1, <2>2, <3>1, ManagerSound, ExpireActiveKeeps
  <2>3. ASSUME NEW h \in DOMAIN L \cap DOMAIN L'
        PROVE  Grows(L[h], L'[h]) \/ L'[h].age = 0
    <3>1. L[h].age <= L[h].age
      BY <2>1, LimitAssumption
    <3>2. CASE Keeps(L, L')
      BY Zenon, <3>1, <3>2 DEF Keeps, Continues, Grows
    <3>3. CASE TimePasses
      <4>. DEFINE l == L[h]
                  a == Older(l.age, GET_PEERS_LOOKUP_TTL)
      <4>1. L'[h] = [l EXCEPT !.age = a]
        BY Zenon, <3>3 DEF TimePasses
      <4>2. l \in Lookup /\ l.age <= a
        BY <2>1, LimitAssumption DEF Older
      <4>. HIDE DEF l, a
      <4>3. L'[h].age = a /\ L'[h].queried = l.queried /\ L'[h].heard = l.heard
        BY Zenon, <4>1, <4>2 DEF Lookup
      <4>. QED
        BY Zenon, <4>2, <4>3 DEF Grows, l
    <3>. QED
      BY Zenon, <1>1, <3>2, <3>3, NextKeeps
  <2>. QED
    BY Zenon, <2>2, <2>3
<1>2. IInv /\ [Next]_vars =>
        [/\ \A h \in DOMAIN kademlia_lookups_ \cap DOMAIN kademlia_lookups_' :
              \/ Grows(kademlia_lookups_[h], kademlia_lookups_'[h])
              \/ kademlia_lookups_'[h].age = 0
         /\ expire_active_lookups =>
              \A h \in DOMAIN kademlia_lookups_' :
                kademlia_lookups_'[h].age < GET_PEERS_LOOKUP_TTL]_vars
  BY Zenon, <1>1
<1>. QED
  BY <1>2, LookupsAreSound, PTL DEF Spec, LookupsOnlyGrow

=============================================================================
