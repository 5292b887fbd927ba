------------------------- MODULE RoutingTableProofs -------------------------
(***************************************************************************)
(* Proofs about RoutingTable, for ids of any width, buckets of any size    *)
(* and any network.                                                        *)
(*                                                                         *)
(* The soundness of the table is inductive once the entries have their     *)
(* types.  The rest is about node ids: the bucket of an id is given by the *)
(* first bit in which it differs from ours (BucketOf), so two ids of one   *)
(* bucket agree in more bits than an id of it and one of any other         *)
(* (InsideIsNearer).                                                       *)
(***************************************************************************)
EXTENDS RoutingTable, FiniteSetTheorems, SequenceTheorems, TLAPS

-----------------------------------------------------------------------------
(* The inductive invariant.                                                 *)

TypeOK == buckets_ \in [Buckets -> Seq(Entry)]

SoundBucket(s, b) ==
  /\ Len(s) <= K
  /\ \A i \in DOMAIN s :
       /\ bucket_index(s[i].id) = b
       /\ ~is_zero(s[i].id)
       /\ \A j \in DOMAIN s : s[i].id = s[j].id => i = j

IInv == TypeOK /\ TableIsSound

-----------------------------------------------------------------------------
(* Node ids.                                                                *)

\* A non-empty set of numbers has a least element.
LEMMA LeastNumber ==
  ASSUME NEW S \in SUBSET Nat, S # {}
  PROVE  \E x \in S : \A y \in S : x <= y
<1>1. PICK x \in S : \A y \in S : ~(<<y, x>> \in OpToRel(<, Nat))
  BY Zenon, NatLessThanWellFounded, WFMin
<1>2. ASSUME NEW y \in S
      PROVE  x <= y
  <2>1. <<y, x>> \in Nat \X Nat
    BY Zenon
  <2>2. ~(<<y, x>>[1] < <<y, x>>[2])
    BY <1>1, <2>1, Zenon DEF OpToRel
  <2>. QED
    BY <2>2
<1>. QED
  BY Zenon, <1>2

\* The first bit in which an id differs from ours.
IsFirstDifference(id, m) ==
  /\ m \in Bits
  /\ id[m] # self_id_[m]
  /\ \A j \in 1 .. m - 1 : id[j] = self_id_[j]

\* bucket_index puts an id that is not ours into the bucket of the first bit
\* in which it differs.
LEMMA BucketOf ==
  ASSUME NEW id \in NodeId, id # self_id_
  PROVE  /\ bucket_index(id) \in Buckets
         /\ IsFirstDifference(id, NUM_BUCKETS - bucket_index(id))
<1>. DEFINE d == xor(self_id_, id)
            Ones == {i \in Bits : d[i] = 1}
<1>1. \A i \in Bits : d[i] = IF self_id_[i] = id[i] THEN 0 ELSE 1
  BY Zenon DEF xor
<1>2. PICK i \in Bits : id[i] # self_id_[i]
  BY IdAssumption DEF NodeId
<1>3. Ones \in SUBSET Nat /\ Ones # {} /\ ~is_zero(d)
  BY <1>1, <1>2 DEF Bits, is_zero
<1>. HIDE DEF d
<1>4. PICK m \in Ones : \A j \in Ones : m <= j
  <2>. HIDE DEF Ones
  <2>. QED
    BY Zenon, <1>3, LeastNumber
<1>5. \E k \in Bits : d[k] = 1 /\ \A j \in 1 .. k - 1 : d[j] = 0
  <2>1. m \in Bits /\ d[m] = 1
    BY Zenon
  <2>2. ASSUME NEW j \in 1 .. m - 1
        PROVE  d[j] = 0
    <3>1. j \in Bits /\ ~(m <= j)
      BY <2>1, WidthAssumption DEF Bits
    <3>2. d[j] # 1
      BY Zenon, <1>4, <3>1
    <3>. QED
      BY Zenon, <1>1, <3>1, <3>2
  <2>. QED
    BY Zenon, <2>1, <2>2
<1>. DEFINE k == FirstOne(d)
<1>6. k \in Bits /\ d[k] = 1 /\ \A j \in 1 .. k - 1 : d[j] = 0
  BY <1>5, Zenon DEF FirstOne
<1>. HIDE DEF k
<1>7. bucket_index(id) = NUM_BUCKETS - k
  BY Zenon, <1>3 DEF bucket_index, d, k
<1>8. bucket_index(id) \in Buckets /\ NUM_BUCKETS - bucket_index(id) = k
  BY <1>6, <1>7, WidthAssumption DEF Bits, Buckets
<1>9. \A j \in 1 .. k - 1 : j \in Bits
  BY <1>6, WidthAssumption DEF Bits
<1>. QED
  BY <1>1, <1>6, <1>8, <1>9 DEF IsFirstDifference

\* An id that has a bucket is not ours.
LEMMA InBucket ==
  ASSUME NEW id \in NodeId, NEW b \in Buckets, bucket_index(id) = b
  PROVE  IsFirstDifference(id, NUM_BUCKETS - b)
<1>1. id # self_id_
  <2>1. SUFFICES ASSUME id = self_id_ PROVE FALSE
    BY Zenon
  <2>2. is_zero(xor(self_id_, id))
    BY Zenon, <2>1 DEF is_zero, xor
  <2>. QED
    BY <2>2, WidthAssumption DEF bucket_index, Buckets
<1>. QED
  BY Zenon, <1>1, BucketOf

\* What random_id_in_bucket draws is in the bucket.
LEMMA TargetInBucket ==
  ASSUME NEW b \in Buckets, NEW target \in random_id_in_bucket(b)
  PROVE  target \in NodeId /\ IsFirstDifference(target, NUM_BUCKETS - b)
BY WidthAssumption DEF random_id_in_bucket, IsFirstDifference, Buckets, Bits

\* The order of distances is asymmetric.
LEMMA LessAsymmetric ==
  ASSUME NEW a \in NodeId, NEW c \in NodeId, less(a, c)
  PROVE  ~less(c, a)
<1>1. PICK i \in Bits : a[i] < c[i] /\ \A j \in 1 .. i - 1 : a[j] = c[j]
  BY Zenon DEF less
<1>2. ASSUME NEW k \in Bits, c[k] < a[k], \A j \in 1 .. k - 1 : c[j] = a[j]
      PROVE  FALSE
  <2>1. i \in Nat /\ k \in Nat /\ i >= 1 /\ k >= 1
    BY DEF Bits
  <2>2. a[i] \in {0, 1} /\ c[i] \in {0, 1} /\ a[k] \in {0, 1} /\ c[k] \in {0, 1}
    BY Zenon DEF NodeId
  <2>3. CASE i < k
    <3>1. i \in 1 .. k - 1
      BY <2>1, <2>3
    <3>. QED
      BY <1>1, <1>2, <2>2, <3>1
  <2>4. CASE k < i
    <3>1. k \in 1 .. i - 1
      BY <2>1, <2>4
    <3>. QED
      BY <1>1, <1>2, <2>2, <3>1
  <2>5. CASE k = i
    BY <1>1, <1>2, <2>2, <2>5
  <2>. QED
    BY <2>1, <2>3, <2>4, <2>5
<1>. QED
  BY Zenon, <1>2 DEF less

\* A node of a bucket is nearer to an id of the bucket than any node outside.
LEMMA InsideIsNearer ==
  ASSUME NEW b \in Buckets, NEW c \in Buckets, b # c,
         NEW target \in NodeId, IsFirstDifference(target, NUM_BUCKETS - b),
         NEW e \in Entry, IsFirstDifference(e.id, NUM_BUCKETS - b),
         NEW f \in Entry, IsFirstDifference(f.id, NUM_BUCKETS - c)
  PROVE  Nearer(target, e, f) /\ ~Nearer(target, f, e)
<1>. DEFINE m == NUM_BUCKETS - b
            n == NUM_BUCKETS - c
            de == xor(target, e.id)
            df == xor(target, f.id)
<1>1. m \in Bits /\ n \in Bits /\ m # n
  BY WidthAssumption DEF Bits, Buckets
<1>2. e.id \in NodeId /\ f.id \in NodeId
  BY Zenon DEF Entry
<1>3. \A i \in Bits : target[i] \in {0, 1} /\ e.id[i] \in {0, 1}
                      /\ f.id[i] \in {0, 1} /\ self_id_[i] \in {0, 1}
  BY Zenon, <1>2, IdAssumption DEF NodeId
<1>4. /\ target[m] # self_id_[m] /\ \A j \in 1 .. m - 1 : target[j] = self_id_[j]
      /\ e.id[m] # self_id_[m] /\ \A j \in 1 .. m - 1 : e.id[j] = self_id_[j]
      /\ f.id[n] # self_id_[n] /\ \A j \in 1 .. n - 1 : f.id[j] = self_id_[j]
  BY Zenon DEF IsFirstDifference
<1>5. /\ de \in NodeId /\ df \in NodeId
      /\ \A i \in Bits : de[i] = IF target[i] = e.id[i] THEN 0 ELSE 1
      /\ \A i \in Bits : df[i] = IF target[i] = f.id[i] THEN 0 ELSE 1
  BY Zenon DEF xor, NodeId
<1>. HIDE DEF m, n, de, df
<1>6. \A i \in 1 .. m : i \in Bits /\ de[i] = 0
  <2>1. \A i \in 1 .. m : i \in Bits /\ (i = m \/ i \in 1 .. m - 1)
    BY <1>1, WidthAssumption DEF Bits
  <2>2. target[m] = e.id[m]
    BY <1>1, <1>3, <1>4
  <2>. QED
    BY <1>4, <1>5, <2>1, <2>2
<1>7. \E i \in Bits : i \in 1 .. m /\ df[i] = 1 /\ \A j \in 1 .. i - 1 : df[j] = 0
  <2>1. CASE n < m
    <3>1. n \in 1 .. m - 1 /\ \A j \in 1 .. n - 1 : j \in 1 .. m - 1 /\ j \in Bits
      BY <1>1, <2>1, WidthAssumption DEF Bits
    <3>2. df[n] = 1
      BY Zenon, <1>1, <1>4, <1>5, <3>1
    <3>3. \A j \in 1 .. n - 1 : df[j] = 0
      BY <1>4, <1>5, <3>1
    <3>. QED
      BY <1>1, <3>1, <3>2, <3>3 DEF Bits
  <2>2. CASE m < n
    <3>1. m \in 1 .. n - 1 /\ \A j \in 1 .. m - 1 : j \in 1 .. n - 1 /\ j \in Bits
      BY <1>1, <2>2, WidthAssumption DEF Bits
    <3>2. df[m] = 1
      BY Zenon, <1>1, <1>4, <1>5, <3>1
    <3>3. \A j \in 1 .. m - 1 : df[j] = 0
      BY <1>4, <1>5, <3>1
    <3>. QED
      BY <1>1, <3>2, <3>3 DEF Bits
  <2>. QED
    BY <1>1, <2>1, <2>2 DEF Bits
<1>8. PICK i \in Bits : i \in 1 .. m /\ df[i] = 1 /\ \A j \in 1 .. i - 1 : df[j] = 0
  BY Zenon, <1>7
<1>9. de[i] < df[i] /\ \A j \in 1 .. i - 1 : de[j] = df[j]
  <2>1. \A j \in 1 .. i - 1 : j \in 1 .. m
    BY <1>1, <1>8 DEF Bits
  <2>. QED
    BY <1>6, <1>8, <2>1
<1>10. less(de, df)
  BY Zenon, <1>9 DEF less
<1>. QED
  BY Zenon, <1>5, <1>10, LessAsymmetric DEF Nearer, de, df

-----------------------------------------------------------------------------
(* Buckets.                                                                 *)

\* RemoveAt moves the entries behind the one removed up.
LEMMA RemoveAtProperties ==
  ASSUME NEW S, NEW s \in Seq(S), NEW i \in 1 .. Len(s)
  PROVE  /\ RemoveAt(s, i) \in Seq(S)
         /\ Len(RemoveAt(s, i)) = Len(s) - 1
         /\ \A j \in 1 .. Len(s) - 1 :
              RemoveAt(s, i)[j] = IF j < i THEN s[j] ELSE s[j + 1]
<1>. DEFINE before == SubSeq(s, 1, i - 1)
            behind == SubSeq(s, i + 1, Len(s))
<1>1. Len(s) \in Nat /\ \A j \in 1 .. Len(s) : s[j] \in S
  BY Zenon, LenProperties, ElementOfSeq
<1>2. \A j \in 1 .. i - 1 : s[j] \in S
  BY <1>1
<1>3. \A j \in i + 1 .. Len(s) : s[j] \in S
  BY <1>1
<1>4. before \in Seq(S) /\ Len(before) = i - 1 /\ \A j \in 1 .. i - 1 : before[j] = s[j]
  <2>1. /\ SubSeq(s, 1, i - 1) \in Seq(S)
        /\ Len(SubSeq(s, 1, i - 1)) = IF 1 <= i - 1 THEN (i - 1) - 1 + 1 ELSE 0
        /\ \A j \in 1 .. (i - 1) - 1 + 1 : SubSeq(s, 1, i - 1)[j] = s[1 + j - 1]
    BY <1>1, <1>2, SubSeqProperties
  <2>. QED
    BY <1>1, <2>1
<1>5. /\ behind \in Seq(S) /\ Len(behind) = Len(s) - i
      /\ \A j \in 1 .. Len(s) - i : behind[j] = s[i + j]
  <2>1. /\ SubSeq(s, i + 1, Len(s)) \in Seq(S)
        /\ Len(SubSeq(s, i + 1, Len(s))) =
             IF i + 1 <= Len(s) THEN Len(s) - (i + 1) + 1 ELSE 0
        /\ \A j \in 1 .. Len(s) - (i + 1) + 1 :
             SubSeq(s, i + 1, Len(s))[j] = s[(i + 1) + j - 1]
    BY <1>1, <1>3, SubSeqProperties
  <2>. QED
    BY <1>1, <2>1
<1>6. RemoveAt(s, i) = before \o behind
  BY Zenon DEF RemoveAt
<1>. HIDE DEF before, behind
<1>7. /\ before \o behind \in Seq(S)
      /\ Len(before \o behind) = Len(before) + Len(behind)
      /\ \A j \in 1 .. Len(before) + Len(behind) :
           (before \o behind)[j] =
             IF j <= Len(before) THEN before[j] ELSE behind[j - Len(before)]
  BY Zenon, <1>4, <1>5, ConcatProperties
<1>8. ASSUME NEW j \in 1 .. Len(s) - 1
      PROVE  RemoveAt(s, i)[j] = IF j < i THEN s[j] ELSE s[j + 1]
  <2>1. CASE j < i
    BY <1>1, <1>4, <1>5, <1>6, <1>7, <2>1
  <2>2. CASE ~(j < i)
    <3>1. j - (i - 1) \in 1 .. Len(s) - i /\ i + (j - (i - 1)) = j + 1
      BY <1>1, <2>2
    <3>2. RemoveAt(s, i)[j] = behind[j - (i - 1)]
      BY <1>1, <1>4, <1>5, <1>6, <1>7, <2>2
    <3>. QED
      BY Zenon, <1>5, <2>2, <3>1, <3>2
  <2>. QED
    BY Zenon, <2>1, <2>2
<1>. QED
  BY <1>1, <1>4, <1>5, <1>6, <1>7, <1>8

\* remove, and the first half of a move to the end, leave out the entry with
\* the id and nothing else.
LEMMA RemoveIdProperties ==
  ASSUME NEW b \in Buckets, NEW s \in Seq(Entry), SoundBucket(s, b), NEW id
  PROVE  /\ RemoveId(s, id) \in Seq(Entry)
         /\ SoundBucket(RemoveId(s, id), b)
         /\ Ids(RemoveId(s, id)) = Ids(s) \ {id}
         /\ id \in Ids(s) => Len(RemoveId(s, id)) = Len(s) - 1
<1>1. Len(s) \in Nat /\ DOMAIN s = 1 .. Len(s)
  BY Zenon, LenProperties
<1>2. CASE id \notin Ids(s)
  <2>1. RemoveId(s, id) = s
    BY Zenon, <1>1, <1>2 DEF RemoveId, RemoveFirstMatch, Ids
  <2>. QED
    BY Zenon, <1>2, <2>1
<1>3. CASE id \in Ids(s)
  <2>. DEFINE found == {j \in 1 .. Len(s) : s[j].id = id}
              i == Min(found)
              t == RemoveAt(s, i)
  <2>1. PICK k \in DOMAIN s : s[k].id = id
    BY Zenon, <1>3 DEF Ids
  <2>2. \A j \in DOMAIN s : s[j].id = id => j = k
    BY Zenon, <2>1 DEF SoundBucket
  <2>3. found = {k} /\ k \in Nat
    BY <1>1, <2>1, <2>2
  <2>4. i = k
    BY <2>3 DEF Min
  <2>5. RemoveId(s, id) = t
    BY Zenon, <1>1, <2>1, <2>3 DEF RemoveId, RemoveFirstMatch, SelectInSeq
  <2>. HIDE DEF i
  <2>6. i \in DOMAIN s /\ s[i].id = id /\ \A j \in DOMAIN s : s[j].id = id => j = i
    BY Zenon, <2>1, <2>2, <2>4
  <2>7. /\ t \in Seq(Entry) /\ Len(t) = Len(s) - 1
        /\ \A j \in 1 .. Len(s) - 1 : t[j] = IF j < i THEN s[j] ELSE s[j + 1]
    BY Zenon, <1>1, <2>6, RemoveAtProperties
  <2>. HIDE DEF t
  <2>8. DOMAIN t = 1 .. Len(s) - 1
    BY Zenon, <2>7, LenProperties
  <2>. DEFINE from(j) == IF j < i THEN j ELSE j + 1
  <2>9. \A j \in DOMAIN t : from(j) \in DOMAIN s /\ t[j] = s[from(j)] /\ from(j) # i
    BY <1>1, <2>6, <2>7, <2>8
  <2>10. \A j, l \in DOMAIN t : from(j) = from(l) => j = l
    BY <2>8, <2>6, <1>1
  <2>11. \A l \in DOMAIN s : l # i => \E j \in DOMAIN t : from(j) = l
    <3>1. SUFFICES ASSUME NEW l \in DOMAIN s, l # i
                   PROVE  \E j \in DOMAIN t : from(j) = l
      BY Zenon
    <3>2. CASE l < i
      BY <1>1, <2>6, <2>8, <3>2
    <3>3. CASE i < l
      <4>1. l - 1 \in DOMAIN t /\ from(l - 1) = l
        BY <1>1, <2>6, <2>8, <3>3
      <4>. QED
        BY Zenon, <4>1
    <3>. QED
      BY <1>1, <2>6, <3>1, <3>2, <3>3
  <2>. HIDE DEF from
  <2>12. SoundBucket(t, b)
    <3>1. Len(t) <= K
      BY <1>1, <2>7, CapacityAssumption DEF SoundBucket
    <3>2. ASSUME NEW j \in DOMAIN t
          PROVE  /\ bucket_index(t[j].id) = b
                 /\ ~is_zero(t[j].id)
                 /\ \A l \in DOMAIN t : t[j].id = t[l].id => j = l
      BY <2>9, <2>10 DEF SoundBucket
    <3>. QED
      BY Zenon, <3>1, <3>2 DEF SoundBucket
  <2>13. Ids(t) = Ids(s) \ {id}
    <3>1. ASSUME NEW x \in Ids(t) PROVE x \in Ids(s) \ {id}
      <4>1. PICK j \in DOMAIN t : x = t[j].id
        BY Zenon DEF Ids
      <4>. QED
        BY Zenon, <2>6, <2>9, <4>1 DEF Ids
    <3>2. ASSUME NEW x \in Ids(s) \ {id} PROVE x \in Ids(t)
      <4>1. PICK l \in DOMAIN s : x = s[l].id
        BY Zenon DEF Ids
      <4>2. PICK j \in DOMAIN t : from(j) = l
        BY Zenon, <2>6, <2>11, <4>1
      <4>. QED
        BY Zenon, <2>9, <4>1, <4>2 DEF Ids
    <3>. QED
      BY Zenon, <3>1, <3>2
  <2>. QED
    BY Zenon, <2>7, <2>5, <2>12, <2>13
<1>. QED
  BY Zenon, <1>2, <1>3

\* An entry at the end of a bucket that has room and does not hold its id.
LEMMA AppendedBucket ==
  ASSUME NEW b \in Buckets, NEW s \in Seq(Entry), SoundBucket(s, b),
         NEW e \in Entry, bucket_index(e.id) = b, ~is_zero(e.id),
         e.id \notin Ids(s), Len(s) < K
  PROVE  /\ Append(s, e) \in Seq(Entry)
         /\ SoundBucket(Append(s, e), b)
         /\ Ids(Append(s, e)) = Ids(s) \cup {e.id}
<1>. DEFINE t == Append(s, e)
<1>1. Len(s) \in Nat /\ DOMAIN s = 1 .. Len(s)
  BY Zenon, LenProperties
<1>2. /\ t \in Seq(Entry) /\ Len(t) = Len(s) + 1
      /\ \A j \in 1 .. Len(s) : t[j] = s[j]
      /\ t[Len(s) + 1] = e
  BY AppendProperties
<1>. HIDE DEF t
<1>3. /\ DOMAIN t = 1 .. Len(s) + 1
      /\ \A j \in DOMAIN t : \/ j \in DOMAIN s /\ t[j] = s[j]
                             \/ j = Len(s) + 1 /\ t[j] = e
      /\ \A j \in DOMAIN s : j \in DOMAIN t
      /\ Len(s) + 1 \in DOMAIN t
  <2>1. DOMAIN t = 1 .. Len(s) + 1
    BY Zenon, <1>2, LenProperties
  <2>. QED
    BY <1>1, <1>2, <2>1
<1>4. \A j \in DOMAIN s : s[j].id # e.id
  BY Zenon DEF Ids
<1>5. SoundBucket(t, b)
  <2>1. Len(t) <= K
    BY <1>1, <1>2, CapacityAssumption
  <2>2. ASSUME NEW j \in DOMAIN t
        PROVE  /\ bucket_index(t[j].id) = b
               /\ ~is_zero(t[j].id)
               /\ \A l \in DOMAIN t : t[j].id = t[l].id => j = l
    BY <1>3, <1>4 DEF SoundBucket
  <2>. QED
    BY Zenon, <2>1, <2>2 DEF SoundBucket
<1>6. Ids(t) = Ids(s) \cup {e.id}
  <2>1. ASSUME NEW x \in Ids(t) PROVE x \in Ids(s) \cup {e.id}
    BY Zenon, <1>3 DEF Ids
  <2>2. ASSUME NEW x \in Ids(s) \cup {e.id} PROVE x \in Ids(t)
    BY <1>2, <1>3 DEF Ids
  <2>. QED
    BY Zenon, <2>1, <2>2
<1>. QED
  BY Zenon, <1>2, <1>5, <1>6 DEF t

\* add keeps a bucket sound, and every good node in it.
LEMMA AddedBucket ==
  ASSUME NEW b \in Buckets, NEW s \in Seq(Entry), SoundBucket(s, b),
         NEW e \in Entry, bucket_index(e.id) = b, ~is_zero(e.id),
         NEW t \in Added(s, e)
  PROVE  /\ t \in Seq(Entry)
         /\ SoundBucket(t, b)
         /\ \A i \in DOMAIN s : is_good(s[i]) => s[i].id \in Ids(t)
<1>1. Len(s) \in Nat /\ DOMAIN s = 1 .. Len(s)
  BY Zenon, LenProperties
<1>2. CASE e.id \in Ids(s)
  <2>. DEFINE r == RemoveId(s, e.id)
  <2>1. /\ r \in Seq(Entry) /\ SoundBucket(r, b)
        /\ Ids(r) = Ids(s) \ {e.id} /\ Len(r) = Len(s) - 1
    BY Zenon, <1>2, RemoveIdProperties
  <2>2. t = Append(r, e)
    BY Zenon, <1>2 DEF Added, find_in_bucket, touch_bucket_entry
  <2>. HIDE DEF r
  <2>3. Len(r) < K
    BY <1>1, <2>1, CapacityAssumption DEF SoundBucket
  <2>4. t \in Seq(Entry) /\ SoundBucket(t, b) /\ Ids(t) = Ids(r) \cup {e.id}
    BY Zenon, <2>1, <2>2, <2>3, AppendedBucket
  <2>5. Ids(t) = Ids(s)
    BY Zenon, <1>2, <2>1, <2>4
  <2>. QED
    BY Zenon, <2>4, <2>5 DEF Ids
<1>3. CASE e.id \notin Ids(s) /\ Len(s) < K
  <2>1. t = Append(s, e)
    BY Zenon, <1>3 DEF Added, find_in_bucket
  <2>2. t \in Seq(Entry) /\ SoundBucket(t, b) /\ Ids(t) = Ids(s) \cup {e.id}
    BY Zenon, <1>3, <2>1, AppendedBucket
  <2>. QED
    BY Zenon, <2>2 DEF Ids
<1>4. CASE e.id \notin Ids(s) /\ ~(Len(s) < K)
  <2>1. t \in ReplaceOldest(s, e)
    BY Zenon, <1>4 DEF Added, find_in_bucket
  <2>2. PICK i \in DOMAIN s : t = IF is_good(s[i]) THEN s ELSE [s EXCEPT ![i] = e]
    BY Zenon, <2>1 DEF ReplaceOldest, Oldest
  <2>3. CASE is_good(s[i])
    BY Zenon, <2>2, <2>3 DEF Ids
  <2>4. CASE ~is_good(s[i])
    <3>1. t = [s EXCEPT ![i] = e]
      BY Zenon, <2>2, <2>4
    <3>2. /\ t \in Seq(Entry) /\ Len(t) = Len(s)
          /\ \A j \in 1 .. Len(s) : t[j] = IF j = i THEN e ELSE s[j]
      BY Zenon, <1>1, <3>1, ExceptSeq
    <3>3. DOMAIN t = DOMAIN s
      BY Zenon, <3>1
    <3>4. \A j \in DOMAIN s : s[j].id # e.id
      BY Zenon, <1>4 DEF Ids
    <3>5. ASSUME NEW j \in DOMAIN t
          PROVE  /\ bucket_index(t[j].id) = b
                 /\ ~is_zero(t[j].id)
                 /\ \A l \in DOMAIN t : t[j].id = t[l].id => j = l
      BY <1>1, <3>2, <3>3, <3>4 DEF SoundBucket
    <3>6. SoundBucket(t, b)
      BY Zenon, <3>2, <3>5 DEF SoundBucket
    <3>7. ASSUME NEW j \in DOMAIN s, is_good(s[j])
          PROVE  s[j].id \in Ids(t)
      <4>1. j # i
        BY Zenon, <2>4, <3>7
      <4>. QED
        BY Zenon, <1>1, <3>2, <3>3, <4>1 DEF Ids
    <3>. QED
      BY Zenon, <3>2, <3>6, <3>7
  <2>. QED
    BY Zenon, <2>3, <2>4
<1>. QED
  BY Zenon, <1>2, <1>3, <1>4

\* The entries of a bucket grow older and stay.
LEMMA OlderBucket ==
  ASSUME NEW b \in Buckets, NEW s \in Seq(Entry), SoundBucket(s, b), NEW t,
         t = [i \in DOMAIN s |-> [s[i] EXCEPT !.age = Lesser(@ + 1, MaxAge)]]
  PROVE  /\ t \in Seq(Entry)
         /\ SoundBucket(t, b)
         /\ Ids(t) = Ids(s)
<1>1. Len(s) \in Nat /\ DOMAIN s = 1 .. Len(s) /\ \A i \in DOMAIN s : s[i] \in Entry
  BY Zenon, LenProperties, ElementOfSeq
<1>2. \A i \in DOMAIN s : t[i] \in Entry /\ t[i].id = s[i].id
  BY <1>1, AgeAssumption DEF Entry, Lesser
<1>3. t \in [1 .. Len(s) -> Entry]
  BY Zenon, <1>1, <1>2
<1>4. t \in Seq(Entry) /\ Len(t) = Len(s) /\ DOMAIN t = DOMAIN s
  <2>1. t \in Seq(Entry)
    BY <1>1, <1>3, SeqDef
  <2>. QED
    BY <1>1, <1>3, <2>1, LenProperties
<1>5. SoundBucket(t, b)
  BY <1>2, <1>4 DEF SoundBucket
<1>6. Ids(t) = Ids(s)
  BY Zenon, <1>2, <1>4 DEF Ids
<1>. QED
  BY Zenon, <1>4, <1>5, <1>6

-----------------------------------------------------------------------------
(* The table.                                                               *)

\* A table whose buckets are sound and typed satisfies the invariant.
LEMMA BucketwiseIInv ==
  IInv <=> TypeOK /\ \A b \in Buckets : SoundBucket(buckets_[b], b)
BY Zenon DEF IInv, TableIsSound, SoundBucket

\* A new table is empty.
LEMMA InitIInv == Init => IInv
<1>. SUFFICES ASSUME Init PROVE IInv
  BY Zenon
<1>1. TypeOK
  BY Zenon, EmptySeq DEF Init, TypeOK
<1>2. \A b \in Buckets : buckets_[b] = <<>>
  BY Zenon DEF Init
<1>3. \A b \in Buckets : Len(buckets_[b]) <= K /\ DOMAIN buckets_[b] = {}
  BY <1>2, CapacityAssumption
<1>. QED
  BY Zenon, <1>1, <1>3 DEF IInv, TableIsSound

\* A step that sets one bucket to a sound one.
LEMMA OneBucket ==
  ASSUME IInv, NEW b \in Buckets, NEW s \in Seq(Entry), SoundBucket(s, b),
         buckets_' = [buckets_ EXCEPT ![b] = s]
  PROVE  IInv'
<1>1. TypeOK'
  BY Zenon DEF IInv, TypeOK
<1>2. \A c \in Buckets : buckets_'[c] = IF c = b THEN s ELSE buckets_[c]
  BY Zenon DEF IInv, TypeOK
<1>3. \A c \in Buckets : SoundBucket(buckets_[c], c)
  BY Zenon, BucketwiseIInv
<1>4. \A c \in Buckets : SoundBucket(buckets_'[c], c)
  BY Zenon, <1>2, <1>3
<1>5. TableIsSound'
  BY Zenon, <1>4 DEF TableIsSound, SoundBucket
<1>. QED
  BY Zenon, <1>1, <1>5 DEF IInv

\* The good nodes of every bucket are still there after the step.
KeepsGood ==
  \A b \in Buckets : \A i \in DOMAIN buckets_[b] :
    is_good(buckets_[b][i]) => buckets_[b][i].id \in Ids(buckets_'[b])

\* add, whichever of its branches it takes.
LEMMA AddStep ==
  ASSUME IInv, NEW e \in Entry, add(e)
  PROVE  IInv' /\ KeepsGood
<1>. DEFINE b == bucket_index(e.id)
<1>1. e.id \in NodeId /\ e.id # self_id_ /\ ~is_zero(e.id)
  BY Zenon DEF Entry, add
<1>2. b \in Buckets
  BY Zenon, <1>1, BucketOf
<1>3. PICK s \in Added(buckets_[b], e) : buckets_' = [buckets_ EXCEPT ![b] = s]
  BY Zenon DEF add
<1>4. bucket_index(e.id) = b
  BY Zenon
<1>. HIDE DEF b
<1>5. buckets_[b] \in Seq(Entry) /\ SoundBucket(buckets_[b], b)
  BY Zenon, <1>2, BucketwiseIInv DEF IInv, TypeOK
<1>6. /\ s \in Seq(Entry) /\ SoundBucket(s, b)
      /\ \A i \in DOMAIN buckets_[b] :
           is_good(buckets_[b][i]) => buckets_[b][i].id \in Ids(s)
  BY Zenon, <1>1, <1>2, <1>3, <1>4, <1>5, AddedBucket
<1>7. IInv'
  BY Zenon, <1>2, <1>3, <1>6, OneBucket
<1>8. \A c \in Buckets : buckets_'[c] = IF c = b THEN s ELSE buckets_[c]
  BY Zenon, <1>3 DEF IInv, TypeOK
<1>9. KeepsGood
  BY Zenon, <1>6, <1>8 DEF KeepsGood, Ids
<1>. QED
  BY Zenon, <1>7, <1>9

\* remove.
LEMMA RemoveStep ==
  ASSUME IInv, NEW id \in Network, remove(id)
  PROVE  IInv'
<1>. DEFINE b == bucket_index(id)
<1>1. id \in NodeId /\ b < NUM_BUCKETS
  BY Zenon, IdAssumption DEF remove
<1>2. id # self_id_
  <2>1. SUFFICES ASSUME id = self_id_ PROVE FALSE
    BY Zenon
  <2>2. is_zero(xor(self_id_, id))
    BY Zenon, <2>1 DEF is_zero, xor
  <2>. QED
    BY <1>1, <2>2, WidthAssumption DEF bucket_index
<1>3. b \in Buckets
  BY Zenon, <1>1, <1>2, BucketOf
<1>4. buckets_' = [buckets_ EXCEPT ![b] = RemoveId(buckets_[b], id)]
  BY Zenon DEF remove
<1>. HIDE DEF b
<1>5. buckets_[b] \in Seq(Entry) /\ SoundBucket(buckets_[b], b)
  BY Zenon, <1>3, BucketwiseIInv DEF IInv, TypeOK
<1>6. /\ RemoveId(buckets_[b], id) \in Seq(Entry)
      /\ SoundBucket(RemoveId(buckets_[b], id), b)
  BY Zenon, <1>3, <1>5, RemoveIdProperties
<1>. QED
  BY Zenon, <1>3, <1>4, <1>6, OneBucket

\* The passing of time.
LEMMA TimePassesStep ==
  ASSUME IInv, TimePasses
  PROVE  IInv' /\ KeepsGood
<1>1. \A b \in Buckets :
        buckets_'[b] = [i \in DOMAIN buckets_[b] |->
          [buckets_[b][i] EXCEPT !.age = Lesser(@ + 1, MaxAge)]]
  BY Zenon DEF TimePasses
<1>2. ASSUME NEW b \in Buckets
      PROVE  /\ buckets_'[b] \in Seq(Entry) /\ SoundBucket(buckets_'[b], b)
             /\ Ids(buckets_'[b]) = Ids(buckets_[b])
  <2>1. buckets_[b] \in Seq(Entry) /\ SoundBucket(buckets_[b], b)
    BY Zenon, BucketwiseIInv DEF IInv, TypeOK
  <2>. QED
    BY Zenon, <1>1, <2>1, OlderBucket
<1>3. TypeOK'
  <2>1. buckets_' = [b \in Buckets |-> buckets_'[b]]
    BY Zenon DEF TimePasses
  <2>. QED
    BY Zenon, <1>2, <2>1 DEF TypeOK
<1>4. TableIsSound'
  BY Zenon, <1>2 DEF TableIsSound, SoundBucket
<1>5. KeepsGood
  BY Zenon, <1>2 DEF KeepsGood, Ids
<1>. QED
  BY Zenon, <1>3, <1>4, <1>5 DEF IInv

\* A step that leaves the buckets alone.
LEMMA SameTable ==
  ASSUME IInv, UNCHANGED buckets_
  PROVE  IInv' /\ KeepsGood
BY Zenon DEF IInv, TypeOK, TableIsSound, KeepsGood, Ids

\* Every step keeps the invariant, and every step but remove the good nodes.
LEMMA NextStep ==
  ASSUME IInv, [Next]_vars
  PROVE  IInv' /\ ((\A id \in Network : ~remove(id)) => KeepsGood)
<1>1. ASSUME NEW id \in Network, NEW age \in Ages, add([id |-> id, age |-> age])
      PROVE  IInv' /\ KeepsGood
  <2>1. [id |-> id, age |-> age] \in Entry
    BY IdAssumption, AgeAssumption DEF Entry, Ages
  <2>. QED
    BY Zenon, <1>1, <2>1, AddStep
<1>2. ASSUME NEW id \in Network, remove(id)
      PROVE  IInv' /\ ((\A x \in Network : ~remove(x)) => KeepsGood)
  BY Zenon, <1>2, RemoveStep
<1>3. CASE refresh_buckets
  <2>1. UNCHANGED buckets_
    BY Zenon, <1>3 DEF refresh_buckets
  <2>. QED
    BY Zenon, <2>1, SameTable
<1>4. CASE NothingToRefresh
  BY Zenon, <1>4, SameTable DEF NothingToRefresh
<1>5. CASE TimePasses
  BY Zenon, <1>5, TimePassesStep
<1>6. CASE UNCHANGED vars
  BY Zenon, <1>6, SameTable DEF vars
<1>. QED
  BY Zenon, <1>1, <1>2, <1>3, <1>4, <1>5, <1>6 DEF Next

\* The invariant holds in every reachable state of the table.
THEOREM Invariance == Spec => []IInv
<1>1. IInv /\ [Next]_vars => IInv'
  BY Zenon, NextStep
<1>. QED
  BY <1>1, InitIInv, PTL DEF Spec

\* A node is in the table once, in the bucket of its distance, and no bucket is
\* over its capacity, whatever add, remove and the passing of time have done.
THEOREM TableStaysSound == Spec => []TableIsSound
<1>1. IInv => TableIsSound
  BY Zenon DEF IInv
<1>. QED
  BY <1>1, Invariance, PTL

\* No step but remove loses a good node: add replaces an entry only when the
\* one least recently seen is not good.
THEOREM GoodNodesAreKept == Spec => GoodNodesStay
<1>1. IInv /\ [Next]_vars =>
        [(\A id \in Network : ~remove(id)) =>
           \A b \in Buckets : \A i \in DOMAIN buckets_[b] :
             is_good(buckets_[b][i]) =>
               buckets_[b][i].id \in Ids(buckets_'[b])]_vars
  BY Zenon, NextStep DEF KeepsGood
<1>. QED
  BY <1>1, Invariance, PTL DEF Spec, GoodNodesStay

-----------------------------------------------------------------------------
(* The refresh of a bucket.                                                 *)

\* A sound bucket has as many entries as its length says.
LEMMA BucketCardinality ==
  ASSUME NEW b \in Buckets, NEW s \in Seq(Entry), SoundBucket(s, b)
  PROVE  IsFiniteSet(ToSet(s)) /\ Cardinality(ToSet(s)) = Len(s)
<1>1. Len(s) \in Nat /\ DOMAIN s = 1 .. Len(s)
  BY Zenon, LenProperties
<1>2. s \in Bijection(1 .. Len(s), ToSet(s))
  <2>1. s \in [1 .. Len(s) -> ToSet(s)]
    BY <1>1 DEF ToSet
  <2>2. \A i, j \in 1 .. Len(s) : s[i] = s[j] => i = j
    BY Zenon, <1>1 DEF SoundBucket
  <2>3. \A x \in ToSet(s) : \E i \in 1 .. Len(s) : s[i] = x
    BY Zenon, <1>1 DEF ToSet
  <2>. QED
    BY Zenon, <2>1, <2>2, <2>3 DEF Bijection, Injection, Surjection, IsInjective
<1>3. ExistsBijection(1 .. Len(s), ToSet(s))
  BY Zenon, <1>2 DEF ExistsBijection
<1>. QED
  BY Zenon, <1>1, <1>3, FS_NatBijection, FS_CountingElements

\* The table is finite.
LEMMA TableIsFinite ==
  ASSUME IInv
  PROVE  IsFiniteSet(all)
<1>. DEFINE image == [b \in Buckets |-> ToSet(buckets_[b])]
            sets == {ToSet(buckets_[b]) : b \in Buckets}
<1>1. IsFiniteSet(Buckets)
  BY FS_Interval, WidthAssumption DEF Buckets
<1>2. image \in Surjection(Buckets, sets)
  BY Zenon DEF Surjection
<1>3. IsFiniteSet(sets)
  <2>. HIDE DEF image, sets
  <2>. QED
    BY Zenon, <1>1, <1>2, FS_Surjection
<1>4. \A T \in sets : IsFiniteSet(T)
  <2>1. \A b \in Buckets : buckets_[b] \in Seq(Entry) /\ SoundBucket(buckets_[b], b)
    BY Zenon, BucketwiseIInv DEF IInv, TypeOK
  <2>2. \A b \in Buckets : IsFiniteSet(ToSet(buckets_[b]))
    BY Zenon, <2>1, BucketCardinality
  <2>. QED
    BY Zenon, <2>2
<1>5. IsFiniteSet(UNION sets)
  <2>. HIDE DEF sets
  <2>. QED
    BY Zenon, <1>3, <1>4, FS_UNION
<1>. QED
  BY Zenon, <1>5 DEF all

\* The entries nearest to an id of a bucket are those of the bucket.
LEMMA NearestAreInside ==
  ASSUME IInv, NEW b \in Buckets, NEW target \in random_id_in_bucket(b)
  PROVE  closest(target, Len(buckets_[b])) = ToSet(buckets_[b])
<1>. DEFINE inside == ToSet(buckets_[b])
            n == Len(buckets_[b])
            preceding(e) == {f \in all : Nearer(target, f, e)}
<1>1. \A c \in Buckets : buckets_[c] \in Seq(Entry) /\ SoundBucket(buckets_[c], c)
  BY Zenon, BucketwiseIInv DEF IInv, TypeOK
<1>2. target \in NodeId /\ IsFirstDifference(target, NUM_BUCKETS - b)
  BY Zenon, TargetInBucket
<1>3. \A c \in Buckets : \A e \in ToSet(buckets_[c]) :
        e \in Entry /\ IsFirstDifference(e.id, NUM_BUCKETS - c)
  <2>1. SUFFICES ASSUME NEW c \in Buckets, NEW e \in ToSet(buckets_[c])
                 PROVE  e \in Entry /\ IsFirstDifference(e.id, NUM_BUCKETS - c)
    BY Zenon
  <2>2. PICK i \in DOMAIN buckets_[c] : e = buckets_[c][i]
    BY Zenon DEF ToSet
  <2>3. e \in Entry
    BY Zenon, <1>1, <2>2, LenProperties, ElementOfSeq
  <2>4. bucket_index(e.id) = c
    BY Zenon, <1>1, <2>2 DEF SoundBucket
  <2>5. e.id \in NodeId
    BY Zenon, <2>3 DEF Entry
  <2>. QED
    BY Zenon, <2>3, <2>4, <2>5, InBucket
<1>4. inside \subseteq all
  BY Zenon DEF all
<1>5. \A f \in all \ inside : \A e \in inside :
        Nearer(target, e, f) /\ ~Nearer(target, f, e)
  <2>1. SUFFICES ASSUME NEW f \in all \ inside, NEW e \in inside
                 PROVE  Nearer(target, e, f) /\ ~Nearer(target, f, e)
    BY Zenon
  <2>2. PICK c \in Buckets : f \in ToSet(buckets_[c])
    BY Zenon DEF all
  <2>3. b # c
    BY Zenon, <2>2
  <2>. QED
    BY Zenon, <1>2, <1>3, <2>2, <2>3, InsideIsNearer
<1>6. IsFiniteSet(inside) /\ Cardinality(inside) = n /\ n \in Nat
  BY Zenon, <1>1, BucketCardinality, LenProperties
<1>7. \A e \in inside : ~Nearer(target, e, e)
  <2>1. \A e \in inside : xor(target, e.id) \in NodeId
    BY Zenon DEF xor, NodeId
  <2>. QED
    BY Zenon, <2>1, LessAsymmetric DEF Nearer
<1>. HIDE DEF inside, n
<1>8. ASSUME NEW e \in inside
      PROVE  Cardinality(preceding(e)) < n
  <2>1. preceding(e) \in SUBSET (inside \ {e})
    BY Zenon, <1>5, <1>7
  <2>2. IsFiniteSet(inside \ {e}) /\ Cardinality(inside \ {e}) = n - 1
    BY Zenon, <1>6, FS_RemoveElement
  <2>. HIDE DEF preceding
  <2>3. IsFiniteSet(preceding(e)) /\ Cardinality(preceding(e)) <= n - 1
    BY <2>1, <2>2, FS_Subset
  <2>4. Cardinality(preceding(e)) \in Nat
    BY Zenon, <2>3, FS_CardinalityType
  <2>. QED
    BY <1>6, <2>3, <2>4
<1>9. ASSUME NEW e \in all, e \notin inside
      PROVE  ~(Cardinality(preceding(e)) < n)
  <2>1. inside \in SUBSET preceding(e) /\ preceding(e) \in SUBSET all
    BY Zenon, <1>4, <1>5, <1>9
  <2>. HIDE DEF preceding
  <2>2. IsFiniteSet(preceding(e))
    BY Zenon, <2>1, TableIsFinite, FS_Subset
  <2>3. n <= Cardinality(preceding(e)) /\ Cardinality(preceding(e)) \in Nat
    BY Zenon, <1>6, <2>1, <2>2, FS_Subset, FS_CardinalityType
  <2>. QED
    BY <1>6, <2>3
<1>10. closest(target, n) = {e \in all : Cardinality(preceding(e)) < n}
  BY Zenon DEF closest
<1>. HIDE DEF preceding
<1>11. closest(target, n) = inside
  BY Zenon, <1>4, <1>8, <1>9, <1>10
<1>. QED
  BY Zenon, <1>11 DEF inside, n

\* routing_table.cpp:307-309: the nodes closest to an id drawn in a bucket are
\* exactly the ones that belong in the bucket, in every reachable table.
THEOREM RefreshStaysInside == Spec => []RefreshAsksTheBucket
<1>1. IInv => RefreshAsksTheBucket
  BY Zenon, NearestAreInside DEF RefreshAsksTheBucket
<1>. QED
  BY <1>1, Invariance, PTL
=============================================================================
