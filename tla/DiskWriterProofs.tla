-------------------------- MODULE DiskWriterProofs --------------------------
(***************************************************************************)
(* Proofs about DiskWriter, for any number of threads, any layout of files *)
(* and any piece size.                                                     *)
(*                                                                         *)
(* The files are cut out of the torrent one behind the other (Layout), so  *)
(* every byte of a piece is in exactly one file, and a call never has to   *)
(* go back to a file that it has passed (Walk).  The locks keep two calls  *)
(* for one piece apart (Locks).  So the bytes of a piece change under one  *)
(* call at a time, which leaves all of them written (Content).             *)
(***************************************************************************)
EXTENDS DiskWriter, SequenceTheorems, WellFoundedInduction, TLAPS

-----------------------------------------------------------------------------
(* The inductive invariant.                                                 *)

Layout ==
  /\ m_piece_size \in Nat \ {0}
  /\ m_files \in Seq([offset : Nat, length : Nat])
  /\ m_files # <<>> /\ m_files[1].offset = 0
  /\ \A f \in 1 .. Len(m_files) - 1 : m_files[f + 1].offset = EndOf(f)
  /\ m_total_size > 0

\* The mutexes of a call are taken in the order of the files, and all held
\* during the loop.
OwnLocks(t) ==
  /\ pc[t] = "idle" => locks[t] = {}
  /\ pc[t] = "io" => Wanted(t) = {}
  /\ locks[t] \subseteq file_indices_for_piece(index[t])
  /\ \A f \in locks[t], g \in Wanted(t) : f < g

Locks ==
  /\ \A t, u \in Threads : t # u => locks[t] \cap locks[u] = {}
  /\ \A t \in Threads : OwnLocks(t)

\* Where a call is: it begins at the first byte of its piece, and while bytes
\* remain it is at a file that starts before them.
OnTheWay(t) ==
  /\ m_files_preallocated
  /\ piece_global_offset(index[t]) <= offset[t]
  /\ offset[t] + remaining[t] =
       piece_global_offset(index[t]) + piece_length(index[t])
  /\ pc[t] = "lock" => offset[t] = piece_global_offset(index[t])
  /\ remaining[t] > 0 =>
       file[t] \in Files /\ m_files[file[t]].offset <= offset[t]

Walk == \A t \in Threads : pc[t] # "idle" => OnTheWay(t)

\* The byte of the torrent at a position of a file.
At(f, b) == m_files[f].offset + b

Written(from, to) ==
  \A f \in Files : \A b \in Positions(f) :
    from <= At(f, b) /\ At(f, b) < to => disk[f][b] = At(f, b)

Blank(p) ==
  \A f \in Files : \A b \in Positions(f) :
    At(f, b) \in Bytes(p) => disk[f][b] = Zero

WrittenPiece(p) ==
  Written(piece_global_offset(p), piece_global_offset(p) + piece_length(p))

Writing(t, p) == pc[t] = "io" /\ op[t] = "write" /\ index[t] = p

\* Nothing is written before preallocate_files has returned; a writer has
\* written everything up to its offset; and a piece that nobody is writing and
\* no write has damaged is written or blank as a whole.
Content ==
  /\ ~m_files_preallocated => done = {} /\ \A p \in Pieces : Blank(p)
  /\ \A p \in done : WrittenPiece(p)
  /\ \A t \in Threads : pc[t] # "idle" /\ op[t] = "write" =>
       Written(piece_global_offset(index[t]), offset[t])
  /\ \A p \in Pieces \ damaged :
       (\A t \in Threads : ~Writing(t, p)) => WrittenPiece(p) \/ Blank(p)

\* A reader holds what is on disk up to its offset.
HasRead(t) ==
  /\ Len(out[t]) = offset[t] - piece_global_offset(index[t])
  /\ \A f \in Files : \A b \in Positions(f) :
       piece_global_offset(index[t]) <= At(f, b) /\ At(f, b) < offset[t] =>
         out[t][At(f, b) - piece_global_offset(index[t]) + 1] = disk[f][b]

Reads == \A t \in Threads : pc[t] # "idle" /\ op[t] = "read" => HasRead(t)

IInv == TypeOK /\ Layout /\ Locks /\ Walk /\ Content /\ Reads

-----------------------------------------------------------------------------
(* Minima and maxima.                                                       *)

\* A non-empty set of numbers has a least element.
LEMMA LeastElement ==
  ASSUME NEW S \in SUBSET Nat, S # {}
  PROVE  \E x \in S : \A y \in S : x <= y
<1>1. PICK x \in S : \A y \in S : ~(<<y, x>> \in OpToRel(<, Nat))
  BY Zenon, NatLessThanWellFounded, WFMin
<1>2. ASSUME NEW y \in S
      PROVE  x <= y
  <2>1. <<y, x>> \in Nat \X Nat
    BY Zenon
  <2>2. ~(<<y, x>>[1] < <<y, x>>[2])
    BY <1>1, <2>1, Zenon DEF OpToRel
  <2>. QED
    BY <2>2
<1>. QED
  BY Zenon, <1>2

\* Min of a set of file numbers is its least element.
LEMMA MinIsLeast ==
  ASSUME NEW S \in SUBSET Nat, S # {}
  PROVE  Min(S) \in S /\ \A y \in S : Min(S) <= y
<1>1. \E x \in S : \A y \in S : x <= y
  BY Zenon, LeastElement
<1>. QED
  BY Zenon, <1>1 DEF Min

\* std::min and std::max of two numbers.
LEMMA MinOfTwo ==
  ASSUME NEW a \in Int, NEW b \in Int
  PROVE  Min({a, b}) = IF a <= b THEN a ELSE b
<1>1. \E x \in {a, b} : \A y \in {a, b} : x <= y
  <2>1. CASE a <= b
    BY <2>1
  <2>2. CASE b <= a
    BY <2>2
  <2>. QED
    BY <2>1, <2>2
<1>2. Min({a, b}) \in {a, b} /\ \A y \in {a, b} : Min({a, b}) <= y
  BY Zenon, <1>1 DEF Min
<1>. QED
  BY <1>2

\* std::max of two numbers.
LEMMA MaxOfTwo ==
  ASSUME NEW a \in Int, NEW b \in Int
  PROVE  Max({a, b}) = IF a >= b THEN a ELSE b
<1>1. \E x \in {a, b} : \A y \in {a, b} : x >= y
  <2>1. CASE a >= b
    BY <2>1
  <2>2. CASE b >= a
    BY <2>2
  <2>. QED
    BY <2>1, <2>2
<1>2. Max({a, b}) \in {a, b} /\ \A y \in {a, b} : Max({a, b}) >= y
  BY Zenon, <1>1 DEF Max
<1>. QED
  BY <1>2

-----------------------------------------------------------------------------
(* The layout of the files.                                                 *)

\* A prefix of the offsets that the constructor assigns.
IsRunningOffset(before, lengths, k) ==
  before = [n \in 1 .. k |-> IF n = 1 THEN 0 ELSE before[n - 1] + lengths[n - 1]]

\* The loop of the constructor assigns an offset to every file: were k the
\* least number of files for which it does not, the offsets of the first k - 1
\* could be continued by one more.
LEMMA RunningOffsetExists ==
  ASSUME NEW lengths \in Seq(Nat)
  PROVE  \A k \in 0 .. Len(lengths) :
           \E before \in [1 .. k -> Nat] : IsRunningOffset(before, lengths, k)
<1>. DEFINE Missing ==
       {k \in 0 .. Len(lengths) :
          ~\E before \in [1 .. k -> Nat] : IsRunningOffset(before, lengths, k)}
<1>. SUFFICES ASSUME Missing # {} PROVE FALSE
  BY Zenon
<1>0. Len(lengths) \in Nat /\ Missing \in SUBSET (0 .. Len(lengths))
  OBVIOUS
<1>1. PICK k \in Missing : \A j \in Missing : k <= j
  <2>. HIDE DEF Missing
  <2>. QED
    BY <1>0, LeastElement
<1>2. k # 0
  <2>1. [n \in 1 .. 0 |-> 0] \in [1 .. 0 -> Nat]
    BY Zenon
  <2>2. IsRunningOffset([n \in 1 .. 0 |-> 0], lengths, 0)
    BY DEF IsRunningOffset
  <2>. QED
    BY Zenon, <1>1, <2>1, <2>2
<1>3. k \in 1 .. Len(lengths) /\ k - 1 \in 0 .. Len(lengths) /\ k - 1 \notin Missing
  <2>. HIDE DEF Missing
  <2>. QED
    BY <1>0, <1>1, <1>2
<1>4. PICK before \in [1 .. k - 1 -> Nat] : IsRunningOffset(before, lengths, k - 1)
  BY Zenon, <1>3
<1>. HIDE DEF Missing
<1>. DEFINE longer ==
       [n \in 1 .. k |-> IF n = 1 THEN 0 ELSE before[n - 1] + lengths[n - 1]]
<1>5. \A n \in 1 .. k : n # 1 => before[n - 1] \in Nat /\ lengths[n - 1] \in Nat
  BY SMTT(30), <1>3, <1>4
<1>6. longer \in [1 .. k -> Nat]
  BY SMTT(30), <1>3, <1>5
<1>7. \A n \in 1 .. k - 1 : longer[n] = before[n]
  BY <1>3, <1>4 DEF IsRunningOffset
<1>8. \A n \in 1 .. k : n # 1 => longer[n - 1] = before[n - 1]
  <2>. HIDE DEF longer
  <2>. QED
    BY <1>3, <1>7
<1>9. IsRunningOffset(longer, lengths, k)
  BY Zenon, <1>8 DEF IsRunningOffset
<1>. QED
  BY Zenon, <1>1, <1>6, <1>9 DEF Missing

\* The offsets that the constructor assigns obey the recursion of its loop.
LEMMA RunningOffset ==
  ASSUME NEW lengths \in Seq(Nat)
  PROVE  /\ running_offset(lengths) \in [1 .. Len(lengths) -> Nat]
         /\ IsRunningOffset(running_offset(lengths), lengths, Len(lengths))
<1>. DEFINE start == running_offset(lengths)
<1>1. Len(lengths) \in Nat /\ \A n \in 1 .. Len(lengths) : lengths[n] \in Nat
  OBVIOUS
<1>2. \E before : IsRunningOffset(before, lengths, Len(lengths))
  BY <1>1, RunningOffsetExists
<1>3. IsRunningOffset(start, lengths, Len(lengths))
  BY <1>2, Zenon DEF running_offset, IsRunningOffset
<1>4. /\ DOMAIN start = 1 .. Len(lengths)
      /\ \A n \in 1 .. Len(lengths) :
           /\ n = 1 => start[n] = 0
           /\ n # 1 => start[n] = start[n - 1] + lengths[n - 1]
      /\ start = [n \in 1 .. Len(lengths) |-> start[n]]
  <2>. HIDE DEF start
  <2>. QED
    BY Zenon, <1>3 DEF IsRunningOffset
<1>. DEFINE Wrong == {n \in 1 .. Len(lengths) : start[n] \notin Nat}
<1>. HIDE DEF start
<1>5. Wrong \in SUBSET Nat
  BY <1>1
<1>6. ASSUME Wrong # {}
      PROVE  FALSE
  <2>1. PICK n \in Wrong : \A j \in Wrong : n <= j
    <3>. HIDE DEF Wrong
    <3>. QED
      BY Zenon, <1>5, <1>6, LeastElement
  <2>2. n \in 1 .. Len(lengths) /\ start[n] \notin Nat
    BY Zenon, <2>1
  <2>. HIDE DEF Wrong
  <2>3. n # 1
    <3>1. n = 1 => start[n] = 0
      BY Zenon, <1>4, <2>2
    <3>. QED
      BY <2>2, <3>1
  <2>4. n - 1 \in 1 .. Len(lengths) /\ n - 1 \notin Wrong
    BY <1>1, <2>1, <2>2, <2>3
  <2>5. start[n] = start[n - 1] + lengths[n - 1]
    BY Zenon, <1>4, <2>2, <2>3
  <2>6. start[n - 1] \in Nat /\ lengths[n - 1] \in Nat
    BY Zenon, <1>1, <2>4 DEF Wrong
  <2>. QED
    BY <2>2, <2>5, <2>6
<1>7. start \in [1 .. Len(lengths) -> Nat]
  BY Zenon, <1>4, <1>6
<1>. QED
  BY Zenon, <1>3, <1>7 DEF start

\* The constructor lays the files out one behind the other.
LEMMA InitLayout ==
  ASSUME Init
  PROVE  Layout
<1>1. PICK layout \in Layouts : m_files = WithOffsets(layout)
  BY Zenon DEF Init
<1>2. layout \in Seq(Nat)
  BY Zenon, LayoutAssumption
<1>. DEFINE start == running_offset(layout)
<1>3. start \in [1 .. Len(layout) -> Nat]
  BY Zenon, <1>2, RunningOffset
<1>4. \A n \in 1 .. Len(layout) :
        /\ n = 1 => start[n] = 0
        /\ n # 1 => start[n] = start[n - 1] + layout[n - 1]
  BY Zenon, <1>2, RunningOffset DEF IsRunningOffset
<1>5. m_files = [n \in 1 .. Len(layout) |->
                   [offset |-> start[n], length |-> layout[n]]]
  BY Zenon, <1>1 DEF WithOffsets
<1>. HIDE DEF start
<1>6. /\ m_files \in Seq([offset : Nat, length : Nat])
      /\ Len(m_files) = Len(layout)
      /\ \A n \in 1 .. Len(layout) :
           m_files[n].offset = start[n] /\ m_files[n].length = layout[n]
  BY <1>2, <1>3, <1>5
<1>7. m_files # <<>> /\ m_total_size > 0 /\ m_piece_size \in Nat \ {0}
  BY Zenon, LayoutAssumption DEF Init
<1>8. Len(m_files) \in Nat \ {0}
  BY <1>6, <1>7
<1>9. m_files[1].offset = 0
  BY <1>4, <1>6, <1>8
<1>10. ASSUME NEW f \in 1 .. Len(m_files) - 1
       PROVE  m_files[f + 1].offset = EndOf(f)
  <2>1. f \in 1 .. Len(layout) /\ f + 1 \in 1 .. Len(layout) /\ f + 1 # 1
    BY <1>6, <1>8
  <2>2. start[f + 1] = start[(f + 1) - 1] + layout[(f + 1) - 1]
    BY Zenon, <1>4, <2>1
  <2>3. (f + 1) - 1 = f
    BY <1>8
  <2>. QED
    BY Zenon, <1>6, <2>1, <2>2, <2>3 DEF EndOf
<1>. QED
  BY Zenon, <1>6, <1>7, <1>9, <1>10 DEF Layout

\* What Layout says of one file.
LEMMA FileTypes ==
  ASSUME Layout
  PROVE  /\ Len(m_files) \in Nat \ {0}
         /\ \A f \in Files :
              /\ m_files[f].offset \in Nat
              /\ m_files[f].length \in Nat
              /\ EndOf(f) \in Nat
              /\ EndOf(f) = m_files[f].offset + m_files[f].length
         /\ m_total_size \in Nat
<1>1. Len(m_files) \in Nat \ {0}
  BY DEF Layout
<1>2. ASSUME NEW f \in Files
      PROVE  m_files[f].offset \in Nat /\ m_files[f].length \in Nat
  <2>1. m_files \in Seq([offset : Nat, length : Nat]) /\ f \in 1 .. Len(m_files)
    BY Zenon DEF Layout, Files
  <2>2. m_files[f] \in [offset : Nat, length : Nat]
    BY Zenon, <2>1, ElementOfSeq
  <2>. QED
    BY Zenon, <2>2
<1>. QED
  BY <1>1, <1>2 DEF EndOf, m_total_size, Files

\* A position of a file is a byte between its two ends.
LEMMA BytePosition ==
  ASSUME Layout, NEW f \in Files, NEW b \in Positions(f)
  PROVE  /\ At(f, b) \in Nat
         /\ m_files[f].offset <= At(f, b)
         /\ At(f, b) < EndOf(f)
<1>1. m_files[f].offset \in Nat /\ m_files[f].length \in Nat
  BY Zenon, FileTypes
<1>2. b \in 0 .. m_files[f].length - 1
  BY Zenon DEF Positions
<1>. QED
  BY <1>1, <1>2 DEF At, EndOf

\* A file lies behind all files before it.
LEMMA FilesInOrder ==
  ASSUME Layout, NEW f \in Files, NEW g \in Files, f < g
  PROVE  EndOf(f) <= m_files[g].offset
<1>. DEFINE Wrong == {h \in Files : f < h /\ ~(EndOf(f) <= m_files[h].offset)}
<1>. SUFFICES ASSUME Wrong # {} PROVE FALSE
  BY Zenon
<1>1. Wrong \in SUBSET Nat
  BY DEF Files
<1>2. PICK h \in Wrong : \A j \in Wrong : h <= j
  <2>. HIDE DEF Wrong
  <2>. QED
    BY Zenon, <1>1, LeastElement
<1>3. h \in Files /\ f < h /\ ~(EndOf(f) <= m_files[h].offset)
  BY Zenon, <1>2
<1>4. h - 1 \in 1 .. Len(m_files) - 1 /\ h - 1 \in Files /\ h - 1 \notin Wrong
  BY <1>2, <1>3, FileTypes DEF Files
<1>5. m_files[h].offset = EndOf(h - 1)
  <2>1. m_files[(h - 1) + 1].offset = EndOf(h - 1)
    BY Zenon, <1>4 DEF Layout
  <2>. QED
    BY <1>3, <2>1 DEF Files
<1>6. f = h - 1 \/ EndOf(f) <= m_files[h - 1].offset
  BY <1>3, <1>4 DEF Files
<1>. QED
  BY SMTT(30), <1>3, <1>4, <1>5, <1>6, FileTypes

\* Every byte of the torrent is in a file.
LEMMA ByteInFile ==
  ASSUME Layout, NEW x \in 0 .. m_total_size - 1
  PROVE  \E f \in Files : \E b \in Positions(f) : At(f, b) = x
<1>. DEFINE Behind == {f \in Files : x < EndOf(f)}
<1>1. Behind \in SUBSET Nat /\ Len(m_files) \in Behind
  BY FileTypes DEF Files, m_total_size
<1>2. PICK f \in Behind : \A j \in Behind : f <= j
  <2>. HIDE DEF Behind
  <2>. QED
    BY Zenon, <1>1, LeastElement
<1>3. f \in Files /\ x < EndOf(f)
  BY Zenon, <1>2
<1>4. m_files[f].offset <= x
  <2>1. CASE f = 1
    BY <2>1 DEF Layout
  <2>2. CASE f # 1
    <3>1. f - 1 \in 1 .. Len(m_files) - 1 /\ f - 1 \in Files /\ f - 1 \notin Behind
      BY <1>2, <1>3, <2>2, FileTypes DEF Files
    <3>2. m_files[(f - 1) + 1].offset = EndOf(f - 1)
      BY Zenon, <3>1 DEF Layout
    <3>. QED
      BY <1>3, <3>1, <3>2, FileTypes DEF Files
  <2>. QED
    BY Zenon, <2>1, <2>2
<1>5. x - m_files[f].offset \in Positions(f) /\ At(f, x - m_files[f].offset) = x
  BY SMTT(30), <1>3, <1>4, FileTypes DEF Positions, At
<1>. QED
  BY Zenon, <1>3, <1>5

\* A byte of the torrent is in one file only.
LEMMA OneFilePerByte ==
  ASSUME Layout, NEW f \in Files, NEW b \in Positions(f),
         NEW g \in Files, NEW x \in Int,
         m_files[g].offset <= x, x < EndOf(g), At(f, b) = x
  PROVE  f = g
<1>1. At(f, b) < EndOf(f) /\ m_files[f].offset <= At(f, b) /\ At(f, b) \in Int
  BY Zenon, BytePosition
<1>2. f \in Int /\ g \in Int
  BY DEF Files
<1>3. CASE f < g
  BY <1>1, <1>3, FilesInOrder, FileTypes
<1>4. CASE g < f
  BY <1>1, <1>4, FilesInOrder, FileTypes
<1>. QED
  BY <1>2, <1>3, <1>4

-----------------------------------------------------------------------------
(* The pieces.                                                              *)

\* Pieces of one size, one behind the other, do not overlap.
LEMMA Multiples ==
  ASSUME NEW p \in Nat, NEW q \in Nat, NEW s \in Nat, p < q
  PROVE  p * s + s <= q * s
<1>. DEFINE k == q - (p + 1)
<1>1. k \in Nat /\ q = p + 1 + k
  OBVIOUS
<1>2. k * s \in Nat /\ p * s \in Nat
  BY <1>1
<1>3. q * s = p * s + s + k * s
  BY <1>1
<1>. QED
  BY <1>2, <1>3

\* A piece lies inside the torrent and is not empty.
LEMMA PieceTypes ==
  ASSUME Layout, NEW p \in Pieces
  PROVE  /\ p \in Nat
         /\ piece_global_offset(p) \in Nat
         /\ piece_length(p) \in Nat \ {0}
         /\ piece_length(p) <= m_piece_size
         /\ piece_global_offset(p) + piece_length(p) <= m_total_size
         /\ Bytes(p) = piece_global_offset(p) ..
                         piece_global_offset(p) + piece_length(p) - 1
<1>1. m_piece_size \in Nat \ {0} /\ m_total_size \in Nat
  BY Zenon, FileTypes DEF Layout
<1>2. p \in Nat /\ p * m_piece_size < m_total_size
  BY <1>1 DEF Pieces
<1>3. p * m_piece_size \in Nat
  BY <1>1, <1>2
<1>4. piece_global_offset(p) \in Nat /\ piece_global_offset(p) < m_total_size
  BY Zenon, <1>2, <1>3 DEF piece_global_offset
<1>5. Min({piece_global_offset(p) + m_piece_size, m_total_size}) =
        IF piece_global_offset(p) + m_piece_size <= m_total_size
        THEN piece_global_offset(p) + m_piece_size ELSE m_total_size
  BY <1>1, <1>4, MinOfTwo
<1>. QED
  BY <1>1, <1>2, <1>4, <1>5 DEF piece_length, Bytes

\* Two pieces have no byte in common.
LEMMA PiecesDisjoint ==
  ASSUME Layout, NEW p \in Pieces, NEW q \in Pieces, p < q
  PROVE  piece_global_offset(p) + piece_length(p) <= piece_global_offset(q)
<1>1. p \in Nat /\ q \in Nat /\ m_piece_size \in Nat
  BY Zenon, PieceTypes DEF Layout
<1>2. p * m_piece_size + m_piece_size <= q * m_piece_size
  BY Zenon, <1>1, Multiples
<1>3. piece_length(p) \in Nat /\ piece_length(p) <= m_piece_size
  BY Zenon, PieceTypes
<1>4. p * m_piece_size \in Nat /\ q * m_piece_size \in Nat
  BY <1>1
<1>. QED
  BY <1>1, <1>2, <1>3, <1>4 DEF piece_global_offset

\* A call locks at least one file.
LEMMA SomeFileToLock ==
  ASSUME Layout, NEW p \in Pieces
  PROVE  file_indices_for_piece(p) # {}
<1>1. piece_global_offset(p) \in 0 .. m_total_size - 1
  BY PieceTypes, FileTypes
<1>2. PICK f \in Files : \E b \in Positions(f) : At(f, b) = piece_global_offset(p)
  BY Zenon, <1>1, ByteInFile
<1>3. PICK b \in Positions(f) : At(f, b) = piece_global_offset(p)
  BY Zenon, <1>2
<1>4. /\ m_files[f].offset <= piece_global_offset(p)
      /\ piece_global_offset(p) < EndOf(f)
  BY <1>3, FileTypes DEF At, Positions
<1>5. piece_global_offset(p) + piece_length(p) > m_files[f].offset
  BY <1>4, PieceTypes, FileTypes
<1>. QED
  BY Zenon, <1>4, <1>5 DEF file_indices_for_piece

\* The layout does not change, and nothing that is computed from it.
LEMMA SameLayout ==
  ASSUME UNCHANGED layoutVars
  PROVE  /\ UNCHANGED <<m_files, m_piece_size, Files, m_total_size, Pieces>>
         /\ \A f : UNCHANGED <<EndOf(f), Positions(f)>>
         /\ \A f, b : UNCHANGED At(f, b)
         /\ \A p : UNCHANGED <<piece_global_offset(p), piece_length(p), Bytes(p),
                              file_indices_for_piece(p)>>
<1>1. m_files' = m_files /\ m_piece_size' = m_piece_size
  BY Zenon DEF layoutVars
<1>2. Files' = Files /\ m_total_size' = m_total_size /\ \A f : EndOf(f)' = EndOf(f)
  BY Zenon, <1>1 DEF Files, m_total_size, EndOf
<1>3. \A f : Positions(f)' = Positions(f) /\ \A b : At(f, b)' = At(f, b)
  BY Zenon, <1>1 DEF Positions, At
<1>4. \A p : /\ piece_global_offset(p)' = piece_global_offset(p)
             /\ piece_length(p)' = piece_length(p)
  BY Zenon, <1>1, <1>2 DEF piece_global_offset, piece_length
<1>5. \A p : Bytes(p)' = Bytes(p)
  BY Zenon, <1>4 DEF Bytes
<1>6. \A p : file_indices_for_piece(p)' = file_indices_for_piece(p)
  BY Zenon, <1>1, <1>2, <1>4 DEF file_indices_for_piece
<1>7. Pieces' = Pieces
  BY Zenon, <1>1, <1>2 DEF Pieces
<1>. QED
  BY Zenon, <1>1, <1>2, <1>3, <1>4, <1>5, <1>6, <1>7

-----------------------------------------------------------------------------
(* One turn of the loop over the files.                                     *)

\* A call that is at work is inside its piece, and its file begins before.
LEMMA AtWork ==
  ASSUME TypeOK, Layout, Walk, NEW t \in Threads, InLoop(t)
  PROVE  /\ pc[t] = "io" /\ index[t] \in Pieces
         /\ file[t] \in Files /\ file[t] \in Nat
         /\ offset[t] \in Nat /\ remaining[t] \in Nat \ {0}
         /\ m_files[file[t]].offset <= offset[t]
         /\ piece_global_offset(index[t]) <= offset[t]
         /\ offset[t] + remaining[t] =
              piece_global_offset(index[t]) + piece_length(index[t])
<1>1. pc[t] = "io" /\ file[t] \in Files /\ remaining[t] > 0
  BY Zenon DEF InLoop
<1>2. index[t] \in Pieces /\ offset[t] \in Nat /\ remaining[t] \in Nat
  BY Zenon DEF TypeOK
<1>3. file[t] \in Nat
  BY <1>1 DEF Files
<1>. QED
  BY <1>1, <1>2, <1>3 DEF Walk, OnTheWay

\* A chunk begins at the offset and ends with the file or with the piece.
LEMMA ChunkFacts ==
  ASSUME TypeOK, Layout, Walk, NEW t \in Threads, Touches(t)
  PROVE  /\ StartInFile(t) = offset[t] - m_files[file[t]].offset
         /\ StartInFile(t) \in Nat
         /\ Chunk(t) \in Nat \ {0}
         /\ Chunk(t) <= remaining[t]
         /\ offset[t] + Chunk(t) <= EndOf(file[t])
         /\ Chunk(t) # remaining[t] => offset[t] + Chunk(t) = EndOf(file[t])
<1>1. /\ file[t] \in Files /\ offset[t] \in Nat /\ remaining[t] \in Nat \ {0}
      /\ m_files[file[t]].offset <= offset[t]
  BY Zenon, AtWork DEF Touches
<1>2. offset[t] < EndOf(file[t])
  BY <1>1, FileTypes DEF Touches, Skips
<1>3. /\ m_files[file[t]].offset \in Nat /\ m_files[file[t]].length \in Nat
      /\ EndOf(file[t]) = m_files[file[t]].offset + m_files[file[t]].length
  BY Zenon, <1>1, FileTypes
<1>4. StartInFile(t) = offset[t] - m_files[file[t]].offset
  BY <1>1, <1>3, MaxOfTwo DEF StartInFile
<1>5. Chunk(t) = IF remaining[t] <= m_files[file[t]].length - StartInFile(t)
                 THEN remaining[t] ELSE m_files[file[t]].length - StartInFile(t)
  BY <1>1, <1>3, <1>4, MinOfTwo DEF Chunk
<1>. QED
  BY <1>1, <1>2, <1>3, <1>4, <1>5

\* After a chunk that does not end the piece comes the next file.
LEMMA NextFile ==
  ASSUME TypeOK, Layout, Walk, NEW t \in Threads, InLoop(t),
         NEW x \in Nat, EndOf(file[t]) <= x,
         x < piece_global_offset(index[t]) + piece_length(index[t])
  PROVE  file[t] + 1 \in Files /\ m_files[file[t] + 1].offset <= x
<1>1. index[t] \in Pieces /\ file[t] \in Files
  BY Zenon, AtWork
<1>2. piece_global_offset(index[t]) + piece_length(index[t]) <= m_total_size
  BY Zenon, <1>1, PieceTypes
<1>3. x < m_total_size
  BY <1>1, <1>2, PieceTypes, FileTypes
<1>4. file[t] # Len(m_files)
  BY <1>1, <1>3, FileTypes DEF m_total_size
<1>5. file[t] \in 1 .. Len(m_files) - 1 /\ file[t] + 1 \in Files
  BY <1>1, <1>4, FileTypes DEF Files
<1>6. m_files[file[t] + 1].offset = EndOf(file[t])
  BY Zenon, <1>5 DEF Layout
<1>. QED
  BY Zenon, <1>5, <1>6

\* A write puts n bytes of the torrent where they belong and touches no other.
LEMMA StoreEffect ==
  ASSUME TypeOK, Layout, Walk, NEW t \in Threads, Touches(t),
         NEW n \in 0 .. Chunk(t), Store(t, n)
  PROVE  /\ DOMAIN disk' = Files
         /\ \A f \in Files : \A b \in Positions(f) :
              /\ offset[t] <= At(f, b) /\ At(f, b) < offset[t] + n =>
                   disk'[f][b] = At(f, b)
              /\ ~(offset[t] <= At(f, b) /\ At(f, b) < offset[t] + n) =>
                   disk'[f][b] = disk[f][b]
         /\ \A f \in Files : disk'[f] \in [Positions(f) -> {Zero} \cup Nat]
<1>1. file[t] \in Files /\ offset[t] \in Nat /\ m_files[file[t]].offset <= offset[t]
  BY Zenon, AtWork DEF Touches
<1>2. /\ StartInFile(t) = offset[t] - m_files[file[t]].offset
      /\ StartInFile(t) \in Nat /\ Chunk(t) \in Nat
      /\ offset[t] + Chunk(t) <= EndOf(file[t])
  BY Zenon, ChunkFacts
<1>3. n \in Nat /\ offset[t] + n <= EndOf(file[t])
  BY <1>1, <1>2, FileTypes
<1>4. /\ DOMAIN disk = Files
      /\ \A f \in Files : disk[f] \in [Positions(f) -> {Zero} \cup Nat]
  BY Zenon DEF TypeOK
<1>5. /\ DOMAIN disk' = Files
      /\ \A f \in Files : f # file[t] => disk'[f] = disk[f]
      /\ disk'[file[t]] =
           [b \in Positions(file[t]) |->
              IF b \in Span(t, n) THEN offset[t] + b - StartInFile(t)
                                  ELSE disk[file[t]][b]]
  BY Zenon, <1>1, <1>4 DEF Store
<1>6. ASSUME NEW b \in Positions(file[t])
      PROVE  /\ b \in Nat
             /\ b \in Span(t, n) <=> /\ offset[t] <= At(file[t], b)
                                    /\ At(file[t], b) < offset[t] + n
             /\ offset[t] + b - StartInFile(t) = At(file[t], b)
             /\ At(file[t], b) \in Nat
  <2>1. m_files[file[t]].offset \in Nat /\ m_files[file[t]].length \in Nat
    BY Zenon, <1>1, FileTypes
  <2>2. b \in Nat
    BY <2>1 DEF Positions
  <2>. QED
    BY <1>1, <1>2, <1>3, <2>1, <2>2 DEF Span, At
<1>7. ASSUME NEW f \in Files, NEW b \in Positions(f), f # file[t]
      PROVE  ~(offset[t] <= At(f, b) /\ At(f, b) < offset[t] + n)
  <2>1. At(f, b) \in Nat /\ m_files[file[t]].offset \in Nat /\ EndOf(file[t]) \in Nat
    BY Zenon, <1>1, BytePosition, FileTypes
  <2>2. ~(m_files[file[t]].offset <= At(f, b) /\ At(f, b) < EndOf(file[t]))
    BY <1>1, <1>7, <2>1, OneFilePerByte
  <2>. QED
    BY <1>1, <1>3, <2>1, <2>2
<1>8. ASSUME NEW f \in Files
      PROVE  disk'[f] \in [Positions(f) -> {Zero} \cup Nat]
  <2>1. CASE f = file[t]
    <3>1. \A b \in Positions(f) : disk[f][b] \in {Zero} \cup Nat
      BY Zenon, <1>4
    <3>. QED
      BY <1>5, <1>6, <2>1, <3>1
  <2>2. CASE f # file[t]
    BY Zenon, <1>4, <1>5, <2>2
  <2>. QED
    BY Zenon, <2>1, <2>2
<1>9. ASSUME NEW f \in Files, NEW b \in Positions(f)
      PROVE  /\ offset[t] <= At(f, b) /\ At(f, b) < offset[t] + n =>
                   disk'[f][b] = At(f, b)
             /\ ~(offset[t] <= At(f, b) /\ At(f, b) < offset[t] + n) =>
                   disk'[f][b] = disk[f][b]
  BY Zenon, <1>5, <1>6, <1>7
<1>. QED
  BY Zenon, <1>5, <1>8, <1>9

-----------------------------------------------------------------------------
(* What a step leaves alone.                                                *)

\* The table of files never changes after the constructor.
LEMMA LayoutStep ==
  ASSUME Layout, UNCHANGED layoutVars
  PROVE  Layout'
  BY Zenon, SameLayout DEF Layout

\* Whether bytes are written depends on the layout and the disk.
LEMMA SameDisk ==
  ASSUME UNCHANGED layoutVars, UNCHANGED disk
  PROVE  /\ \A from, to : Written(from, to)' <=> Written(from, to)
         /\ \A p : WrittenPiece(p)' <=> WrittenPiece(p)
         /\ \A p : Blank(p)' <=> Blank(p)
<1>1. \A from, to : Written(from, to)' <=> Written(from, to)
  BY SMTT(30), SameLayout DEF Written
<1>2. \A p : Blank(p)' <=> Blank(p)
  BY Zenon, SameLayout DEF Blank
<1>. QED
  BY Zenon, <1>1, <1>2, SameLayout DEF WrittenPiece

\* What a call has read so far.
LEMMA SameRead ==
  ASSUME UNCHANGED layoutVars, UNCHANGED disk, NEW t,
         UNCHANGED <<index[t], offset[t], out[t]>>
  PROVE  HasRead(t)' <=> HasRead(t)
<1>1. /\ UNCHANGED <<Files, piece_global_offset(index[t]), index[t], offset[t], out[t]>>
      /\ \A f : UNCHANGED Positions(f)
      /\ \A f, b : UNCHANGED At(f, b)
  BY Zenon, SameLayout
<1>. QED
  BY <1>1 DEF HasRead

\* A step that moves no bytes and no call.
LEMMA StandStill ==
  ASSUME Content, Reads,
         UNCHANGED <<layoutVars, m_files_preallocated, disk, done, damaged>>,
         UNCHANGED <<pc, op, index, offset, out>>
  PROVE  Content' /\ Reads'
<1>1. \A t, p : Writing(t, p)' <=> Writing(t, p)
  BY Zenon DEF Writing
<1>2. \A t : HasRead(t)' <=> HasRead(t)
  BY Zenon, SameRead
<1>3. \A t : UNCHANGED piece_global_offset(index[t]) /\ Pieces' = Pieces
  BY Zenon, SameLayout
<1>4. Content'
  BY Zenon, <1>1, <1>3, SameDisk DEF Content
<1>. QED
  BY Zenon, <1>2, <1>4 DEF Reads

\* Two calls that are in the loop work on different pieces: they would both
\* hold the first mutex of the piece.
LEMMA Exclusive ==
  ASSUME TypeOK, Layout, Locks, NEW t \in Threads, NEW u \in Threads, t # u,
         pc[t] = "io", pc[u] = "io"
  PROVE  index[t] # index[u]
<1>1. index[t] \in Pieces /\ locks[t] \cap locks[u] = {}
  BY Zenon DEF TypeOK, Locks
<1>2. /\ locks[t] = file_indices_for_piece(index[t])
      /\ locks[u] = file_indices_for_piece(index[u])
  BY Zenon DEF Locks, OwnLocks, Wanted
<1>. QED
  BY Zenon, <1>1, <1>2, SomeFileToLock

\* A write to one piece does not change the bytes of another, never overwrites
\* what is written, and extends what the writer has written.
LEMMA StoreKeeps ==
  ASSUME TypeOK, Layout, Walk, UNCHANGED layoutVars,
         NEW t \in Threads, Touches(t), NEW n \in 0 .. Chunk(t), Store(t, n)
  PROVE  /\ \A q \in Pieces : q # index[t] =>
              \A f \in Files : \A b \in Positions(f) :
                At(f, b) \in Bytes(q) => disk'[f][b] = disk[f][b]
         /\ \A from, to : Written(from, to) => Written(from, to)'
         /\ \A from, to, upto :
              /\ to = offset[t] /\ upto = offset[t] + n
              /\ Written(from, to)
              => Written(from, upto)'
<1>1. /\ index[t] \in Pieces /\ offset[t] \in Nat /\ remaining[t] \in Nat
      /\ piece_global_offset(index[t]) <= offset[t]
      /\ offset[t] + remaining[t] =
           piece_global_offset(index[t]) + piece_length(index[t])
  BY Zenon, AtWork DEF Touches
<1>2. n \in Nat /\ n <= remaining[t]
  BY <1>1, ChunkFacts
<1>3. ASSUME NEW q \in Pieces, q # index[t],
             NEW f \in Files, NEW b \in Positions(f), At(f, b) \in Bytes(q)
      PROVE  disk'[f][b] = disk[f][b]
  <2>1. /\ At(f, b) \in Nat
        /\ piece_global_offset(q) <= At(f, b)
        /\ At(f, b) < piece_global_offset(q) + piece_length(q)
    BY <1>3, BytePosition, PieceTypes
  <2>2. q \in Nat /\ index[t] \in Nat
    BY Zenon, <1>1, PieceTypes
  <2>3. \/ piece_global_offset(q) + piece_length(q) <= piece_global_offset(index[t])
        \/ piece_global_offset(index[t]) + piece_length(index[t])
              <= piece_global_offset(q)
    BY <1>1, <1>3, <2>2, PiecesDisjoint
  <2>4. /\ piece_global_offset(q) \in Nat /\ piece_length(q) \in Nat
        /\ piece_global_offset(index[t]) \in Nat /\ piece_length(index[t]) \in Nat
    BY Zenon, <1>1, PieceTypes
  <2>5. ~(offset[t] <= At(f, b) /\ At(f, b) < offset[t] + n)
    BY <1>1, <1>2, <2>1, <2>3, <2>4
  <2>. QED
    BY Zenon, <2>5, StoreEffect
<1>4. ASSUME NEW from, NEW to, Written(from, to)
      PROVE  Written(from, to)'
  BY <1>4, StoreEffect, SameLayout DEF Written
<1>5. ASSUME NEW from, NEW to, NEW upto, to = offset[t], upto = offset[t] + n,
             Written(from, to)
      PROVE  Written(from, upto)'
  <2>1. ASSUME NEW f \in Files, NEW b \in Positions(f), from <= At(f, b),
               At(f, b) < upto
        PROVE  disk'[f][b] = At(f, b)
    <3>1. At(f, b) \in Nat
      BY Zenon, BytePosition
    <3>2. CASE At(f, b) < to
      BY Zenon, <1>1, <1>5, <2>1, <3>1, <3>2, StoreEffect DEF Written
    <3>3. CASE to <= At(f, b)
      BY Zenon, <1>5, <2>1, <3>3, StoreEffect
    <3>. QED
      BY <1>1, <1>5, <3>1, <3>2, <3>3
  <2>. QED
    BY <2>1, SameLayout DEF Written
<1>. QED
  BY Zenon, <1>3, <1>4, <1>5

-----------------------------------------------------------------------------
(* Initially, and preallocate_files.                                        *)

\* The invariant holds once the constructor has laid out the files.
LEMMA InitIInv ==
  ASSUME Init
  PROVE  IInv
<1>1. Layout
  BY Zenon, InitLayout
<1>2. 0 \in Pieces
  BY <1>1, FileTypes DEF Pieces, Layout
<1>3. TypeOK
  <2>1. /\ DOMAIN disk = Files
        /\ \A f \in Files : disk[f] \in [Positions(f) -> {Zero} \cup Nat]
    BY Zenon DEF Init
  <2>2. /\ pc \in [Threads -> {"idle", "lock", "io"}]
        /\ op \in [Threads -> {"write", "read"}]
        /\ index \in [Threads -> Pieces]
        /\ locks \in [Threads -> SUBSET Files]
    BY Zenon, <1>2 DEF Init
  <2>3. /\ created \in 0 .. Len(m_files)
        /\ file \in [Threads -> 1 .. Len(m_files) + 1]
        /\ offset \in [Threads -> Nat] /\ remaining \in [Threads -> Nat]
    BY <1>1, FileTypes DEF Init
  <2>4. out \in [Threads -> Seq({Zero} \cup Nat)]
    <3>1. <<>> \in Seq({Zero} \cup Nat)
      BY Zenon, EmptySeq
    <3>. QED
      BY Zenon, <3>1 DEF Init
  <2>. QED
    BY Zenon, <1>1, <2>1, <2>2, <2>3, <2>4 DEF Init, TypeOK, Layout
<1>4. Locks
  BY Zenon DEF Init, Locks, OwnLocks
<1>5. Walk /\ Reads
  BY Zenon DEF Init, Walk, Reads
<1>6. ASSUME NEW p \in Pieces
      PROVE  Blank(p)
  BY Zenon DEF Init, Blank
<1>7. Content
  BY Zenon, <1>6 DEF Init, Content
<1>. QED
  BY Zenon, <1>1, <1>3, <1>4, <1>5, <1>7 DEF IInv

\* Before preallocate_files has returned there are no calls.
LEMMA CreateFileStep ==
  ASSUME IInv, CreateFile
  PROVE  IInv'
<1>1. UNCHANGED <<layoutVars, m_files_preallocated, callVars, done, damaged>>
  BY Zenon DEF CreateFile
<1>2. UNCHANGED <<pc, op, index, locks, file, offset, remaining, out>>
  BY Zenon, <1>1 DEF callVars
<1>3. Layout'
  BY Zenon, <1>1, LayoutStep DEF IInv
<1>4. created + 1 \in Files /\ created' = created + 1
  BY FileTypes DEF IInv, TypeOK, CreateFile, Files
<1>5. DOMAIN disk' = Files /\ \A f \in Files :
        /\ f # created + 1 => disk'[f] = disk[f]
        /\ f = created + 1 => disk'[f] = [b \in Positions(f) |-> Zero]
  BY Zenon, <1>4 DEF IInv, TypeOK, CreateFile
<1>6. \A f \in Files : disk'[f] \in [Positions(f) -> {Zero} \cup Nat]
  BY <1>5 DEF IInv, TypeOK
<1>7. TypeOK'
  BY SMTT(30), <1>1, <1>2, <1>4, <1>5, <1>6, SameLayout DEF IInv, TypeOK, Files
<1>8. \A t \in Threads : pc[t] = "idle"
  BY Zenon DEF IInv, Walk, OnTheWay, CreateFile
<1>9. Locks'
  BY Zenon, <1>1, <1>2, SameLayout DEF IInv, Locks, OwnLocks, Wanted
<1>10. Walk' /\ Reads'
  BY Zenon, <1>2, <1>8 DEF Walk, Reads
<1>11. done' = {}
  BY Zenon, <1>1 DEF IInv, Content, CreateFile
<1>12. ASSUME NEW p \in Pieces
       PROVE  Blank(p)'
  <2>1. Blank(p)
    BY Zenon DEF IInv, Content, CreateFile
  <2>. QED
    BY SMTT(30), <1>1, <1>5, <2>1, SameLayout DEF Blank
<1>13. Content'
  BY Zenon, <1>1, <1>2, <1>8, <1>11, <1>12, SameLayout DEF Content
<1>. QED
  BY Zenon, <1>3, <1>7, <1>9, <1>10, <1>13 DEF IInv

\* preallocate_files sets its flag once all files exist.
LEMMA FinishPreallocationStep ==
  ASSUME IInv, FinishPreallocation
  PROVE  IInv'
<1>1. UNCHANGED <<layoutVars, created, disk, callVars, done, damaged>>
  BY Zenon DEF FinishPreallocation
<1>2. /\ UNCHANGED <<pc, op, index, locks, file, offset, remaining, out>>
      /\ m_files_preallocated' = TRUE
  BY Zenon, <1>1 DEF callVars, FinishPreallocation
<1>3. Layout' /\ TypeOK'
  BY Zenon, <1>1, <1>2, LayoutStep, SameLayout DEF IInv, TypeOK
<1>4. \A t \in Threads : pc[t] = "idle"
  BY Zenon DEF IInv, Walk, OnTheWay, FinishPreallocation
<1>5. Locks'
  BY Zenon, <1>1, <1>2, SameLayout DEF IInv, Locks, OwnLocks, Wanted
<1>6. Walk' /\ Reads'
  BY Zenon, <1>2, <1>4 DEF Walk, Reads
<1>7. Content'
  BY Zenon, <1>1, <1>2, <1>4, SameLayout, SameDisk DEF IInv, Content, FinishPreallocation
<1>. QED
  BY Zenon, <1>3, <1>5, <1>6, <1>7 DEF IInv

-----------------------------------------------------------------------------
(* The steps of a call.                                                     *)

\* A step of thread t is none of another thread.
OthersKeep(t) ==
  \A u \in Threads : u # t =>
    UNCHANGED <<pc[u], op[u], index[u], locks[u], file[u], offset[u],
                remaining[u], out[u]>>

\* Each part of the invariant is kept by a step of t if t keeps its own.
LEMMA LocksStep ==
  ASSUME Locks, NEW t \in Threads, OthersKeep(t), UNCHANGED layoutVars,
         OwnLocks(t)', \A u \in Threads : u # t => locks'[t] \cap locks[u] = {}
  PROVE  Locks'
<1>1. \A u, v \in Threads : u # v => locks'[u] \cap locks'[v] = {}
  BY Zenon DEF Locks, OthersKeep
<1>2. ASSUME NEW u \in Threads, u # t
      PROVE  OwnLocks(u)'
  BY SMTT(30), <1>2, SameLayout DEF Locks, OwnLocks, OthersKeep, Wanted
<1>. QED
  BY Zenon, <1>1, <1>2 DEF Locks

\* A step of one call leaves the others where they are in their pieces.
LEMMA WalkStep ==
  ASSUME Walk, NEW t \in Threads, OthersKeep(t),
         UNCHANGED <<layoutVars, m_files_preallocated>>,
         pc'[t] # "idle" => OnTheWay(t)'
  PROVE  Walk'
<1>1. ASSUME NEW u \in Threads, u # t, pc'[u] # "idle"
      PROVE  OnTheWay(u)'
  BY SMTT(30), <1>1, SameLayout DEF Walk, OnTheWay, OthersKeep
<1>. QED
  BY Zenon, <1>1 DEF Walk

\* No byte that another thread has read changes.
LEMMA ReadsStep ==
  ASSUME Reads, NEW t \in Threads, OthersKeep(t), UNCHANGED layoutVars,
         pc'[t] # "idle" /\ op'[t] = "read" => HasRead(t)',
         \A u \in Threads : u # t /\ pc[u] # "idle" /\ op[u] = "read" =>
           \A f \in Files : \A b \in Positions(f) :
             piece_global_offset(index[u]) <= At(f, b) /\ At(f, b) < offset[u] =>
               disk'[f][b] = disk[f][b]
  PROVE  Reads'
<1>1. ASSUME NEW u \in Threads, u # t, pc'[u] # "idle", op'[u] = "read"
      PROVE  HasRead(u)'
  <2>1. HasRead(u)
    BY Zenon, <1>1 DEF Reads, OthersKeep
  <2>2. UNCHANGED <<pc[u], op[u], index[u], offset[u], out[u]>>
    BY Zenon, <1>1 DEF OthersKeep
  <2>3. UNCHANGED piece_global_offset(index[u])
    BY Zenon, <2>2, SameLayout
  <2>. QED
    BY SMTT(30), <1>1, <2>1, <2>2, <2>3, SameLayout DEF HasRead
<1>. QED
  BY Zenon, <1>1 DEF Reads

\* What is written stays, what is blank stays unless t is writing it, and when
\* t ceases to write a piece it is written or damaged.
LEMMA ContentStep ==
  ASSUME Content, NEW t \in Threads, OthersKeep(t),
         UNCHANGED <<layoutVars, m_files_preallocated>>,
         m_files_preallocated,
         \A from, to : Written(from, to) => Written(from, to)',
         \A p \in Pieces : Blank(p) /\ ~Writing(t, p) => Blank(p)',
         pc'[t] # "idle" /\ op'[t] = "write" =>
           Written(piece_global_offset(index[t]), offset[t])',
         \A p \in done' \ done : WrittenPiece(p)',
         damaged \subseteq damaged',
         \A p \in Pieces \ damaged' :
           Writing(t, p) /\ ~Writing(t, p)' => WrittenPiece(p)'
  PROVE  Content'
<1>1. \A p : WrittenPiece(p) => WrittenPiece(p)'
  BY Zenon, SameLayout DEF WrittenPiece
<1>2. \A p \in done' : WrittenPiece(p)'
  BY Zenon, <1>1 DEF Content
<1>3. ASSUME NEW u \in Threads, u # t, pc'[u] # "idle", op'[u] = "write"
      PROVE  Written(piece_global_offset(index[u]), offset[u])'
  <2>1. UNCHANGED <<pc[u], op[u], index[u], offset[u]>>
    BY Zenon, <1>3 DEF OthersKeep
  <2>2. Written(piece_global_offset(index[u]), offset[u])
    BY Zenon, <1>3, <2>1 DEF Content
  <2>3. UNCHANGED piece_global_offset(index[u])
    BY Zenon, <2>1, SameLayout
  <2>4. \A x, y : x = piece_global_offset(index[u]) /\ y = offset[u]
                 => Written(x, y)'
    BY Zenon, <2>2
  <2>. QED
    BY Zenon, <2>1, <2>3, <2>4
<1>4. ASSUME NEW p \in Pieces \ damaged', \A u \in Threads : ~Writing(u, p)'
      PROVE  WrittenPiece(p)' \/ Blank(p)'
  <2>1. \A u \in Threads : u # t => ~Writing(u, p)
    BY Zenon, <1>4 DEF Writing, OthersKeep
  <2>2. CASE Writing(t, p)
    BY Zenon, <1>4, <2>2
  <2>3. CASE ~Writing(t, p)
    BY Zenon, <1>1, <2>1, <2>3 DEF Content
  <2>. QED
    BY Zenon, <2>2, <2>3
<1>. QED
  BY Zenon, <1>2, <1>3, <1>4, SameLayout DEF Content

\* A step that leaves the disk alone.
LEMMA QuietContent ==
  ASSUME Content, Reads, NEW t \in Threads, OthersKeep(t),
         UNCHANGED <<layoutVars, m_files_preallocated, disk, damaged>>,
         m_files_preallocated,
         pc'[t] # "idle" /\ op'[t] = "write" =>
           Written(piece_global_offset(index[t]), offset[t])',
         pc'[t] # "idle" /\ op'[t] = "read" => HasRead(t)',
         \A p \in done' \ done : WrittenPiece(p),
         \A p \in Pieces : Writing(t, p) /\ ~Writing(t, p)' => WrittenPiece(p)
  PROVE  Content' /\ Reads'
<1>1. Reads'
  BY Zenon, ReadsStep
<1>2. Content'
  BY Zenon, ContentStep, SameDisk
<1>. QED
  BY Zenon, <1>1, <1>2

\* write_piece or read_piece begins, with no mutex and before its first byte.
LEMMA CallStep ==
  ASSUME IInv, NEW t \in Threads, NEW o \in {"write", "read"}, NEW p \in Pieces,
         Call(t, o, p)
  PROVE  IInv'
<1>1. TypeOK /\ Layout /\ Locks /\ Walk /\ Content /\ Reads
  BY Zenon DEF IInv
<1>2. /\ UNCHANGED <<layoutVars, m_files_preallocated, created, disk, locks, done,
                     damaged>>
      /\ m_files_preallocated /\ pc[t] = "idle"
  BY Zenon DEF Call, ensure_preallocated
<1>3. /\ pc'[t] = "lock" /\ op'[t] = o /\ index'[t] = p /\ file'[t] = 1
      /\ offset'[t] = piece_global_offset(p) /\ remaining'[t] = piece_length(p)
      /\ out'[t] = <<>>
      /\ OthersKeep(t)
  BY Zenon, <1>1 DEF Call, TypeOK, OthersKeep
<1>4. piece_global_offset(p) \in Nat /\ piece_length(p) \in Nat
  BY Zenon, <1>1, PieceTypes
<1>5. Layout'
  BY Zenon, <1>1, <1>2, LayoutStep
<1>6. TypeOK'
  <2>1. 1 \in 1 .. Len(m_files) + 1
    BY <1>1, FileTypes
  <2>2. <<>> \in Seq({Zero} \cup Nat)
    BY Zenon, EmptySeq
  <2>. QED
    BY Zenon, <1>1, <1>2, <1>4, <2>1, <2>2, SameLayout DEF TypeOK, Call
<1>7. Locks'
  <2>1. locks'[t] = {}
    BY Zenon, <1>1, <1>2 DEF Locks, OwnLocks
  <2>2. OwnLocks(t)'
    BY Zenon, <1>3, <2>1 DEF OwnLocks
  <2>. QED
    BY Zenon, <1>1, <1>2, <1>3, <2>1, <2>2, LocksStep
<1>8. Walk'
  <2>1. 1 \in Files /\ m_files[1].offset = 0
    BY <1>1, FileTypes DEF Layout, Files
  <2>2. /\ piece_global_offset(index[t])' = piece_global_offset(p)
        /\ piece_length(index[t])' = piece_length(p)
        /\ Files' = Files /\ m_files' = m_files
    BY Zenon, <1>2, <1>3, SameLayout
  <2>3. OnTheWay(t)'
    BY <1>2, <1>3, <1>4, <2>1, <2>2 DEF OnTheWay
  <2>. QED
    BY Zenon, <1>1, <1>2, <1>3, <2>3, WalkStep
<1>9. Content' /\ Reads'
  <2>1. \A f \in Files : \A b \in Positions(f) :
          ~(piece_global_offset(p) <= At(f, b) /\ At(f, b) < piece_global_offset(p))
    BY SMTT(30), <1>1, <1>4, BytePosition
  <2>2. /\ UNCHANGED Files /\ \A f : UNCHANGED Positions(f)
        /\ \A f, b : UNCHANGED At(f, b)
        /\ piece_global_offset(index[t])' = piece_global_offset(p)
    BY Zenon, <1>2, <1>3, SameLayout
  <2>3. Written(piece_global_offset(index[t]), offset[t])' /\ HasRead(t)'
    BY <1>3, <1>4, <2>1, <2>2 DEF Written, HasRead
  <2>4. \A q : ~Writing(t, q)
    BY Zenon, <1>2 DEF Writing
  <2>. QED
    BY Zenon, <1>1, <1>2, <1>3, <2>3, <2>4, QuietContent
<1>. QED
  BY Zenon, <1>5, <1>6, <1>7, <1>8, <1>9 DEF IInv

\* The mutex that a call gets is behind all it has, and was free.
LEMMA LockStep ==
  ASSUME IInv, NEW t \in Threads, Lock(t)
  PROVE  IInv'
<1>1. TypeOK /\ Layout /\ Locks /\ Walk /\ Content /\ Reads
  BY Zenon DEF IInv
<1>2. /\ UNCHANGED <<layoutVars, m_files_preallocated, created, disk, pc, op, index,
                     file, offset, remaining, out, done, damaged>>
      /\ pc[t] = "lock" /\ Wanted(t) # {} /\ MutexFree(NextLock(t))
  BY Zenon DEF Lock
<1>3. /\ locks'[t] = locks[t] \cup {NextLock(t)}
      /\ \A u \in Threads : u # t => locks'[u] = locks[u]
  BY Zenon, <1>1 DEF Lock, TypeOK
<1>4. OthersKeep(t)
  BY Zenon, <1>2, <1>3 DEF OthersKeep
<1>5. Wanted(t) \subseteq Files /\ Wanted(t) \subseteq file_indices_for_piece(index[t])
  BY Zenon DEF Wanted, file_indices_for_piece
<1>6. NextLock(t) \in Wanted(t) /\ \A g \in Wanted(t) : NextLock(t) <= g
  BY <1>2, <1>5, MinIsLeast DEF NextLock, Files
<1>7. TypeOK'
  BY Zenon, <1>1, <1>2, <1>5, <1>6, SameLayout DEF TypeOK, Lock
<1>8. Layout'
  BY Zenon, <1>1, <1>2, LayoutStep
<1>9. Locks'
  <2>1. Wanted(t)' = Wanted(t) \ {NextLock(t)}
    <3>1. Wanted(t)' = file_indices_for_piece(index[t]) \ locks'[t]
      BY Zenon, <1>2, SameLayout DEF Wanted
    <3>. QED
      BY Zenon, <1>3, <3>1 DEF Wanted
  <2>2. \A f \in locks[t], g \in Wanted(t) : f < g
    BY Zenon, <1>1 DEF Locks, OwnLocks
  <2>3. \A f \in locks'[t], g \in Wanted(t)' : f < g
    BY <1>3, <1>5, <1>6, <2>1, <2>2 DEF Files
  <2>4. OwnLocks(t)'
    BY SMTT(30), <1>1, <1>2, <1>3, <1>5, <1>6, <2>3, SameLayout DEF Locks, OwnLocks
  <2>5. \A u \in Threads : u # t => locks'[t] \cap locks[u] = {}
    BY Zenon, <1>1, <1>2, <1>3 DEF Locks, MutexFree
  <2>. QED
    BY Zenon, <1>1, <1>2, <1>4, <2>4, <2>5, LocksStep
<1>10. Walk'
  BY Zenon, <1>1, <1>2, SameLayout DEF Walk, OnTheWay
<1>11. Content' /\ Reads'
  BY Zenon, <1>1, <1>2, StandStill
<1>. QED
  BY Zenon, <1>7, <1>8, <1>9, <1>10, <1>11 DEF IInv

\* A call that has all its mutexes enters the loop over the files.
LEMMA BeginIoStep ==
  ASSUME IInv, NEW t \in Threads, BeginIo(t)
  PROVE  IInv'
<1>1. TypeOK /\ Layout /\ Locks /\ Walk /\ Content /\ Reads
  BY Zenon DEF IInv
<1>2. /\ UNCHANGED <<layoutVars, m_files_preallocated, created, disk, op, index,
                     locks, file, offset, remaining, out, done, damaged>>
      /\ pc[t] = "lock" /\ Wanted(t) = {}
  BY Zenon DEF BeginIo
<1>3. pc'[t] = "io" /\ OthersKeep(t)
  BY Zenon, <1>1, <1>2 DEF BeginIo, TypeOK, OthersKeep
<1>4. OnTheWay(t) /\ OwnLocks(t)
  BY Zenon, <1>1, <1>2 DEF Walk, Locks
<1>5. TypeOK' /\ Layout'
  BY Zenon, <1>1, <1>2, LayoutStep, SameLayout DEF TypeOK, BeginIo
<1>6. Locks'
  <2>1. OwnLocks(t)'
    BY Zenon, <1>2, <1>3, <1>4, SameLayout DEF OwnLocks, Wanted
  <2>. QED
    BY Zenon, <1>1, <1>2, <1>3, <2>1, LocksStep DEF Locks
<1>7. Walk'
  <2>1. OnTheWay(t)'
    BY Zenon, <1>2, <1>3, <1>4, SameLayout DEF OnTheWay
  <2>. QED
    BY Zenon, <1>1, <1>2, <1>3, <2>1, WalkStep
<1>8. Content' /\ Reads'
  <2>1. op'[t] = "write" => Written(piece_global_offset(index[t]), offset[t])'
    BY Zenon, <1>1, <1>2, SameLayout, SameDisk DEF Content
  <2>2. op'[t] = "read" => HasRead(t)'
    BY Zenon, <1>1, <1>2, SameRead DEF Reads
  <2>3. \A q : ~Writing(t, q)
    BY Zenon, <1>2 DEF Writing
  <2>. QED
    BY Zenon, <1>1, <1>2, <1>4, <1>3, <2>1, <2>2, <2>3, QuietContent DEF OnTheWay
<1>. QED
  BY Zenon, <1>5, <1>6, <1>7, <1>8 DEF IInv

\* The loop passes a file that ends before the piece.
LEMMA SkipFileStep ==
  ASSUME IInv, NEW t \in Threads, SkipFile(t)
  PROVE  IInv'
<1>1. TypeOK /\ Layout /\ Locks /\ Walk /\ Content /\ Reads
  BY Zenon DEF IInv
<1>2. /\ UNCHANGED <<layoutVars, m_files_preallocated, created, disk, pc, op, index,
                     locks, offset, remaining, out, done, damaged>>
      /\ InLoop(t) /\ EndOf(file[t]) <= offset[t]
  BY Zenon, <1>1, FileTypes, AtWork DEF SkipFile, Skips
<1>3. file'[t] = file[t] + 1 /\ OthersKeep(t)
  BY Zenon, <1>1, <1>2 DEF SkipFile, TypeOK, OthersKeep
<1>4. /\ offset[t] \in Nat /\ remaining[t] \in Nat \ {0} /\ pc[t] = "io"
      /\ offset[t] + remaining[t] =
           piece_global_offset(index[t]) + piece_length(index[t])
      /\ index[t] \in Pieces
  BY Zenon, <1>1, <1>2, AtWork
<1>5. offset[t] < piece_global_offset(index[t]) + piece_length(index[t])
  BY <1>1, <1>4, PieceTypes
<1>6. file[t] + 1 \in Files /\ m_files[file[t] + 1].offset <= offset[t]
  BY Zenon, <1>1, <1>2, <1>4, <1>5, NextFile
<1>7. TypeOK'
  <2>1. file[t] + 1 \in 1 .. Len(m_files) + 1
    BY SMTT(30), <1>1, <1>6, FileTypes DEF Files
  <2>. QED
    BY Zenon, <1>1, <1>2, <2>1, SameLayout DEF TypeOK, SkipFile
<1>8. Layout'
  BY Zenon, <1>1, <1>2, LayoutStep
<1>9. Locks'
  BY Zenon, <1>1, <1>2, SameLayout DEF Locks, OwnLocks, Wanted
<1>10. Walk'
  <2>1. OnTheWay(t)'
    BY Zenon, <1>1, <1>2, <1>3, <1>4, <1>6, SameLayout DEF Walk, OnTheWay
  <2>. QED
    BY Zenon, <1>1, <1>2, <1>3, <2>1, WalkStep
<1>11. Content' /\ Reads'
  BY Zenon, <1>1, <1>2, StandStill
<1>. QED
  BY Zenon, <1>7, <1>8, <1>9, <1>10, <1>11 DEF IInv

\* What Advance does to the walk of a call.
LEMMA AdvanceStep ==
  ASSUME IInv, NEW t \in Threads, Touches(t), Advance(t),
         UNCHANGED <<layoutVars, m_files_preallocated, pc, op, index, locks>>
  PROVE  /\ Layout' /\ Locks' /\ Walk'
         /\ file' \in [Threads -> 1 .. Len(m_files) + 1]
         /\ offset' \in [Threads -> Nat] /\ remaining' \in [Threads -> Nat]
         /\ offset'[t] = offset[t] + Chunk(t)
         /\ \A u \in Threads : u # t => UNCHANGED <<file[u], offset[u], remaining[u]>>
<1>1. TypeOK /\ Layout /\ Locks /\ Walk /\ InLoop(t)
  BY Zenon DEF IInv, Touches
<1>2. /\ file'[t] = file[t] + 1 /\ offset'[t] = offset[t] + Chunk(t)
      /\ remaining'[t] = remaining[t] - Chunk(t)
      /\ \A u \in Threads : u # t => UNCHANGED <<file[u], offset[u], remaining[u]>>
  BY Zenon, <1>1 DEF Advance, TypeOK
<1>3. /\ pc[t] = "io" /\ index[t] \in Pieces
      /\ file[t] \in Files /\ file[t] \in Nat
      /\ offset[t] \in Nat /\ remaining[t] \in Nat \ {0}
      /\ piece_global_offset(index[t]) <= offset[t]
      /\ offset[t] + remaining[t] =
           piece_global_offset(index[t]) + piece_length(index[t])
  BY Zenon, <1>1, AtWork
<1>4. /\ Chunk(t) \in Nat \ {0} /\ Chunk(t) <= remaining[t]
      /\ Chunk(t) # remaining[t] => offset[t] + Chunk(t) = EndOf(file[t])
  BY Zenon, <1>1, ChunkFacts
<1>5. /\ file' \in [Threads -> 1 .. Len(m_files) + 1]
      /\ offset' \in [Threads -> Nat] /\ remaining' \in [Threads -> Nat]
  <2>1. file[t] + 1 \in 1 .. Len(m_files) + 1
    BY SMTT(30), <1>1, <1>3, FileTypes DEF Files
  <2>2. offset[t] + Chunk(t) \in Nat /\ remaining[t] - Chunk(t) \in Nat
    BY SMTT(30), <1>3, <1>4
  <2>. QED
    BY Zenon, <1>1, <2>1, <2>2 DEF TypeOK, Advance
<1>6. piece_global_offset(index[t]) \in Nat /\ piece_length(index[t]) \in Nat
  BY Zenon, <1>1, <1>3, PieceTypes
<1>7. ASSUME remaining'[t] > 0
      PROVE  file'[t] \in Files /\ m_files[file'[t]].offset <= offset'[t]
  <2>1. offset'[t] \in Nat /\ EndOf(file[t]) <= offset'[t]
    BY SMTT(30), <1>1, <1>2, <1>3, <1>4, <1>7, FileTypes
  <2>2. offset'[t] < piece_global_offset(index[t]) + piece_length(index[t])
    BY SMTT(30), <1>2, <1>3, <1>4, <1>6, <1>7
  <2>. QED
    BY Zenon, <1>1, <1>2, <2>1, <2>2, NextFile
<1>8. Walk'
  <2>1. \A u \in Threads : u # t /\ pc'[u] # "idle" => OnTheWay(u)'
    BY Zenon, <1>1, <1>2, SameLayout DEF Walk, OnTheWay
  <2>2. m_files_preallocated
    BY Zenon, <1>1, <1>3 DEF Walk, OnTheWay
  <2>3. /\ piece_global_offset(index[t]) <= offset'[t]
        /\ offset'[t] + remaining'[t] =
             piece_global_offset(index[t]) + piece_length(index[t])
    BY SMTT(30), <1>2, <1>3, <1>4, <1>6
  <2>4. OnTheWay(t)'
    BY Zenon, <1>3, <1>7, <2>2, <2>3, SameLayout DEF OnTheWay
  <2>. QED
    BY Zenon, <2>1, <2>4 DEF Walk
<1>9. Layout' /\ Locks'
  BY Zenon, <1>1, LayoutStep, SameLayout DEF Locks, OwnLocks, Wanted
<1>. QED
  BY Zenon, <1>2, <1>5, <1>8, <1>9

\* No other call is reading the bytes of a piece that is being written.
LEMMA NoReaderDisturbed ==
  ASSUME IInv, UNCHANGED layoutVars, NEW t \in Threads, Touches(t),
         NEW n \in 0 .. Chunk(t), Store(t, n),
         NEW u \in Threads, u # t, pc[u] # "idle",
         NEW f \in Files, NEW b \in Positions(f),
         piece_global_offset(index[u]) <= At(f, b), At(f, b) < offset[u]
  PROVE  disk'[f][b] = disk[f][b]
<1>1. TypeOK /\ Layout /\ Locks /\ Walk
  BY Zenon DEF IInv
<1>2. pc[t] = "io" /\ index[u] \in Pieces /\ At(f, b) \in Nat
  BY Zenon, <1>1, AtWork, BytePosition DEF Touches, TypeOK
<1>3. /\ offset[u] \in Nat /\ remaining[u] \in Nat
      /\ offset[u] + remaining[u] =
           piece_global_offset(index[u]) + piece_length(index[u])
      /\ pc[u] = "lock" => offset[u] = piece_global_offset(index[u])
  BY Zenon, <1>1 DEF TypeOK, Walk, OnTheWay
<1>4. pc[u] = "io"
  BY SMTT(30), <1>1, <1>2, <1>3 DEF TypeOK
<1>5. index[u] # index[t]
  BY Zenon, <1>1, <1>2, <1>4, Exclusive
<1>6. At(f, b) \in Bytes(index[u])
  BY SMTT(30), <1>1, <1>2, <1>3, PieceTypes
<1>. QED
  BY Zenon, <1>1, <1>2, <1>5, <1>6, StoreKeeps

\* The loop writes the part of the piece that a file holds.
LEMMA WriteChunkStep ==
  ASSUME IInv, NEW t \in Threads, WriteChunk(t)
  PROVE  IInv'
<1>1. TypeOK /\ Layout /\ Locks /\ Walk /\ Content /\ Reads
  BY Zenon DEF IInv
<1>2. /\ UNCHANGED <<layoutVars, m_files_preallocated, created, pc, op, index,
                     locks, out, done, damaged>>
      /\ op[t] = "write" /\ Touches(t) /\ Store(t, Chunk(t)) /\ Advance(t)
  BY Zenon DEF WriteChunk
<1>3. Chunk(t) \in Nat /\ Chunk(t) \in 0 .. Chunk(t)
  BY SMTT(30), <1>1, <1>2, ChunkFacts
<1>4. /\ Layout' /\ Locks' /\ Walk'
      /\ file' \in [Threads -> 1 .. Len(m_files) + 1]
      /\ offset' \in [Threads -> Nat] /\ remaining' \in [Threads -> Nat]
      /\ offset'[t] = offset[t] + Chunk(t)
      /\ \A u \in Threads : u # t => UNCHANGED <<file[u], offset[u], remaining[u]>>
  BY Zenon, <1>2, AdvanceStep
<1>5. OthersKeep(t)
  BY Zenon, <1>2, <1>4 DEF OthersKeep
<1>6. /\ DOMAIN disk' = Files
      /\ \A f \in Files : disk'[f] \in [Positions(f) -> {Zero} \cup Nat]
  BY Zenon, <1>1, <1>2, <1>3, StoreEffect
<1>7. TypeOK'
  BY Zenon, <1>1, <1>2, <1>4, <1>6, SameLayout DEF TypeOK
<1>8. pc[t] = "io" /\ m_files_preallocated /\ index[t] \in Pieces
  BY Zenon, <1>1, <1>2, AtWork DEF Walk, OnTheWay, Touches
<1>9. Reads'
  BY Zenon, <1>1, <1>2, <1>3, <1>5, NoReaderDisturbed, ReadsStep
<1>10. Content'
  <2>1. \A from, to : Written(from, to) => Written(from, to)'
    BY Zenon, <1>1, <1>2, <1>3, StoreKeeps
  <2>2. ASSUME NEW p \in Pieces, Blank(p), ~Writing(t, p)
        PROVE  Blank(p)'
    <3>1. p # index[t]
      BY Zenon, <1>2, <1>8, <2>2 DEF Writing
    <3>2. \A f \in Files : \A b \in Positions(f) :
            At(f, b) \in Bytes(p) => disk'[f][b] = disk[f][b]
      BY Zenon, <1>1, <1>2, <1>3, <3>1, StoreKeeps
    <3>. QED
      BY SMTT(30), <1>2, <2>2, <3>2, SameLayout DEF Blank
  <2>3. Written(piece_global_offset(index[t]), offset[t])'
    <3>1. Written(piece_global_offset(index[t]), offset[t])
      BY Zenon, <1>1, <1>2, <1>8 DEF Content
    <3>2. ASSUME NEW x, NEW y, x = piece_global_offset(index[t]),
                 y = offset[t] + Chunk(t)
          PROVE  Written(x, y)'
      BY Zenon, <1>1, <1>2, <1>3, <3>1, <3>2, StoreKeeps
    <3>. QED
      BY Zenon, <1>2, <1>4, <3>2, SameLayout
  <2>. QED
    BY Zenon, <1>1, <1>2, <1>5, <1>8, <2>1, <2>2, <2>3, ContentStep DEF Writing
<1>. QED
  BY Zenon, <1>4, <1>7, <1>9, <1>10 DEF IInv

\* A chunk that is read is appended at its place.
LEMMA ReadEffect ==
  ASSUME IInv, NEW t \in Threads, ReadChunk(t)
  PROVE  /\ out'[t] \in Seq({Zero} \cup Nat)
         /\ Len(out'[t]) = (offset[t] + Chunk(t)) - piece_global_offset(index[t])
         /\ \A f \in Files : \A b \in Positions(f) :
              /\ piece_global_offset(index[t]) <= At(f, b)
              /\ At(f, b) < offset[t] + Chunk(t)
              => out'[t][At(f, b) - piece_global_offset(index[t]) + 1] = disk[f][b]
<1>. DEFINE base == piece_global_offset(index[t])
            chunk == [i \in 1 .. Chunk(t) |-> disk[file[t]][StartInFile(t) + i - 1]]
<1>1. TypeOK /\ Layout /\ Walk /\ Touches(t) /\ op[t] = "read"
  BY Zenon DEF IInv, ReadChunk
<1>2. /\ pc[t] = "io" /\ index[t] \in Pieces /\ file[t] \in Files
      /\ offset[t] \in Nat /\ base <= offset[t]
      /\ m_files[file[t]].offset <= offset[t]
  BY Zenon, <1>1, AtWork DEF Touches
<1>3. /\ StartInFile(t) = offset[t] - m_files[file[t]].offset
      /\ StartInFile(t) \in Nat /\ Chunk(t) \in Nat
      /\ offset[t] + Chunk(t) <= EndOf(file[t])
  BY Zenon, <1>1, ChunkFacts
<1>4. base \in Nat
  BY Zenon, <1>1, <1>2, PieceTypes
<1>5. out[t] \in Seq({Zero} \cup Nat) /\ HasRead(t)
  BY Zenon, <1>1, <1>2 DEF IInv, TypeOK, Reads
<1>6. /\ m_files[file[t]].offset \in Nat /\ m_files[file[t]].length \in Nat
      /\ EndOf(file[t]) = m_files[file[t]].offset + m_files[file[t]].length
  BY Zenon, <1>1, <1>2, FileTypes
<1>7. \A i \in 1 .. Chunk(t) : StartInFile(t) + i - 1 \in Positions(file[t])
  BY SMTT(30), <1>2, <1>3, <1>6 DEF Positions
<1>8. \A i \in 1 .. Chunk(t) : disk[file[t]][StartInFile(t) + i - 1] \in {Zero} \cup Nat
  BY Zenon, <1>1, <1>2, <1>7 DEF TypeOK
<1>9. chunk \in Seq({Zero} \cup Nat) /\ Len(chunk) = Chunk(t)
  BY SMTT(30), <1>3, <1>8
<1>10. out'[t] = out[t] \o chunk
  BY Zenon, <1>1 DEF ReadChunk, TypeOK
<1>11. Len(out[t]) = offset[t] - base
  BY Zenon, <1>5 DEF HasRead
<1>12. /\ out'[t] \in Seq({Zero} \cup Nat)
       /\ Len(out'[t]) = Len(out[t]) + Chunk(t)
       /\ \A i \in 1 .. Len(out[t]) + Chunk(t) :
            out'[t][i] = IF i <= Len(out[t]) THEN out[t][i] ELSE chunk[i - Len(out[t])]
  <2>. DEFINE S == {Zero} \cup Nat
              read == out[t]
  <2>1. read \in Seq(S) /\ chunk \in Seq(S)
    BY Zenon, <1>5, <1>9
  <2>2. /\ read \o chunk \in Seq(S)
        /\ Len(read \o chunk) = Len(read) + Len(chunk)
        /\ \A i \in 1 .. Len(read) + Len(chunk) :
             (read \o chunk)[i] = IF i <= Len(read) THEN read[i]
                                  ELSE chunk[i - Len(read)]
    <3>. HIDE DEF chunk, S, read
    <3>. QED
      BY Zenon, <2>1, ConcatProperties
  <2>. QED
    BY <1>9, <1>10, <2>2, Zenon
<1>13. ASSUME NEW f \in Files, NEW b \in Positions(f),
              base <= At(f, b), At(f, b) < offset[t] + Chunk(t)
       PROVE  out'[t][At(f, b) - base + 1] = disk[f][b]
  <2>1. At(f, b) \in Nat
    BY Zenon, <1>1, BytePosition
  <2>2. CASE At(f, b) < offset[t]
    <3>1. out[t][At(f, b) - base + 1] = disk[f][b]
      BY Zenon, <1>5, <1>13, <2>2 DEF HasRead
    <3>2. /\ At(f, b) - base + 1 \in 1 .. Len(out[t]) + Chunk(t)
          /\ At(f, b) - base + 1 <= Len(out[t])
      BY SMTT(30), <1>2, <1>3, <1>4, <1>11, <1>13, <2>1, <2>2
    <3>. QED
      BY Zenon, <1>12, <3>1, <3>2
  <2>3. CASE offset[t] <= At(f, b)
    <3>1. f = file[t]
      <4>1. m_files[file[t]].offset <= At(f, b) /\ At(f, b) < EndOf(file[t])
        BY SMTT(30), <1>2, <1>3, <1>6, <1>13, <2>1, <2>3
      <4>. QED
        BY <1>1, <1>2, <2>1, <4>1, OneFilePerByte
    <3>. DEFINE i == At(f, b) - offset[t] + 1
    <3>2. i \in 1 .. Chunk(t) /\ At(f, b) - base + 1 = Len(out[t]) + i
      BY SMTT(30), <1>2, <1>3, <1>4, <1>11, <1>13, <2>1, <2>3
    <3>3. StartInFile(t) + i - 1 = b
      BY SMTT(30), <1>2, <1>3, <1>6, <3>1 DEF At, Positions
    <3>4. chunk[i] = disk[f][b]
      BY Zenon, <3>1, <3>2, <3>3
    <3>5. out'[t][Len(out[t]) + i] = chunk[i]
      <4>. DEFINE k == Len(out[t]) + i
      <4>1. Len(out[t]) \in Nat
        BY <1>5
      <4>. HIDE DEF i
      <4>2. /\ k \in 1 .. Len(out[t]) + Chunk(t)
            /\ ~(k <= Len(out[t])) /\ k - Len(out[t]) = i
        BY <1>3, <3>2, <4>1
      <4>. HIDE DEF k, chunk
      <4>3. out'[t][k] = chunk[k - Len(out[t])]
        BY Zenon, <1>12, <4>2
      <4>. QED
        BY Zenon, <4>2, <4>3 DEF k
    <3>. QED
      BY Zenon, <3>2, <3>4, <3>5
  <2>. QED
    BY <1>2, <2>1, <2>2, <2>3
<1>. QED
  BY SMTT(30), <1>2, <1>3, <1>4, <1>11, <1>12, <1>13

\* The loop reads the part of the piece that a file holds.
LEMMA ReadChunkStep ==
  ASSUME IInv, NEW t \in Threads, ReadChunk(t)
  PROVE  IInv'
<1>1. TypeOK /\ Layout /\ Locks /\ Walk /\ Content /\ Reads
  BY Zenon DEF IInv
<1>2. /\ UNCHANGED <<layoutVars, m_files_preallocated, created, disk, pc, op, index,
                     locks, done, damaged>>
      /\ op[t] = "read" /\ Touches(t) /\ Advance(t)
  BY Zenon DEF ReadChunk
<1>3. /\ Layout' /\ Locks' /\ Walk'
      /\ file' \in [Threads -> 1 .. Len(m_files) + 1]
      /\ offset' \in [Threads -> Nat] /\ remaining' \in [Threads -> Nat]
      /\ offset'[t] = offset[t] + Chunk(t)
      /\ \A u \in Threads : u # t => UNCHANGED <<file[u], offset[u], remaining[u]>>
  BY Zenon, <1>2, AdvanceStep
<1>4. \A u \in Threads : u # t => out'[u] = out[u]
  BY Zenon, <1>1 DEF ReadChunk, TypeOK
<1>5. OthersKeep(t)
  BY Zenon, <1>2, <1>3, <1>4 DEF OthersKeep
<1>6. out' \in [Threads -> Seq({Zero} \cup Nat)]
  <2>1. out'[t] \in Seq({Zero} \cup Nat)
    BY Zenon, ReadEffect
  <2>2. \E x : out' = [out EXCEPT ![t] = x]
    BY Zenon DEF ReadChunk
  <2>3. DOMAIN out' = Threads /\ out' = [u \in Threads |-> out'[u]]
    BY Zenon, <1>1, <2>2 DEF TypeOK
  <2>4. \A u \in Threads : out'[u] \in Seq({Zero} \cup Nat)
    BY Zenon, <1>1, <1>4, <2>1 DEF TypeOK
  <2>. QED
    BY Zenon, <2>3, <2>4
<1>7. TypeOK'
  BY Zenon, <1>1, <1>2, <1>3, <1>6, SameLayout DEF TypeOK
<1>8. pc[t] = "io" /\ m_files_preallocated
  BY Zenon, <1>1, <1>2, AtWork DEF Walk, OnTheWay, Touches
<1>9. HasRead(t)'
  <2>1. UNCHANGED piece_global_offset(index[t])
    BY Zenon, <1>2, SameLayout
  <2>2. /\ Len(out'[t]) = offset'[t] - piece_global_offset(index[t])
        /\ \A f \in Files : \A b \in Positions(f) :
             piece_global_offset(index[t]) <= At(f, b) /\ At(f, b) < offset'[t] =>
               out'[t][At(f, b) - piece_global_offset(index[t]) + 1] = disk[f][b]
    <3>. DEFINE upto == offset[t] + Chunk(t)
    <3>1. offset'[t] = upto
      BY Zenon, <1>3
    <3>2. /\ Len(out'[t]) = upto - piece_global_offset(index[t])
          /\ \A f \in Files : \A b \in Positions(f) :
               piece_global_offset(index[t]) <= At(f, b) /\ At(f, b) < upto =>
                 out'[t][At(f, b) - piece_global_offset(index[t]) + 1] = disk[f][b]
      BY Zenon, ReadEffect
    <3>. HIDE DEF upto
    <3>. QED
      BY <3>1, <3>2, Zenon
  <2>3. /\ UNCHANGED <<Files, disk, index>>
        /\ \A f : UNCHANGED Positions(f) /\ \A b : UNCHANGED At(f, b)
    BY Zenon, <1>2, SameLayout
  <2>. QED
    BY SMTT(30), <2>1, <2>2, <2>3 DEF HasRead
<1>10. Content' /\ Reads'
  BY Zenon, <1>1, <1>2, <1>5, <1>8, <1>9, QuietContent DEF Writing
<1>. QED
  BY Zenon, <1>3, <1>7, <1>10 DEF IInv

\* A call that returns gives its mutexes back and leaves no trace of its own.
LEMMA ReturnStep ==
  ASSUME TypeOK, Layout, Locks, Walk, NEW t \in Threads, Return(t)
  PROVE  /\ UNCHANGED <<layoutVars, m_files_preallocated, created>>
         /\ pc'[t] = "idle" /\ OthersKeep(t)
         /\ Layout' /\ Locks' /\ Walk'
         /\ pc' \in [Threads -> {"idle", "lock", "io"}]
         /\ op' \in [Threads -> {"write", "read"}]
         /\ index' \in [Threads -> Pieces]
         /\ locks' \in [Threads -> SUBSET Files]
         /\ file' \in [Threads -> 1 .. Len(m_files) + 1]
         /\ offset' \in [Threads -> Nat]
         /\ remaining' \in [Threads -> Nat]
         /\ out' \in [Threads -> Seq({Zero} \cup Nat)]
<1>1. UNCHANGED <<layoutVars, m_files_preallocated, created>>
  BY Zenon DEF Return
<1>2. pc'[t] = "idle" /\ locks'[t] = {} /\ OthersKeep(t)
  BY Zenon DEF Return, TypeOK, OthersKeep
<1>3. Layout'
  BY Zenon, <1>1, LayoutStep
<1>4. OwnLocks(t)'
  BY Zenon, <1>2 DEF OwnLocks
<1>5. Locks'
  BY Zenon, <1>1, <1>2, <1>4, LocksStep
<1>6. Walk'
  BY Zenon, <1>1, <1>2, WalkStep
<1>7. 0 \in Pieces
  BY FileTypes DEF Pieces, Layout
<1>8. <<>> \in Seq({Zero} \cup Nat)
  BY Zenon, EmptySeq
<1>9. 1 \in 1 .. Len(m_files) + 1
  BY FileTypes
<1>10. /\ pc' \in [Threads -> {"idle", "lock", "io"}]
       /\ op' \in [Threads -> {"write", "read"}]
       /\ index' \in [Threads -> Pieces]
       /\ locks' \in [Threads -> SUBSET Files]
       /\ file' \in [Threads -> 1 .. Len(m_files) + 1]
       /\ offset' \in [Threads -> Nat]
       /\ remaining' \in [Threads -> Nat]
       /\ out' \in [Threads -> Seq({Zero} \cup Nat)]
  BY Zenon, <1>7, <1>8, <1>9 DEF Return, TypeOK
<1>. QED
  BY Zenon, <1>1, <1>2, <1>3, <1>5, <1>6, <1>10

\* A call that throws while it writes leaves its piece damaged and no other.
LEMMA ThrowStep ==
  ASSUME IInv, NEW t \in Threads, Throw(t)
  PROVE  IInv'
<1>1. TypeOK /\ Layout /\ Locks /\ Walk /\ Content /\ Reads
  BY Zenon DEF IInv
<1>2. Touches(t) /\ Return(t) /\ done' = done
  BY Zenon DEF Throw
<1>3. /\ UNCHANGED <<layoutVars, m_files_preallocated, created>>
      /\ pc'[t] = "idle" /\ OthersKeep(t)
      /\ Layout' /\ Locks' /\ Walk'
  BY Zenon, <1>1, <1>2, ReturnStep
<1>4. pc[t] = "io" /\ m_files_preallocated /\ index[t] \in Pieces
  BY Zenon, <1>1, <1>2, AtWork DEF Walk, OnTheWay, Touches
<1>5. ASSUME DOMAIN disk' = Files, damaged' \subseteq Pieces,
             \A f \in Files : disk'[f] \in [Positions(f) -> {Zero} \cup Nat]
      PROVE  TypeOK'
  BY Zenon, <1>1, <1>2, <1>3, <1>5, ReturnStep, SameLayout DEF TypeOK
<1>6. CASE op[t] = "write"
  <2>1. PICK n \in 0 .. Chunk(t) : Store(t, n)
    BY Zenon, <1>6 DEF Throw
  <2>2. damaged' = damaged \cup {index[t]}
    BY Zenon, <1>6 DEF Throw
  <2>3. TypeOK'
    BY Zenon, <1>1, <1>2, <1>4, <1>5, <2>1, <2>2, StoreEffect DEF TypeOK
  <2>4. Reads'
    BY Zenon, <1>2, <1>1, <1>3, <2>1, NoReaderDisturbed, ReadsStep
  <2>5. \A from, to : Written(from, to) => Written(from, to)'
    BY Zenon, <1>1, <1>2, <1>3, <2>1, StoreKeeps
  <2>6. ASSUME NEW p \in Pieces, Blank(p), ~Writing(t, p)
        PROVE  Blank(p)'
    <3>1. p # index[t]
      BY Zenon, <1>4, <1>6, <2>6 DEF Writing
    <3>2. \A f \in Files : \A b \in Positions(f) :
            At(f, b) \in Bytes(p) => disk'[f][b] = disk[f][b]
      BY Zenon, <1>1, <1>2, <1>3, <2>1, <3>1, StoreKeeps
    <3>. QED
      BY SMTT(30), <1>3, <2>6, <3>2, SameLayout DEF Blank
  <2>7. Content'
    BY Zenon, <1>1, <1>2, <1>3, <1>4, <2>2, <2>5, <2>6, ContentStep DEF Writing
  <2>. QED
    BY Zenon, <1>3, <2>3, <2>4, <2>7 DEF IInv
<1>7. CASE op[t] # "write"
  <2>1. UNCHANGED <<disk, damaged>>
    BY Zenon, <1>7 DEF Throw
  <2>2. TypeOK'
    BY Zenon, <1>1, <1>5, <2>1 DEF TypeOK
  <2>3. Content' /\ Reads'
    BY Zenon, <1>1, <1>2, <1>3, <1>4, <1>7, <2>1, QuietContent DEF Writing
  <2>. QED
    BY Zenon, <1>3, <2>2, <2>3 DEF IInv
<1>. QED
  BY Zenon, <1>6, <1>7

\* The loop never runs out of files: when it ends, nothing remains.
LEMMA NothingRemains ==
  ASSUME TypeOK, Layout, Walk, NEW t \in Threads, LoopEnds(t)
  PROVE  /\ pc[t] = "io" /\ remaining[t] = 0 /\ index[t] \in Pieces
         /\ offset[t] = piece_global_offset(index[t]) + piece_length(index[t])
<1>1. /\ pc[t] = "io" /\ index[t] \in Pieces
      /\ offset[t] \in Nat /\ remaining[t] \in Nat
  BY Zenon DEF LoopEnds, TypeOK
<1>2. /\ offset[t] + remaining[t] =
           piece_global_offset(index[t]) + piece_length(index[t])
      /\ remaining[t] > 0 =>
           file[t] \in Files /\ m_files[file[t]].offset <= offset[t]
  BY Zenon, <1>1 DEF Walk, OnTheWay
<1>3. remaining[t] = 0
  <2>1. SUFFICES ASSUME remaining[t] # 0 PROVE FALSE
    BY Zenon
  <2>2. file[t] \in Files /\ m_files[file[t]].offset <= offset[t]
    BY <1>1, <1>2, <2>1
  <2>3. offset[t] + remaining[t] <= m_files[file[t]].offset
    BY Zenon, <2>1, <2>2 DEF LoopEnds, Breaks
  <2>. QED
    BY <1>1, <2>1, <2>2, <2>3, FileTypes
<1>. QED
  BY SMTT(30), <1>1, <1>2, <1>3, PieceTypes

\* A call returns and releases its mutexes.
LEMMA FinishStep ==
  ASSUME IInv, NEW t \in Threads, Finish(t)
  PROVE  IInv'
<1>1. TypeOK /\ Layout /\ Locks /\ Walk /\ Content /\ Reads
  BY Zenon DEF IInv
<1>2. LoopEnds(t) /\ Return(t) /\ UNCHANGED <<disk, damaged>>
  BY Zenon DEF Finish
<1>3. /\ UNCHANGED <<layoutVars, m_files_preallocated, created>>
      /\ pc'[t] = "idle" /\ OthersKeep(t)
      /\ Layout' /\ Locks' /\ Walk'
  BY Zenon, <1>1, <1>2, ReturnStep
<1>4. /\ pc[t] = "io" /\ remaining[t] = 0 /\ index[t] \in Pieces
      /\ offset[t] = piece_global_offset(index[t]) + piece_length(index[t])
      /\ m_files_preallocated
  BY Zenon, <1>1, <1>2, NothingRemains DEF Walk, OnTheWay
<1>5. op[t] = "write" => WrittenPiece(index[t])
  BY Zenon, <1>1, <1>4 DEF Content, WrittenPiece
<1>6. done' = IF op[t] = "write" THEN done \cup {index[t]} ELSE done
  BY Zenon, <1>4 DEF Finish
<1>7. TypeOK'
  BY Zenon, <1>1, <1>2, <1>3, <1>4, <1>6, ReturnStep, SameLayout DEF TypeOK
<1>8. \A p \in done' \ done : WrittenPiece(p)
  BY Zenon, <1>5, <1>6
<1>9. \A p : Writing(t, p) => WrittenPiece(p)
  BY Zenon, <1>5 DEF Writing
<1>10. Content' /\ Reads'
  BY Zenon, <1>1, <1>2, <1>3, <1>4, <1>8, <1>9, QuietContent
<1>. QED
  BY Zenon, <1>3, <1>7, <1>10 DEF IInv

-----------------------------------------------------------------------------
(* The theorems.                                                            *)

\* The invariant holds throughout.
THEOREM Invariance == Spec => []IInv
<1>1. Init => IInv
  BY Zenon, InitIInv
<1>2. IInv /\ [Next]_vars => IInv'
  <2>. SUFFICES ASSUME IInv, [Next]_vars PROVE IInv'
    BY Zenon
  <2>1. CASE CreateFile
    BY Zenon, <2>1, CreateFileStep
  <2>2. CASE FinishPreallocation
    BY Zenon, <2>2, FinishPreallocationStep
  <2>3. ASSUME NEW t \in Threads,
               \/ \E p \in Pieces : Call(t, "write", p) \/ Call(t, "read", p)
               \/ Lock(t) \/ BeginIo(t)
               \/ SkipFile(t) \/ WriteChunk(t) \/ ReadChunk(t) \/ Throw(t)
               \/ Finish(t)
        PROVE  IInv'
    <3>1. CASE \E p \in Pieces : Call(t, "write", p) \/ Call(t, "read", p)
      BY Zenon, <3>1, CallStep
    <3>2. CASE Lock(t)
      BY Zenon, <3>2, LockStep
    <3>3. CASE BeginIo(t)
      BY Zenon, <3>3, BeginIoStep
    <3>4. CASE SkipFile(t)
      BY Zenon, <3>4, SkipFileStep
    <3>5. CASE WriteChunk(t)
      BY Zenon, <3>5, WriteChunkStep
    <3>6. CASE ReadChunk(t)
      BY Zenon, <3>6, ReadChunkStep
    <3>7. CASE Throw(t)
      BY Zenon, <3>7, ThrowStep
    <3>8. CASE Finish(t)
      BY Zenon, <3>8, FinishStep
    <3>. QED
      BY Zenon, <2>3, <3>1, <3>2, <3>3, <3>4, <3>5, <3>6, <3>7, <3>8
  <2>4. CASE UNCHANGED vars
    <3>1. UNCHANGED <<layoutVars, m_files_preallocated, created, disk, callVars,
                      done, damaged>>
      BY Zenon, <2>4 DEF vars
    <3>2. UNCHANGED <<pc, op, index, locks, file, offset, remaining, out>>
      BY Zenon, <3>1 DEF callVars
    <3>3. Layout' /\ TypeOK'
      BY Zenon, <3>1, <3>2, LayoutStep, SameLayout DEF IInv, TypeOK
    <3>4. Locks' /\ Walk'
      <4>1. \A t : UNCHANGED <<Wanted(t), file_indices_for_piece(index[t])>>
        BY Zenon, <3>1, <3>2, SameLayout DEF Wanted
      <4>2. Locks'
        BY Zenon, <3>2, <4>1 DEF IInv, Locks, OwnLocks
      <4>3. \A t : OnTheWay(t)' <=> OnTheWay(t)
        BY Zenon, <3>1, <3>2, SameLayout DEF OnTheWay
      <4>. QED
        BY Zenon, <3>2, <4>2, <4>3 DEF IInv, Walk
    <3>5. Content' /\ Reads'
      BY Zenon, <3>1, <3>2, StandStill DEF IInv
    <3>. QED
      BY Zenon, <3>3, <3>4, <3>5 DEF IInv
  <2>. QED
    BY Zenon, <2>1, <2>2, <2>3, <2>4 DEF Next
<1>. QED
  BY <1>1, <1>2, PTL DEF Spec

\* What write_piece has returned from is on disk and stays there, whatever
\* other calls do next to it and wherever they fail.
THEOREM WritesAreDurable == Spec => []DoneIsDurable
<1>1. IInv => DoneIsDurable
  <2>. SUFFICES ASSUME IInv, NEW p \in done, NEW f \in Files, NEW b \in Positions(f),
                       At(f, b) \in Bytes(p)
                PROVE  disk[f][b] = At(f, b)
    BY Zenon DEF DoneIsDurable, At
  <2>1. Layout /\ p \in Pieces /\ WrittenPiece(p)
    BY Zenon DEF IInv, TypeOK, Content
  <2>2. /\ piece_global_offset(p) <= At(f, b)
        /\ At(f, b) < piece_global_offset(p) + piece_length(p)
    BY <2>1, PieceTypes, BytePosition
  <2>. QED
    BY Zenon, <2>1, <2>2 DEF WrittenPiece, Written
<1>. QED
  BY <1>1, Invariance, PTL

\* The loops of write_piece and read_piece never run out of files: the check
\* for remaining bytes that follows them cannot fail.
THEOREM PiecesFitFiles ==
  Spec => [](\A t \in Threads : LoopEnds(t) => remaining[t] = 0)
<1>1. IInv => \A t \in Threads : LoopEnds(t) => remaining[t] = 0
  BY Zenon, NothingRemains DEF IInv
<1>. QED
  BY <1>1, Invariance, PTL

\* read_piece never returns a mixture of before and after a write: while it is
\* in its loop nobody writes the piece, and the bytes that it collects cover
\* the piece without a gap.
THEOREM ReadsAreWhole == Spec => []NoTornRead
<1>1. IInv => NoTornRead
  <2>. SUFFICES ASSUME IInv, NEW t \in Threads, op[t] = "read", LoopEnds(t),
                       index[t] \notin damaged
                PROVE  \/ out[t] = [i \in 1 .. piece_length(index[t]) |->
                                      piece_global_offset(index[t]) + i - 1]
                       \/ out[t] = [i \in 1 .. piece_length(index[t]) |-> Zero]
    BY Zenon DEF NoTornRead
  <2>. DEFINE p == index[t]
              base == piece_global_offset(p)
              length == piece_length(p)
  <2>1. TypeOK /\ Layout /\ Locks /\ Walk /\ Content /\ Reads
    BY Zenon DEF IInv
  <2>2. /\ pc[t] = "io" /\ p \in Pieces /\ offset[t] = base + length
        /\ base \in Nat /\ length \in Nat /\ base + length <= m_total_size
    BY Zenon, <2>1, NothingRemains, PieceTypes
  <2>3. WrittenPiece(p) \/ Blank(p)
    <3>1. \A u \in Threads : ~Writing(u, p)
      BY Zenon, <2>1, <2>2, Exclusive DEF Writing
    <3>. QED
      BY Zenon, <2>1, <2>2, <3>1 DEF Content
  <2>4. HasRead(t) /\ out[t] \in Seq({Zero} \cup Nat)
    BY Zenon, <2>1, <2>2 DEF Reads, TypeOK
  <2>5. Len(out[t]) = length
    BY SMTT(30), <2>2, <2>4 DEF HasRead
  <2>6. out[t] = [i \in 1 .. length |-> out[t][i]]
    BY SMTT(30), <2>4, <2>5
  <2>7. ASSUME NEW i \in 1 .. length
        PROVE  \E f \in Files : \E b \in Positions(f) :
                 At(f, b) = base + i - 1 /\ out[t][i] = disk[f][b]
    <3>1. base + i - 1 \in 0 .. m_total_size - 1
      BY SMTT(30), <2>1, <2>2, FileTypes
    <3>2. PICK f \in Files : \E b \in Positions(f) : At(f, b) = base + i - 1
      BY Zenon, <2>1, <3>1, ByteInFile
    <3>3. PICK b \in Positions(f) : At(f, b) = base + i - 1
      BY Zenon, <3>2
    <3>4. base <= At(f, b) /\ At(f, b) < offset[t] /\ At(f, b) - base + 1 = i
      BY SMTT(30), <2>2, <3>3
    <3>5. out[t][At(f, b) - base + 1] = disk[f][b]
      BY Zenon, <2>4, <3>4 DEF HasRead
    <3>. QED
      BY Zenon, <3>3, <3>4, <3>5
  <2>8. CASE WrittenPiece(p)
    <3>1. ASSUME NEW i \in 1 .. length
          PROVE  out[t][i] = base + i - 1
      <4>1. PICK f \in Files : \E b \in Positions(f) :
                   At(f, b) = base + i - 1 /\ out[t][i] = disk[f][b]
        BY Zenon, <2>7
      <4>2. PICK b \in Positions(f) :
                   At(f, b) = base + i - 1 /\ out[t][i] = disk[f][b]
        BY Zenon, <4>1
      <4>3. base <= At(f, b) /\ At(f, b) < base + length
        BY SMTT(30), <2>2, <4>2
      <4>. QED
        BY Zenon, <2>8, <4>2, <4>3 DEF WrittenPiece, Written
    <3>. QED
      BY Zenon, <2>6, <3>1
  <2>9. CASE Blank(p)
    <3>1. ASSUME NEW i \in 1 .. length
          PROVE  out[t][i] = Zero
      <4>1. PICK f \in Files : \E b \in Positions(f) :
                   At(f, b) = base + i - 1 /\ out[t][i] = disk[f][b]
        BY Zenon, <2>7
      <4>2. PICK b \in Positions(f) :
                   At(f, b) = base + i - 1 /\ out[t][i] = disk[f][b]
        BY Zenon, <4>1
      <4>3. At(f, b) \in Bytes(p)
        BY SMTT(30), <2>1, <2>2, <4>2, PieceTypes
      <4>. QED
        BY Zenon, <2>9, <4>2, <4>3 DEF Blank
    <3>. QED
      BY Zenon, <2>6, <3>1
  <2>. QED
    BY Zenon, <2>3, <2>8, <2>9
<1>. QED
  BY <1>1, Invariance, PTL

\* Calls never wait for each other in a circle: mutexes are taken in the order
\* of the files, so of the calls that wait, the one that waits for the last
\* file waits for nobody.
THEOREM CallsNeverDeadlock == Spec => []SomeCallProceeds
<1>1. IInv => SomeCallProceeds
  <2>. SUFFICES ASSUME IInv, NEW first \in Threads, pc[first] # "idle",
                       \A t \in Threads :
                         /\ pc[t] # "io"
                         /\ pc[t] = "lock" =>
                              Wanted(t) # {} /\ ~MutexFree(NextLock(t))
                PROVE  FALSE
    BY Zenon DEF SomeCallProceeds
  <2>1. TypeOK /\ Layout /\ Locks
    BY Zenon DEF IInv
  <2>. DEFINE Waiting == {t \in Threads : pc[t] = "lock"}
              Gaps == {Len(m_files) - NextLock(t) : t \in Waiting}
  <2>2. ASSUME NEW t \in Waiting
        PROVE  /\ NextLock(t) \in Wanted(t) /\ NextLock(t) \in Files
               /\ Len(m_files) - NextLock(t) \in Nat
    <3>1. Wanted(t) \subseteq Files /\ Wanted(t) \subseteq Nat /\ Wanted(t) # {}
      BY SMTT(30) DEF Wanted, file_indices_for_piece, Files
    <3>2. NextLock(t) \in Wanted(t)
      BY Zenon, <3>1, MinIsLeast DEF NextLock
    <3>. QED
      BY <2>1, <3>1, <3>2, FileTypes DEF Files
  <2>3. first \in Waiting
    BY Zenon, <2>1 DEF TypeOK
  <2>4. Gaps \in SUBSET Nat /\ Gaps # {}
    BY Zenon, <2>2, <2>3
  <2>5. PICK gap \in Gaps : \A other \in Gaps : gap <= other
    <3>. HIDE DEF Gaps
    <3>. QED
      BY Zenon, <2>4, LeastElement
  <2>6. PICK t \in Waiting : gap = Len(m_files) - NextLock(t)
    BY Zenon, <2>5
  <2>7. PICK u \in Threads : NextLock(t) \in locks[u]
    BY Zenon, <2>6 DEF MutexFree
  <2>8. u \in Waiting
    BY Zenon, <2>1, <2>7 DEF TypeOK, Locks, OwnLocks
  <2>9. NextLock(t) < NextLock(u)
    BY Zenon, <2>1, <2>2, <2>7, <2>8 DEF Locks, OwnLocks
  <2>10. gap <= Len(m_files) - NextLock(u)
    BY Zenon, <2>5, <2>8
  <2>. QED
    BY SMTT(30), <2>1, <2>2, <2>6, <2>8, <2>9, <2>10, FileTypes DEF Files
<1>. QED
  BY <1>1, Invariance, PTL

=============================================================================
