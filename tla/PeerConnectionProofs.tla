------------------------ MODULE PeerConnectionProofs ------------------------
(***************************************************************************)
(* Proofs about PeerConnection and BlockPipeline for any number of threads *)
(* and pieces, and for blocks and windows of any size: the invariant of    *)
(* the piece table, its refinement to PieceStore, and, for the blocks of   *)
(* the piece in flight, that a connection always has a request for a       *)
(* missing block at its peer.                                              *)
(***************************************************************************)
EXTENDS BlockPipeline, FiniteSetTheorems, WellFoundedInduction, TLAPS

-----------------------------------------------------------------------------
(* The inductive invariant of PeerConnection.                               *)

NotFetching == {"closed", "nn_have", "nn_cas", "eg_have"}
Fetching == {"fill_have", "cp_have", "cp_rehave", "cp_cas", "cp_write",
             "cp_bytes", "cp_count", "ab_have", "ab_store"}
Scanning == {"nn_have", "nn_cas", "eg_have"}
Aborting == {"ab_have", "ab_store"}

\* What the fields of a connection look like at each label.
ShapeAt(t) ==
  /\ pc[t] \in NotFetching => m_current_piece[t] = NoPiece
  /\ pc[t] \in Fetching => m_current_piece[t] \in Pieces
  /\ m_current_piece_exclusive[t] => m_current_piece[t] \in Pieces
  /\ pc[t] \in Aborting => m_current_piece_exclusive[t]
  /\ pc[t] \in Scanning => idx[t] \in m_peer_bitfield[t]
  /\ pc[t] = "closed" => m_peer_choking[t]

Shape == \A t \in Threads : ShapeAt(t)

\* A reservation is visible in m_claimed for as long as it is held.
OwnerClaimed ==
  \A i \in Pieces : \A t \in Threads : Owns(t, i) => m_claimed[i]

\* What a thread between the compare-and-swap on m_have and the end of
\* complete_piece relies on.
WriterInv ==
  /\ \A t \in Threads :
       /\ Writing(t) => m_have[m_current_piece[t]]
       /\ pc[t] = "cp_write" => m_current_piece[t] \notin written
       /\ pc[t] \in {"cp_bytes", "cp_count"} => m_current_piece[t] \in written
  /\ \A i \in written : m_have[i]

\* The bytes are those of the pieces whose bytes were added.
BytesAreExact ==
  m_curr_downloaded_bytes =
    NominalLength * Cardinality(BytesAdded \ {LastPiece})
      + (IF LastPiece \in BytesAdded THEN piece_length(LastPiece) ELSE 0)

\* The endgame loop has passed finished pieces only.
EndgamePrefix ==
  \A t \in Threads : pc[t] = "eg_have" =>
    \A j \in m_peer_bitfield[t] : j < idx[t] => m_have[j]

IInv ==
  /\ TypeOK
  /\ Shape
  /\ OwnerClaimed
  /\ ExclusiveOwner
  /\ ClaimHasOwner
  /\ WriterInv
  /\ SingleWriter
  /\ CountIsExact
  /\ BytesAreExact
  /\ EndgamePrefix
  /\ NeverIdleWithWork

-----------------------------------------------------------------------------
(* The scans of next_needed.                                                *)

\* A non-empty set of piece indices has a lowest one, so the loops of
\* next_needed stop at the first piece that qualifies.
LEMMA LowestIsMinimum ==
  ASSUME NEW S \in SUBSET Pieces, S # {}
  PROVE  /\ Lowest(S) \in S
         /\ Lowest(S) \in Pieces
         /\ \A k \in S : Lowest(S) <= k
<1>1. S \subseteq Nat
  BY NumPiecesAssumption DEF Pieces
<1>2. IsWellFoundedOn(OpToRel(<, Nat), Nat)
  BY Zenon, NatLessThanWellFounded
<1>3. PICK x \in S : \A y \in S : ~(<<y, x>> \in OpToRel(<, Nat))
  BY Zenon, <1>1, <1>2, WFMin
<1>4. ASSUME NEW y \in S
      PROVE  x <= y
  <2>1. <<y, x>> \in Nat \X Nat
    BY Zenon, <1>1
  <2>2. ~(<<y, x>>[1] < <<y, x>>[2])
    BY <1>3, <2>1, Zenon DEF OpToRel
  <2>. QED
    BY <1>1, <2>2
<1>. QED
  BY Zenon, <1>4 DEF Lowest

\* Where a scan of next_needed goes: to the next piece on offer, from the
\* claim loop to the start of the endgame loop, or out of the function.
ScanHits(t, label, bf, from) ==
  \E j \in bf : /\ pc' = [pc EXCEPT ![t] = label]
                /\ idx' = [idx EXCEPT ![t] = j]
                /\ \A k \in bf : k < j => k < from

ScanEndgame(t, label, bf) ==
  \E j \in bf : /\ label = "nn_have"
                /\ pc' = [pc EXCEPT ![t] = "eg_have"]
                /\ idx' = [idx EXCEPT ![t] = j]
                /\ \A k \in bf : j <= k

ScanEnds(t, label, bf, from) ==
  /\ pc' = [pc EXCEPT ![t] = "recv"]
  /\ idx' = [idx EXCEPT ![t] = 0]
  /\ \A k \in bf : k < from
  /\ label = "nn_have" => bf = {}

\* ScanFrom has no other outcome.
LEMMA ScanOutcome ==
  ASSUME NEW t \in Threads, NEW label, NEW bf \in SUBSET Pieces,
         NEW from \in Int, ScanFrom(t, label, bf, from)
  PROVE  \/ ScanHits(t, label, bf, from)
         \/ ScanEndgame(t, label, bf)
         \/ ScanEnds(t, label, bf, from)
<1>0. bf \subseteq Int /\ Offered(bf, from) \subseteq bf
  BY NumPiecesAssumption DEF Pieces, Offered
<1>1. CASE Offered(bf, from) # {}
  <2>. DEFINE j == Lowest(Offered(bf, from))
  <2>1. j \in Offered(bf, from) /\ \A k \in Offered(bf, from) : j <= k
    BY Zenon, <1>0, <1>1, LowestIsMinimum
  <2>. HIDE DEF j
  <2>2. j \in bf /\ \A k \in bf : k < j => k < from
    BY <1>0, <2>1 DEF Offered
  <2>. QED
    BY Zenon, <1>1, <2>2 DEF ScanFrom, ScanHits, j
<1>2. CASE Offered(bf, from) = {}
  <2>1. \A k \in bf : k < from
    BY <1>0, <1>2 DEF Offered
  <2>2. CASE label = "nn_have" /\ bf # {}
    BY Zenon, <1>2, <2>2, LowestIsMinimum DEF ScanFrom, ScanEndgame
  <2>3. CASE ~(label = "nn_have" /\ bf # {})
    BY Zenon, <1>2, <2>1, <2>3 DEF ScanFrom, ScanEnds
  <2>. QED
    BY Zenon, <2>2, <2>3
<1>. QED
  BY Zenon, <1>1, <1>2

\* The thread goes on at label l with loop index j.
Moves(t, l, j) ==
  /\ pc' = [pc EXCEPT ![t] = l]
  /\ idx' = [idx EXCEPT ![t] = j]

\* What the start of fill_requests leads to.
FillLeads(t, l, j, choking, interested, bf, current) ==
  /\ Moves(t, l, j)
  /\ \/ l = "recv" /\ (choking \/ ~interested \/ (current = NoPiece /\ bf = {}))
     \/ l = "fill_have" /\ current # NoPiece
     \/ l = "nn_have" /\ current = NoPiece /\ j \in bf
     \/ l = "eg_have" /\ current = NoPiece /\ j \in bf /\ \A k \in bf : j <= k

\* fill_requests ends in recv, at the check of the piece in flight, or in the
\* scan of next_needed.
LEMMA FillOutcome ==
  ASSUME NEW t \in Threads, NEW choking, NEW interested,
         NEW bf \in SUBSET Pieces, NEW current,
         fill_requests(t, choking, interested, bf, current)
  PROVE  \E l \in Labels, j \in Pieces :
           FillLeads(t, l, j, choking, interested, bf, current)
<1>0. 0 \in Pieces /\ "recv" \in Labels /\ "fill_have" \in Labels
      /\ "nn_have" \in Labels /\ "eg_have" \in Labels
  BY NumPiecesAssumption DEF Pieces, Labels
<1>1. CASE choking \/ ~interested
  BY Zenon, <1>0, <1>1 DEF fill_requests, GoTo, FillLeads, Moves
<1>2. CASE ~(choking \/ ~interested) /\ current # NoPiece
  BY Zenon, <1>0, <1>2 DEF fill_requests, GoTo, FillLeads, Moves
<1>3. CASE ~(choking \/ ~interested) /\ current = NoPiece
  <2>1. ScanFrom(t, "nn_have", bf, 0)
    BY Zenon, <1>3 DEF fill_requests
  <2>2. \/ ScanHits(t, "nn_have", bf, 0)
        \/ ScanEndgame(t, "nn_have", bf)
        \/ ScanEnds(t, "nn_have", bf, 0)
    BY <2>1, ScanOutcome
  <2>3. CASE ScanHits(t, "nn_have", bf, 0)
    BY Zenon, <1>0, <1>3, <2>3 DEF ScanHits, FillLeads, Moves
  <2>4. CASE ScanEndgame(t, "nn_have", bf)
    BY Zenon, <1>0, <1>3, <2>4 DEF ScanEndgame, FillLeads, Moves
  <2>5. CASE ScanEnds(t, "nn_have", bf, 0)
    BY Zenon, <1>0, <1>3, <2>5 DEF ScanEnds, FillLeads, Moves
  <2>. QED
    BY Zenon, <2>2, <2>3, <2>4, <2>5
<1>. QED
  BY Zenon, <1>1, <1>2, <1>3

\* fill_requests after a handler that dropped its piece.
LEMMA DropOutcome ==
  ASSUME TypeOK, NEW t \in Threads, DropAndFill(t)
  PROVE  /\ SetCurrent(t, NoPiece, FALSE)
         /\ KeepFlags
         /\ \E l \in Labels, j \in Pieces :
              FillLeads(t, l, j, m_peer_choking[t], m_am_interested[t],
                        m_peer_bitfield[t], NoPiece)
<1>1. m_peer_bitfield[t] \in SUBSET Pieces
  BY Zenon DEF TypeOK
<1>. QED
  BY Zenon, <1>1, FillOutcome DEF DropAndFill

-----------------------------------------------------------------------------
(* Types and shapes.                                                        *)

\* Piece indices are integers, and none of them is NoPiece.
LEMMA PieceIndices ==
  0 \in Pieces /\ Pieces \subseteq Int /\ NoPiece \notin Pieces
BY NumPiecesAssumption DEF Pieces, NoPiece

\* The constructors leave well-typed fields and no piece in flight.
LEMMA InitTypeShape == Init => TypeOK /\ Shape
<1>. SUFFICES ASSUME Init PROVE TypeOK /\ Shape
  BY Zenon
<1>. USE NumPiecesAssumption DEF Init, ManagerInit
<1>1. TypeOK
  BY DEF TypeOK, ManagerTypeOK, Pieces, Labels
<1>2. Shape
  BY Zenon DEF Shape, ShapeAt, NotFetching, Fetching, Scanning, Aborting, NoPiece
<1>. QED
  BY Zenon, <1>1, <1>2

\* A step of thread t leaves the fields of the other threads alone.
OnlyChanges(t) ==
  \A u \in Threads \ {t} :
    /\ pc'[u] = pc[u]
    /\ idx'[u] = idx[u]
    /\ m_current_piece'[u] = m_current_piece[u]
    /\ m_current_piece_exclusive'[u] = m_current_piece_exclusive[u]
    /\ m_peer_choking'[u] = m_peer_choking[u]
    /\ m_am_interested'[u] = m_am_interested[u]
    /\ m_peer_bitfield'[u] = m_peer_bitfield[u]

LocalStep(t) == TypeOK' /\ OnlyChanges(t) /\ ShapeAt(t)'

\* Dropping the piece in flight changes fields of thread t only.
LEMMA DropIsLocal ==
  ASSUME TypeOK, ManagerTypeOK', NEW t \in Threads, DropAndFill(t)
  PROVE  LocalStep(t)
<1>1. PICK l \in Labels, j \in Pieces :
        FillLeads(t, l, j, m_peer_choking[t], m_am_interested[t],
                  m_peer_bitfield[t], NoPiece)
  BY Zenon, DropOutcome
<1>2. SetCurrent(t, NoPiece, FALSE) /\ KeepFlags
  BY Zenon, DropOutcome
<1>. USE DEF TypeOK, SetCurrent, KeepFlags, FillLeads, Moves
<1>3. TypeOK'
  BY Zenon, <1>1, <1>2
<1>4. OnlyChanges(t)
  BY Zenon, <1>1, <1>2 DEF OnlyChanges
<1>5. ShapeAt(t)'
  BY Zenon, <1>1, <1>2, PieceIndices DEF ShapeAt, NotFetching, Fetching, Scanning,
     Aborting
<1>. QED
  BY Zenon, <1>3, <1>4, <1>5 DEF LocalStep

\* fill_requests changes fields of thread t only.
LEMMA FillIsLocal ==
  ASSUME TypeOK, NEW t \in Threads, ShapeAt(t), ManagerTypeOK',
         UNCHANGED unwinding, KeepCurrent,
         NEW c \in BOOLEAN, NEW i \in BOOLEAN, NEW bf \in SUBSET Pieces,
         fill_requests(t, c, i, bf, m_current_piece[t]),
         m_peer_choking' = [m_peer_choking EXCEPT ![t] = c],
         m_am_interested' = [m_am_interested EXCEPT ![t] = i],
         m_peer_bitfield' = [m_peer_bitfield EXCEPT ![t] = bf]
  PROVE  LocalStep(t)
<1>1. PICK l \in Labels, j \in Pieces :
        FillLeads(t, l, j, c, i, bf, m_current_piece[t])
  BY Zenon, FillOutcome
<1>. USE DEF TypeOK, KeepCurrent, FillLeads, Moves
<1>3. TypeOK'
  BY Zenon, <1>1
<1>4. OnlyChanges(t)
  BY Zenon, <1>1 DEF OnlyChanges
<1>5. ShapeAt(t)'
  BY Zenon, <1>1, PieceIndices DEF ShapeAt, NotFetching, Fetching, Scanning,
     Aborting
<1>. QED
  BY Zenon, <1>3, <1>4, <1>5 DEF LocalStep

\* An iteration of next_needed changes fields of thread t only.
LEMMA ScanIsLocal ==
  ASSUME TypeOK, NEW t \in Threads, ShapeAt(t), ManagerTypeOK',
         pc[t] \in Scanning, NEW label \in {"nn_have", "eg_have"},
         ScanFrom(t, label, m_peer_bitfield[t], idx[t] + 1),
         KeepCurrent, KeepFlags
  PROVE  LocalStep(t)
<1>0. m_peer_bitfield[t] \in SUBSET Pieces
  BY Zenon DEF TypeOK
<1>1. idx[t] + 1 \in Int
  BY NumPiecesAssumption DEF TypeOK, Pieces
<1>2. PICK l \in {"nn_have", "eg_have", "recv"}, j \in Pieces :
        Moves(t, l, j) /\ (l = "recv" \/ j \in m_peer_bitfield[t])
  <2>1. \/ ScanHits(t, label, m_peer_bitfield[t], idx[t] + 1)
        \/ ScanEndgame(t, label, m_peer_bitfield[t])
        \/ ScanEnds(t, label, m_peer_bitfield[t], idx[t] + 1)
    BY Zenon, <1>0, <1>1, ScanOutcome
  <2>. QED
    BY Zenon, <1>0, <2>1, PieceIndices DEF ScanHits, ScanEndgame, ScanEnds, Moves
<1>. USE DEF TypeOK, KeepCurrent, KeepFlags, Moves
<1>3. TypeOK'
  BY Zenon, <1>2 DEF Labels
<1>4. OnlyChanges(t)
  BY Zenon, <1>2 DEF OnlyChanges
<1>5. ShapeAt(t)'
  BY Zenon, <1>2, PieceIndices DEF ShapeAt, NotFetching, Fetching, Scanning,
     Aborting
<1>. QED
  BY Zenon, <1>3, <1>4, <1>5 DEF LocalStep

\* piece_length is a natural number for the short last piece too.
LEMMA PieceLength ==
  ASSUME NEW i \in Pieces
  PROVE  /\ piece_length(i) \in Nat
         /\ i # LastPiece => piece_length(i) = NominalLength
<1>1. NominalLength * (NumPieces - 1) \in Int
  BY NumPiecesAssumption, LengthAssumption
<1>. QED
  BY <1>1, NumPiecesAssumption, LengthAssumption
     DEF piece_length, Pieces, LastPiece

\* The destructor changes fields of thread t only.
LEMMA CloseIsLocal ==
  ASSUME TypeOK, NEW t \in Threads, ManagerTypeOK', Close(t)
  PROVE  LocalStep(t)
<1>. USE DEF Close, GoTo, SetCurrent, TypeOK
<1>1. TypeOK'
  BY Zenon, PieceIndices DEF Labels
<1>2. OnlyChanges(t)
  BY Zenon DEF OnlyChanges
<1>3. ShapeAt(t)'
  BY Zenon DEF ShapeAt, NotFetching, Fetching, Scanning, Aborting
<1>. QED
  BY Zenon, <1>1, <1>2, <1>3 DEF LocalStep

\* A step that moves the program counter alone.
LEMMA MoveIsLocal ==
  ASSUME TypeOK, NEW t \in Threads, ManagerTypeOK', ShapeAt(t),
         NEW l \in Labels, NEW j \in Pieces, Moves(t, l, j), KeepCurrent,
         UNCHANGED <<m_peer_choking, m_am_interested, m_peer_bitfield>>,
         unwinding' \in [Threads -> BOOLEAN],
         l \notin NotFetching,
         l \in Fetching => m_current_piece[t] \in Pieces,
         l \in Aborting => m_current_piece_exclusive[t]
  PROVE  LocalStep(t)
<1>. USE DEF Moves, KeepCurrent, TypeOK
<1>1. TypeOK'
  BY Zenon
<1>2. OnlyChanges(t)
  BY Zenon DEF OnlyChanges
<1>3. ShapeAt(t)'
  BY Zenon DEF ShapeAt, NotFetching, Fetching, Scanning, Aborting
<1>. QED
  BY Zenon, <1>1, <1>2, <1>3 DEF LocalStep

\* An exception that leaves run() changes fields of thread t only.
LEMMA UnwindIsLocal ==
  ASSUME TypeOK, NEW t \in Threads, ManagerTypeOK', ShapeAt(t), Unwind(t)
  PROVE  LocalStep(t)
<1>1. CASE m_current_piece_exclusive[t]
  <2>1. /\ Moves(t, "ab_have", 0)
        /\ KeepCurrent
        /\ UNCHANGED <<m_peer_choking, m_am_interested, m_peer_bitfield>>
        /\ unwinding' \in [Threads -> BOOLEAN]
    BY Zenon, <1>1 DEF Unwind, GoTo, Moves, TypeOK
  <2>2. m_current_piece[t] \in Pieces
    BY Zenon, <1>1 DEF ShapeAt
  <2>3. "ab_have" \in Labels \ NotFetching
    BY Zenon DEF Labels, NotFetching
  <2>. QED
    BY Zenon, <1>1, <2>1, <2>2, <2>3, PieceIndices, MoveIsLocal
<1>2. CASE ~m_current_piece_exclusive[t]
  BY Zenon, <1>2, CloseIsLocal DEF Unwind
<1>. QED
  BY Zenon, <1>1, <1>2

\* Every step of a thread is local to it and keeps types and shapes.
LEMMA StepIsLocal ==
  ASSUME TypeOK, NEW t \in Threads, ShapeAt(t),
         Connect(t) \/ Receive(t) \/ Compute(t)
  PROVE  LocalStep(t)
<1>. USE DEF managerVars, ManagerTypeOK
<1>1. CASE Connect(t)
  <2>. USE DEF Connect, GoTo, KeepCurrent, KeepFlags
  <2>1. TypeOK'
    BY Zenon, <1>1, PieceIndices
       DEF TypeOK, ShapeAt, Labels, NotFetching, Fetching, Scanning, Aborting
  <2>2. OnlyChanges(t)
    BY Zenon, <1>1 DEF TypeOK, OnlyChanges
  <2>3. ShapeAt(t)'
    BY Zenon, <1>1, PieceIndices
       DEF TypeOK, ShapeAt, NotFetching, Fetching, Scanning, Aborting
  <2>. QED
    BY Zenon, <2>1, <2>2, <2>3 DEF LocalStep
<1>2. ASSUME NEW S \in SUBSET Pieces, NEW checked, Learn(t, S, checked)
      PROVE  LocalStep(t)
  <2>. DEFINE bf == m_peer_bitfield[t] \cup S
              interested == m_am_interested[t] \/ \E i \in checked : ~m_have[i]
  <2>1. bf \in SUBSET Pieces /\ interested \in BOOLEAN
        /\ m_peer_choking[t] \in BOOLEAN
        /\ m_peer_choking' = [m_peer_choking EXCEPT ![t] = m_peer_choking[t]]
        /\ ManagerTypeOK'
    BY Zenon, <1>2 DEF TypeOK, Learn
  <2>2. /\ m_peer_bitfield' = [m_peer_bitfield EXCEPT ![t] = bf]
        /\ m_am_interested' = [m_am_interested EXCEPT ![t] = interested]
        /\ fill_requests(t, m_peer_choking[t], interested, bf,
                         m_current_piece[t])
        /\ UNCHANGED unwinding
        /\ KeepCurrent
    BY Zenon, <1>2 DEF Learn
  <2>. HIDE DEF bf, interested
  <2>. QED
    BY Zenon, <2>1, <2>2, FillIsLocal
<1>3. CASE handle_unchoke(t)
  <2>1. /\ m_am_interested[t] \in BOOLEAN
        /\ m_peer_bitfield[t] \in SUBSET Pieces
        /\ m_am_interested' = [m_am_interested EXCEPT ![t] = m_am_interested[t]]
        /\ m_peer_bitfield' = [m_peer_bitfield EXCEPT ![t] = m_peer_bitfield[t]]
        /\ ManagerTypeOK'
    BY Zenon, <1>3 DEF TypeOK, handle_unchoke
  <2>2. /\ m_peer_choking' = [m_peer_choking EXCEPT ![t] = FALSE]
        /\ fill_requests(t, FALSE, m_am_interested[t], m_peer_bitfield[t],
                         m_current_piece[t])
        /\ UNCHANGED unwinding
        /\ KeepCurrent
    BY Zenon, <1>3 DEF handle_unchoke
  <2>. QED
    BY Zenon, <2>1, <2>2, FillIsLocal
<1>4. CASE handle_choke(t)
  <2>. USE DEF handle_choke, GoTo, KeepCurrent, SetCurrent
  <2>1. CASE m_current_piece_exclusive[t]
    <3>1. TypeOK'
      BY <1>4, <2>1, PieceIndices DEF TypeOK, Labels
    <3>2. OnlyChanges(t)
      BY Zenon, <1>4, <2>1 DEF TypeOK, OnlyChanges
    <3>3. ShapeAt(t)'
      BY Zenon, <1>4, <2>1 DEF TypeOK, ShapeAt, NotFetching, Scanning
    <3>. QED
      BY Zenon, <3>1, <3>2, <3>3 DEF LocalStep
  <2>2. CASE ~m_current_piece_exclusive[t]
    <3>0. /\ GoTo(t, "recv") /\ SetCurrent(t, NoPiece, FALSE)
          /\ m_peer_choking' = [m_peer_choking EXCEPT ![t] = TRUE]
          /\ UNCHANGED <<managerVars, unwinding, m_am_interested,
                         m_peer_bitfield>>
      BY Zenon, <1>4, <2>2
    <3>1. TypeOK'
      BY Zenon, <3>0, PieceIndices DEF TypeOK, Labels
    <3>2. OnlyChanges(t)
      BY <1>4, <2>2 DEF TypeOK, OnlyChanges
    <3>3. ShapeAt(t)'
      BY Zenon, <1>4, <2>2 DEF TypeOK, ShapeAt, NotFetching, Fetching, Aborting,
         Scanning
    <3>. QED
      BY Zenon, <3>1, <3>2, <3>3 DEF LocalStep
  <2>. QED
    BY Zenon, <2>1, <2>2
<1>5. CASE ReceiveLastBlock(t)
  <2>. USE DEF ReceiveLastBlock, GoTo, KeepCurrent, KeepFlags
  <2>1. TypeOK'
    BY Zenon, <1>5, PieceIndices
       DEF TypeOK, ShapeAt, Labels, NotFetching, Fetching, Scanning, Aborting
  <2>2. OnlyChanges(t)
    BY Zenon, <1>5 DEF TypeOK, OnlyChanges
  <2>3. ShapeAt(t)'
    BY Zenon, <1>5, PieceIndices
       DEF TypeOK, ShapeAt, NotFetching, Fetching, Scanning, Aborting
  <2>. QED
    BY Zenon, <2>1, <2>2, <2>3 DEF LocalStep
<1>6. CASE ReceiveOther(t)
  <2>1. /\ m_peer_choking[t] \in BOOLEAN
        /\ m_am_interested[t] \in BOOLEAN
        /\ m_peer_bitfield[t] \in SUBSET Pieces
        /\ m_peer_choking' = [m_peer_choking EXCEPT ![t] = m_peer_choking[t]]
        /\ m_am_interested' = [m_am_interested EXCEPT ![t] = m_am_interested[t]]
        /\ m_peer_bitfield' = [m_peer_bitfield EXCEPT ![t] = m_peer_bitfield[t]]
        /\ ManagerTypeOK'
    BY Zenon, <1>6 DEF TypeOK, ReceiveOther, KeepFlags
  <2>2. /\ fill_requests(t, m_peer_choking[t], m_am_interested[t],
                         m_peer_bitfield[t], m_current_piece[t])
        /\ UNCHANGED unwinding
        /\ KeepCurrent
    BY Zenon, <1>6 DEF ReceiveOther, KeepFlags
  <2>. DEFINE c == m_peer_choking[t]
              i == m_am_interested[t]
              bf == m_peer_bitfield[t]
  <2>3. /\ c \in BOOLEAN /\ i \in BOOLEAN /\ bf \in SUBSET Pieces
        /\ m_peer_choking' = [m_peer_choking EXCEPT ![t] = c]
        /\ m_am_interested' = [m_am_interested EXCEPT ![t] = i]
        /\ m_peer_bitfield' = [m_peer_bitfield EXCEPT ![t] = bf]
        /\ fill_requests(t, c, i, bf, m_current_piece[t])
    BY Zenon, <2>1, <2>2
  <2>4. ManagerTypeOK' /\ UNCHANGED unwinding /\ KeepCurrent
    BY Zenon, <2>1, <2>2
  <2>. HIDE DEF c, i, bf
  <2>. QED
    BY <2>3, <2>4, FillIsLocal, Zenon
<1>7. CASE Disconnect(t)
  BY Zenon, <1>7, UnwindIsLocal DEF TypeOK, Disconnect
<1>8. ASSUME ManagerTypeOK', NEW l \in Fetching \cup {"recv"},
             GoTo(t, l), KeepCurrent, KeepFlags,
             m_current_piece[t] \in Pieces,
             l \in Aborting => m_current_piece_exclusive[t]
      PROVE  LocalStep(t)
  BY Zenon, <1>8, PieceIndices, MoveIsLocal DEF GoTo, Moves, KeepFlags, TypeOK,
     NotFetching, Fetching, Labels
<1>9. CASE FillHave(t)
  <2>1. ManagerTypeOK' /\ m_current_piece[t] \in Pieces
    BY Zenon, <1>9 DEF FillHave, TypeOK, ShapeAt, Fetching
  <2>. QED
    BY Zenon, <1>8, <1>9, <2>1, DropIsLocal DEF FillHave, Aborting
<1>10. CASE NextNeededHave(t)
  <2>1. ManagerTypeOK' /\ pc[t] \in Scanning
    BY Zenon, <1>10 DEF NextNeededHave, TypeOK, Scanning
  <2>2. CASE m_have[idx[t]]
    BY Zenon, <1>10, <2>1, <2>2, ScanIsLocal DEF NextNeededHave
  <2>3. CASE ~m_have[idx[t]]
    <3>. USE DEF NextNeededHave, KeepCurrent, KeepFlags
    <3>1. TypeOK'
      BY Zenon, <1>10, <2>3 DEF TypeOK, Labels
    <3>2. OnlyChanges(t)
      BY Zenon, <1>10, <2>3 DEF TypeOK, OnlyChanges
    <3>3. ShapeAt(t)'
      BY <1>10, <2>3 DEF TypeOK, ShapeAt, NotFetching, Fetching, Aborting,
         Scanning
    <3>. QED
      BY Zenon, <3>1, <3>2, <3>3 DEF LocalStep
  <2>. QED
    BY Zenon, <2>2, <2>3
<1>11. CASE NextNeededClaim(t)
  <2>0. pc[t] = "nn_cas"
    BY Zenon, <1>11 DEF NextNeededClaim
  <2>1. CASE TryClaim(idx[t]) /\ SetCurrent(t, idx[t], TRUE) /\ GoTo(t, "recv")
             /\ KeepFlags
    <3>. USE DEF TryClaim, SetCurrent, GoTo, KeepFlags
    <3>1. TypeOK'
      BY Zenon, <2>1, PieceIndices DEF TypeOK, Labels
    <3>2. OnlyChanges(t)
      BY Zenon, <2>1 DEF TypeOK, OnlyChanges
    <3>3. ShapeAt(t)'
      BY Zenon, <2>1 DEF TypeOK, ShapeAt, NotFetching, Fetching, Aborting, Scanning
    <3>. QED
      BY Zenon, <3>1, <3>2, <3>3 DEF LocalStep
  <2>2. CASE ScanFrom(t, "nn_have", m_peer_bitfield[t], idx[t] + 1)
             /\ UNCHANGED managerVars /\ KeepCurrent /\ KeepFlags
    BY Zenon, <2>0, <2>2, ScanIsLocal DEF TypeOK, Scanning
  <2>. QED
    BY Zenon, <1>11, <2>1, <2>2 DEF NextNeededClaim
<1>12. CASE EndgameHave(t)
  <2>1. ManagerTypeOK' /\ pc[t] = "eg_have"
    BY Zenon, <1>12 DEF EndgameHave, TypeOK
  <2>2. CASE m_have[idx[t]]
    BY Zenon, <1>12, <2>1, <2>2, ScanIsLocal DEF EndgameHave, Scanning
  <2>3. CASE ~m_have[idx[t]]
    <3>. USE DEF EndgameHave, SetCurrent, GoTo, KeepFlags
    <3>0. /\ GoTo(t, "recv") /\ SetCurrent(t, idx[t], FALSE)
          /\ KeepFlags /\ UNCHANGED managerVars
      BY Zenon, <1>12, <2>3
    <3>1. TypeOK'
      BY Zenon, <3>0, PieceIndices DEF TypeOK, Labels
    <3>2. OnlyChanges(t)
      BY <1>12, <2>3 DEF TypeOK, OnlyChanges
    <3>3. ShapeAt(t)'
      BY <1>12, <2>3 DEF TypeOK, ShapeAt, NotFetching, Fetching, Aborting,
         Scanning
    <3>. QED
      BY Zenon, <3>1, <3>2, <3>3 DEF LocalStep
  <2>. QED
    BY Zenon, <2>2, <2>3
<1>13. CASE CompleteHave(t)
  <2>1. ManagerTypeOK' /\ m_current_piece[t] \in Pieces
    BY Zenon, <1>13 DEF CompleteHave, TypeOK, ShapeAt, Fetching
  <2>. QED
    BY Zenon, <1>8, <1>13, <2>1, DropIsLocal DEF CompleteHave, Fetching, Aborting
<1>14. CASE CompleteRehave(t)
  <2>1. ManagerTypeOK' /\ m_current_piece[t] \in Pieces
    BY <1>14 DEF CompleteRehave, FailHash, TypeOK, ShapeAt, Fetching
  <2>. QED
    BY Zenon, <1>8, <1>14, <2>1, DropIsLocal DEF CompleteRehave, Fetching
<1>15. CASE CompleteCas(t)
  <2>1. ManagerTypeOK' /\ m_current_piece[t] \in Pieces
    BY Zenon, <1>15 DEF CompleteCas, TryMarkHave, TypeOK, ShapeAt, Fetching
  <2>. QED
    BY Zenon, <1>8, <1>15, <2>1, DropIsLocal DEF CompleteCas, Fetching, Aborting
<1>16. CASE CompleteWrite(t)
  <2>1. ManagerTypeOK' /\ m_current_piece[t] \in Pieces
    BY Zenon, <1>16 DEF CompleteWrite, StorePiece, TypeOK, ShapeAt, Fetching
  <2>. QED
    BY Zenon, <1>8, <1>16, <2>1, UnwindIsLocal DEF CompleteWrite, Fetching, Aborting
<1>17. CASE CompleteBytes(t)
  <2>1. m_current_piece[t] \in Pieces
    BY Zenon, <1>17 DEF CompleteBytes, ShapeAt, Fetching
  <2>2. ManagerTypeOK'
    BY <1>17, <2>1, PieceLength DEF CompleteBytes, AddDownloadedBytes, TypeOK
  <2>. QED
    BY Zenon, <1>8, <1>17, <2>1, <2>2 DEF CompleteBytes, Fetching, Aborting
<1>18. CASE CompleteCount(t)
  <2>1. ManagerTypeOK'
    BY <1>18 DEF CompleteCount, AddCompleted, TypeOK
  <2>. QED
    BY Zenon, <1>18, <2>1, DropIsLocal DEF CompleteCount
<1>19. ASSUME ManagerTypeOK', AfterAbort(t)
       PROVE  LocalStep(t)
  BY Zenon, <1>19, CloseIsLocal, DropIsLocal DEF AfterAbort
<1>20. CASE AbortHave(t)
  <2>1. /\ ManagerTypeOK'
        /\ m_current_piece[t] \in Pieces
        /\ m_current_piece_exclusive[t]
    BY Zenon, <1>20 DEF AbortHave, TypeOK, ShapeAt, Fetching, Aborting
  <2>. QED
    BY Zenon, <1>8, <1>19, <1>20, <2>1 DEF AbortHave, Fetching
<1>21. CASE AbortStore(t)
  <2>1. ManagerTypeOK'
    BY Zenon, <1>21 DEF AbortStore, ReleaseClaim, TypeOK, ShapeAt, Fetching
  <2>. QED
    BY Zenon, <1>19, <1>21, <2>1 DEF AbortStore
<1>. QED
  BY Zenon, <1>1, <1>2, <1>3, <1>4, <1>5, <1>6, <1>7, <1>9, <1>10, <1>11, <1>12,
     <1>13, <1>14, <1>15, <1>16, <1>17, <1>18, <1>20, <1>21
     DEF Receive, Compute, handle_bitfield, handle_have

\* Types and shapes are kept by every step.
LEMMA TypeShapeStep ==
  ASSUME TypeOK, Shape, [Next]_vars
  PROVE  TypeOK' /\ Shape'
<1>1. CASE UNCHANGED vars
  BY Zenon, <1>1
     DEF vars, managerVars, connectionVars, TypeOK, ManagerTypeOK, Shape,
     ShapeAt
<1>2. ASSUME NEW t \in Threads, Connect(t) \/ Receive(t) \/ Compute(t)
      PROVE  TypeOK' /\ Shape'
  <2>1. LocalStep(t)
    BY Zenon, <1>2, StepIsLocal DEF Shape
  <2>2. ASSUME NEW u \in Threads \ {t}
        PROVE  ShapeAt(u)'
    <3>1. ShapeAt(u)
      BY Zenon DEF Shape
    <3>. QED
      BY Zenon, <2>1, <3>1 DEF LocalStep, OnlyChanges, ShapeAt
  <2>. QED
    BY Zenon, <2>1, <2>2 DEF LocalStep, Shape
<1>. QED
  BY Zenon, <1>1, <1>2 DEF Next

-----------------------------------------------------------------------------
(* What a step of thread t does to the piece table and to its piece: it     *)
(* keeps the piece, drops it, takes one in endgame, claims one, or is one   *)
(* of the steps that change the table.                                      *)

tableVars == <<m_have, m_claimed, m_completed_count, m_curr_downloaded_bytes,
               written>>

Counting == {"cp_bytes", "cp_count"}

HoldsPiece(t) ==
  /\ m_current_piece'[t] = m_current_piece[t]
  /\ m_current_piece_exclusive'[t] = m_current_piece_exclusive[t]

LosesPiece(t) ==
  /\ m_current_piece'[t] = NoPiece
  /\ m_current_piece_exclusive'[t] = FALSE
  /\ ~Writing(t)'

Keeps(t) ==
  /\ UNCHANGED tableVars
  /\ HoldsPiece(t)
  /\ pc[t] \notin Counting
  /\ ~Writing(t)'

Drops(t) ==
  /\ UNCHANGED tableVars
  /\ LosesPiece(t)
  /\ m_current_piece_exclusive[t] => m_have[m_current_piece[t]]
  /\ pc[t] \notin Counting

Takes(t) ==
  /\ UNCHANGED tableVars
  /\ m_current_piece[t] = NoPiece
  /\ m_current_piece_exclusive'[t] = FALSE
  /\ ~Writing(t) /\ ~Writing(t)'

Claims(t) ==
  /\ TryClaim(idx[t])
  /\ m_current_piece[t] = NoPiece
  /\ m_current_piece'[t] = idx[t]
  /\ m_current_piece_exclusive'[t] = TRUE
  /\ ~Writing(t) /\ ~Writing(t)'

Marks(t) ==
  /\ TryMarkHave(m_current_piece[t]) /\ HoldsPiece(t)
  /\ pc[t] = "cp_cas" /\ pc'[t] = "cp_write"

Stores(t) ==
  /\ StorePiece(m_current_piece[t]) /\ HoldsPiece(t)
  /\ pc[t] = "cp_write" /\ pc'[t] = "cp_bytes"

AddsBytes(t) ==
  /\ AddDownloadedBytes(m_current_piece[t]) /\ HoldsPiece(t)
  /\ pc[t] = "cp_bytes" /\ pc'[t] = "cp_count"

Counts(t) ==
  /\ AddCompleted /\ LosesPiece(t)
  /\ pc[t] = "cp_count"

Releases(t) ==
  /\ ReleaseClaim(m_current_piece[t]) /\ LosesPiece(t)
  /\ pc[t] = "ab_store"

Effect(t) ==
  \/ Keeps(t) \/ Drops(t) \/ Takes(t) \/ Claims(t) \/ Marks(t)
  \/ Stores(t) \/ AddsBytes(t) \/ Counts(t) \/ Releases(t)

\* A thread that drops its piece holds none afterwards.
LEMMA DropLoses ==
  ASSUME TypeOK, NEW t \in Threads, DropAndFill(t)
  PROVE  LosesPiece(t)
<1>1. PICK l \in Labels, j \in Pieces :
        FillLeads(t, l, j, m_peer_choking[t], m_am_interested[t],
                  m_peer_bitfield[t], NoPiece)
  BY Zenon, DropOutcome
<1>2. SetCurrent(t, NoPiece, FALSE)
  BY Zenon, DropOutcome
<1>. QED
  BY Zenon, <1>1, <1>2 DEF TypeOK, FillLeads, Moves, SetCurrent, LosesPiece, Writing

\* A closed connection holds no piece.
LEMMA CloseLoses ==
  ASSUME TypeOK, NEW t \in Threads, Close(t)
  PROVE  LosesPiece(t)
BY Zenon DEF TypeOK, Close, GoTo, SetCurrent, LosesPiece, Writing

\* A thread that keeps its fields holds what it held.
LEMMA KeepHolds ==
  ASSUME TypeOK, NEW t \in Threads, KeepCurrent
  PROVE  HoldsPiece(t)
BY Zenon DEF TypeOK, KeepCurrent, HoldsPiece

\* fill_requests does not lead into complete_piece.
LEMMA FillNotWriting ==
  ASSUME TypeOK, NEW t \in Threads, NEW c, NEW i, NEW bf \in SUBSET Pieces,
         NEW p, fill_requests(t, c, i, bf, p)
  PROVE  ~Writing(t)'
<1>1. PICK l \in Labels, j \in Pieces : FillLeads(t, l, j, c, i, bf, p)
  BY Zenon, FillOutcome
<1>. QED
  BY Zenon, <1>1 DEF TypeOK, FillLeads, Moves, Writing

\* The scan of next_needed does not lead into complete_piece.
LEMMA ScanNotWriting ==
  ASSUME TypeOK, NEW t \in Threads, NEW label \in {"nn_have", "eg_have"},
         NEW bf, NEW from, ScanFrom(t, label, bf, from)
  PROVE  ~Writing(t)'
BY Zenon DEF TypeOK, ScanFrom, Writing

\* An exception keeps a reservation for abort_piece or drops the piece.
LEMMA UnwindEffect ==
  ASSUME TypeOK, NEW t \in Threads, Unwind(t), pc[t] \notin Counting,
         UNCHANGED managerVars
  PROVE  Keeps(t) \/ Drops(t)
<1>1. CASE m_current_piece_exclusive[t]
  <2>1. HoldsPiece(t)
    BY Zenon, <1>1, KeepHolds DEF Unwind
  <2>. QED
    BY <1>1, <2>1 DEF Unwind, GoTo, TypeOK, Keeps, Writing, tableVars,
       managerVars
<1>2. CASE ~m_current_piece_exclusive[t]
  <2>1. LosesPiece(t)
    BY Zenon, <1>2, CloseLoses DEF Unwind
  <2>. QED
    BY Zenon, <1>2, <2>1 DEF Drops, tableVars, managerVars
<1>. QED
  BY Zenon, <1>1, <1>2

\* Every step of a thread has one of these effects.
LEMMA StepEffect ==
  ASSUME TypeOK, NEW t \in Threads, ShapeAt(t),
         Connect(t) \/ Receive(t) \/ Compute(t)
  PROVE  Effect(t)
<1>. USE DEF Effect, tableVars, managerVars, Counting
<1>1. ASSUME NEW l \in Labels, GoTo(t, l)
      PROVE  pc'[t] = l
  BY Zenon, <1>1 DEF GoTo, TypeOK
<1>2. CASE Connect(t)
  <2>1. HoldsPiece(t) /\ ~Writing(t)'
    BY Zenon, <1>1, <1>2, KeepHolds DEF Connect, Writing, Labels
  <2>. QED
    BY Zenon, <1>2, <2>1 DEF Connect, Keeps
<1>3. ASSUME NEW S \in SUBSET Pieces, NEW checked, Learn(t, S, checked)
      PROVE  Effect(t)
  <2>1. m_peer_bitfield[t] \cup S \in SUBSET Pieces
    BY Zenon DEF TypeOK
  <2>2. HoldsPiece(t) /\ ~Writing(t)'
    BY Zenon, <1>3, <2>1, KeepHolds, FillNotWriting DEF Learn
  <2>. QED
    BY Zenon, <1>3, <2>2 DEF Learn, Keeps
<1>4. CASE handle_unchoke(t)
  <2>1. m_peer_bitfield[t] \in SUBSET Pieces
    BY Zenon DEF TypeOK
  <2>2. HoldsPiece(t) /\ ~Writing(t)'
    BY Zenon, <1>4, <2>1, KeepHolds, FillNotWriting DEF handle_unchoke
  <2>. QED
    BY Zenon, <1>4, <2>2 DEF handle_unchoke, Keeps
<1>5. CASE handle_choke(t)
  <2>1. CASE m_current_piece_exclusive[t]
    <3>1. HoldsPiece(t) /\ ~Writing(t)'
      BY Zenon, <1>1, <1>5, <2>1, KeepHolds DEF handle_choke, Writing, Labels
    <3>. QED
      BY Zenon, <1>5, <3>1 DEF handle_choke, Keeps
  <2>2. CASE ~m_current_piece_exclusive[t]
    <3>1. LosesPiece(t)
      BY Zenon, <1>1, <1>5, <2>2 DEF handle_choke, SetCurrent, LosesPiece, Writing,
         Labels, TypeOK
    <3>. QED
      BY Zenon, <1>5, <2>2, <3>1 DEF handle_choke, Drops
  <2>. QED
    BY Zenon, <2>1, <2>2
<1>6. CASE ReceiveLastBlock(t)
  <2>1. HoldsPiece(t) /\ ~Writing(t)'
    BY Zenon, <1>1, <1>6, KeepHolds DEF ReceiveLastBlock, Writing, Labels
  <2>. QED
    BY Zenon, <1>6, <2>1 DEF ReceiveLastBlock, Keeps
<1>7. CASE ReceiveOther(t)
  <2>1. m_peer_bitfield[t] \in SUBSET Pieces
    BY Zenon DEF TypeOK
  <2>2. HoldsPiece(t) /\ ~Writing(t)'
    BY Zenon, <1>7, <2>1, KeepHolds, FillNotWriting DEF ReceiveOther
  <2>. QED
    BY Zenon, <1>7, <2>2 DEF ReceiveOther, Keeps
<1>8. CASE Disconnect(t)
  BY Zenon, <1>8, UnwindEffect DEF Disconnect
<1>9. CASE FillHave(t)
  <2>1. CASE m_have[m_current_piece[t]]
    BY Zenon, <1>9, <2>1, DropLoses DEF FillHave, Drops
  <2>2. CASE ~m_have[m_current_piece[t]]
    <3>1. HoldsPiece(t) /\ ~Writing(t)'
      BY Zenon, <1>1, <1>9, <2>2, KeepHolds DEF FillHave, Writing, Labels
    <3>. QED
      BY Zenon, <1>9, <3>1 DEF FillHave, Keeps
  <2>. QED
    BY Zenon, <2>1, <2>2
<1>10. CASE NextNeededHave(t)
  <2>1. HoldsPiece(t)
    BY Zenon, <1>10, KeepHolds DEF NextNeededHave
  <2>2. ~Writing(t)'
    BY Zenon, <1>10, ScanNotWriting DEF NextNeededHave, Writing, TypeOK
  <2>. QED
    BY Zenon, <1>10, <2>1, <2>2 DEF NextNeededHave, Keeps
<1>11. CASE NextNeededClaim(t)
  <2>0. pc[t] = "nn_cas" /\ m_current_piece[t] = NoPiece /\ ~Writing(t)
    BY Zenon, <1>11 DEF NextNeededClaim, ShapeAt, NotFetching, Writing
  <2>1. CASE TryClaim(idx[t]) /\ SetCurrent(t, idx[t], TRUE) /\ GoTo(t, "recv")
    <3>1. pc'[t] = "recv"
      BY Zenon, <1>1, <2>1 DEF Labels
    <3>. QED
      BY Zenon, <2>0, <2>1, <3>1 DEF Claims, SetCurrent, Writing, TypeOK
  <2>2. CASE ScanFrom(t, "nn_have", m_peer_bitfield[t], idx[t] + 1)
             /\ UNCHANGED managerVars /\ KeepCurrent
    <3>1. HoldsPiece(t) /\ ~Writing(t)'
      BY Zenon, <2>2, KeepHolds, ScanNotWriting
    <3>. QED
      BY Zenon, <2>0, <2>2, <3>1 DEF Keeps
  <2>. QED
    BY Zenon, <1>11, <2>1, <2>2 DEF NextNeededClaim
<1>12. CASE EndgameHave(t)
  <2>0. m_current_piece[t] = NoPiece /\ ~Writing(t)
    BY Zenon, <1>12 DEF EndgameHave, ShapeAt, NotFetching, Writing
  <2>1. CASE m_have[idx[t]]
    <3>1. HoldsPiece(t) /\ ~Writing(t)'
      BY Zenon, <1>12, <2>1, KeepHolds, ScanNotWriting DEF EndgameHave
    <3>. QED
      BY Zenon, <1>12, <3>1 DEF EndgameHave, Keeps
  <2>2. CASE ~m_have[idx[t]]
    <3>1. pc'[t] = "recv"
      BY Zenon, <1>1, <1>12, <2>2 DEF EndgameHave, Labels
    <3>. QED
      BY Zenon, <1>12, <2>0, <2>2, <3>1 DEF EndgameHave, Takes, SetCurrent, Writing,
         TypeOK
  <2>. QED
    BY Zenon, <2>1, <2>2
<1>13. CASE CompleteHave(t)
  <2>1. CASE m_have[m_current_piece[t]] /\ DropAndFill(t)
    BY Zenon, <1>13, <2>1, DropLoses DEF CompleteHave, Drops
  <2>2. CASE GoTo(t, "cp_cas") /\ KeepCurrent
    <3>1. HoldsPiece(t) /\ ~Writing(t)'
      BY Zenon, <1>1, <2>2, KeepHolds DEF Writing, Labels
    <3>. QED
      BY Zenon, <1>13, <3>1 DEF CompleteHave, Keeps
  <2>3. CASE GoTo(t, "cp_rehave") /\ KeepCurrent
    <3>1. HoldsPiece(t) /\ ~Writing(t)'
      BY Zenon, <1>1, <2>3, KeepHolds DEF Writing, Labels
    <3>. QED
      BY Zenon, <1>13, <3>1 DEF CompleteHave, Keeps
  <2>. QED
    BY Zenon, <1>13, <2>1, <2>2, <2>3 DEF CompleteHave
<1>14. CASE CompleteRehave(t)
  <2>1. CASE m_have[m_current_piece[t]]
    BY Zenon, <1>14, <2>1, DropLoses DEF CompleteRehave, Drops
  <2>2. CASE ~m_have[m_current_piece[t]] /\ m_current_piece_exclusive[t]
    <3>1. HoldsPiece(t) /\ ~Writing(t)'
      BY Zenon, <1>1, <1>14, <2>2, KeepHolds DEF CompleteRehave, Writing, Labels
    <3>. QED
      BY Zenon, <1>14, <2>2, <3>1 DEF CompleteRehave, FailHash, Keeps
  <2>3. CASE ~m_have[m_current_piece[t]] /\ ~m_current_piece_exclusive[t]
    BY Zenon, <1>14, <2>3, DropLoses DEF CompleteRehave, FailHash, Drops
  <2>. QED
    BY Zenon, <2>1, <2>2, <2>3
<1>15. CASE CompleteCas(t)
  <2>1. CASE TryMarkHave(m_current_piece[t]) /\ GoTo(t, "cp_write") /\ KeepCurrent
    <3>1. HoldsPiece(t) /\ pc'[t] = "cp_write"
      BY Zenon, <1>1, <2>1, KeepHolds DEF Labels
    <3>. QED
      BY Zenon, <1>15, <2>1, <3>1 DEF CompleteCas, Marks
  <2>2. CASE m_have[m_current_piece[t]] /\ DropAndFill(t) /\ UNCHANGED managerVars
    BY Zenon, <1>15, <2>2, DropLoses DEF CompleteCas, Drops
  <2>. QED
    BY Zenon, <1>15, <2>1, <2>2 DEF CompleteCas
<1>16. CASE CompleteWrite(t)
  <2>1. CASE StorePiece(m_current_piece[t]) /\ GoTo(t, "cp_bytes") /\ KeepCurrent
    <3>1. HoldsPiece(t) /\ pc'[t] = "cp_bytes"
      BY Zenon, <1>1, <2>1, KeepHolds DEF Labels
    <3>. QED
      BY Zenon, <1>16, <2>1, <3>1 DEF CompleteWrite, Stores
  <2>2. CASE Unwind(t) /\ UNCHANGED managerVars
    BY Zenon, <1>16, <2>2, UnwindEffect DEF CompleteWrite
  <2>. QED
    BY Zenon, <1>16, <2>1, <2>2 DEF CompleteWrite
<1>17. CASE CompleteBytes(t)
  <2>1. HoldsPiece(t) /\ pc'[t] = "cp_count"
    BY Zenon, <1>1, <1>17, KeepHolds DEF CompleteBytes, Labels
  <2>. QED
    BY Zenon, <1>17, <2>1 DEF CompleteBytes, AddsBytes
<1>18. CASE CompleteCount(t)
  BY Zenon, <1>18, DropLoses DEF CompleteCount, Counts
<1>19. ASSUME AfterAbort(t)
       PROVE  LosesPiece(t)
  BY Zenon, <1>19, DropLoses, CloseLoses DEF AfterAbort
<1>20. CASE AbortHave(t)
  <2>1. CASE m_have[m_current_piece[t]]
    BY Zenon, <1>19, <1>20, <2>1 DEF AbortHave, Drops
  <2>2. CASE ~m_have[m_current_piece[t]]
    <3>1. HoldsPiece(t) /\ ~Writing(t)'
      BY Zenon, <1>1, <1>20, <2>2, KeepHolds DEF AbortHave, Writing, Labels
    <3>. QED
      BY Zenon, <1>20, <3>1 DEF AbortHave, Keeps
  <2>. QED
    BY Zenon, <2>1, <2>2
<1>21. CASE AbortStore(t)
  BY Zenon, <1>19, <1>21 DEF AbortStore, Releases
<1>. QED
  BY Zenon, <1>2, <1>3, <1>4, <1>5, <1>6, <1>7, <1>8, <1>9, <1>10, <1>11, <1>12,
     <1>13, <1>14, <1>15, <1>16, <1>17, <1>18, <1>20, <1>21
     DEF Receive, Compute, handle_bitfield, handle_have

\* Ownership is about other threads' pieces only as far as m_claimed goes.
LEMMA OthersOwn ==
  ASSUME NEW t \in Threads, OnlyChanges(t), NEW u \in Threads, u # t, NEW i
  PROVE  Owns(u, i)' <=> Owns(u, i)
BY Zenon DEF OnlyChanges, Owns

-----------------------------------------------------------------------------
(* Reservations.                                                            *)

Reservations == OwnerClaimed /\ ExclusiveOwner /\ ClaimHasOwner

SameOwners == \A u \in Threads : \A i \in Pieces : Owns(u, i)' <=> Owns(u, i)

\* A step that changes neither owners nor claims preserves the reservations.
LEMMA OwnersStay ==
  ASSUME Reservations, SameOwners, UNCHANGED m_claimed,
         \A i \in Pieces : m_have[i] => m_have'[i]
  PROVE  Reservations'
<1>1. OwnerClaimed'
  BY Zenon DEF SameOwners, Reservations, OwnerClaimed
<1>2. ExclusiveOwner'
  BY Zenon DEF SameOwners, Reservations, ExclusiveOwner
<1>3. ClaimHasOwner'
  BY Zenon DEF SameOwners, Reservations, ClaimHasOwner
<1>. QED
  BY Zenon, <1>1, <1>2, <1>3 DEF Reservations

\* A thread that gives up a finished piece preserves the reservations.
LEMMA OwnerLeaves ==
  ASSUME Reservations, NEW t \in Threads,
         \A u \in Threads : u # t =>
            \A i \in Pieces : Owns(u, i)' <=> Owns(u, i),
         \A i \in Pieces : ~Owns(t, i)',
         \A i \in Pieces : Owns(t, i) => m_have[i],
         UNCHANGED <<m_have, m_claimed>>
  PROVE  Reservations'
<1>0. \A u \in Threads : \A i \in Pieces : Owns(u, i)' => Owns(u, i)
  BY Zenon
<1>1. OwnerClaimed'
  BY Zenon, <1>0 DEF Reservations, OwnerClaimed
<1>2. ExclusiveOwner'
  BY Zenon, <1>0 DEF Reservations, ExclusiveOwner
<1>3. ClaimHasOwner'
  <2>. SUFFICES ASSUME NEW i \in Pieces, m_claimed'[i], ~m_have'[i]
                PROVE  \E u \in Threads : Owns(u, i)'
    BY Zenon DEF ClaimHasOwner
  <2>1. PICK u \in Threads : Owns(u, i)
    BY Zenon DEF Reservations, ClaimHasOwner
  <2>2. u # t
    BY Zenon, <2>1
  <2>. QED
    BY Zenon, <2>1, <2>2
<1>. QED
  BY Zenon, <1>1, <1>2, <1>3 DEF Reservations

\* Each effect of a step preserves exclusive ownership and owned claims.
LEMMA ReservationsStep ==
  ASSUME TypeOK, Shape, Reservations, WriterInv, NEW t \in Threads,
         OnlyChanges(t), Effect(t)
  PROVE  Reservations'
<1>0. \A u \in Threads : u # t =>
        \A i \in Pieces : Owns(u, i)' <=> Owns(u, i)
  BY Zenon, OthersOwn
<1>a. ASSUME HoldsPiece(t) PROVE SameOwners
  <2>1. \A i \in Pieces : Owns(t, i)' <=> Owns(t, i)
    BY Zenon, <1>a DEF HoldsPiece, Owns
  <2>. QED
    BY Zenon, <1>0, <2>1 DEF SameOwners
<1>b. ASSUME LosesPiece(t) PROVE \A i \in Pieces : ~Owns(t, i)'
  BY Zenon, <1>b DEF LosesPiece, Owns
<1>1. CASE Keeps(t)
  BY Zenon, <1>a, <1>1, OwnersStay DEF Keeps, tableVars
<1>2. CASE Drops(t)
  <2>1. \A i \in Pieces : Owns(t, i) => m_have[i]
    BY Zenon, <1>2 DEF Drops, Owns
  <2>2. UNCHANGED <<m_have, m_claimed>>
    BY Zenon, <1>2 DEF Drops, tableVars
  <2>3. \A i \in Pieces : ~Owns(t, i)'
    BY Zenon, <1>b, <1>2 DEF Drops
  <2>. QED
    BY Zenon, <1>0, <2>1, <2>2, <2>3, OwnerLeaves
<1>3. CASE Takes(t)
  <2>1. \A i \in Pieces : ~Owns(t, i) /\ ~Owns(t, i)'
    BY Zenon, <1>3, PieceIndices DEF Takes, Owns
  <2>2. SameOwners
    BY Zenon, <1>0, <2>1 DEF SameOwners
  <2>. QED
    BY Zenon, <1>3, <2>2, OwnersStay DEF Takes, tableVars
<1>4. CASE Claims(t)
  <2>1. \A i \in Pieces : ~Owns(t, i) /\ (Owns(t, i)' <=> i = idx[t])
    BY Zenon, <1>4, PieceIndices DEF Claims, Owns
  <2>2. ~m_claimed[idx[t]] /\ UNCHANGED m_have
        /\ m_claimed' = [m_claimed EXCEPT ![idx[t]] = TRUE]
    BY Zenon, <1>4 DEF Claims, TryClaim
  <2>3. \A i \in Pieces : m_claimed'[i] <=> m_claimed[i] \/ i = idx[t]
    BY Zenon, <2>2 DEF TypeOK, ManagerTypeOK
  <2>4. OwnerClaimed'
    BY Zenon, <1>0, <2>1, <2>3 DEF Reservations, OwnerClaimed
  <2>5. ExclusiveOwner'
    <3>. SUFFICES ASSUME NEW i \in Pieces, NEW u \in Threads, NEW v \in Threads,
                         Owns(u, i)', Owns(v, i)'
                  PROVE  u = v
      BY Zenon DEF ExclusiveOwner
    <3>1. CASE i = idx[t]
      <4>1. \A w \in Threads : ~Owns(w, i)
        BY Zenon, <2>2, <3>1 DEF Reservations, OwnerClaimed
      <4>. QED
        BY Zenon, <1>0, <4>1
    <3>2. CASE i # idx[t]
      <4>1. u # t /\ v # t
        BY Zenon, <2>1, <3>2
      <4>2. Owns(u, i) /\ Owns(v, i)
        BY Zenon, <1>0, <4>1
      <4>. QED
        BY Zenon, <4>2 DEF Reservations, ExclusiveOwner
    <3>. QED
      BY Zenon, <3>1, <3>2
  <2>6. ClaimHasOwner'
    <3>. SUFFICES ASSUME NEW i \in Pieces, m_claimed'[i], ~m_have'[i]
                  PROVE  \E u \in Threads : Owns(u, i)'
      BY Zenon DEF ClaimHasOwner
    <3>1. CASE i = idx[t]
      BY Zenon, <2>1, <3>1
    <3>2. CASE i # idx[t]
      <4>1. PICK u \in Threads : Owns(u, i)
        BY Zenon, <2>2, <2>3, <3>2 DEF Reservations, ClaimHasOwner
      <4>2. u # t
        BY Zenon, <2>1, <4>1
      <4>. QED
        BY Zenon, <1>0, <4>1, <4>2
    <3>. QED
      BY Zenon, <3>1, <3>2
  <2>. QED
    BY Zenon, <2>4, <2>5, <2>6 DEF Reservations
<1>5. CASE Marks(t)
  <2>1. UNCHANGED m_claimed /\ \A i \in Pieces : m_have[i] => m_have'[i]
    BY Zenon, <1>5 DEF Marks, TryMarkHave, TypeOK, ManagerTypeOK
  <2>. QED
    BY Zenon, <1>a, <1>5, <2>1, OwnersStay DEF Marks
<1>6. CASE Stores(t)
  BY Zenon, <1>a, <1>6, OwnersStay DEF Stores, StorePiece
<1>7. CASE AddsBytes(t)
  BY Zenon, <1>a, <1>7, OwnersStay DEF AddsBytes, AddDownloadedBytes
<1>8. CASE Counts(t)
  <2>1. \A i \in Pieces : Owns(t, i) => m_have[i]
    BY Zenon, <1>8 DEF Counts, Owns, WriterInv, Writing
  <2>2. UNCHANGED <<m_have, m_claimed>>
    BY Zenon, <1>8 DEF Counts, AddCompleted
  <2>3. \A i \in Pieces : ~Owns(t, i)'
    BY Zenon, <1>b, <1>8 DEF Counts
  <2>. QED
    BY Zenon, <1>0, <2>1, <2>2, <2>3, OwnerLeaves
<1>9. CASE Releases(t)
  <2>. DEFINE p == m_current_piece[t]
  <2>0. p \in Pieces /\ Owns(t, p)
    BY Zenon, <1>9 DEF Releases, Shape, ShapeAt, Fetching, Aborting, Owns
  <2>1. \A i \in Pieces : ~Owns(t, i)'
    BY Zenon, <1>b, <1>9 DEF Releases
  <2>2. /\ UNCHANGED m_have
        /\ \A i \in Pieces : m_claimed'[i] <=> m_claimed[i] /\ i # p
    BY Zenon, <1>9 DEF Releases, ReleaseClaim, TypeOK, ManagerTypeOK
  <2>3. \A i \in Pieces : Owns(t, i) => i = p
    BY Zenon DEF Owns
  <2>. HIDE DEF p
  <2>4. OwnerClaimed'
    <3>. SUFFICES ASSUME NEW u \in Threads, NEW i \in Pieces, Owns(u, i)'
                  PROVE  m_claimed'[i]
      BY Zenon DEF OwnerClaimed
    <3>1. u # t /\ Owns(u, i)
      BY Zenon, <1>0, <2>1
    <3>2. i # p
      BY Zenon, <2>0, <3>1 DEF Reservations, ExclusiveOwner
    <3>. QED
      BY Zenon, <2>2, <3>1, <3>2 DEF Reservations, OwnerClaimed
  <2>5. ExclusiveOwner'
    <3>1. \A u \in Threads : \A i \in Pieces : Owns(u, i)' => Owns(u, i)
      BY Zenon, <1>0, <2>1
    <3>. QED
      BY Zenon, <3>1 DEF Reservations, ExclusiveOwner
  <2>6. ClaimHasOwner'
    <3>. SUFFICES ASSUME NEW i \in Pieces, m_claimed'[i], ~m_have'[i]
                  PROVE  \E u \in Threads : Owns(u, i)'
      BY Zenon DEF ClaimHasOwner
    <3>1. PICK u \in Threads : Owns(u, i)
      BY Zenon, <2>2 DEF Reservations, ClaimHasOwner
    <3>2. u # t
      BY Zenon, <2>2, <2>3, <3>1
    <3>. QED
      BY Zenon, <1>0, <3>1, <3>2
  <2>. QED
    BY Zenon, <2>4, <2>5, <2>6 DEF Reservations
<1>. QED
  BY Zenon, <1>1, <1>2, <1>3, <1>4, <1>5, <1>6, <1>7, <1>8, <1>9 DEF Effect

-----------------------------------------------------------------------------
(* Writers.                                                                 *)

Writers == WriterInv /\ SingleWriter

OthersStay(t) ==
  \A u \in Threads : u # t => /\ pc'[u] = pc[u]
                              /\ m_current_piece'[u] = m_current_piece[u]

\* A step of a thread that is not writing afterwards, and that leaves the flags
\* and the disk alone, preserves the facts about writers.
LEMMA WritersStay ==
  ASSUME Writers, NEW t \in Threads, OthersStay(t),
         UNCHANGED <<m_have, written>>, ~Writing(t)'
  PROVE  Writers'
<1>1. \A u \in Threads : Writing(u)' =>
        /\ pc'[u] = pc[u] /\ m_current_piece'[u] = m_current_piece[u]
        /\ Writing(u)
  BY Zenon DEF OthersStay, Writing
<1>2. WriterInv'
  <2>1. \A u \in Threads : Writing(u)' => m_have'[m_current_piece'[u]]
    BY Zenon, <1>1 DEF Writers, WriterInv
  <2>2. \A u \in Threads : pc'[u] \in {"cp_write", "cp_bytes", "cp_count"} =>
          pc'[u] = pc[u] /\ m_current_piece'[u] = m_current_piece[u]
    BY Zenon, <1>1 DEF Writing
  <2>3. \A u \in Threads :
          /\ pc'[u] = "cp_write" => m_current_piece'[u] \notin written'
          /\ pc'[u] \in {"cp_bytes", "cp_count"} =>
               m_current_piece'[u] \in written'
    BY Zenon, <2>2 DEF Writers, WriterInv
  <2>4. \A i \in written' : m_have'[i]
    BY Zenon DEF Writers, WriterInv
  <2>. QED
    BY Zenon, <2>1, <2>3, <2>4 DEF WriterInv
<1>3. SingleWriter'
  BY Zenon, <1>1 DEF Writers, SingleWriter
<1>. QED
  BY Zenon, <1>2, <1>3 DEF Writers

\* A thread that stays in the part of complete_piece after the compare-and-swap
\* preserves that a piece has one writer.
LEMMA SameWriters ==
  ASSUME SingleWriter, NEW t \in Threads, OthersStay(t), Writing(t),
         m_current_piece'[t] = m_current_piece[t]
  PROVE  SingleWriter'
<1>1. \A u \in Threads : Writing(u)' => Writing(u)
  BY Zenon DEF OthersStay, Writing
<1>2. \A u \in Threads : m_current_piece'[u] = m_current_piece[u]
  BY Zenon DEF OthersStay
<1>. QED
  BY Zenon, <1>1, <1>2 DEF SingleWriter

\* Each effect of a step preserves that a piece has one writer.
LEMMA WritersStep ==
  ASSUME TypeOK, Shape, Writers, NEW t \in Threads, OnlyChanges(t), Effect(t)
  PROVE  Writers'
<1>0. OthersStay(t)
  BY Zenon DEF OnlyChanges, OthersStay
<1>1. CASE Keeps(t)
  BY Zenon, <1>0, <1>1, WritersStay DEF Keeps, tableVars
<1>2. CASE Drops(t)
  BY Zenon, <1>0, <1>2, WritersStay DEF Drops, LosesPiece, tableVars
<1>3. CASE Takes(t)
  BY Zenon, <1>0, <1>3, WritersStay DEF Takes, tableVars
<1>4. CASE Claims(t)
  BY Zenon, <1>0, <1>4, WritersStay DEF Claims, TryClaim
<1>5. CASE Marks(t)
  <2>1. m_current_piece[t] \in Pieces
    BY Zenon, <1>5 DEF Marks, Shape, ShapeAt, Fetching
  <2>2. /\ ~m_have[m_current_piece[t]] /\ UNCHANGED written
        /\ m_have' = [m_have EXCEPT ![m_current_piece[t]] = TRUE]
        /\ m_current_piece'[t] = m_current_piece[t] /\ pc'[t] = "cp_write"
    BY Zenon, <1>5 DEF Marks, TryMarkHave, HoldsPiece
  <2>3. m_have'[m_current_piece[t]] /\ \A i \in Pieces : m_have[i] => m_have'[i]
    BY Zenon, <2>1, <2>2 DEF TypeOK, ManagerTypeOK
  <2>4. \A u \in Threads : Writing(u) =>
          m_current_piece[u] \in Pieces /\ m_have[m_current_piece[u]]
    BY Zenon DEF Shape, ShapeAt, Fetching, Writers, WriterInv, Writing
  <2>5. WriterInv'
    <3>1. m_current_piece[t] \notin written
      BY Zenon, <2>2 DEF Writers, WriterInv
    <3>2. \A u \in Threads \ {t} :
            /\ Writing(u)' => m_have'[m_current_piece'[u]]
            /\ pc'[u] = "cp_write" => m_current_piece'[u] \notin written'
            /\ pc'[u] \in {"cp_bytes", "cp_count"} =>
                 m_current_piece'[u] \in written'
      BY Zenon, <1>0, <2>2, <2>3, <2>4 DEF OthersStay, Writers, WriterInv, Writing
    <3>3. \A i \in written' : m_have'[i]
      BY Zenon, <2>2, <2>3 DEF Writers, WriterInv, TypeOK, ManagerTypeOK
    <3>4. \A u \in Threads : u = t \/ u \in Threads \ {t}
      BY Zenon
    <3>. QED
      BY Zenon, <2>2, <2>3, <3>1, <3>2, <3>3, <3>4 DEF WriterInv
  <2>6. SingleWriter'
    <3>. SUFFICES ASSUME NEW u \in Threads, NEW v \in Threads,
                         Writing(u)', Writing(v)',
                         m_current_piece'[u] = m_current_piece'[v]
                  PROVE  u = v
      BY Zenon DEF SingleWriter
    <3>1. \A w \in Threads : w # t /\ Writing(w)' =>
            /\ Writing(w) /\ m_current_piece'[w] = m_current_piece[w]
            /\ m_current_piece[w] # m_current_piece[t]
      BY Zenon, <1>0, <2>2, <2>4 DEF OthersStay, Writing
    <3>. QED
      BY Zenon, <2>2, <3>1 DEF Writers, SingleWriter
  <2>. QED
    BY Zenon, <2>5, <2>6 DEF Writers
<1>6. CASE Stores(t)
  <2>1. /\ UNCHANGED m_have
        /\ written' = written \cup {m_current_piece[t]}
        /\ m_current_piece'[t] = m_current_piece[t]
        /\ pc[t] = "cp_write" /\ pc'[t] = "cp_bytes"
    BY Zenon, <1>6 DEF Stores, StorePiece, HoldsPiece
  <2>2. WriterInv'
    <3>1. \A u \in Threads \ {t} : pc'[u] = "cp_write" =>
            m_current_piece'[u] # m_current_piece[t]
      BY Zenon, <1>0, <2>1 DEF OthersStay, Writers, SingleWriter, Writing
    <3>2. m_have[m_current_piece[t]]
      BY Zenon, <2>1 DEF Writers, WriterInv, Writing
    <3>3. \A u \in Threads \ {t} :
            pc'[u] = pc[u] /\ m_current_piece'[u] = m_current_piece[u]
      BY Zenon, <1>0 DEF OthersStay
    <3>4. \A u \in Threads : Writing(u)' => m_have'[m_current_piece'[u]]
      BY Zenon, <2>1, <3>2, <3>3 DEF Writers, WriterInv, Writing
    <3>5. \A u \in Threads :
            pc'[u] = "cp_write" => m_current_piece'[u] \notin written'
      BY Zenon, <2>1, <3>1, <3>3 DEF Writers, WriterInv
    <3>6. \A u \in Threads : pc'[u] \in {"cp_bytes", "cp_count"} =>
            m_current_piece'[u] \in written'
      BY Zenon, <2>1, <3>3 DEF Writers, WriterInv
    <3>7. \A i \in written' : m_have'[i]
      BY Zenon, <2>1, <3>2 DEF Writers, WriterInv
    <3>. QED
      BY Zenon, <3>4, <3>5, <3>6, <3>7 DEF WriterInv
  <2>3. SingleWriter'
    BY Zenon, <1>0, <2>1, SameWriters DEF Writers, Writing
  <2>. QED
    BY Zenon, <2>2, <2>3 DEF Writers
<1>7. CASE AddsBytes(t)
  <2>1. /\ UNCHANGED <<m_have, written>>
        /\ m_current_piece'[t] = m_current_piece[t]
        /\ pc[t] = "cp_bytes" /\ pc'[t] = "cp_count"
    BY Zenon, <1>7 DEF AddsBytes, AddDownloadedBytes, HoldsPiece
  <2>2. WriterInv'
    BY Zenon, <1>0, <2>1 DEF OthersStay, Writers, WriterInv, Writing
  <2>3. SingleWriter'
    BY Zenon, <1>0, <2>1, SameWriters DEF Writers, Writing
  <2>. QED
    BY Zenon, <2>2, <2>3 DEF Writers
<1>8. CASE Counts(t)
  BY Zenon, <1>0, <1>8, WritersStay DEF Counts, AddCompleted, LosesPiece
<1>9. CASE Releases(t)
  BY Zenon, <1>0, <1>9, WritersStay DEF Releases, ReleaseClaim, LosesPiece
<1>. QED
  BY Zenon, <1>1, <1>2, <1>3, <1>4, <1>5, <1>6, <1>7, <1>8, <1>9 DEF Effect

-----------------------------------------------------------------------------
(* The counters.                                                            *)

\* How the sets of pieces added and counted follow from those in flight.
LEMMA CountedSets ==
  ASSUME TypeOK
  PROVE  /\ BytesAdded \subseteq written /\ Counted \subseteq BytesAdded
         /\ BytesAdded \subseteq Pieces /\ Counted \subseteq Pieces
         /\ IsFiniteSet(Pieces) /\ Cardinality(Pieces) = NumPieces
         /\ IsFiniteSet(BytesAdded) /\ IsFiniteSet(Counted)
<1>1. IsFiniteSet(Pieces) /\ Cardinality(Pieces) = NumPieces
  BY NumPiecesAssumption, FS_Interval DEF Pieces
<1>2. BytesAdded \subseteq written /\ Counted \subseteq BytesAdded
  BY Zenon DEF BytesAdded, Counted
<1>3. written \subseteq Pieces
  BY Zenon DEF TypeOK, ManagerTypeOK
<1>4. IsFiniteSet(BytesAdded) /\ IsFiniteSet(Counted)
  BY Zenon, <1>1, <1>2, <1>3, FS_Subset
<1>. QED
  BY Zenon, <1>1, <1>2, <1>3, <1>4

\* A step that is not about a stored piece leaves both sets alone.
LEMMA CountedKept ==
  ASSUME NEW t \in Threads, OnlyChanges(t), UNCHANGED written,
         pc[t] \notin Counting, pc'[t] \notin Counting
  PROVE  BytesAdded' = BytesAdded /\ Counted' = Counted
<1>1. \A i \in written : \A u \in Threads :
        /\ (m_current_piece[u] = i => pc[u] # "cp_bytes") <=>
             (m_current_piece'[u] = i => pc'[u] # "cp_bytes")
        /\ (m_current_piece[u] = i => pc[u] # "cp_count") <=>
             (m_current_piece'[u] = i => pc'[u] # "cp_count")
  BY Zenon DEF OnlyChanges, Counting
<1>2. BytesAdded' = BytesAdded
  BY Zenon, <1>1 DEF BytesAdded
<1>3. \A i \in BytesAdded : i \in written
  BY Zenon DEF BytesAdded
<1>4. Counted' = Counted
  BY Zenon, <1>1, <1>2, <1>3 DEF Counted
<1>. QED
  BY Zenon, <1>2, <1>4

Counters == CountIsExact /\ BytesAreExact

\* Each effect of a step keeps the two counters equal to what was stored.
LEMMA CountersStep ==
  ASSUME TypeOK, TypeOK', Shape, Writers, Counters, NEW t \in Threads,
         OnlyChanges(t), Effect(t)
  PROVE  Counters'
<1>. USE DEF Counters, CountIsExact, BytesAreExact
<1>0. \A u \in Threads : u # t => /\ pc'[u] = pc[u]
                                  /\ m_current_piece'[u] = m_current_piece[u]
  BY Zenon DEF OnlyChanges
<1>1. ASSUME UNCHANGED <<written, m_completed_count, m_curr_downloaded_bytes>>,
             pc[t] \notin Counting, pc'[t] \notin Counting
      PROVE  Counters'
  BY Zenon, <1>1, CountedKept
<1>2. CASE Keeps(t)
  BY Zenon, <1>1, <1>2 DEF Keeps, tableVars, Writing, Counting
<1>3. CASE Drops(t)
  BY Zenon, <1>1, <1>3 DEF Drops, LosesPiece, tableVars, Writing, Counting
<1>4. CASE Takes(t)
  BY Zenon, <1>1, <1>4 DEF Takes, tableVars, Writing, Counting
<1>5. CASE Claims(t)
  BY Zenon, <1>1, <1>5 DEF Claims, TryClaim, Writing, Counting
<1>6. CASE Marks(t)
  BY Zenon, <1>1, <1>6 DEF Marks, TryMarkHave, Counting
<1>7. CASE Releases(t)
  BY Zenon, <1>1, <1>7 DEF Releases, ReleaseClaim, LosesPiece, Writing, Counting
<1>8. CASE Stores(t)
  <2>. DEFINE p == m_current_piece[t]
  <2>1. /\ p \notin written
        /\ written' = written \cup {p}
        /\ m_current_piece'[t] = p
        /\ pc[t] = "cp_write" /\ pc'[t] = "cp_bytes"
        /\ UNCHANGED <<m_completed_count, m_curr_downloaded_bytes>>
    BY Zenon, <1>8 DEF Stores, StorePiece, HoldsPiece, Writers, WriterInv
  <2>. HIDE DEF p
  <2>2. \A u \in Threads : u # t => /\ pc[u] = "cp_bytes" => m_current_piece[u] # p
                                    /\ pc[u] = "cp_count" => m_current_piece[u] # p
    BY Zenon, <2>1 DEF Writers, WriterInv
  <2>3. BytesAdded' = BytesAdded
    <3>1. ASSUME NEW i \in written
          PROVE  i \in BytesAdded' <=> i \in BytesAdded
      BY Zenon, <1>0, <2>1 DEF BytesAdded
    <3>2. p \notin BytesAdded' /\ p \notin BytesAdded
      BY Zenon, <2>1 DEF BytesAdded
    <3>3. BytesAdded' \subseteq written \cup {p} /\ BytesAdded \subseteq written
      BY Zenon, <2>1 DEF BytesAdded
    <3>. QED
      BY Zenon, <3>1, <3>2, <3>3
  <2>4. p \notin BytesAdded
    BY Zenon, <2>1 DEF BytesAdded
  <2>5. m_current_piece[t] = p
    BY Zenon DEF p
  <2>6. Counted' = Counted
    BY Zenon, <1>0, <2>1, <2>3, <2>4, <2>5 DEF Counted
  <2>. QED
    BY Zenon, <2>1, <2>3, <2>6
<1>9. CASE AddsBytes(t)
  <2>. DEFINE p == m_current_piece[t]
  <2>1. /\ m_current_piece'[t] = p
        /\ pc[t] = "cp_bytes" /\ pc'[t] = "cp_count"
        /\ m_curr_downloaded_bytes' = m_curr_downloaded_bytes + piece_length(p)
        /\ UNCHANGED <<m_completed_count, written>>
    BY Zenon, <1>9 DEF AddsBytes, AddDownloadedBytes, HoldsPiece
  <2>2. p \in written /\ p \in Pieces
    BY Zenon, <2>1 DEF Writers, WriterInv, Shape, ShapeAt, Fetching
  <2>3. \A u \in Threads : u # t /\ pc[u] \in Counting => m_current_piece[u] # p
    BY Zenon, <2>1 DEF Writers, SingleWriter, Writing, Counting
  <2>4. m_current_piece[t] = p
    BY Zenon DEF p
  <2>. HIDE DEF p
  <2>5. p \notin BytesAdded
    BY Zenon, <2>1, <2>4 DEF BytesAdded
  <2>6. BytesAdded' = BytesAdded \cup {p}
    <3>1. p \in BytesAdded'
      BY Zenon, <1>0, <2>1, <2>2, <2>3 DEF BytesAdded, Counting
    <3>2. ASSUME NEW i \in written, i # p
          PROVE  i \in BytesAdded' <=> i \in BytesAdded
      BY Zenon, <1>0, <2>1, <2>4, <3>2 DEF BytesAdded
    <3>3. BytesAdded' \subseteq written /\ BytesAdded \subseteq written
      BY Zenon, <2>1 DEF BytesAdded
    <3>. QED
      BY Zenon, <3>1, <3>2, <3>3
  <2>7. Counted' = Counted
    <3>1. p \notin Counted' /\ p \notin Counted
      BY Zenon, <2>1, <2>5 DEF Counted
    <3>2. ASSUME NEW i \in BytesAdded, i # p
          PROVE  i \in Counted' <=> i \in Counted
      BY Zenon, <1>0, <2>1, <2>4, <2>6, <3>2 DEF Counted
    <3>3. Counted \subseteq BytesAdded /\ Counted' \subseteq BytesAdded \cup {p}
      BY Zenon, <2>6 DEF Counted
    <3>. QED
      BY <3>1, <3>2, <3>3
  <2>8. BytesAreExact'
    <3>. DEFINE B == BytesAdded \ {LastPiece}
                n == Cardinality(B)
    <3>1. IsFiniteSet(B) /\ n \in Nat
      BY Zenon, CountedSets, FS_RemoveElement, FS_CardinalityType
    <3>2. piece_length(p) \in Nat /\ (p # LastPiece => piece_length(p) = NominalLength)
          /\ NominalLength \in Nat
      BY Zenon, <2>2, PieceLength, LengthAssumption
    <3>3. m_curr_downloaded_bytes \in Nat
      BY Zenon DEF TypeOK, ManagerTypeOK
    <3>4. CASE p = LastPiece
      <4>1. BytesAdded' \ {LastPiece} = B
        BY Zenon, <2>6, <3>4
      <4>2. LastPiece \in BytesAdded' /\ LastPiece \notin BytesAdded
        BY Zenon, <2>5, <2>6, <3>4
      <4>3. m_curr_downloaded_bytes = NominalLength * n
        <5>1. NominalLength * n \in Int
          BY <3>1, <3>2
        <5>. QED
          BY <4>2, <5>1
      <4>. QED
        BY Zenon, <2>1, <3>4, <4>1, <4>2, <4>3
    <3>5. CASE p # LastPiece
      <4>1. BytesAdded' \ {LastPiece} = B \cup {p} /\ p \notin B
        BY Zenon, <2>5, <2>6, <3>5
      <4>2. Cardinality(BytesAdded' \ {LastPiece}) = n + 1
        BY Zenon, <3>1, <4>1, FS_AddElement
      <4>3. LastPiece \in BytesAdded' <=> LastPiece \in BytesAdded
        BY Zenon, <2>6, <3>5
      <4>4. NominalLength * (n + 1) = NominalLength * n + NominalLength
        BY <3>1, <3>2
      <4>5. NominalLength * n \in Int /\ LastPiece \in Pieces
        BY <3>1, <3>2, NumPiecesAssumption DEF LastPiece, Pieces
      <4>6. piece_length(LastPiece) \in Nat
        BY Zenon, <4>5, PieceLength
      <4>. HIDE DEF n, B
      <4>. QED
        BY <2>1, <3>2, <3>5, <4>2, <4>3, <4>4, <4>5, <4>6 DEF n, B
    <3>. QED
      BY Zenon, <3>4, <3>5
  <2>. QED
    BY Zenon, <2>1, <2>7, <2>8
<1>10. CASE Counts(t)
  <2>. DEFINE p == m_current_piece[t]
  <2>1. /\ pc[t] = "cp_count" /\ pc'[t] \notin Counting
        /\ m_completed_count' = m_completed_count + 1
        /\ UNCHANGED <<m_curr_downloaded_bytes, written>>
    BY Zenon, <1>10 DEF Counts, AddCompleted, LosesPiece, Writing, Counting
  <2>2. p \in written
    BY Zenon, <2>1 DEF Writers, WriterInv
  <2>3. \A u \in Threads : u # t /\ pc[u] \in Counting => m_current_piece[u] # p
    BY Zenon, <2>1 DEF Writers, SingleWriter, Writing, Counting
  <2>4. m_current_piece[t] = p
    BY Zenon DEF p
  <2>. HIDE DEF p
  <2>5. BytesAdded' = BytesAdded
    BY Zenon, <1>0, <2>1 DEF BytesAdded, Counting
  <2>6. p \in BytesAdded /\ p \notin Counted
    BY Zenon, <2>1, <2>2, <2>3, <2>4 DEF BytesAdded, Counted, Counting
  <2>7. Counted' = Counted \cup {p}
    <3>1. p \in Counted'
      BY Zenon, <1>0, <2>1, <2>3, <2>5, <2>6 DEF Counted, Counting
    <3>2. ASSUME NEW i \in BytesAdded, i # p
          PROVE  i \in Counted' <=> i \in Counted
      BY Zenon, <1>0, <2>1, <2>4, <2>5, <3>2 DEF Counted, Counting
    <3>3. Counted \subseteq BytesAdded /\ Counted' \subseteq BytesAdded
      BY Zenon, <2>5 DEF Counted
    <3>. QED
      BY Zenon, <3>1, <3>2, <3>3
  <2>8. Cardinality(Counted') = Cardinality(Counted) + 1
    BY Zenon, <2>6, <2>7, CountedSets, FS_AddElement
  <2>. QED
    BY Zenon, <2>1, <2>5, <2>8
<1>. QED
  BY Zenon, <1>2, <1>3, <1>4, <1>5, <1>6, <1>7, <1>8, <1>9, <1>10 DEF Effect

-----------------------------------------------------------------------------
(* fill_requests overlooks no piece.                                        *)

PrefixAt(t) ==
  pc[t] = "eg_have" => \A j \in m_peer_bitfield[t] : j < idx[t] => m_have[j]

IdleAt(t) ==
  /\ pc[t] = "recv" /\ ~m_peer_choking[t] /\ m_am_interested[t]
  /\ m_current_piece[t] = NoPiece
  => \A i \in m_peer_bitfield[t] : m_have[i]

LooksAt(t) == PrefixAt(t) /\ IdleAt(t)

\* No step takes m_have back.
LEMMA HaveGrows ==
  ASSUME TypeOK, NEW t \in Threads, Effect(t)
  PROVE  \A i \in Pieces : m_have[i] => m_have'[i]
BY Zenon DEF Effect, Keeps, Drops, Takes, Claims, TryClaim, Marks, TryMarkHave,
   Stores, StorePiece, AddsBytes, AddDownloadedBytes, Counts, AddCompleted,
   Releases, ReleaseClaim, tableVars, TypeOK, ManagerTypeOK

\* fill_requests rests only when it holds a piece or nothing is offered.
LEMMA FillLooks ==
  ASSUME TypeOK, NEW t \in Threads, NEW c \in BOOLEAN, NEW i \in BOOLEAN,
         NEW bf \in SUBSET Pieces, NEW p \in Pieces \cup {NoPiece},
         fill_requests(t, c, i, bf, p),
         m_peer_choking'[t] = c, m_am_interested'[t] = i,
         m_peer_bitfield'[t] = bf, m_current_piece'[t] = p
  PROVE  LooksAt(t)'
<1>1. PICK l \in Labels, j \in Pieces : FillLeads(t, l, j, c, i, bf, p)
  BY Zenon, FillOutcome
<1>2. pc'[t] = l /\ idx'[t] = j
  BY Zenon, <1>1 DEF FillLeads, Moves, TypeOK
<1>3. \A k \in bf : k \in Int
  BY Zenon, PieceIndices
<1>4. PrefixAt(t)'
  <2>1. l = "eg_have" => \A k \in bf : ~(k < j)
    BY <1>1, <1>3, PieceIndices DEF FillLeads
  <2>. QED
    BY Zenon, <1>2, <2>1 DEF PrefixAt
<1>5. IdleAt(t)'
  BY Zenon, <1>1, <1>2 DEF IdleAt, FillLeads
<1>. QED
  BY Zenon, <1>4, <1>5 DEF LooksAt

\* A handler that drops its piece looks for another one.
LEMMA DropLooks ==
  ASSUME TypeOK, NEW t \in Threads, DropAndFill(t)
  PROVE  LooksAt(t)'
<1>1. /\ m_peer_choking'[t] = m_peer_choking[t]
      /\ m_am_interested'[t] = m_am_interested[t]
      /\ m_peer_bitfield'[t] = m_peer_bitfield[t]
      /\ m_current_piece'[t] = NoPiece
      /\ fill_requests(t, m_peer_choking[t], m_am_interested[t],
                       m_peer_bitfield[t], NoPiece)
  BY Zenon DEF DropAndFill, SetCurrent, KeepFlags, TypeOK
<1>2. /\ m_peer_choking[t] \in BOOLEAN /\ m_am_interested[t] \in BOOLEAN
      /\ m_peer_bitfield[t] \in SUBSET Pieces
  BY Zenon DEF TypeOK
<1>. QED
  BY Zenon, <1>1, <1>2, FillLooks

\* A scan that has passed finished pieces only.
LEMMA ScanLooks ==
  ASSUME TypeOK, NEW t \in Threads, NEW label \in {"nn_have", "eg_have"},
         ScanFrom(t, label, m_peer_bitfield[t], idx[t] + 1),
         label = "eg_have" =>
           \A k \in m_peer_bitfield[t] : k <= idx[t] => m_have[k],
         UNCHANGED <<m_have, m_peer_bitfield>>
  PROVE  LooksAt(t)'
<1>. DEFINE bf == m_peer_bitfield[t]
            from == idx[t] + 1
<1>0. /\ bf \in SUBSET Pieces
      /\ m_peer_bitfield'[t] = bf
      /\ \A k \in bf : k \in Int
      /\ idx[t] \in Int
  BY Zenon, PieceIndices DEF TypeOK
<1>1. from \in Int
  BY <1>0
<1>2. ScanFrom(t, label, bf, from)
  BY Zenon
<1>3. label = "eg_have" => \A k \in bf : k < from => m_have[k]
  BY <1>0
<1>. HIDE DEF bf, from
<1>4. \/ ScanHits(t, label, bf, from)
      \/ ScanEndgame(t, label, bf)
      \/ ScanEnds(t, label, bf, from)
  BY Zenon, <1>0, <1>1, <1>2, ScanOutcome
<1>5. CASE ScanHits(t, label, bf, from)
  <2>1. PICK j \in bf : /\ pc' = [pc EXCEPT ![t] = label]
                        /\ idx' = [idx EXCEPT ![t] = j]
                        /\ \A k \in bf : k < j => k < from
    BY Zenon, <1>5 DEF ScanHits
  <2>2. pc'[t] = label /\ idx'[t] = j
    BY Zenon, <2>1 DEF TypeOK
  <2>3. label = "eg_have" => \A k \in bf : k < j => m_have'[k]
    BY Zenon, <1>3, <2>1
  <2>4. PrefixAt(t)'
    BY Zenon, <1>0, <2>2, <2>3 DEF PrefixAt
  <2>5. IdleAt(t)'
    BY Zenon, <2>2 DEF IdleAt
  <2>. QED
    BY Zenon, <2>4, <2>5 DEF LooksAt
<1>6. CASE ScanEndgame(t, label, bf)
  <2>1. PICK j \in bf : /\ pc' = [pc EXCEPT ![t] = "eg_have"]
                        /\ idx' = [idx EXCEPT ![t] = j]
                        /\ \A k \in bf : j <= k
    BY Zenon, <1>6 DEF ScanEndgame
  <2>2. pc'[t] = "eg_have" /\ idx'[t] = j
    BY Zenon, <2>1 DEF TypeOK
  <2>3. \A k \in bf : ~(k < j)
    BY <1>0, <2>1
  <2>4. PrefixAt(t)'
    BY Zenon, <1>0, <2>2, <2>3 DEF PrefixAt
  <2>5. IdleAt(t)'
    BY Zenon, <2>2 DEF IdleAt
  <2>. QED
    BY Zenon, <2>4, <2>5 DEF LooksAt
<1>7. CASE ScanEnds(t, label, bf, from)
  <2>1. pc'[t] = "recv"
    BY Zenon, <1>7 DEF ScanEnds, TypeOK
  <2>2. \A k \in bf : m_have[k]
    BY Zenon, <1>3, <1>7 DEF ScanEnds
  <2>. QED
    BY Zenon, <1>0, <2>1, <2>2 DEF LooksAt, PrefixAt, IdleAt
<1>. QED
  BY Zenon, <1>4, <1>5, <1>6, <1>7

\* Moving to a label where nothing is looked up.
LEMMA GoToLooks ==
  ASSUME TypeOK, NEW t \in Threads, NEW l \in Labels, GoTo(t, l),
         l # "eg_have",
         l = "recv" => m_peer_choking'[t] \/ m_current_piece'[t] # NoPiece
  PROVE  LooksAt(t)'
<1>1. pc'[t] = l
  BY Zenon DEF GoTo, TypeOK
<1>. QED
  BY Zenon, <1>1 DEF LooksAt, PrefixAt, IdleAt

\* A thread that unwinds is not resting in recv.
LEMMA UnwindLooks ==
  ASSUME TypeOK, NEW t \in Threads, Unwind(t)
  PROVE  LooksAt(t)'
BY Zenon, GoToLooks DEF Unwind, Close, Labels

\* Every step keeps what the scan has established about earlier pieces.
LEMMA StepLooks ==
  ASSUME TypeOK, NEW t \in Threads, ShapeAt(t), LooksAt(t),
         Connect(t) \/ Receive(t) \/ Compute(t)
  PROVE  LooksAt(t)'
<1>. USE DEF managerVars
<1>0. /\ m_peer_choking[t] \in BOOLEAN /\ m_am_interested[t] \in BOOLEAN
      /\ m_peer_bitfield[t] \in SUBSET Pieces
      /\ m_current_piece[t] \in Pieces \cup {NoPiece}
      /\ \A l \in Fetching \cup {"recv", "closed"} : l \in Labels /\ l # "eg_have"
  BY Zenon DEF TypeOK, Labels, Fetching
<1>1. CASE Connect(t)
  BY Zenon, <1>0, <1>1, GoToLooks DEF Connect, KeepFlags, ShapeAt
<1>2. ASSUME NEW S \in SUBSET Pieces, NEW checked, Learn(t, S, checked)
      PROVE  LooksAt(t)'
  <2>. DEFINE bf == m_peer_bitfield[t] \cup S
              interested == m_am_interested[t] \/ \E i \in checked : ~m_have[i]
  <2>1. /\ m_peer_choking'[t] = m_peer_choking[t]
        /\ m_am_interested'[t] = interested
        /\ m_peer_bitfield'[t] = bf
        /\ m_current_piece'[t] = m_current_piece[t]
        /\ fill_requests(t, m_peer_choking[t], interested, bf,
                         m_current_piece[t])
    BY Zenon, <1>2 DEF Learn, KeepCurrent, TypeOK
  <2>2. bf \in SUBSET Pieces /\ interested \in BOOLEAN
    BY Zenon, <1>0
  <2>. HIDE DEF bf, interested
  <2>. QED
    BY Zenon, <1>0, <2>1, <2>2, FillLooks
<1>3. CASE handle_unchoke(t)
  <2>1. /\ m_peer_choking'[t] = FALSE
        /\ m_am_interested'[t] = m_am_interested[t]
        /\ m_peer_bitfield'[t] = m_peer_bitfield[t]
        /\ m_current_piece'[t] = m_current_piece[t]
        /\ fill_requests(t, FALSE, m_am_interested[t], m_peer_bitfield[t],
                         m_current_piece[t])
    BY Zenon, <1>3 DEF handle_unchoke, KeepCurrent, TypeOK
  <2>. QED
    BY Zenon, <1>0, <2>1, FillLooks
<1>4. CASE handle_choke(t)
  <2>1. m_peer_choking'[t]
    BY Zenon, <1>4 DEF handle_choke, TypeOK
  <2>2. \/ GoTo(t, "ab_have")
        \/ GoTo(t, "recv")
    BY Zenon, <1>4 DEF handle_choke
  <2>. QED
    BY Zenon, <1>0, <2>1, <2>2, GoToLooks DEF Fetching
<1>5. CASE ReceiveLastBlock(t)
  BY Zenon, <1>0, <1>5, GoToLooks DEF ReceiveLastBlock, Fetching
<1>6. CASE ReceiveOther(t)
  <2>1. /\ m_peer_choking'[t] = m_peer_choking[t]
        /\ m_am_interested'[t] = m_am_interested[t]
        /\ m_peer_bitfield'[t] = m_peer_bitfield[t]
        /\ m_current_piece'[t] = m_current_piece[t]
        /\ fill_requests(t, m_peer_choking[t], m_am_interested[t],
                         m_peer_bitfield[t], m_current_piece[t])
    BY Zenon, <1>6 DEF ReceiveOther, KeepCurrent, KeepFlags, TypeOK
  <2>. QED
    BY Zenon, <1>0, <2>1, FillLooks
<1>7. CASE Disconnect(t)
  BY Zenon, <1>7, UnwindLooks DEF Disconnect
<1>8. CASE FillHave(t)
  <2>1. CASE m_have[m_current_piece[t]]
    BY Zenon, <1>8, <2>1, DropLooks DEF FillHave
  <2>2. CASE ~m_have[m_current_piece[t]]
    <3>1. m_current_piece'[t] # NoPiece /\ GoTo(t, "recv")
      BY Zenon, <1>8, <2>2, PieceIndices
         DEF FillHave, KeepCurrent, ShapeAt, Fetching
    <3>. QED
      BY Zenon, <1>0, <3>1, GoToLooks
  <2>. QED
    BY Zenon, <2>1, <2>2
<1>9. CASE NextNeededHave(t)
  <2>1. CASE m_have[idx[t]]
    BY Zenon, <1>9, <2>1, ScanLooks DEF NextNeededHave, KeepFlags
  <2>2. CASE ~m_have[idx[t]]
    <3>1. pc'[t] = "nn_cas"
      BY Zenon, <1>9, <2>2 DEF NextNeededHave, TypeOK
    <3>. QED
      BY Zenon, <3>1 DEF LooksAt, PrefixAt, IdleAt
  <2>. QED
    BY Zenon, <2>1, <2>2
<1>10. CASE NextNeededClaim(t)
  <2>1. CASE SetCurrent(t, idx[t], TRUE) /\ GoTo(t, "recv")
    <3>1. m_current_piece'[t] # NoPiece
      BY Zenon, <2>1, PieceIndices DEF SetCurrent, TypeOK
    <3>. QED
      BY Zenon, <1>0, <2>1, <3>1, GoToLooks
  <2>2. CASE ScanFrom(t, "nn_have", m_peer_bitfield[t], idx[t] + 1)
             /\ UNCHANGED managerVars /\ KeepFlags
    BY Zenon, <2>2, ScanLooks DEF KeepFlags
  <2>. QED
    BY Zenon, <1>10, <2>1, <2>2 DEF NextNeededClaim
<1>11. CASE EndgameHave(t)
  <2>1. CASE m_have[idx[t]]
    <3>1. \A k \in m_peer_bitfield[t] : k <= idx[t] => m_have[k]
      <4>1. \A k \in m_peer_bitfield[t] : k < idx[t] => m_have[k]
        BY Zenon, <1>11 DEF EndgameHave, LooksAt, PrefixAt
      <4>2. \A k \in m_peer_bitfield[t] : k \in Int /\ idx[t] \in Int
        BY Zenon, <1>0, PieceIndices DEF TypeOK
      <4>. QED
        BY <2>1, <4>1, <4>2
    <3>. QED
      BY Zenon, <1>11, <2>1, <3>1, ScanLooks DEF EndgameHave, KeepFlags
  <2>2. CASE ~m_have[idx[t]]
    <3>1. m_current_piece'[t] # NoPiece /\ GoTo(t, "recv")
      BY <1>11, <2>2, PieceIndices DEF EndgameHave, SetCurrent, TypeOK
    <3>. QED
      BY Zenon, <1>0, <3>1, GoToLooks
  <2>. QED
    BY Zenon, <2>1, <2>2
<1>12. CASE CompleteHave(t)
  BY Zenon, <1>0, <1>12, DropLooks, GoToLooks DEF CompleteHave, Fetching
<1>13. CASE CompleteRehave(t)
  BY Zenon, <1>0, <1>13, DropLooks, GoToLooks DEF CompleteRehave, Fetching
<1>14. CASE CompleteCas(t)
  BY Zenon, <1>0, <1>14, DropLooks, GoToLooks DEF CompleteCas, Fetching
<1>15. CASE CompleteWrite(t)
  BY Zenon, <1>0, <1>15, UnwindLooks, GoToLooks DEF CompleteWrite, Fetching
<1>16. CASE CompleteBytes(t)
  BY Zenon, <1>0, <1>16, GoToLooks DEF CompleteBytes, Fetching
<1>17. CASE CompleteCount(t)
  BY Zenon, <1>17, DropLooks DEF CompleteCount
<1>18. ASSUME AfterAbort(t)
       PROVE  LooksAt(t)'
  BY Zenon, <1>0, <1>18, DropLooks, GoToLooks DEF AfterAbort, Close
<1>19. CASE AbortHave(t)
  BY Zenon, <1>0, <1>18, <1>19, GoToLooks DEF AbortHave, Fetching
<1>20. CASE AbortStore(t)
  BY Zenon, <1>18, <1>20 DEF AbortStore
<1>. QED
  BY Zenon, <1>1, <1>2, <1>3, <1>4, <1>5, <1>6, <1>7, <1>8, <1>9, <1>10, <1>11,
     <1>12, <1>13, <1>14, <1>15, <1>16, <1>17, <1>19, <1>20
     DEF Receive, Compute, handle_bitfield, handle_have

-----------------------------------------------------------------------------
(* The invariant and the theorems.                                          *)

\* The inductive invariant holds initially.
LEMMA InitIInv == Init => IInv
<1>. SUFFICES ASSUME Init PROVE IInv
  BY Zenon
<1>1. TypeOK /\ Shape
  BY Zenon, InitTypeShape
<1>. USE DEF Init, ManagerInit
<1>2. OwnerClaimed /\ ExclusiveOwner /\ ClaimHasOwner
  BY Zenon DEF OwnerClaimed, ExclusiveOwner, ClaimHasOwner, Owns
<1>3. WriterInv /\ SingleWriter
  BY Zenon DEF WriterInv, SingleWriter, Writing
<1>4. BytesAdded = {} /\ Counted = {}
  BY Zenon DEF BytesAdded, Counted
<1>5. CountIsExact /\ BytesAreExact
  BY <1>4, FS_EmptySet, LengthAssumption DEF CountIsExact, BytesAreExact
<1>6. EndgamePrefix /\ NeverIdleWithWork
  BY Zenon DEF EndgamePrefix, NeverIdleWithWork
<1>. QED
  BY Zenon, <1>1, <1>2, <1>3, <1>5, <1>6 DEF IInv

\* The inductive invariant survives stuttering.
LEMMA StutterIInv == IInv /\ UNCHANGED vars => IInv'
<1>. SUFFICES ASSUME IInv, UNCHANGED vars PROVE IInv'
  BY Zenon
<1>. USE DEF IInv, vars, managerVars, connectionVars
<1>1. TypeOK' /\ Shape'
  BY Zenon, TypeShapeStep
<1>2. OwnerClaimed' /\ ExclusiveOwner' /\ ClaimHasOwner'
  BY Zenon DEF OwnerClaimed, ExclusiveOwner, ClaimHasOwner, Owns
<1>3. WriterInv' /\ SingleWriter'
  BY Zenon DEF WriterInv, SingleWriter, Writing
<1>4. BytesAdded' = BytesAdded /\ Counted' = Counted
  BY Zenon DEF BytesAdded, Counted
<1>5. CountIsExact' /\ BytesAreExact'
  BY Zenon, <1>4 DEF CountIsExact, BytesAreExact
<1>6. EndgamePrefix' /\ NeverIdleWithWork'
  BY Zenon DEF EndgamePrefix, NeverIdleWithWork
<1>. QED
  BY Zenon, <1>1, <1>2, <1>3, <1>5, <1>6

\* The inductive invariant is preserved by every step.
LEMMA NextIInv == IInv /\ [Next]_vars => IInv'
<1>. SUFFICES ASSUME IInv, [Next]_vars PROVE IInv'
  BY Zenon
<1>1. CASE UNCHANGED vars
  BY Zenon, <1>1, StutterIInv
<1>2. ASSUME NEW t \in Threads, Connect(t) \/ Receive(t) \/ Compute(t)
      PROVE  IInv'
  <2>. USE DEF IInv
  <2>1. TypeOK' /\ Shape'
    BY Zenon, TypeShapeStep
  <2>2. OnlyChanges(t)
    BY Zenon, <1>2, StepIsLocal DEF Shape, LocalStep
  <2>3. Effect(t)
    BY Zenon, <1>2, StepEffect DEF Shape
  <2>4. Reservations'
    BY Zenon, <2>2, <2>3, ReservationsStep DEF Reservations
  <2>5. Writers'
    BY Zenon, <2>2, <2>3, WritersStep DEF Writers
  <2>6. Counters'
    BY Zenon, <2>1, <2>2, <2>3, CountersStep DEF Writers, Counters
  <2>7. \A u \in Threads : LooksAt(u)
    BY Zenon DEF LooksAt, PrefixAt, IdleAt, EndgamePrefix, NeverIdleWithWork
  <2>8. LooksAt(t)'
    BY Zenon, <1>2, <2>7, StepLooks DEF Shape
  <2>9. ASSUME NEW u \in Threads \ {t}
        PROVE  LooksAt(u)'
    <3>1. m_peer_bitfield[u] \subseteq Pieces
      BY Zenon DEF TypeOK
    <3>2. \A i \in Pieces : m_have[i] => m_have'[i]
      BY Zenon, <2>3, HaveGrows
    <3>. QED
      BY Zenon, <2>2, <2>7, <3>1, <3>2 DEF OnlyChanges, LooksAt, PrefixAt, IdleAt
  <2>10. \A u \in Threads : LooksAt(u)'
    BY Zenon, <2>8, <2>9
  <2>11. EndgamePrefix' /\ NeverIdleWithWork'
    BY Zenon, <2>10 DEF LooksAt, PrefixAt, IdleAt, EndgamePrefix, NeverIdleWithWork
  <2>. QED
    BY Zenon, <2>1, <2>4, <2>5, <2>6, <2>11 DEF Reservations, Writers, Counters
<1>. QED
  BY Zenon, <1>1, <1>2 DEF Next

\* IInv is an invariant of the threads, however many there are.
THEOREM Invariance == Spec => []IInv
BY InitIInv, NextIInv, PTL DEF Spec

\* Types: in particular the index next_needed hands out and the piece in
\* flight are always in the range of the piece table.
THEOREM TypeCorrectness == Spec => []TypeOK
<1>1. IInv => TypeOK
  BY Zenon DEF IInv
<1>. QED
  BY <1>1, Invariance, PTL

\* Two threads never hold the same reservation.
THEOREM OwnershipIsExclusive == Spec => []ExclusiveOwner
<1>1. IInv => ExclusiveOwner
  BY Zenon DEF IInv
<1>. QED
  BY <1>1, Invariance, PTL

\* No reservation is leaked by a choke, a hash failure or a disconnection.
THEOREM ReservationsAreOwned == Spec => []ClaimHasOwner
<1>1. IInv => ClaimHasOwner
  BY Zenon DEF IInv
<1>. QED
  BY <1>1, Invariance, PTL

\* A piece is written and counted by one thread.
THEOREM PiecesHaveOneWriter == Spec => []SingleWriter
<1>1. IInv => SingleWriter
  BY Zenon DEF IInv
<1>. QED
  BY <1>1, Invariance, PTL

\* The number of completed pieces is exact.
THEOREM CompletedCountIsExact == Spec => []CountIsExact
<1>1. IInv => CountIsExact
  BY Zenon DEF IInv
<1>. QED
  BY <1>1, Invariance, PTL

\* fill_requests never leaves a connection idle that has work.
THEOREM FillRequestsFindsWork == Spec => []NeverIdleWithWork
<1>1. IInv => NeverIdleWithWork
  BY Zenon DEF IInv
<1>. QED
  BY <1>1, Invariance, PTL

\* The bytes of all pieces together are the length of the torrent.
LEMMA AllBytes ==
  /\ NominalLength * (NumPieces - 1) \in Nat
  /\ piece_length(LastPiece) \in Nat
  /\ NominalLength * (NumPieces - 1) + piece_length(LastPiece) = TotalLength
<1>1. NominalLength * (NumPieces - 1) \in Nat
  BY NumPiecesAssumption, LengthAssumption
<1>2. piece_length(LastPiece) = TotalLength - NominalLength * (NumPieces - 1)
  BY NumPiecesAssumption DEF piece_length, LastPiece
<1>. QED
  BY <1>1, <1>2, LengthAssumption

\* A complete torrent is on disk, and 0 bytes are left.
THEOREM CompletionIsReal == Spec => []CompleteMeansStored
<1>1. IInv => CompleteMeansStored
  <2>. SUFFICES ASSUME IInv, is_complete
                PROVE  written = Pieces /\ m_curr_downloaded_bytes = TotalLength
    BY Zenon DEF CompleteMeansStored
  <2>1. TypeOK
    BY Zenon DEF IInv
  <2>2. Cardinality(Counted) = Cardinality(Pieces)
    BY Zenon, <2>1, CountedSets DEF IInv, CountIsExact, is_complete
  <2>3. Counted = Pieces
    BY Zenon, <2>1, <2>2, CountedSets, FS_Subset
  <2>4. written = Pieces /\ BytesAdded = Pieces
    BY Zenon, <2>1, <2>3, CountedSets DEF TypeOK, ManagerTypeOK
  <2>5. LastPiece \in Pieces
    BY NumPiecesAssumption DEF LastPiece, Pieces
  <2>6. Cardinality(BytesAdded \ {LastPiece}) = NumPieces - 1
    BY Zenon, <2>1, <2>4, <2>5, CountedSets, FS_RemoveElement
  <2>. QED
    BY Zenon, <2>4, <2>5, <2>6, AllBytes DEF IInv, BytesAreExact
<1>. QED
  BY <1>1, Invariance, PTL

\* announce and is_complete never see more bytes than the torrent has: the
\* guard of announce against a negative number of bytes left is never needed.
THEOREM DownloadIsBounded == Spec => []DownloadedWithinTotal
<1>1. IInv => DownloadedWithinTotal
  <2>. SUFFICES ASSUME IInv PROVE m_curr_downloaded_bytes <= TotalLength
    BY Zenon DEF DownloadedWithinTotal
  <2>. DEFINE n == Cardinality(BytesAdded \ {LastPiece})
  <2>1. TypeOK
    BY Zenon DEF IInv
  <2>2. LastPiece \in Pieces
    BY NumPiecesAssumption DEF LastPiece, Pieces
  <2>3. IsFiniteSet(Pieces \ {LastPiece})
        /\ Cardinality(Pieces \ {LastPiece}) = NumPieces - 1
    BY Zenon, <2>1, <2>2, CountedSets, FS_RemoveElement
  <2>4. BytesAdded \ {LastPiece} \subseteq Pieces \ {LastPiece}
    BY Zenon, <2>1, CountedSets
  <2>5. n \in Nat /\ n <= NumPieces - 1
    BY <2>3, <2>4, FS_Subset, FS_CardinalityType
  <2>6. NominalLength * n <= NominalLength * (NumPieces - 1)
        /\ NominalLength * n \in Nat
    BY <2>5, NumPiecesAssumption, LengthAssumption
  <2>7. m_curr_downloaded_bytes = NominalLength * n
          + (IF LastPiece \in BytesAdded THEN piece_length(LastPiece) ELSE 0)
    BY Zenon DEF IInv, BytesAreExact
  <2>. HIDE DEF n
  <2>. QED
    BY <2>6, <2>7, AllBytes, LengthAssumption
<1>. QED
  BY <1>1, Invariance, PTL

\* m_have is never taken back and only the owner releases a claim.
THEOREM PieceStepsHold == Spec => PieceSteps
<1>1. IInv /\ [Next]_vars =>
        [\A i \in Pieces :
           /\ m_have[i] => m_have'[i]
           /\ m_claimed[i] /\ ~m_claimed'[i] =>
                \E t \in Threads : Owns(t, i) /\ ~Owns(t, i)']_vars
  <2>. SUFFICES ASSUME IInv, NEW t \in Threads,
                       Connect(t) \/ Receive(t) \/ Compute(t), NEW i \in Pieces
                PROVE  /\ m_have[i] => m_have'[i]
                       /\ m_claimed[i] /\ ~m_claimed'[i] =>
                            Owns(t, i) /\ ~Owns(t, i)'
    BY Zenon DEF Next
  <2>1. TypeOK /\ ShapeAt(t)
    BY Zenon DEF IInv, Shape
  <2>2. Effect(t)
    BY Zenon, <2>1, StepEffect
  <2>3. m_have[i] => m_have'[i]
    BY Zenon, <2>1, <2>2, HaveGrows
  <2>4. CASE Releases(t)
    <3>1. m_current_piece_exclusive[t] /\ m_current_piece[t] \in Pieces
      BY Zenon, <2>1, <2>4 DEF Releases, ShapeAt, Aborting
    <3>2. i # m_current_piece[t] => m_claimed'[i] = m_claimed[i]
      BY Zenon, <2>1, <2>4 DEF Releases, ReleaseClaim, TypeOK, ManagerTypeOK
    <3>. QED
      BY Zenon, <2>3, <2>4, <3>1, <3>2 DEF Releases, LosesPiece, Owns
  <2>5. CASE ~Releases(t)
    <3>1. m_claimed[i] => m_claimed'[i]
      BY Zenon, <2>1, <2>2, <2>5 DEF Effect, Keeps, Drops, Takes, Claims, TryClaim,
         Marks, TryMarkHave, Stores, StorePiece, AddsBytes,
         AddDownloadedBytes, Counts, AddCompleted, tableVars, TypeOK,
         ManagerTypeOK
    <3>. QED
      BY Zenon, <2>3, <3>1
  <2>. QED
    BY Zenon, <2>4, <2>5
<1>. QED
  BY <1>1, Invariance, PTL DEF Spec, PieceSteps

-----------------------------------------------------------------------------
(* The peer threads implement the abstract piece table.                     *)

\* A phase in terms of the label of the thread that holds the piece.
LEMMA PhaseValues ==
  ASSUME NEW i
  PROVE  /\ ~m_have[i] => AbstractPhase(i) = "missing"
         /\ m_have[i] /\ i \notin written /\ At(i, {"cp_write"})
              => AbstractPhase(i) = "accepted"
         /\ m_have[i] /\ i \notin written /\ ~At(i, {"cp_write"})
              => AbstractPhase(i) = "lost"
         /\ m_have[i] /\ i \in written /\ At(i, Counting)
              => AbstractPhase(i) = "stored"
         /\ m_have[i] /\ i \in written /\ ~At(i, Counting)
              => AbstractPhase(i) = "counted"
BY Zenon DEF AbstractPhase, Counting

\* The phase of each piece after a step, by cases.
LEMMA PhaseValuesNext ==
  ASSUME NEW i
  PROVE  /\ ~m_have'[i] => AbstractPhase(i)' = "missing"
         /\ m_have'[i] /\ i \notin written' /\ At(i, {"cp_write"})'
              => AbstractPhase(i)' = "accepted"
         /\ m_have'[i] /\ i \notin written' /\ ~At(i, {"cp_write"})'
              => AbstractPhase(i)' = "lost"
         /\ m_have'[i] /\ i \in written' /\ At(i, Counting)'
              => AbstractPhase(i)' = "stored"
         /\ m_have'[i] /\ i \in written' /\ ~At(i, Counting)'
              => AbstractPhase(i)' = "counted"
BY Zenon DEF AbstractPhase, Counting

\* A piece that thread t is not writing before or after its step keeps its
\* phase if m_have and written do.
LEMMA PhaseKept ==
  ASSUME NEW t \in Threads, OnlyChanges(t), NEW i,
         m_have'[i] = m_have[i], i \in written' <=> i \in written,
         Writing(t) => m_current_piece[t] # i,
         Writing(t)' => m_current_piece'[t] # i
  PROVE  AbstractPhase(i)' = AbstractPhase(i)
<1>1. At(i, {"cp_write"})' <=> At(i, {"cp_write"})
  BY Zenon DEF At, OnlyChanges, Writing
<1>2. At(i, Counting)' <=> At(i, Counting)
  BY Zenon DEF At, OnlyChanges, Writing, Counting
<1>. QED
  BY Zenon, <1>1, <1>2, PhaseValues, PhaseValuesNext

\* One piece changes its phase.
LEMMA PhaseMoves ==
  ASSUME NEW p \in Pieces, NEW a, NEW b,
         AbstractPhase(p) = a, AbstractPhase(p)' = b,
         \A i \in Pieces : i # p => AbstractPhase(i)' = AbstractPhase(i)
  PROVE  Abstract!Move(p, a, b)
BY Zenon DEF Abstract!Move

Stutters ==
  UNCHANGED <<[i \in Pieces |-> AbstractPhase(i)], m_completed_count>>

\* A step that moves no piece between phases is an abstract stutter.
LEMMA PhasesStutter ==
  ASSUME \A i \in Pieces : AbstractPhase(i)' = AbstractPhase(i),
         UNCHANGED m_completed_count
  PROVE  Stutters
<1>1. [i \in Pieces |-> AbstractPhase(i)]' = [i \in Pieces |-> AbstractPhase(i)]
  BY Zenon
<1>. QED
  BY Zenon, <1>1 DEF Stutters

\* Every step of a thread is a step of the abstract piece table or none.
LEMMA StepRefines ==
  ASSUME IInv, NEW t \in Threads, Connect(t) \/ Receive(t) \/ Compute(t)
  PROVE  Abstract!StoreNext \/ Stutters
<1>p. PICK p : p = m_current_piece[t]
  BY Zenon
<1>. USE <1>p
<1>0. TypeOK /\ Shape /\ WriterInv /\ SingleWriter
  BY Zenon DEF IInv
<1>1. OnlyChanges(t) /\ Effect(t)
  BY Zenon, <1>0, StepIsLocal, StepEffect DEF Shape, LocalStep
<1>2. Writing(t) \/ pc[t] = "cp_cas" => p \in Pieces
  BY Zenon, <1>0 DEF Shape, ShapeAt, Fetching, Writing
<1>3. Writing(t) => m_have[p]
  BY Zenon, <1>0 DEF WriterInv
<1>4. \A u \in Threads : u # t /\ Writing(t) /\ Writing(u) =>
                           m_current_piece[u] # p
  BY Zenon, <1>0 DEF SingleWriter
<1>5. \A u \in Threads : u # t => /\ pc'[u] = pc[u]
                                  /\ m_current_piece'[u] = m_current_piece[u]
  BY Zenon, <1>1 DEF OnlyChanges
<1>6. ASSUME UNCHANGED <<m_have, written, m_completed_count>>, ~Writing(t),
             ~Writing(t)'
      PROVE  Stutters
  BY Zenon, <1>1, <1>6, PhaseKept, PhasesStutter
<1>7. ASSUME UNCHANGED <<m_have, written, m_completed_count>>,
             pc[t] = "cp_write", ~Writing(t)'
      PROVE  Abstract!StoreNext
  <2>1. Writing(t) /\ p \in Pieces /\ m_have[p] /\ p \notin written
    BY Zenon, <1>0, <1>2, <1>3, <1>7 DEF Writing, WriterInv
  <2>2. At(p, {"cp_write"})
    BY Zenon, <1>7 DEF At
  <2>3. ~At(p, {"cp_write"})'
    BY Zenon, <1>4, <1>5, <1>7, <2>1 DEF At, Writing
  <2>4. AbstractPhase(p) = "accepted" /\ AbstractPhase(p)' = "lost"
    BY Zenon, <1>7, <2>1, <2>2, <2>3, PhaseValues, PhaseValuesNext
  <2>5. \A i \in Pieces : i # p => AbstractPhase(i)' = AbstractPhase(i)
    BY Zenon, <1>1, <1>7, PhaseKept
  <2>6. Abstract!Move(p, "accepted", "lost")
    BY Zenon, <2>1, <2>4, <2>5, PhaseMoves
  <2>. QED
    BY Zenon, <1>7, <2>1, <2>6 DEF Abstract!StoreNext, Abstract!Lose
<1>8. CASE Keeps(t)
  BY Zenon, <1>6, <1>7, <1>8 DEF Keeps, tableVars, Writing, Counting
<1>9. CASE Drops(t)
  BY Zenon, <1>6, <1>7, <1>9 DEF Drops, LosesPiece, tableVars, Writing, Counting
<1>10. CASE Takes(t)
  BY Zenon, <1>6, <1>10 DEF Takes, tableVars
<1>11. CASE Claims(t)
  BY Zenon, <1>6, <1>11 DEF Claims, TryClaim
<1>12. CASE Releases(t)
  BY Zenon, <1>6, <1>12 DEF Releases, ReleaseClaim, LosesPiece, Writing
<1>13. CASE Marks(t)
  <2>1. /\ p \in Pieces /\ ~m_have[p]
        /\ m_have' = [m_have EXCEPT ![p] = TRUE]
        /\ UNCHANGED <<written, m_completed_count>>
        /\ pc[t] = "cp_cas" /\ pc'[t] = "cp_write"
        /\ m_current_piece'[t] = p
    BY Zenon, <1>2, <1>13 DEF Marks, TryMarkHave, HoldsPiece
  <2>2. m_have'[p] /\ p \notin written
    BY Zenon, <1>0, <2>1 DEF WriterInv, TypeOK, ManagerTypeOK
  <2>3. At(p, {"cp_write"})'
    BY Zenon, <2>1 DEF At
  <2>4. AbstractPhase(p) = "missing" /\ AbstractPhase(p)' = "accepted"
    BY Zenon, <2>1, <2>2, <2>3, PhaseValues, PhaseValuesNext
  <2>5. \A i \in Pieces : i # p => m_have'[i] = m_have[i]
    BY Zenon, <1>0, <2>1 DEF TypeOK, ManagerTypeOK
  <2>6. \A i \in Pieces : i # p => AbstractPhase(i)' = AbstractPhase(i)
    BY Zenon, <1>1, <2>1, <2>5, PhaseKept
  <2>7. Abstract!Move(p, "missing", "accepted")
    BY Zenon, <2>1, <2>4, <2>6, PhaseMoves
  <2>. QED
    BY Zenon, <2>1, <2>7 DEF Abstract!StoreNext, Abstract!Accept
<1>14. CASE Stores(t)
  <2>1. /\ p \in Pieces /\ m_have[p] /\ p \notin written
        /\ written' = written \cup {p}
        /\ UNCHANGED <<m_have, m_completed_count>>
        /\ pc[t] = "cp_write" /\ pc'[t] = "cp_bytes"
        /\ m_current_piece'[t] = p
    BY Zenon, <1>0, <1>2, <1>3, <1>14 DEF Stores, StorePiece, HoldsPiece, Writing,
       WriterInv
  <2>2. At(p, {"cp_write"}) /\ At(p, Counting)'
    BY Zenon, <2>1 DEF At, Counting
  <2>3. AbstractPhase(p) = "accepted" /\ AbstractPhase(p)' = "stored"
    BY Zenon, <2>1, <2>2, PhaseValues, PhaseValuesNext
  <2>4. \A i \in Pieces : i # p => AbstractPhase(i)' = AbstractPhase(i)
    BY Zenon, <1>1, <2>1, PhaseKept
  <2>5. Abstract!Move(p, "accepted", "stored")
    BY Zenon, <2>1, <2>3, <2>4, PhaseMoves
  <2>. QED
    BY Zenon, <2>1, <2>5 DEF Abstract!StoreNext, Abstract!Store
<1>15. CASE AddsBytes(t)
  <2>1. /\ p \in Pieces /\ m_have[p] /\ p \in written
        /\ UNCHANGED <<m_have, m_completed_count, written>>
        /\ pc[t] = "cp_bytes" /\ pc'[t] = "cp_count"
        /\ m_current_piece'[t] = p
    BY Zenon, <1>0, <1>2, <1>3, <1>15 DEF AddsBytes, AddDownloadedBytes, HoldsPiece,
       Writing, WriterInv
  <2>2. At(p, Counting) /\ At(p, Counting)'
    BY Zenon, <2>1 DEF At, Counting
  <2>3. AbstractPhase(p)' = AbstractPhase(p)
    BY Zenon, <2>1, <2>2, PhaseValues, PhaseValuesNext
  <2>4. \A i \in Pieces : i # p => AbstractPhase(i)' = AbstractPhase(i)
    BY Zenon, <1>1, <2>1, PhaseKept
  <2>. QED
    BY Zenon, <2>1, <2>3, <2>4, PhasesStutter
<1>16. CASE Counts(t)
  <2>1. /\ p \in Pieces /\ m_have[p] /\ p \in written
        /\ UNCHANGED <<m_have, written>>
        /\ m_completed_count' = m_completed_count + 1
        /\ pc[t] = "cp_count" /\ ~Writing(t)' /\ Writing(t)
    BY Zenon, <1>0, <1>2, <1>3, <1>16 DEF Counts, AddCompleted, LosesPiece, Writing,
       WriterInv
  <2>2. At(p, Counting)
    BY Zenon, <2>1 DEF At, Counting
  <2>3. ~At(p, Counting)'
    BY Zenon, <1>4, <1>5, <2>1 DEF At, Counting, Writing
  <2>4. AbstractPhase(p) = "stored" /\ AbstractPhase(p)' = "counted"
    BY Zenon, <2>1, <2>2, <2>3, PhaseValues, PhaseValuesNext
  <2>5. \A i \in Pieces : i # p => AbstractPhase(i)' = AbstractPhase(i)
    BY Zenon, <1>1, <2>1, PhaseKept
  <2>6. Abstract!Move(p, "stored", "counted")
    BY Zenon, <2>1, <2>4, <2>5, PhaseMoves
  <2>. QED
    BY Zenon, <2>1, <2>6 DEF Abstract!StoreNext, Abstract!Count
<1>. QED
  BY Zenon, <1>1, <1>8, <1>9, <1>10, <1>11, <1>12, <1>13, <1>14, <1>15, <1>16
     DEF Effect

\* The lock-free protocol of next_needed, complete_piece and abort_piece
\* implements the sequential piece table, for any number of threads.
THEOREM Refinement == Spec => ImplementsPieceStore
<1>1. Init => Abstract!StoreInit
  <2>. SUFFICES ASSUME Init PROVE Abstract!StoreInit
    BY Zenon
  <2>1. \A i \in Pieces : AbstractPhase(i) = "missing"
    BY Zenon, PhaseValues DEF Init, ManagerInit
  <2>. QED
    BY Zenon, <2>1 DEF Abstract!StoreInit, Init, ManagerInit
<1>2. IInv /\ [Next]_vars => [Abstract!StoreNext]_(Abstract!storeVars)
  <2>. SUFFICES ASSUME IInv, [Next]_vars
                PROVE  Abstract!StoreNext \/ UNCHANGED Abstract!storeVars
    BY Zenon
  <2>1. CASE UNCHANGED vars
    <3>1. \A i \in Pieces : AbstractPhase(i)' = AbstractPhase(i)
      BY Zenon, <2>1 DEF vars, managerVars, connectionVars, AbstractPhase, At
    <3>2. Stutters
      BY Zenon, <2>1, <3>1, PhasesStutter DEF vars, managerVars
    <3>. QED
      BY Zenon, <3>2 DEF Stutters, Abstract!storeVars
  <2>2. ASSUME NEW t \in Threads, Connect(t) \/ Receive(t) \/ Compute(t)
        PROVE  Abstract!StoreNext \/ UNCHANGED Abstract!storeVars
    BY Zenon, <2>2, StepRefines DEF Stutters, Abstract!storeVars
  <2>. QED
    BY Zenon, <2>1, <2>2 DEF Next
<1>. QED
  BY <1>1, <1>2, Invariance, PTL DEF Spec, ImplementsPieceStore,
     Abstract!StoreSpec
-----------------------------------------------------------------------------
(* Arithmetic of blocks.                                                    *)

\* What \div computes.
LEMMA Division ==
  ASSUME NEW a \in Nat, NEW d \in Nat \ {0}
  PROVE  /\ a \div d \in Nat
         /\ d * (a \div d) <= a
         /\ a < d * (a \div d) + d
  OBVIOUS

\* Multiplication is monotonic.
LEMMA Product ==
  ASSUME NEW d \in Nat \ {0}, NEW a \in Nat, NEW b \in Nat, a <= b
  PROVE  d * a <= d * b /\ d * a \in Nat
  OBVIOUS

\* A quotient is unique.
LEMMA Quotient ==
  ASSUME NEW d \in Nat \ {0}, NEW b \in Nat
  PROVE  (b * d) \div d = b
  OBVIOUS

\* No piece is empty, so every piece has a block.
LEMMA NumBlocks ==
  ASSUME NEW i \in Pieces
  PROVE  num_blocks(i) \in Nat \ {0}
<1>1. piece_length(i) \in Nat /\ piece_length(i) >= 1
  <2>1. NominalLength * (NumPieces - 1) \in Int
    BY NumPiecesAssumption, LengthAssumption
  <2>. QED
    BY <2>1, NumPiecesAssumption, LengthAssumption DEF piece_length, Pieces
<1>. DEFINE a == piece_length(i) + BLOCK_SIZE - 1
<1>2. a \in Nat /\ a >= BLOCK_SIZE
  BY <1>1, PipelineAssumption
<1>. HIDE DEF a
<1>3. a \div BLOCK_SIZE \in Nat /\ a < BLOCK_SIZE * (a \div BLOCK_SIZE) + BLOCK_SIZE
  BY Zenon, <1>2, Division, PipelineAssumption
<1>4. a \div BLOCK_SIZE # 0
  BY <1>2, <1>3, PipelineAssumption
<1>. QED
  BY Zenon, <1>3, <1>4 DEF num_blocks, a

\* The answer to a request lies within the piece and is found again by its
\* offset.
LEMMA AnswersFit ==
  ASSUME NEW i \in Pieces, NEW b \in Blocks(i)
  PROVE  /\ Message(i, b).index = i
         /\ Message(i, b).begin \div BLOCK_SIZE = b
         /\ Message(i, b).begin + Message(i, b).size <= piece_length(i)
<1>. DEFINE a == piece_length(i) + BLOCK_SIZE - 1
            q == a \div BLOCK_SIZE
<1>1. piece_length(i) \in Nat
  BY Zenon, PieceLength
<1>2. a \in Nat
  BY <1>1, PipelineAssumption
<1>3. b \in Nat /\ b + 1 <= q /\ q \in Nat
  BY NumBlocks DEF Blocks, num_blocks
<1>. HIDE DEF a
<1>4. q * BLOCK_SIZE <= a
  BY <1>2, Division, PipelineAssumption
<1>. HIDE DEF q
<1>5. (b + 1) * BLOCK_SIZE <= q * BLOCK_SIZE
  BY <1>3, Product, PipelineAssumption
<1>6. (b + 1) * BLOCK_SIZE = b * BLOCK_SIZE + BLOCK_SIZE
  BY <1>3, PipelineAssumption
<1>7. b * BLOCK_SIZE \in Nat /\ q * BLOCK_SIZE \in Nat
  BY <1>3, PipelineAssumption
<1>8. b * BLOCK_SIZE + BLOCK_SIZE <= piece_length(i) + BLOCK_SIZE - 1
  BY <1>2, <1>4, <1>5, <1>6, <1>7, PipelineAssumption DEF a
<1>9. b * BLOCK_SIZE + Minimum(BLOCK_SIZE, piece_length(i) - b * BLOCK_SIZE)
        <= piece_length(i)
  BY <1>1, <1>7, <1>8, PipelineAssumption DEF Minimum
<1>10. (b * BLOCK_SIZE) \div BLOCK_SIZE = b
  BY Zenon, <1>3, Quotient, PipelineAssumption
<1>. QED
  BY Zenon, <1>9, <1>10 DEF Message

-----------------------------------------------------------------------------
(* The inductive invariant of BlockPipeline.                                *)

Waiting == {"recv", "fill_have"}

\* A thread with a piece to fetch, or in search of one, may request.
EngagedAt(t) ==
  \/ pc[t] \in Scanning \cup {"fill_have"}
  \/ pc[t] = "recv" /\ m_current_piece[t] # NoPiece
  => ~m_peer_choking[t] /\ m_am_interested[t]

Engaged == \A t \in Threads : EngagedAt(t)

BlockTypes ==
  /\ next_block \in [Watched -> Nat]
  /\ requests_in_flight \in [Watched -> 0 .. Modulus - 1]
  /\ blocks_received \in [Watched -> SUBSET Nat]
  /\ unanswered \in [Watched -> SUBSET (Pieces \X Nat)]

\* As long as there are blocks to request, the requests in flight and the
\* blocks that came are no more than the requests made.
Window(i, next, in_flight, received) ==
  /\ next \in 0 .. num_blocks(i)
  /\ in_flight \in 0 .. Modulus - 1
  /\ received \subseteq Blocks(i) /\ received # Blocks(i)
  /\ next < num_blocks(i) =>
       /\ in_flight <= MAX_PIPELINE
       /\ in_flight + Cardinality(received) <= next

\* A missing block that was requested has not been answered.
Pending(i, next, received, requests) ==
  \A b \in 0 .. next - 1 : b \notin received => <<i, b>> \in requests

FullAt(i, next, in_flight) ==
  in_flight = MAX_PIPELINE \/ next = num_blocks(i)

BlocksAt(t) ==
  pc[t] \in Waiting /\ m_current_piece[t] # NoPiece =>
    /\ Window(m_current_piece[t], next_block[t], requests_in_flight[t],
              blocks_received[t])
    /\ Pending(m_current_piece[t], next_block[t], blocks_received[t],
               unanswered[t])
    /\ pc[t] = "recv" =>
         FullAt(m_current_piece[t], next_block[t], requests_in_flight[t])

BInv ==
  /\ TypeOK /\ Shape /\ Engaged
  /\ BlockTypes
  /\ \A t \in Watched : BlocksAt(t)

-----------------------------------------------------------------------------
(* The request loop and handle_piece.                                       *)

\* Sets of blocks are finite.
LEMMA FiniteBlocks ==
  ASSUME NEW i \in Pieces, NEW received \in SUBSET Blocks(i)
  PROVE  IsFiniteSet(received) /\ Cardinality(received) \in Nat
<1>1. num_blocks(i) \in Nat
  BY Zenon, NumBlocks
<1>2. IsFiniteSet(Blocks(i))
  BY <1>1, FS_Interval DEF Blocks
<1>. QED
  BY Zenon, <1>2, FS_Subset, FS_CardinalityType

\* The loop fills the window or requests every block.
LEMMA LoopFills ==
  ASSUME NEW i \in Pieces, NEW next, NEW in_flight, NEW received,
         Window(i, next, in_flight, received)
  PROVE  LET upto == Requested(i, next, in_flight)
         IN  /\ upto \in next .. num_blocks(i)
             /\ Window(i, upto, in_flight + (upto - next), received)
             /\ FullAt(i, upto, in_flight + (upto - next))
<1>1. Cardinality(received) \in Nat
  BY Zenon, FiniteBlocks DEF Window
<1>2. num_blocks(i) \in Nat
  BY Zenon, NumBlocks
<1>3. next \in Nat /\ in_flight \in Nat
  BY <1>2 DEF Window
<1>4. CASE next = num_blocks(i)
  BY <1>2, <1>3, <1>4, PipelineAssumption
     DEF Requested, Minimum, Window, FullAt
<1>5. CASE next < num_blocks(i) /\ in_flight = MAX_PIPELINE
  BY <1>2, <1>3, <1>5, PipelineAssumption
     DEF Requested, Minimum, Window, FullAt
<1>6. CASE next < num_blocks(i) /\ in_flight < MAX_PIPELINE
  BY <1>1, <1>2, <1>3, <1>6, PipelineAssumption
     DEF Requested, Minimum, Window, FullAt
<1>. QED
  BY <1>2, <1>3, <1>4, <1>5, <1>6, PipelineAssumption DEF Window

\* The requests of the loop are pending.
LEMMA LoopAsks ==
  ASSUME NEW i, NEW next \in Nat, NEW upto \in Nat, NEW received,
         NEW requests, Pending(i, next, received, requests)
  PROVE  Pending(i, upto, received, requests \cup ({i} \X (next .. upto - 1)))
<1>. SUFFICES ASSUME NEW b \in 0 .. upto - 1, b \notin received
              PROVE  <<i, b>> \in requests \cup ({i} \X (next .. upto - 1))
  BY Zenon DEF Pending
<1>1. CASE b < next
  BY <1>1 DEF Pending
<1>2. CASE ~(b < next)
  BY <1>2
<1>. QED
  BY Zenon, <1>1, <1>2

\* A block that comes takes at most one request off the window.
LEMMA BlockCounts ==
  ASSUME NEW i \in Pieces, NEW next, NEW in_flight, NEW received,
         Window(i, next, in_flight, received), FullAt(i, next, in_flight),
         NEW new \in SUBSET Blocks(i), NEW b, new \subseteq {b},
         received \cup new # Blocks(i)
  PROVE  Window(i, next, Decrement(in_flight), received \cup new)
<1>1. /\ received \cup new \subseteq Blocks(i)
      /\ Cardinality(received) \in Nat
      /\ Cardinality(received \cup new) \in Nat
  BY Zenon, FiniteBlocks DEF Window
<1>2. Cardinality(received \cup new) <= Cardinality(received) + 1
  <2>1. IsFiniteSet(received)
    BY Zenon, FiniteBlocks DEF Window
  <2>2. CASE received \cup new = received
    <3>1. Cardinality(received \cup new) = Cardinality(received)
      BY Zenon, <2>2
    <3>. QED
      BY <1>1, <3>1
  <2>3. CASE received \cup new # received
    <3>1. received \cup new = received \cup {b} /\ b \notin received
      BY Zenon, <2>3
    <3>2. Cardinality(received \cup {b}) = Cardinality(received) + 1
      BY Zenon, <2>1, <3>1, FS_AddElement
    <3>3. Cardinality(received \cup new) = Cardinality(received) + 1
      BY Zenon, <3>1, <3>2
    <3>. QED
      BY <1>1, <3>3
  <2>. QED
    BY Zenon, <2>2, <2>3
<1>3. num_blocks(i) \in Nat
  BY Zenon, NumBlocks
<1>4. Decrement(in_flight) \in 0 .. Modulus - 1
  BY PipelineAssumption DEF Decrement, Window
<1>5. CASE next = num_blocks(i)
  BY <1>1, <1>3, <1>4, <1>5 DEF Window
<1>6. CASE next # num_blocks(i)
  <2>1. in_flight = MAX_PIPELINE /\ in_flight # 0
    BY Zenon, <1>6, PipelineAssumption DEF FullAt
  <2>2. next < num_blocks(i) /\ next \in Nat
    BY <1>3, <1>6 DEF Window
  <2>3. in_flight + Cardinality(received) <= next
    BY Zenon, <2>2 DEF Window
  <2>4. Decrement(in_flight) + Cardinality(received \cup new) <= next
    BY <1>1, <1>2, <2>1, <2>2, <2>3, PipelineAssumption DEF Decrement
  <2>. QED
    BY <1>1, <1>4, <2>1, <2>2, <2>4, PipelineAssumption
       DEF Window, Decrement
<1>. QED
  BY Zenon, <1>5, <1>6

\* With a full window, or everything requested, a missing block is pending.
LEMMA SomeIsPending ==
  ASSUME NEW i \in Pieces, NEW next, NEW in_flight, NEW received, NEW requests,
         Window(i, next, in_flight, received), FullAt(i, next, in_flight),
         Pending(i, next, received, requests)
  PROVE  \E b \in Blocks(i) \ received : <<i, b>> \in requests
<1>1. num_blocks(i) \in Nat
  BY Zenon, NumBlocks
<1>2. CASE next = num_blocks(i)
  BY Zenon, <1>1, <1>2 DEF Window, Pending, Blocks
<1>3. CASE next # num_blocks(i)
  <2>1. next \in Nat /\ next < num_blocks(i) /\ in_flight = MAX_PIPELINE
    BY <1>1, <1>3 DEF Window, FullAt
  <2>2. IsFiniteSet(received) /\ Cardinality(received) \in Nat
    BY Zenon, FiniteBlocks DEF Window
  <2>3. Cardinality(received) < next
    BY <2>1, <2>2, PipelineAssumption DEF Window
  <2>4. ~(0 .. next - 1 \subseteq received)
    <3>1. Cardinality(0 .. next - 1) = next
      BY <2>1, FS_Interval
    <3>2. 0 .. next - 1 \subseteq received => next <= Cardinality(received)
      BY Zenon, <2>2, <3>1, FS_Subset
    <3>. QED
      BY <2>1, <2>2, <2>3, <3>2
  <2>5. PICK b \in 0 .. next - 1 : b \notin received
    BY Zenon, <2>4
  <2>. QED
    BY <1>1, <2>1, <2>5 DEF Pending, Blocks
<1>. QED
  BY Zenon, <1>2, <1>3

-----------------------------------------------------------------------------
(* The steps of PeerConnection.                                             *)

\* fill_requests goes on only if it may request.
LEMMA FillEngages ==
  ASSUME TypeOK, NEW t \in Threads, NEW c, NEW i, NEW bf \in SUBSET Pieces,
         NEW p, fill_requests(t, c, i, bf, p),
         m_peer_choking'[t] = c, m_am_interested'[t] = i,
         m_current_piece'[t] = p,
         p # NoPiece => ~c /\ i
  PROVE  EngagedAt(t)'
<1>1. CASE c \/ ~i
  BY Zenon, <1>1 DEF fill_requests, GoTo, EngagedAt, TypeOK, Scanning
<1>2. CASE ~(c \/ ~i)
  BY Zenon, <1>2 DEF EngagedAt
<1>. QED
  BY Zenon, <1>1, <1>2

\* A handler that drops its piece searches only if it may request.
LEMMA DropEngages ==
  ASSUME TypeOK, NEW t \in Threads, DropAndFill(t)
  PROVE  EngagedAt(t)'
<1>1. /\ m_peer_choking'[t] = m_peer_choking[t]
      /\ m_am_interested'[t] = m_am_interested[t]
      /\ m_current_piece'[t] = NoPiece
      /\ m_peer_bitfield[t] \in SUBSET Pieces
      /\ fill_requests(t, m_peer_choking[t], m_am_interested[t],
                       m_peer_bitfield[t], NoPiece)
  BY Zenon DEF DropAndFill, SetCurrent, KeepFlags, TypeOK
<1>. QED
  BY Zenon, <1>1, FillEngages

\* Labels at which nothing is required.
LEMMA GoToEngages ==
  ASSUME TypeOK, NEW t \in Threads, NEW l, GoTo(t, l),
         l \notin Scanning \cup {"fill_have"},
         l = "recv" => m_current_piece'[t] = NoPiece
  PROVE  EngagedAt(t)'
  BY Zenon DEF GoTo, TypeOK, EngagedAt

\* Neither is after an exception.
LEMMA UnwindEngages ==
  ASSUME TypeOK, NEW t \in Threads, Unwind(t)
  PROVE  EngagedAt(t)'
  BY Zenon, GoToEngages DEF Unwind, Close, Scanning

\* Every step of a thread leaves it engaged if it has to be.
LEMMA StepEngaged ==
  ASSUME TypeOK, NEW t \in Threads, ShapeAt(t), EngagedAt(t),
         Connect(t) \/ Receive(t) \/ Compute(t)
  PROVE  EngagedAt(t)'
<1>0. /\ m_peer_choking[t] \in BOOLEAN /\ m_am_interested[t] \in BOOLEAN
      /\ m_peer_bitfield[t] \in SUBSET Pieces
      /\ \A l \in Fetching \ {"fill_have"} :
           l \notin Scanning \cup {"fill_have", "recv"}
  BY Zenon DEF TypeOK, Fetching, Scanning
<1>1. CASE Connect(t)
  <2>1. m_current_piece'[t] = NoPiece
    BY Zenon, <1>1 DEF Connect, KeepCurrent, ShapeAt, NotFetching
  <2>. QED
    BY Zenon, <1>1, <2>1, GoToEngages DEF Connect, Scanning
<1>2. ASSUME NEW S \in SUBSET Pieces, NEW checked, Learn(t, S, checked)
      PROVE  EngagedAt(t)'
  <2>. DEFINE bf == m_peer_bitfield[t] \cup S
              interested == m_am_interested[t] \/ \E i \in checked : ~m_have[i]
  <2>1. /\ m_peer_choking'[t] = m_peer_choking[t]
        /\ m_am_interested'[t] = interested
        /\ m_current_piece'[t] = m_current_piece[t]
        /\ fill_requests(t, m_peer_choking[t], interested, bf,
                         m_current_piece[t])
    BY Zenon, <1>2 DEF Learn, KeepCurrent, TypeOK
  <2>2. bf \in SUBSET Pieces
    BY Zenon, <1>0
  <2>3. m_current_piece[t] # NoPiece => ~m_peer_choking[t] /\ interested
    BY Zenon, <1>2 DEF Learn, EngagedAt
  <2>. HIDE DEF bf, interested
  <2>. QED
    BY Zenon, <2>1, <2>2, <2>3, FillEngages
<1>3. CASE handle_unchoke(t)
  <2>1. /\ m_peer_choking'[t] = FALSE
        /\ m_am_interested'[t] = m_am_interested[t]
        /\ m_current_piece'[t] = m_current_piece[t]
        /\ fill_requests(t, FALSE, m_am_interested[t], m_peer_bitfield[t],
                         m_current_piece[t])
        /\ pc[t] = "recv"
    BY Zenon, <1>3 DEF handle_unchoke, KeepCurrent, TypeOK
  <2>2. m_current_piece[t] # NoPiece => m_am_interested[t]
    BY Zenon, <2>1 DEF EngagedAt
  <2>. QED
    BY Zenon, <1>0, <2>1, <2>2, FillEngages
<1>4. CASE handle_choke(t)
  <2>1. CASE m_current_piece_exclusive[t]
    BY Zenon, <1>0, <1>4, <2>1, GoToEngages DEF handle_choke, Fetching
  <2>2. CASE ~m_current_piece_exclusive[t]
    <3>1. GoTo(t, "recv") /\ m_current_piece'[t] = NoPiece
      BY Zenon, <1>4, <2>2 DEF handle_choke, SetCurrent, TypeOK
    <3>. QED
      BY Zenon, <3>1, GoToEngages DEF Scanning
  <2>. QED
    BY Zenon, <2>1, <2>2
<1>5. CASE ReceiveLastBlock(t)
  BY Zenon, <1>0, <1>5, GoToEngages DEF ReceiveLastBlock, Fetching
<1>6. CASE ReceiveOther(t)
  <2>1. /\ m_peer_choking'[t] = m_peer_choking[t]
        /\ m_am_interested'[t] = m_am_interested[t]
        /\ m_current_piece'[t] = m_current_piece[t]
        /\ fill_requests(t, m_peer_choking[t], m_am_interested[t],
                         m_peer_bitfield[t], m_current_piece[t])
        /\ pc[t] = "recv"
    BY Zenon, <1>6 DEF ReceiveOther, KeepCurrent, KeepFlags, TypeOK
  <2>2. m_current_piece[t] # NoPiece =>
          ~m_peer_choking[t] /\ m_am_interested[t]
    BY Zenon, <2>1 DEF EngagedAt
  <2>. QED
    BY Zenon, <1>0, <2>1, <2>2, FillEngages
<1>7. CASE Disconnect(t)
  BY Zenon, <1>7, UnwindEngages DEF Disconnect
<1>8. ASSUME pc[t] \in Scanning \cup {"fill_have"}, KeepFlags
      PROVE  EngagedAt(t)'
  BY Zenon, <1>8 DEF EngagedAt, KeepFlags
<1>9. CASE FillHave(t)
  BY Zenon, <1>8, <1>9, DropEngages DEF FillHave
<1>10. CASE NextNeededHave(t) \/ NextNeededClaim(t) \/ EndgameHave(t)
  BY Zenon, <1>8, <1>10 DEF NextNeededHave, NextNeededClaim, EndgameHave, Scanning
<1>11. CASE CompleteHave(t)
  BY Zenon, <1>0, <1>11, DropEngages, GoToEngages DEF CompleteHave, Fetching
<1>12. CASE CompleteRehave(t)
  BY Zenon, <1>0, <1>12, DropEngages, GoToEngages DEF CompleteRehave, Fetching
<1>13. CASE CompleteCas(t)
  BY Zenon, <1>0, <1>13, DropEngages, GoToEngages DEF CompleteCas, Fetching
<1>14. CASE CompleteWrite(t)
  BY Zenon, <1>0, <1>14, UnwindEngages, GoToEngages DEF CompleteWrite, Fetching
<1>15. CASE CompleteBytes(t)
  BY Zenon, <1>0, <1>15, GoToEngages DEF CompleteBytes, Fetching
<1>16. CASE CompleteCount(t)
  BY Zenon, <1>16, DropEngages DEF CompleteCount
<1>17. ASSUME AfterAbort(t)
       PROVE  EngagedAt(t)'
  BY Zenon, <1>17, DropEngages, GoToEngages DEF AfterAbort, Close, Scanning
<1>18. CASE AbortHave(t)
  BY Zenon, <1>0, <1>17, <1>18, GoToEngages DEF AbortHave, Fetching
<1>19. CASE AbortStore(t)
  BY Zenon, <1>17, <1>19 DEF AbortStore
<1>. QED
  BY Zenon, <1>1, <1>2, <1>3, <1>4, <1>5, <1>6, <1>7, <1>9, <1>10, <1>11, <1>12,
     <1>13, <1>14, <1>15, <1>16, <1>18, <1>19
     DEF Receive, Compute, handle_bitfield, handle_have

\* A thread that comes to wait with a piece comes from next_needed with a new
\* one, or from the check of the one it has.
LEMMA ComputeWaits ==
  ASSUME TypeOK, NEW t \in Threads, ShapeAt(t), Compute(t),
         pc'[t] \in Waiting, m_current_piece'[t] # NoPiece
  PROVE  /\ pc'[t] = "recv"
         /\ \/ m_current_piece[t] = NoPiece
            \/ /\ pc[t] = "fill_have"
               /\ m_current_piece'[t] = m_current_piece[t]
<1>1. ASSUME DropAndFill(t) \/ Close(t)
      PROVE  FALSE
  BY Zenon, <1>1, DropLoses, CloseLoses DEF LosesPiece
<1>2. ASSUME NEW l \in Fetching \ {"fill_have"}, GoTo(t, l)
      PROVE  FALSE
  BY Zenon, <1>2 DEF GoTo, TypeOK, Fetching, Waiting
<1>3. ASSUME Unwind(t)
      PROVE  FALSE
  BY Zenon, <1>1, <1>2, <1>3 DEF Unwind, Fetching
<1>4. CASE FillHave(t)
  BY Zenon, <1>1, <1>4 DEF FillHave, GoTo, KeepCurrent, TypeOK
<1>5. CASE NextNeededHave(t) \/ NextNeededClaim(t) \/ EndgameHave(t)
  <2>1. pc[t] \in Scanning /\ m_current_piece[t] = NoPiece
    BY Zenon, <1>5 DEF NextNeededHave, NextNeededClaim, EndgameHave, Scanning,
       ShapeAt, NotFetching
  <2>2. ASSUME KeepCurrent
        PROVE  FALSE
    BY Zenon, <2>1, <2>2 DEF KeepCurrent
  <2>3. GoTo(t, "recv")
    BY Zenon, <1>5, <2>2 DEF NextNeededHave, NextNeededClaim, EndgameHave
  <2>. QED
    BY Zenon, <2>1, <2>3 DEF GoTo, TypeOK
<1>6. CASE CompleteHave(t) \/ CompleteRehave(t) \/ CompleteCas(t)
  BY Zenon, <1>1, <1>2, <1>6 DEF CompleteHave, CompleteRehave, CompleteCas, Fetching
<1>7. CASE CompleteWrite(t) \/ CompleteBytes(t) \/ CompleteCount(t)
  BY Zenon, <1>1, <1>2, <1>3, <1>7 DEF CompleteWrite, CompleteBytes, CompleteCount,
     Fetching
<1>8. CASE AbortHave(t) \/ AbortStore(t)
  BY Zenon, <1>1, <1>2, <1>8 DEF AbortHave, AbortStore, AfterAbort, Fetching
<1>. QED
  BY Zenon, <1>4, <1>5, <1>6, <1>7, <1>8 DEF Compute

-----------------------------------------------------------------------------
(* The steps of the composition.                                            *)

\* A block message is one of the two that PeerConnection knows.
LEMMA PieceIsReceived ==
  ASSUME NEW t, NEW m, handle_piece(t, m)
  PROVE  ReceiveLastBlock(t) \/ ReceiveOther(t)
  BY Zenon DEF handle_piece, Block

\* Every step of the composition is a step of the peer threads.
LEMMA BlockIsStep ==
  ASSUME NEW t, WatchedNext(t)
  PROVE  Connect(t) \/ Receive(t) \/ Compute(t)
<1>1. CASE Answer(t) \/ Stray(t)
  BY Zenon, <1>1, PieceIsReceived DEF Answer, Stray, Receive
<1>2. CASE Choked(t)
  BY Zenon, <1>2 DEF Choked, Receive
<1>3. CASE /\ \/ \E S \in SUBSET Pieces : handle_bitfield(t, S)
              \/ \E i \in Pieces : handle_have(t, i)
              \/ handle_unchoke(t)
              \/ ReceiveOther(t)
           /\ UNCHANGED blockVars
  BY Zenon, <1>3 DEF Receive
<1>4. CASE Disconnect(t) /\ Follow(t)
  BY Zenon, <1>4 DEF Receive
<1>. QED
  BY Zenon, <1>1, <1>2, <1>3, <1>4 DEF WatchedNext, WatchedReceive

\* The blocks of a thread, and those of the others, after a step of t.
OnlyBlocksOf(t) ==
  \A u \in Watched \ {t} :
    /\ next_block'[u] = next_block[u]
    /\ requests_in_flight'[u] = requests_in_flight[u]
    /\ blocks_received'[u] = blocks_received[u]
    /\ unanswered'[u] = unanswered[u]

BlocksStep(t) == BlockTypes' /\ OnlyBlocksOf(t) /\ BlocksAt(t)'

\* A step that leaves the blocks alone.
LEMMA BlocksKept ==
  ASSUME BlockTypes, NEW t \in Watched, BlocksAt(t), UNCHANGED blockVars,
         \/ /\ pc[t] = "recv"
            /\ m_current_piece'[t] = m_current_piece[t]
         \/ m_current_piece'[t] = NoPiece
         \/ pc'[t] \notin Waiting
  PROVE  BlocksStep(t)
  BY Zenon DEF BlocksStep, BlockTypes, OnlyBlocksOf, BlocksAt, blockVars, pieceVars,
     Waiting

\* The request loop.
LEMMA LoopStep ==
  ASSUME TypeOK, BlockTypes, NEW t \in Watched, NEW i \in Pieces,
         NEW next, NEW in_flight, NEW received,
         Window(i, next, in_flight, received),
         Pending(i, next, received, unanswered[t]),
         RequestBlocks(t, i, next, in_flight, received),
         m_current_piece'[t] = i
  PROVE  BlocksStep(t)
<1>. DEFINE upto == Requested(i, next, in_flight)
            count == in_flight + (upto - next)
            requests == unanswered[t] \cup ({i} \X (next .. upto - 1))
<1>1. /\ upto \in next .. num_blocks(i)
      /\ Window(i, upto, count, received)
      /\ FullAt(i, upto, count)
  BY Zenon, LoopFills
<1>2. next \in Nat /\ upto \in Nat /\ num_blocks(i) \in Nat
  BY <1>1, NumBlocks DEF Window
<1>3. /\ next_block' = [next_block EXCEPT ![t] = upto]
      /\ requests_in_flight' = [requests_in_flight EXCEPT ![t] = count]
      /\ blocks_received' = [blocks_received EXCEPT ![t] = received]
      /\ unanswered' = [unanswered EXCEPT ![t] = requests]
  BY Zenon DEF RequestBlocks
<1>. HIDE DEF upto, count
<1>4. Pending(i, upto, received, requests)
  BY Zenon, <1>2, LoopAsks
<1>5. requests \in SUBSET (Pieces \X Nat)
  BY <1>2 DEF BlockTypes
<1>6. count \in 0 .. Modulus - 1 /\ received \in SUBSET Nat
  BY <1>1, <1>2 DEF Window, Blocks
<1>. HIDE DEF requests
<1>7. BlockTypes'
  BY Zenon, <1>2, <1>3, <1>5, <1>6 DEF BlockTypes
<1>8. OnlyBlocksOf(t)
  BY Zenon, <1>3 DEF BlockTypes, OnlyBlocksOf
<1>9. /\ next_block'[t] = upto /\ requests_in_flight'[t] = count
      /\ blocks_received'[t] = received /\ unanswered'[t] = requests
  BY Zenon, <1>3 DEF BlockTypes
<1>10. BlocksAt(t)'
  BY Zenon, <1>1, <1>4, <1>9 DEF BlocksAt
<1>. QED
  BY Zenon, <1>7, <1>8, <1>10 DEF BlocksStep

\* The piece is dropped.
LEMMA ResetStep ==
  ASSUME TypeOK, BlockTypes, NEW t \in Watched, Reset(t),
         NEW S \in SUBSET unanswered[t],
         unanswered' = [unanswered EXCEPT ![t] = S],
         m_current_piece'[t] = NoPiece
  PROVE  BlocksStep(t)
<1>1. S \in SUBSET (Pieces \X Nat)
  BY Zenon DEF BlockTypes
<1>2. BlockTypes'
  BY <1>1, PipelineAssumption DEF BlockTypes, Reset
<1>3. OnlyBlocksOf(t)
  BY Zenon DEF BlockTypes, OnlyBlocksOf, Reset
<1>. QED
  BY Zenon, <1>2, <1>3 DEF BlocksStep, BlocksAt

\* A new piece starts with an empty window.
LEMMA NewWindow ==
  ASSUME NEW i \in Pieces, NEW requests
  PROVE  Window(i, 0, 0, {}) /\ Pending(i, 0, {}, requests)
<1>1. num_blocks(i) \in Nat \ {0} /\ Cardinality({}) = 0
  BY Zenon, NumBlocks, FS_EmptySet
<1>2. Blocks(i) # {}
  BY <1>1 DEF Blocks
<1>. QED
  BY <1>1, <1>2, PipelineAssumption DEF Window, Pending

\* The steps of the thread between two messages, and the end of a connection.
LEMMA FollowStep ==
  ASSUME TypeOK, TypeOK', BlockTypes, NEW t \in Watched, ShapeAt(t),
         BlocksAt(t), Compute(t) \/ Disconnect(t), Follow(t)
  PROVE  BlocksStep(t)
<1>. DEFINE i == m_current_piece'[t]
<1>1. t \in Threads /\ i \in Pieces \cup {NoPiece}
  BY Zenon, PipelineAssumption DEF TypeOK
<1>2. CASE i = NoPiece
  <2>1. Reset(t)
    BY Zenon, <1>2 DEF Follow
  <2>2. \E S \in SUBSET unanswered[t] :
          unanswered' = [unanswered EXCEPT ![t] = S]
    <3>1. unanswered = [unanswered EXCEPT ![t] = unanswered[t]]
      BY Zenon DEF BlockTypes
    <3>2. \/ unanswered' = [unanswered EXCEPT ![t] = {}]
          \/ unanswered' = unanswered
      BY Zenon, <1>2 DEF Follow
    <3>. QED
      BY Zenon, <3>1, <3>2
  <2>. QED
    BY Zenon, <1>2, <2>1, <2>2, ResetStep
<1>3. CASE i # NoPiece /\ m_current_piece[t] = NoPiece
  <2>1. RequestBlocks(t, i, 0, 0, {})
    BY Zenon, <1>3 DEF Follow
  <2>2. Window(i, 0, 0, {}) /\ Pending(i, 0, {}, unanswered[t])
    BY Zenon, <1>1, <1>3, NewWindow
  <2>. QED
    BY Zenon, <1>1, <1>3, <2>1, <2>2, LoopStep
<1>4. CASE i # NoPiece /\ m_current_piece[t] = i /\ pc[t] = "fill_have"
  <2>1. RequestBlocks(t, i, next_block[t], requests_in_flight[t],
                      blocks_received[t])
    BY Zenon, <1>4 DEF Follow, NoPiece
  <2>2. /\ Window(i, next_block[t], requests_in_flight[t], blocks_received[t])
        /\ Pending(i, next_block[t], blocks_received[t], unanswered[t])
    BY Zenon, <1>4 DEF BlocksAt, Waiting
  <2>. HIDE DEF i
  <2>3. m_current_piece'[t] = i /\ i \in Pieces
    BY Zenon, <1>1, <1>4 DEF i
  <2>. QED
    BY Zenon, <2>1, <2>2, <2>3, LoopStep
<1>5. CASE /\ i # NoPiece /\ m_current_piece[t] # NoPiece
           /\ ~(m_current_piece[t] = i /\ pc[t] = "fill_have")
  <2>1. UNCHANGED blockVars
    BY Zenon, <1>5 DEF Follow
  <2>2. CASE Compute(t)
    <3>1. pc'[t] \notin Waiting
      BY Zenon, <1>1, <1>5, <2>2, ComputeWaits
    <3>. QED
      BY Zenon, <2>1, <3>1, BlocksKept
  <2>3. CASE Disconnect(t)
    <3>1. GoTo(t, "ab_have") \/ GoTo(t, "closed")
      BY Zenon, <2>3 DEF Disconnect, Unwind, Close
    <3>2. pc \in [Threads -> Labels]
      BY Zenon DEF TypeOK
    <3>3. pc'[t] \notin Waiting
      BY Zenon, <1>1, <3>1, <3>2 DEF GoTo, Waiting
    <3>. QED
      BY Zenon, <2>1, <3>3, BlocksKept
  <2>. QED
    BY Zenon, <2>2, <2>3
<1>. QED
  BY Zenon, <1>2, <1>3, <1>4, <1>5

\* A missing block stays pending when a message takes requests away, if the
\* message carries the blocks of those requests.
LEMMA StaysPending ==
  ASSUME NEW i \in Pieces, NEW next \in 0 .. num_blocks(i), NEW received,
         NEW after, NEW requests, NEW left,
         Pending(i, next, received, requests), received \subseteq after,
         \A b \in Blocks(i) : <<i, b>> \in requests /\ <<i, b>> \notin left =>
           b \in after
  PROVE  Pending(i, next, after, left)
<1>. SUFFICES ASSUME NEW b \in 0 .. next - 1, b \notin after
              PROVE  <<i, b>> \in left
  BY Zenon DEF Pending
<1>1. num_blocks(i) \in Nat
  BY Zenon, NumBlocks
<1>2. b \in Blocks(i)
  BY <1>1 DEF Blocks
<1>3. <<i, b>> \in requests
  BY Zenon DEF Pending
<1>. QED
  BY Zenon, <1>2, <1>3

\* Message m is what the requests asked for that are gone.
Answers(m, requests, left) ==
  \A i \in Pieces : \A b \in Blocks(i) :
    <<i, b>> \in requests \ left => m = Message(i, b)

\* A block message, which takes away only requests that it answers.
LEMMA PieceStep ==
  ASSUME TypeOK, BlockTypes, NEW t \in Watched, EngagedAt(t), BlocksAt(t),
         NEW m, m.index \in Pieces, handle_piece(t, m),
         NEW left \in SUBSET unanswered[t],
         unanswered' = [unanswered EXCEPT ![t] = left],
         Answers(m, unanswered[t], left)
  PROVE  BlocksStep(t)
<1>. DEFINE i == m_current_piece[t]
<1>1. /\ t \in Threads /\ i \in Pieces \cup {NoPiece}
      /\ pc \in [Threads -> Labels]
      /\ left \in SUBSET (Pieces \X Nat)
      /\ unanswered'[t] = left
      /\ unanswered' \in [Watched -> SUBSET (Pieces \X Nat)]
      /\ \A u \in Watched \ {t} : unanswered'[u] = unanswered[u]
  BY Zenon, PipelineAssumption DEF TypeOK, BlockTypes
<1>2. pc[t] = "recv" /\ m_current_piece'[t] = i
  BY Zenon, <1>1, PieceIsReceived DEF ReceiveLastBlock, ReceiveOther, KeepCurrent
<1>3. i # NoPiece =>
        /\ i \in Pieces
        /\ Window(i, next_block[t], requests_in_flight[t], blocks_received[t])
        /\ Pending(i, next_block[t], blocks_received[t], unanswered[t])
        /\ FullAt(i, next_block[t], requests_in_flight[t])
        /\ next_block[t] \in 0 .. num_blocks(i)
  BY Zenon, <1>1, <1>2 DEF BlocksAt, Waiting, Window
<1>4. CASE i # m.index
  <2>1. UNCHANGED pieceVars
    BY Zenon, <1>4 DEF handle_piece
  <2>2. BlockTypes' /\ OnlyBlocksOf(t)
    BY Zenon, <1>1, <2>1 DEF BlockTypes, OnlyBlocksOf, pieceVars
  <2>3. ASSUME i # NoPiece
        PROVE  Pending(i, next_block[t], blocks_received[t], left)
    <3>1. \A b \in Blocks(i) : <<i, b>> \in unanswered[t] => <<i, b>> \in left
      BY <1>3, <1>4, <2>3 DEF Answers, Message
    <3>. HIDE DEF i
    <3>. QED
      BY Zenon, <1>3, <2>3, <3>1, StaysPending
  <2>4. BlocksAt(t)'
    BY Zenon, <1>1, <1>2, <1>3, <2>1, <2>3 DEF BlocksAt, pieceVars
  <2>. QED
    BY Zenon, <2>2, <2>4 DEF BlocksStep
<1>5. CASE i = m.index
  <2>. DEFINE n == m.begin \div BLOCK_SIZE
              accepted == /\ m.begin + m.size <= piece_length(i)
                          /\ n \in Blocks(i) \ blocks_received[t]
              new == IF accepted THEN {n} ELSE {}
              after == blocks_received[t] \cup new
              count == Decrement(requests_in_flight[t])
  <2>1. /\ requests_in_flight' = [requests_in_flight EXCEPT ![t] = count]
        /\ blocks_received' = [blocks_received EXCEPT ![t] = after]
        /\ next_block' = next_block
        /\ IF accepted /\ after = Blocks(i) THEN ReceiveLastBlock(t)
           ELSE ReceiveOther(t)
    BY Zenon, <1>5 DEF handle_piece, Block
  <2>2. i \in Pieces /\ i # NoPiece
    BY <1>5 DEF Pieces, NoPiece
  <2>3. new \in SUBSET Blocks(i) /\ new \subseteq {n}
    BY Zenon
  <2>4. \A b \in Blocks(i) :
          <<i, b>> \in unanswered[t] /\ <<i, b>> \notin left => b \in after
    <3>. SUFFICES ASSUME NEW b \in Blocks(i), <<i, b>> \in unanswered[t],
                         <<i, b>> \notin left
                  PROVE  b \in after
      BY Zenon
    <3>1. m = Message(i, b)
      BY Zenon, <2>2 DEF Answers
    <3>2. n = b /\ m.begin + m.size <= piece_length(i)
      BY Zenon, <2>2, <3>1, AnswersFit
    <3>. QED
      BY Zenon, <3>2
  <2>5. (accepted /\ after = Blocks(i)) \/ after # Blocks(i)
    BY Zenon, <1>3, <2>2 DEF Window
  <2>. HIDE DEF i, n, accepted, new
  <2>6. count \in 0 .. Modulus - 1 /\ after \in SUBSET Nat
    <3>1. requests_in_flight[t] \in 0 .. Modulus - 1
      BY Zenon DEF BlockTypes
    <3>2. count \in 0 .. Modulus - 1
      BY <3>1, PipelineAssumption DEF Decrement
    <3>3. blocks_received[t] \in SUBSET Nat
      BY Zenon DEF BlockTypes
    <3>4. new \in SUBSET Nat
      BY <2>3 DEF Blocks
    <3>. QED
      BY Zenon, <3>2, <3>3, <3>4
  <2>7. Pending(i, next_block[t], after, left)
    BY Zenon, <1>3, <2>2, <2>4, StaysPending
  <2>8. after # Blocks(i) => Window(i, next_block[t], count, after)
    BY Zenon, <1>3, <2>2, <2>3, BlockCounts
  <2>. HIDE DEF after, count
  <2>9. BlockTypes'
    BY Zenon, <1>1, <2>1, <2>6 DEF BlockTypes
  <2>10. OnlyBlocksOf(t)
    BY Zenon, <1>1, <2>1 DEF BlockTypes, OnlyBlocksOf
  <2>11. /\ next_block'[t] = next_block[t]
         /\ requests_in_flight'[t] = count /\ blocks_received'[t] = after
    BY Zenon, <2>1 DEF BlockTypes
  <2>12. CASE accepted /\ after = Blocks(i)
    <3>1. pc'[t] = "cp_have"
      BY Zenon, <1>1, <2>1, <2>12 DEF ReceiveLastBlock, GoTo
    <3>. QED
      BY Zenon, <2>9, <2>10, <3>1 DEF BlocksStep, BlocksAt, Waiting
  <2>13. CASE after # Blocks(i)
    <3>1. ReceiveOther(t)
      BY Zenon, <2>1, <2>13
    <3>2. ~m_peer_choking[t] /\ m_am_interested[t]
      BY Zenon, <1>2, <2>2 DEF EngagedAt, i
    <3>3. GoTo(t, "fill_have")
      BY Zenon, <2>2, <3>1, <3>2 DEF ReceiveOther, fill_requests, i
    <3>4. pc'[t] = "fill_have"
      BY Zenon, <1>1, <3>3 DEF GoTo
    <3>5. BlocksAt(t)'
      BY Zenon, <1>1, <1>2, <2>7, <2>8, <2>11, <2>13, <3>4 DEF BlocksAt
    <3>. QED
      BY Zenon, <2>9, <2>10, <3>5 DEF BlocksStep
  <2>. QED
    BY Zenon, <2>5, <2>12, <2>13
<1>. QED
  BY Zenon, <1>4, <1>5

\* Answers and strays.
LEMMA MessageStep ==
  ASSUME TypeOK, BlockTypes, NEW t \in Watched, EngagedAt(t), BlocksAt(t),
         Answer(t) \/ Stray(t)
  PROVE  BlocksStep(t)
<1>1. CASE Answer(t)
  <2>1. PICK r \in unanswered[t] :
          /\ handle_piece(t, Message(r[1], r[2]))
          /\ unanswered' = [unanswered EXCEPT ![t] = @ \ {r}]
    BY Zenon, <1>1 DEF Answer
  <2>2. r \in Pieces \X Nat /\ r = <<r[1], r[2]>>
    BY <2>1 DEF BlockTypes
  <2>3. PICK m : m = Message(r[1], r[2])
    BY Zenon
  <2>4. PICK left \in SUBSET unanswered[t] : left = unanswered[t] \ {r}
    BY Zenon
  <2>5. m.index \in Pieces /\ handle_piece(t, m)
    BY Zenon, <2>1, <2>2, <2>3 DEF Message
  <2>6. Answers(m, unanswered[t], left)
    <3>. SUFFICES ASSUME NEW i \in Pieces, NEW b \in Blocks(i),
                         <<i, b>> \in unanswered[t] \ left
                  PROVE  m = Message(i, b)
      BY Zenon DEF Answers
    <3>1. <<i, b>> = r
      BY Zenon, <2>4
    <3>2. i = r[1] /\ b = r[2]
      BY Zenon, <3>1
    <3>. QED
      BY Zenon, <2>3, <3>2
  <2>7. unanswered' = [unanswered EXCEPT ![t] = left]
    BY Zenon, <2>1, <2>4 DEF BlockTypes
  <2>. QED
    BY Zenon, <2>5, <2>6, <2>7, PieceStep
<1>2. CASE Stray(t)
  <2>1. PICK m \in Strays(t) : handle_piece(t, m)
    BY Zenon, <1>2 DEF Stray
  <2>2. m.index \in Pieces
    <3>1. CASE m \in UNION {{Message(i, b) : b \in Blocks(i)} : i \in Pieces}
      <4>1. PICK i \in Pieces : m \in {Message(i, b) : b \in Blocks(i)}
        BY Zenon, <3>1
      <4>2. PICK b \in Blocks(i) : m = Message(i, b)
        BY Zenon, <4>1
      <4>. QED
        BY Zenon, <4>2 DEF Message
    <3>2. CASE m \in [index : Pieces, begin : {0}, size : {NominalLength + 1}]
      BY Zenon, <3>2
    <3>3. CASE m \in [index : Pieces, begin : 0 .. NominalLength, size : {0}]
      BY Zenon, <3>3
    <3>. QED
      BY Zenon, <2>1, <3>1, <3>2, <3>3 DEF Strays
  <2>3. unanswered' = [unanswered EXCEPT ![t] = unanswered[t]]
    BY Zenon, <1>2 DEF Stray, BlockTypes
  <2>4. Answers(m, unanswered[t], unanswered[t])
    BY Zenon DEF Answers
  <2>. QED
    BY Zenon, <2>1, <2>2, <2>3, <2>4, PieceStep
<1>. QED
  BY Zenon, <1>1, <1>2

\* A choke drops the piece, at once or through abort_piece.
LEMMA ChokeStep ==
  ASSUME TypeOK, TypeOK', BlockTypes, NEW t \in Watched, BlocksAt(t), Choked(t)
  PROVE  BlocksStep(t)
<1>1. PICK S \in SUBSET unanswered[t] :
        unanswered' = [unanswered EXCEPT ![t] = S]
  BY Zenon DEF Choked
<1>2. CASE m_current_piece'[t] = NoPiece
  <2>1. Reset(t)
    BY Zenon, <1>2 DEF Choked
  <2>. QED
    BY Zenon, <1>1, <1>2, <2>1, ResetStep
<1>3. CASE m_current_piece'[t] # NoPiece
  <2>1. UNCHANGED pieceVars /\ handle_choke(t)
    BY Zenon, <1>3 DEF Choked
  <2>2. /\ t \in Threads /\ pc \in [Threads -> Labels]
        /\ m_current_piece \in [Threads -> Pieces \cup {NoPiece}]
    BY Zenon, PipelineAssumption DEF TypeOK
  <2>3. GoTo(t, "ab_have")
    <3>1. ASSUME SetCurrent(t, NoPiece, FALSE)
          PROVE  FALSE
      BY Zenon, <1>3, <2>2, <3>1 DEF SetCurrent
    <3>. QED
      BY Zenon, <2>1, <3>1 DEF handle_choke
  <2>4. pc'[t] \notin Waiting
    BY Zenon, <2>2, <2>3 DEF GoTo, Waiting
  <2>5. S \in SUBSET (Pieces \X Nat)
    BY Zenon DEF BlockTypes
  <2>6. BlockTypes' /\ OnlyBlocksOf(t)
    BY Zenon, <1>1, <2>1, <2>5 DEF BlockTypes, OnlyBlocksOf, pieceVars
  <2>. QED
    BY Zenon, <2>4, <2>6 DEF BlocksStep, BlocksAt
<1>. QED
  BY Zenon, <1>2, <1>3

\* A step of a Watched thread.
LEMMA WatchedStep ==
  ASSUME TypeOK, TypeOK', BlockTypes, NEW t \in Watched, ShapeAt(t),
         EngagedAt(t), BlocksAt(t), WatchedNext(t)
  PROVE  BlocksStep(t)
<1>1. CASE Connect(t) /\ UNCHANGED blockVars
  <2>1. m_current_piece'[t] = NoPiece
    BY Zenon, <1>1 DEF Connect, KeepCurrent, ShapeAt, NotFetching
  <2>. QED
    BY Zenon, <1>1, <2>1, BlocksKept
<1>2. CASE /\ \/ \E S \in SUBSET Pieces : handle_bitfield(t, S)
              \/ \E i \in Pieces : handle_have(t, i)
              \/ handle_unchoke(t)
              \/ ReceiveOther(t)
           /\ UNCHANGED blockVars
  <2>1. pc[t] = "recv" /\ KeepCurrent
    BY Zenon, <1>2 DEF handle_bitfield, handle_have, Learn, handle_unchoke,
       ReceiveOther
  <2>2. m_current_piece'[t] = m_current_piece[t]
    BY Zenon, <2>1 DEF KeepCurrent
  <2>. QED
    BY Zenon, <1>2, <2>1, <2>2, BlocksKept
<1>3. CASE Choked(t)
  BY Zenon, <1>3, ChokeStep
<1>4. CASE Answer(t) \/ Stray(t)
  BY Zenon, <1>4, MessageStep
<1>5. CASE (Compute(t) \/ Disconnect(t)) /\ Follow(t)
  BY Zenon, <1>5, FollowStep
<1>. QED
  BY Zenon, <1>1, <1>2, <1>3, <1>4, <1>5 DEF WatchedNext, WatchedReceive

\* The thread that takes a step leaves the others as they are.
LEMMA OthersKeep ==
  ASSUME NEW t, NEW u \in Threads \ {t}, OnlyChanges(t)
  PROVE  /\ EngagedAt(u) => EngagedAt(u)'
         /\ ShapeAt(u) => ShapeAt(u)'
         /\ /\ u \in Watched /\ BlocksAt(u)
            /\ OnlyBlocksOf(t) \/ UNCHANGED blockVars
            => BlocksAt(u)'
<1>1. EngagedAt(u) => EngagedAt(u)'
  BY Zenon DEF OnlyChanges, EngagedAt
<1>2. ShapeAt(u) => ShapeAt(u)'
  BY Zenon DEF OnlyChanges, ShapeAt
<1>3. ASSUME u \in Watched, BlocksAt(u),
             OnlyBlocksOf(t) \/ UNCHANGED blockVars
      PROVE  BlocksAt(u)'
  BY Zenon, <1>3 DEF OnlyChanges, OnlyBlocksOf, BlocksAt, blockVars, pieceVars
<1>. QED
  BY Zenon, <1>1, <1>2, <1>3

\* The invariant holds at the start.
LEMMA InitBInv == BlockInit => BInv
<1>. SUFFICES ASSUME BlockInit
              PROVE  BInv
  BY Zenon
<1>1. TypeOK /\ Shape
  BY Zenon, InitTypeShape DEF BlockInit
<1>2. \A t \in Threads : pc[t] = "closed"
  BY Zenon DEF BlockInit, Init
<1>3. Engaged /\ \A t \in Watched : BlocksAt(t)
  BY Zenon, <1>2, PipelineAssumption
     DEF Engaged, EngagedAt, BlocksAt, Scanning, Waiting
<1>4. BlockTypes
  BY PipelineAssumption DEF BlockInit, BlockTypes
<1>. QED
  BY Zenon, <1>1, <1>3, <1>4 DEF BInv

\* Every step preserves it.
LEMMA NextBInv == BInv /\ [BlockNext]_allVars => BInv'
<1>. SUFFICES ASSUME BInv, [BlockNext]_allVars
              PROVE  BInv'
  BY Zenon
<1>1. ASSUME NEW t \in Threads, Connect(t) \/ Receive(t) \/ Compute(t),
             \/ t \in Watched /\ (TypeOK' => BlocksStep(t))
             \/ t \notin Watched /\ UNCHANGED blockVars
      PROVE  BInv'
  <2>1. ShapeAt(t) /\ EngagedAt(t)
    BY Zenon DEF BInv, Shape, Engaged
  <2>2. TypeOK' /\ OnlyChanges(t) /\ ShapeAt(t)'
    BY Zenon, <1>1, <2>1, StepIsLocal DEF BInv, LocalStep
  <2>3. EngagedAt(t)'
    BY Zenon, <1>1, <2>1, StepEngaged DEF BInv
  <2>4. Shape' /\ Engaged'
    BY Zenon, <2>2, <2>3, OthersKeep DEF BInv, Shape, Engaged
  <2>5. BlockTypes'
    BY Zenon, <1>1, <2>2 DEF BInv, BlocksStep, BlockTypes, blockVars, pieceVars
  <2>6. ASSUME NEW u \in Watched
        PROVE  BlocksAt(u)'
    <3>1. u \in Threads /\ BlocksAt(u)
      BY Zenon, PipelineAssumption DEF BInv
    <3>2. CASE u = t
      BY Zenon, <1>1, <2>2, <3>2 DEF BlocksStep
    <3>3. CASE u # t
      BY Zenon, <1>1, <2>2, <3>1, <3>3, OthersKeep DEF BlocksStep
    <3>. QED
      BY Zenon, <3>2, <3>3
  <2>. QED
    BY Zenon, <2>2, <2>4, <2>5, <2>6 DEF BInv
<1>2. ASSUME NEW t \in Watched, WatchedNext(t)
      PROVE  BInv'
  <2>1. t \in Threads
    BY Zenon, PipelineAssumption
  <2>2. Connect(t) \/ Receive(t) \/ Compute(t)
    BY Zenon, <1>2, BlockIsStep
  <2>3. TypeOK' => BlocksStep(t)
    BY Zenon, <1>2, <2>1, WatchedStep DEF BInv, Shape, Engaged
  <2>. QED
    BY Zenon, <1>1, <2>1, <2>2, <2>3
<1>3. ASSUME NEW t \in Threads \ Watched, OtherNext(t)
      PROVE  BInv'
  BY Zenon, <1>1, <1>3 DEF OtherNext
<1>4. CASE UNCHANGED allVars
  <2>1. UNCHANGED <<managerVars, connectionVars, next_block,
                    requests_in_flight, blocks_received, unanswered>>
    BY Zenon, <1>4 DEF allVars, vars, blockVars, pieceVars
  <2>2. TypeOK' /\ Shape'
    BY Zenon, <2>1 DEF BInv, TypeOK, ManagerTypeOK, managerVars, connectionVars,
       Shape, ShapeAt
  <2>3. Engaged' /\ BlockTypes' /\ \A t \in Watched : BlocksAt(t)'
    BY Zenon, <2>1
       DEF BInv, Engaged, EngagedAt, BlockTypes, BlocksAt, connectionVars
  <2>. QED
    BY Zenon, <2>2, <2>3 DEF BInv
<1>. QED
  BY Zenon, <1>2, <1>3, <1>4 DEF BlockNext

-----------------------------------------------------------------------------
(* Theorems about the blocks.                                               *)

\* Every step of the composition is a step of the peer threads or none.
LEMMA BlockNextIsNext == [BlockNext]_allVars => [Next]_vars
<1>1. ASSUME NEW t \in Watched, WatchedNext(t)
      PROVE  Next
  BY Zenon, <1>1, BlockIsStep, PipelineAssumption DEF Next
<1>2. ASSUME NEW t \in Threads \ Watched, OtherNext(t)
      PROVE  Next
  BY Zenon, <1>2 DEF OtherNext, Next
<1>3. UNCHANGED allVars => UNCHANGED vars
  BY Zenon DEF allVars
<1>. QED
  BY Zenon, <1>1, <1>2, <1>3 DEF BlockNext

\* The connections with their blocks implement the connections without them:
\* what is proved of the peer threads, whose last block comes at any time,
\* holds for the request loop and handle_piece of
\* src/src/peer_wire/peer_connection.cpp.
THEOREM BlocksImplementConnection == BlockSpec => Spec
<1>1. BlockInit => Init
  BY Zenon DEF BlockInit
<1>. QED
  BY <1>1, BlockNextIsNext, PTL DEF BlockSpec, Spec

\* No connection has two owners of a piece whatever order the blocks come in:
\* ExclusiveOwner is inherited through the implementation.
COROLLARY BlocksKeepOwnership == BlockSpec => []ExclusiveOwner
  BY BlocksImplementConnection, OwnershipIsExclusive, PTL

\* The inductive invariant of the composition.
THEOREM BlockInvariance == BlockSpec => []BInv
  BY InitBInv, NextBInv, PTL DEF BlockSpec

\* fill_requests leaves the window full, or nothing to request, when it
\* returns with a piece in flight, although handle_piece counts every block of
\* the piece as an answer.
THEOREM TheWindowIsFull == BlockSpec => []WindowIsFull
<1>1. BInv => WindowIsFull
  BY Zenon DEF BInv, BlocksAt, FullAt, WindowIsFull, Waiting
<1>. QED
  BY <1>1, BlockInvariance, PTL

\* A connection with a piece in flight never waits for nothing: a request for
\* a block it lacks is with its peer, for any block size, window and piece
\* length and any number of threads.
THEOREM AnswerIsAlwaysDue == BlockSpec => []AnswerIsDue
<1>1. BInv => AnswerIsDue
  <2>. SUFFICES ASSUME BInv, NEW t \in Watched, pc[t] = "recv",
                       m_current_piece[t] # NoPiece
                PROVE  \E b \in Blocks(m_current_piece[t]) \ blocks_received[t] :
                         <<m_current_piece[t], b>> \in unanswered[t]
    BY Zenon DEF AnswerIsDue
  <2>1. m_current_piece[t] \in Pieces
    BY Zenon, PipelineAssumption DEF BInv, TypeOK
  <2>2. /\ Window(m_current_piece[t], next_block[t], requests_in_flight[t],
                  blocks_received[t])
        /\ FullAt(m_current_piece[t], next_block[t], requests_in_flight[t])
        /\ Pending(m_current_piece[t], next_block[t], blocks_received[t],
                   unanswered[t])
    BY Zenon DEF BInv, BlocksAt, Waiting
  <2>. QED
    BY Zenon, <2>1, <2>2, SomeIsPending
<1>. QED
  BY <1>1, BlockInvariance, PTL
=============================================================================
