---------------------------- MODULE BlockPipeline ---------------------------
(***************************************************************************)
(* The blocks of the piece in flight: the request loop of fill_requests    *)
(* and handle_piece (src/src/peer_wire/peer_connection.cpp), composed with *)
(* the peer threads of PeerConnection.  For the threads in Watched the     *)
(* block that makes a piece whole is no longer a matter of chance: it is   *)
(* the last one that was missing.  The peers of Watched threads answer     *)
(* requests in any order, drop them when they choke us, and send blocks    *)
(* that were not asked for, were sent before or do not fit.                *)
(***************************************************************************)
EXTENDS PeerConnection

CONSTANTS
  BLOCK_SIZE,
  MAX_PIPELINE,
  Modulus,       \* of uint32_t
  Watched        \* the threads whose blocks are followed

ASSUME PipelineAssumption ==
  /\ BLOCK_SIZE \in Nat \ {0}
  /\ MAX_PIPELINE \in Nat \ {0}
  /\ Modulus \in Nat /\ Modulus > MAX_PIPELINE
  /\ Watched \subseteq Threads

VARIABLES
  next_block,           \* next_block_offset, in blocks
  requests_in_flight,
  blocks_received,
  unanswered            \* requests <<piece, block>> that the peer may answer

pieceVars == <<next_block, requests_in_flight, blocks_received>>
blockVars == <<pieceVars, unanswered>>
allVars == <<vars, blockVars>>

num_blocks(i) == (piece_length(i) + BLOCK_SIZE - 1) \div BLOCK_SIZE
Blocks(i) == 0 .. num_blocks(i) - 1

BlockInit ==
  /\ Init
  /\ next_block = [t \in Watched |-> 0]
  /\ requests_in_flight = [t \in Watched |-> 0]
  /\ blocks_received = [t \in Watched |-> {}]
  /\ unanswered = [t \in Watched |-> {}]

-----------------------------------------------------------------------------
(* The fields of InFlightPiece.                                             *)

Minimum(a, b) == IF a < b THEN a ELSE b

\* --requests_in_flight
Decrement(count) == IF count = 0 THEN Modulus - 1 ELSE count - 1

\* The blocks that the loop has requested when it ends.
Requested(i, next, in_flight) ==
  IF in_flight < MAX_PIPELINE
  THEN Minimum(next + (MAX_PIPELINE - in_flight), num_blocks(i))
  ELSE next

\* The request loop of fill_requests, entered with these values.
RequestBlocks(t, i, next, in_flight, received) ==
  LET upto == Requested(i, next, in_flight)
  IN  /\ next_block' = [next_block EXCEPT ![t] = upto]
      /\ requests_in_flight' =
           [requests_in_flight EXCEPT ![t] = in_flight + (upto - next)]
      /\ blocks_received' = [blocks_received EXCEPT ![t] = received]
      /\ unanswered' =
           [unanswered EXCEPT ![t] = @ \cup ({i} \X (next .. upto - 1))]

\* m_current_piece.reset()
Reset(t) ==
  /\ next_block' = [next_block EXCEPT ![t] = 0]
  /\ requests_in_flight' = [requests_in_flight EXCEPT ![t] = 0]
  /\ blocks_received' = [blocks_received EXCEPT ![t] = {}]

\* What a step of the thread does to the blocks: the piece is dropped, with
\* the connection or without, or the end of fill_requests is reached with a
\* new piece or with the one in flight.
Follow(t) ==
  LET i == m_current_piece'[t]
  IN  CASE i = NoPiece ->
             /\ Reset(t)
             /\ unanswered' = IF pc'[t] = "closed"
                              THEN [unanswered EXCEPT ![t] = {}]
                              ELSE unanswered
        [] i # NoPiece /\ m_current_piece[t] = NoPiece ->
             RequestBlocks(t, i, 0, 0, {})
        [] i # NoPiece /\ m_current_piece[t] = i /\ pc[t] = "fill_have" ->
             RequestBlocks(t, i, next_block[t], requests_in_flight[t],
                           blocks_received[t])
        [] OTHER -> UNCHANGED blockVars

-----------------------------------------------------------------------------
(* handle_piece.                                                            *)

\* Fault: after a block that does not fit the piece is requested anew.
BlockRestarts(t, m) ==
  LET i == m_current_piece[t]
      b == m.begin \div BLOCK_SIZE
      fits == m.begin + m.size <= piece_length(i)
      received == blocks_received[t] \cup (Blocks(i) \cap {b})
  IN  IF fits
      THEN /\ requests_in_flight' =
                [requests_in_flight EXCEPT ![t] = Decrement(@)]
           /\ blocks_received' = [blocks_received EXCEPT ![t] = received]
           /\ IF received = Blocks(i) THEN ReceiveLastBlock(t)
              ELSE ReceiveOther(t)
           /\ UNCHANGED next_block
      ELSE Reset(t) /\ ReceiveOther(t)

\* A block message of the piece in flight: counted as an answer whatever it
\* is, ignored if it does not fit or came before.
Block(t, m) ==
  LET i == m_current_piece[t]
      b == m.begin \div BLOCK_SIZE
      accepted == /\ m.begin + m.size <= piece_length(i)
                  /\ b \in Blocks(i) \ blocks_received[t]
      received == blocks_received[t] \cup (IF accepted THEN {b} ELSE {})
  IN  /\ requests_in_flight' =
           [requests_in_flight EXCEPT ![t] = Decrement(@)]
      /\ blocks_received' = [blocks_received EXCEPT ![t] = received]
      /\ IF accepted /\ received = Blocks(i)
         THEN ReceiveLastBlock(t)
         ELSE ReceiveOther(t)
      /\ UNCHANGED next_block

\* A stale or unexpected one changes nothing.
handle_piece(t, m) ==
  IF m_current_piece[t] = m.index
  THEN Block(t, m)
  ELSE ReceiveOther(t) /\ UNCHANGED pieceVars

Message(i, b) ==
  [index |-> i, begin |-> b * BLOCK_SIZE,
   size |-> Minimum(BLOCK_SIZE, piece_length(i) - b * BLOCK_SIZE)]

Answer(t) ==
  \E r \in unanswered[t] :
    /\ handle_piece(t, Message(r[1], r[2]))
    /\ unanswered' = [unanswered EXCEPT ![t] = @ \ {r}]

\* Blocks that come late or twice or are too long; and, from a peer that is
\* not Steady, short ones.
Strays(t) ==
  (UNION {{Message(i, b) : b \in Blocks(i)} : i \in Pieces})
    \cup [index : Pieces, begin : {0}, size : {NominalLength + 1}]
    \cup IF t \in Steady THEN {}
         ELSE [index : Pieces, begin : 0 .. NominalLength, size : {0}]

Stray(t) ==
  /\ \E m \in Strays(t) : handle_piece(t, m)
  /\ UNCHANGED unanswered

-----------------------------------------------------------------------------
\* The peer forgets our requests when it chokes us, or some of them.
Choked(t) ==
  /\ handle_choke(t)
  /\ IF m_current_piece'[t] = NoPiece THEN Reset(t) ELSE UNCHANGED pieceVars
  /\ \E S \in SUBSET unanswered[t] :
       unanswered' = [unanswered EXCEPT ![t] = S]

WatchedReceive(t) ==
  \/ /\ \/ \E S \in SUBSET Pieces : handle_bitfield(t, S)
        \/ \E i \in Pieces : handle_have(t, i)
        \/ handle_unchoke(t)
        \/ ReceiveOther(t)
     /\ UNCHANGED blockVars
  \/ Choked(t)
  \/ Answer(t) \/ Stray(t)
  \/ Disconnect(t) /\ Follow(t)

WatchedNext(t) ==
  \/ Connect(t) /\ UNCHANGED blockVars
  \/ WatchedReceive(t)
  \/ Compute(t) /\ Follow(t)

OtherNext(t) == (Connect(t) \/ Receive(t) \/ Compute(t)) /\ UNCHANGED blockVars

BlockNext ==
  \/ \E t \in Watched : WatchedNext(t)
  \/ \E t \in Threads \ Watched : OtherNext(t)

BlockSpec == BlockInit /\ [][BlockNext]_allVars

\* The scheduler runs the threads, and the peer of a Watched one answers
\* requests, one at a time and in any order, as long as it neither chokes us
\* nor leaves.
BlockFairness ==
  \A t \in Watched :
    /\ WF_allVars(Compute(t) /\ Follow(t))
    /\ SF_allVars(Answer(t))

BlockFairSpec == BlockSpec /\ BlockFairness

-----------------------------------------------------------------------------
(* Properties.                                                              *)

\* A connection that waits with a piece in flight has filled its window or has
\* requested every block.  requests_in_flight is not exact, since late,
\* repeated and unfit blocks are counted as answers, and it may wrap around;
\* but then nothing is left to request.
WindowIsFull ==
  \A t \in Watched : pc[t] = "recv" /\ m_current_piece[t] # NoPiece =>
    \/ requests_in_flight[t] = MAX_PIPELINE
    \/ next_block[t] = num_blocks(m_current_piece[t])

\* It never waits for nothing: the peer has a request for a block that is
\* missing, whatever chokes, drops and strays came before.
AnswerIsDue ==
  \A t \in Watched : pc[t] = "recv" /\ m_current_piece[t] # NoPiece =>
    \E b \in Blocks(m_current_piece[t]) \ blocks_received[t] :
      <<m_current_piece[t], b>> \in unanswered[t]

\* A piece does not stay in flight for ever: it is handed to complete_piece or
\* dropped, if only the peer answers what it was asked.
PieceEnds ==
  \A t \in Watched : m_current_piece[t] # NoPiece ~> m_current_piece[t] = NoPiece
=============================================================================
