---------------------------- MODULE PieceManager ----------------------------
(***************************************************************************)
(* The lock-free piece table shared by all peer threads of one torrent     *)
(* (src/src/peer_wire/piece_manager.cpp).  Every piece has two atomic      *)
(* flags, m_have and m_claimed; completion is tracked by two atomic        *)
(* counters.  An operation of the class is a sequence of atomic accesses,  *)
(* and threads interleave between them, so this module gives one action    *)
(* fragment per atomic access; PeerConnection strings them together in     *)
(* the order of the code.                                                  *)
(***************************************************************************)
EXTENDS Integers, FiniteSets

CONSTANTS
  NumPieces,        \* m_num_pieces
  NominalLength,    \* m_nominal_piece_length
  TotalLength       \* m_total_length_bytes

ASSUME NumPiecesAssumption == NumPieces \in Nat \ {0}
ASSUME LengthAssumption ==
  /\ NominalLength \in Nat \ {0}
  /\ TotalLength \in Nat
  /\ TotalLength > NominalLength * (NumPieces - 1)
  /\ TotalLength <= NominalLength * NumPieces

VARIABLES
  m_have,                   \* piece verified (set before it is written)
  m_claimed,                \* piece reserved by one peer thread
  m_completed_count,        \* pieces verified, written and counted
  m_curr_downloaded_bytes,  \* their bytes
  m_piece_hash_failures,    \* pieces that failed SHA-1
  written                   \* pieces DiskWriter::write_piece has stored

managerVars == <<m_have, m_claimed, m_completed_count,
                 m_curr_downloaded_bytes, m_piece_hash_failures, written>>

Pieces == 0 .. NumPieces - 1
LastPiece == NumPieces - 1

\* Fault: every piece has the nominal length, the short last one included.
piece_length_nominal(i) == NominalLength

piece_length(i) ==
  IF i + 1 < NumPieces THEN NominalLength
  ELSE TotalLength - NominalLength * (NumPieces - 1)

is_complete == m_completed_count = NumPieces

ManagerTypeOK ==
  /\ m_have \in [Pieces -> BOOLEAN]
  /\ m_claimed \in [Pieces -> BOOLEAN]
  /\ m_completed_count \in Nat
  /\ m_curr_downloaded_bytes \in Nat
  /\ m_piece_hash_failures \in Nat
  /\ written \subseteq Pieces

ManagerInit ==
  /\ m_have = [i \in Pieces |-> FALSE]
  /\ m_claimed = [i \in Pieces |-> FALSE]
  /\ m_completed_count = 0
  /\ m_curr_downloaded_bytes = 0
  /\ m_piece_hash_failures = 0
  /\ written = {}

-----------------------------------------------------------------------------
(* Plausible faults, substituted for the definitions below one at a time.   *)

\* A blind store in place of the compare-and-swap on m_claimed.
ClaimWithoutCas(i) ==
  /\ m_claimed' = [m_claimed EXCEPT ![i] = TRUE]
  /\ UNCHANGED <<m_have, m_completed_count, m_curr_downloaded_bytes,
                 m_piece_hash_failures, written>>

\* A blind store in place of the compare-and-swap on m_have.
MarkWithoutCas(i) ==
  /\ m_have' = [m_have EXCEPT ![i] = TRUE]
  /\ UNCHANGED <<m_claimed, m_completed_count, m_curr_downloaded_bytes,
                 m_piece_hash_failures, written>>

\* complete_piece forgets to count.
CompletedForgotten == UNCHANGED managerVars

\* abort_piece forgets to clear the flag.
ReleaseForgotten(i) == UNCHANGED managerVars

-----------------------------------------------------------------------------
(* The atomic accesses.                                                     *)

\* compare_exchange(m_claimed[i], false, true) succeeding in next_needed.
TryClaim(i) ==
  /\ ~m_claimed[i]
  /\ m_claimed' = [m_claimed EXCEPT ![i] = TRUE]
  /\ UNCHANGED <<m_have, m_completed_count, m_curr_downloaded_bytes,
                 m_piece_hash_failures, written>>

\* compare_exchange(m_have[i], false, true) succeeding in complete_piece.
TryMarkHave(i) ==
  /\ ~m_have[i]
  /\ m_have' = [m_have EXCEPT ![i] = TRUE]
  /\ UNCHANGED <<m_claimed, m_completed_count, m_curr_downloaded_bytes,
                 m_piece_hash_failures, written>>

\* m_disk_writer.write_piece(i, data) returning normally.
StorePiece(i) ==
  /\ written' = written \cup {i}
  /\ UNCHANGED <<m_have, m_claimed, m_completed_count,
                 m_curr_downloaded_bytes, m_piece_hash_failures>>

AddDownloadedBytes(i) ==
  /\ m_curr_downloaded_bytes' = m_curr_downloaded_bytes + piece_length(i)
  /\ UNCHANGED <<m_have, m_claimed, m_completed_count,
                 m_piece_hash_failures, written>>

AddCompleted ==
  /\ m_completed_count' = m_completed_count + 1
  /\ UNCHANGED <<m_have, m_claimed, m_curr_downloaded_bytes,
                 m_piece_hash_failures, written>>

FailHash ==
  /\ m_piece_hash_failures' = m_piece_hash_failures + 1
  /\ UNCHANGED <<m_have, m_claimed, m_completed_count,
                 m_curr_downloaded_bytes, written>>

\* m_claimed[i].store(false) in abort_piece.
ReleaseClaim(i) ==
  /\ m_claimed' = [m_claimed EXCEPT ![i] = FALSE]
  /\ UNCHANGED <<m_have, m_completed_count, m_curr_downloaded_bytes,
                 m_piece_hash_failures, written>>
=============================================================================
