----------------------------- MODULE PieceStore -----------------------------
(***************************************************************************)
(* What a torrent's piece table promises to the rest of the program,       *)
(* without threads or claims: each piece is accepted once, then written    *)
(* once, then counted once, and the count decides completion.  A piece     *)
(* whose write fails is lost: nothing accepts it again.                    *)
(***************************************************************************)
EXTENDS Naturals

CONSTANT Pieces

VARIABLES
  phase,   \* how far each piece got
  count    \* pieces counted

storeVars == <<phase, count>>

Phases == {"missing", "accepted", "stored", "counted", "lost"}

StoreInit ==
  /\ phase = [i \in Pieces |-> "missing"]
  /\ count = 0

Move(i, from, to) ==
  /\ phase[i] = from
  /\ phase' = [phase EXCEPT ![i] = to]

\* complete_piece sets m_have.
Accept(i) == Move(i, "missing", "accepted") /\ UNCHANGED count

\* write_piece returns.
Store(i) == Move(i, "accepted", "stored") /\ UNCHANGED count

\* write_piece throws.
Lose(i) == Move(i, "accepted", "lost") /\ UNCHANGED count

\* m_completed_count is incremented.
Count(i) == Move(i, "stored", "counted") /\ count' = count + 1

StoreNext ==
  \E i \in Pieces : Accept(i) \/ Store(i) \/ Lose(i) \/ Count(i)

StoreSpec == StoreInit /\ [][StoreNext]_storeVars
=============================================================================
