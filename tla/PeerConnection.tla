--------------------------- MODULE PeerConnection ---------------------------
(***************************************************************************)
(* The peer threads of one torrent: each runs one PeerConnection           *)
(* (src/src/peer_wire/peer_connection.cpp) against the shared piece table  *)
(* of PieceManager.  A thread handles one wire message at a time and calls *)
(* fill_requests after it.  Its own fields are private, so a step runs up  *)
(* to and including the next access to the piece table; pc names the       *)
(* access that comes next.                                                 *)
(*                                                                         *)
(* Blocks are below this level: m_current_piece is the piece in flight,    *)
(* and ReceiveLastBlock is the message that makes it whole.                *)
(***************************************************************************)
EXTENDS PieceManager

CONSTANTS
  Threads,          \* worker slots of the TorrentManager
  Steady,           \* slots whose peer is a responsive, honest seed
  DiskMayFail,      \* whether write_piece may throw
  MaxHashFailures   \* bound on the corrupted pieces received

ASSUME ThreadsAssumption == Steady \subseteq Threads
ASSUME DiskAssumption == DiskMayFail \in BOOLEAN
ASSUME FailuresAssumption == IsFiniteSet(Threads) /\ MaxHashFailures \in Nat

VARIABLES
  pc,                         \* next access to the piece table
  idx,                        \* loop index of next_needed
  unwinding,                  \* an exception left run(); destructor next
  m_current_piece,            \* piece in flight, or NoPiece
  m_current_piece_exclusive,
  m_peer_choking,
  m_am_interested,
  m_peer_bitfield             \* pieces the peer is known to have

connectionVars == <<pc, idx, unwinding, m_current_piece,
                    m_current_piece_exclusive, m_peer_choking,
                    m_am_interested, m_peer_bitfield>>
vars == <<managerVars, connectionVars>>

NoPiece == -1

\* Labels: "closed" no connection, "recv" waiting for a message, "fill_have"
\* the check at the head of fill_requests, next_needed (nn_*, eg_* for its
\* endgame loop), complete_piece (cp_*) and abort_piece (ab_*).
Labels == {"closed", "recv", "fill_have", "nn_have", "nn_cas", "eg_have",
           "cp_have", "cp_rehave", "cp_cas", "cp_write", "cp_bytes",
           "cp_count", "ab_have", "ab_store"}

TypeOK ==
  /\ ManagerTypeOK
  /\ pc \in [Threads -> Labels]
  /\ idx \in [Threads -> Pieces]
  /\ unwinding \in [Threads -> BOOLEAN]
  /\ m_current_piece \in [Threads -> Pieces \cup {NoPiece}]
  /\ m_current_piece_exclusive \in [Threads -> BOOLEAN]
  /\ m_peer_choking \in [Threads -> BOOLEAN]
  /\ m_am_interested \in [Threads -> BOOLEAN]
  /\ m_peer_bitfield \in [Threads -> SUBSET Pieces]

Init ==
  /\ ManagerInit
  /\ pc = [t \in Threads |-> "closed"]
  /\ idx = [t \in Threads |-> 0]
  /\ unwinding = [t \in Threads |-> FALSE]
  /\ m_current_piece = [t \in Threads |-> NoPiece]
  /\ m_current_piece_exclusive = [t \in Threads |-> FALSE]
  /\ m_peer_choking = [t \in Threads |-> TRUE]
  /\ m_am_interested = [t \in Threads |-> FALSE]
  /\ m_peer_bitfield = [t \in Threads |-> {}]

-----------------------------------------------------------------------------
(* fill_requests up to its first access to the piece table.                 *)

\* The pieces of bf that the scan of next_needed has still to visit.
Offered(bf, from) == {j \in bf : j >= from}
Lowest(S) == CHOOSE j \in S : \A k \in S : j <= k

\* Fault: next_needed without its endgame loop.
ScanWithoutEndgame(t, label, bf, from) ==
  IF Offered(bf, from) # {}
  THEN /\ pc' = [pc EXCEPT ![t] = label]
       /\ idx' = [idx EXCEPT ![t] = Lowest(Offered(bf, from))]
  ELSE /\ pc' = [pc EXCEPT ![t] = "recv"]
       /\ idx' = [idx EXCEPT ![t] = 0]

\* The scan reaches the pieces of bf from index `from` in the loop that
\* `label` names; it ends in the endgame loop, and that one in recv.
ScanFrom(t, label, bf, from) ==
  IF Offered(bf, from) # {}
  THEN /\ pc' = [pc EXCEPT ![t] = label]
       /\ idx' = [idx EXCEPT ![t] = Lowest(Offered(bf, from))]
  ELSE IF label = "nn_have" /\ bf # {}
  THEN /\ pc' = [pc EXCEPT ![t] = "eg_have"]
       /\ idx' = [idx EXCEPT ![t] = Lowest(bf)]
  ELSE /\ pc' = [pc EXCEPT ![t] = "recv"]
       /\ idx' = [idx EXCEPT ![t] = 0]

GoTo(t, label) ==
  /\ pc' = [pc EXCEPT ![t] = label]
  /\ idx' = [idx EXCEPT ![t] = 0]

\* fill_requests as entered after a handler that leaves these field values.
fill_requests(t, choking, interested, bf, current) ==
  IF choking \/ ~interested THEN GoTo(t, "recv")
  ELSE IF current # NoPiece THEN GoTo(t, "fill_have")
  ELSE ScanFrom(t, "nn_have", bf, 0)

SetCurrent(t, piece, exclusive) ==
  /\ m_current_piece' = [m_current_piece EXCEPT ![t] = piece]
  /\ m_current_piece_exclusive' =
       [m_current_piece_exclusive EXCEPT ![t] = exclusive]

KeepCurrent == UNCHANGED <<m_current_piece, m_current_piece_exclusive>>
KeepFlags == UNCHANGED <<unwinding, m_peer_choking, m_am_interested,
                         m_peer_bitfield>>

\* A handler drops m_current_piece and run() goes on to fill_requests.
DropAndFill(t) ==
  /\ SetCurrent(t, NoPiece, FALSE)
  /\ fill_requests(t, m_peer_choking[t], m_am_interested[t],
                   m_peer_bitfield[t], NoPiece)
  /\ KeepFlags

-----------------------------------------------------------------------------
(* Messages.  Each handler below runs in a thread waiting in recv.          *)

\* A worker slot gets a new peer: constructor, connect and handshake.
Connect(t) ==
  /\ pc[t] = "closed"
  /\ GoTo(t, "recv")
  /\ UNCHANGED managerVars /\ KeepCurrent /\ KeepFlags

\* Fault: interest is never sent.
LearnWithoutInterest(t, pieces, checked) ==
  /\ pc[t] = "recv"
  /\ m_peer_bitfield' = [m_peer_bitfield EXCEPT ![t] = @ \cup pieces]
  /\ fill_requests(t, m_peer_choking[t], m_am_interested[t],
                   m_peer_bitfield[t] \cup pieces, m_current_piece[t])
  /\ UNCHANGED <<managerVars, unwinding, m_peer_choking, m_am_interested>>
  /\ KeepCurrent

\* handle_bitfield and handle_have: the pieces are added, interest is sent if
\* one of `checked` is missing here, and fill_requests follows.
Learn(t, pieces, checked) ==
  LET bf == m_peer_bitfield[t] \cup pieces
      interested == m_am_interested[t] \/ \E i \in checked : ~m_have[i]
  IN  /\ pc[t] = "recv"
      /\ m_peer_bitfield' = [m_peer_bitfield EXCEPT ![t] = bf]
      /\ m_am_interested' = [m_am_interested EXCEPT ![t] = interested]
      /\ fill_requests(t, m_peer_choking[t], interested, bf,
                       m_current_piece[t])
      /\ UNCHANGED <<managerVars, unwinding, m_peer_choking>>
      /\ KeepCurrent

handle_bitfield(t, pieces) ==
  Learn(t, pieces, m_peer_bitfield[t] \cup pieces)

handle_have(t, i) == Learn(t, {i}, {i})

handle_unchoke(t) ==
  /\ pc[t] = "recv"
  /\ m_peer_choking' = [m_peer_choking EXCEPT ![t] = FALSE]
  /\ fill_requests(t, FALSE, m_am_interested[t], m_peer_bitfield[t],
                   m_current_piece[t])
  /\ UNCHANGED <<managerVars, unwinding, m_am_interested, m_peer_bitfield>>
  /\ KeepCurrent

\* Fault: a choke releases the claim of an endgame piece too.
ChokeReleasesAny(t) ==
  /\ pc[t] = "recv"
  /\ t \notin Steady
  /\ m_peer_choking' = [m_peer_choking EXCEPT ![t] = TRUE]
  /\ IF m_current_piece[t] # NoPiece
     THEN GoTo(t, "ab_have") /\ KeepCurrent
     ELSE GoTo(t, "recv") /\ SetCurrent(t, NoPiece, FALSE)
  /\ UNCHANGED <<managerVars, unwinding, m_am_interested, m_peer_bitfield>>

\* Fault: the piece in flight is kept.
ChokeKeepsPiece(t) ==
  /\ pc[t] = "recv"
  /\ t \notin Steady
  /\ m_peer_choking' = [m_peer_choking EXCEPT ![t] = TRUE]
  /\ GoTo(t, "recv") /\ KeepCurrent
  /\ UNCHANGED <<managerVars, unwinding, m_am_interested, m_peer_bitfield>>

\* The piece in flight is given up; only an exclusive one has a claim to
\* release, by abort_piece.
handle_choke(t) ==
  /\ pc[t] = "recv"
  /\ t \notin Steady
  /\ m_peer_choking' = [m_peer_choking EXCEPT ![t] = TRUE]
  /\ IF m_current_piece_exclusive[t]
     THEN GoTo(t, "ab_have") /\ KeepCurrent
     ELSE GoTo(t, "recv") /\ SetCurrent(t, NoPiece, FALSE)
  /\ UNCHANGED <<managerVars, unwinding, m_am_interested, m_peer_bitfield>>

\* handle_piece for the block that completes m_current_piece.
ReceiveLastBlock(t) ==
  /\ pc[t] = "recv"
  /\ m_current_piece[t] # NoPiece
  /\ GoTo(t, "cp_have")
  /\ UNCHANGED managerVars /\ KeepCurrent /\ KeepFlags

\* Any other message (a block that leaves the piece incomplete, a stale one,
\* Interested, NotInterested, Request, Cancel): only fill_requests matters.
ReceiveOther(t) ==
  /\ pc[t] = "recv"
  /\ fill_requests(t, m_peer_choking[t], m_am_interested[t],
                   m_peer_bitfield[t], m_current_piece[t])
  /\ UNCHANGED managerVars /\ KeepCurrent /\ KeepFlags

\* The PeerConnection is gone; its fields take the values a new one has.
Close(t) ==
  /\ GoTo(t, "closed")
  /\ SetCurrent(t, NoPiece, FALSE)
  /\ unwinding' = [unwinding EXCEPT ![t] = FALSE]
  /\ m_peer_choking' = [m_peer_choking EXCEPT ![t] = TRUE]
  /\ m_am_interested' = [m_am_interested EXCEPT ![t] = FALSE]
  /\ m_peer_bitfield' = [m_peer_bitfield EXCEPT ![t] = {}]

\* run() is left by an exception and ~PeerConnection starts.
Unwind(t) ==
  /\ IF m_current_piece_exclusive[t]
     THEN /\ GoTo(t, "ab_have") /\ KeepCurrent
          /\ unwinding' = [unwinding EXCEPT ![t] = TRUE]
          /\ UNCHANGED <<m_peer_choking, m_am_interested, m_peer_bitfield>>
     ELSE Close(t)

\* recv fails: 120 s without a message, EOF, a malformed message, cancel().
Disconnect(t) ==
  /\ pc[t] = "recv"
  /\ t \notin Steady
  /\ Unwind(t)
  /\ UNCHANGED managerVars

-----------------------------------------------------------------------------
(* fill_requests and next_needed.                                           *)

\* The piece in flight was finished by another thread: drop it.
FillHave(t) ==
  /\ pc[t] = "fill_have"
  /\ IF m_have[m_current_piece[t]]
     THEN DropAndFill(t)
     ELSE GoTo(t, "recv") /\ KeepCurrent /\ KeepFlags
  /\ UNCHANGED managerVars

NextNeededHave(t) ==
  /\ pc[t] = "nn_have"
  /\ IF m_have[idx[t]]
     THEN ScanFrom(t, "nn_have", m_peer_bitfield[t], idx[t] + 1)
     ELSE pc' = [pc EXCEPT ![t] = "nn_cas"] /\ UNCHANGED idx
  /\ UNCHANGED managerVars /\ KeepCurrent /\ KeepFlags

NextNeededClaim(t) ==
  /\ pc[t] = "nn_cas"
  /\ \/ /\ TryClaim(idx[t])
        /\ SetCurrent(t, idx[t], TRUE)
        /\ GoTo(t, "recv")
     \/ /\ m_claimed[idx[t]]
        /\ ScanFrom(t, "nn_have", m_peer_bitfield[t], idx[t] + 1)
        /\ UNCHANGED managerVars /\ KeepCurrent
  /\ KeepFlags

EndgameHave(t) ==
  /\ pc[t] = "eg_have"
  /\ IF m_have[idx[t]]
     THEN ScanFrom(t, "eg_have", m_peer_bitfield[t], idx[t] + 1)
          /\ KeepCurrent
     ELSE GoTo(t, "recv") /\ SetCurrent(t, idx[t], FALSE)
  /\ UNCHANGED managerVars /\ KeepFlags

-----------------------------------------------------------------------------
(* complete_piece and abort_piece.                                          *)

\* The budget of corrupted pieces, those about to be counted included.
MayCorrupt(t) ==
  /\ t \notin Steady
  /\ m_piece_hash_failures + Cardinality({u \in Threads : pc[u] = "cp_rehave"})
       < MaxHashFailures

\* The first load of m_have, and the outcome of SHA-1 if it is needed.
CompleteHave(t) ==
  /\ pc[t] = "cp_have"
  /\ \/ m_have[m_current_piece[t]] /\ DropAndFill(t)
     \/ /\ ~m_have[m_current_piece[t]]
        /\ GoTo(t, "cp_cas") \/ (MayCorrupt(t) /\ GoTo(t, "cp_rehave"))
        /\ KeepCurrent /\ KeepFlags
  /\ UNCHANGED managerVars

\* SHA-1 mismatch: m_have is loaded again before the failure is counted.
CompleteRehave(t) ==
  /\ pc[t] = "cp_rehave"
  /\ IF m_have[m_current_piece[t]]
     THEN DropAndFill(t) /\ UNCHANGED managerVars
     ELSE /\ FailHash
          /\ IF m_current_piece_exclusive[t]
             THEN GoTo(t, "ab_have") /\ KeepCurrent /\ KeepFlags
             ELSE DropAndFill(t)

CompleteCas(t) ==
  /\ pc[t] = "cp_cas"
  /\ \/ /\ TryMarkHave(m_current_piece[t])
        /\ GoTo(t, "cp_write") /\ KeepCurrent /\ KeepFlags
     \/ /\ m_have[m_current_piece[t]]
        /\ DropAndFill(t) /\ UNCHANGED managerVars

\* write_piece returns, or throws out of complete_piece and of run().
CompleteWrite(t) ==
  /\ pc[t] = "cp_write"
  /\ \/ /\ StorePiece(m_current_piece[t])
        /\ GoTo(t, "cp_bytes") /\ KeepCurrent /\ KeepFlags
     \/ DiskMayFail /\ Unwind(t) /\ UNCHANGED managerVars

CompleteBytes(t) ==
  /\ pc[t] = "cp_bytes"
  /\ AddDownloadedBytes(m_current_piece[t])
  /\ GoTo(t, "cp_count") /\ KeepCurrent /\ KeepFlags

CompleteCount(t) ==
  /\ pc[t] = "cp_count"
  /\ AddCompleted
  /\ DropAndFill(t)

\* What follows abort_piece: the end of the destructor, or fill_requests.
AfterAbort(t) ==
  IF unwinding[t]
  THEN Close(t)
  ELSE DropAndFill(t)

AbortHave(t) ==
  /\ pc[t] = "ab_have"
  /\ IF m_have[m_current_piece[t]]
     THEN AfterAbort(t)
     ELSE GoTo(t, "ab_store") /\ KeepCurrent /\ KeepFlags
  /\ UNCHANGED managerVars

AbortStore(t) ==
  /\ pc[t] = "ab_store"
  /\ ReleaseClaim(m_current_piece[t])
  /\ AfterAbort(t)

-----------------------------------------------------------------------------
Receive(t) ==
  \/ \E S \in SUBSET Pieces : handle_bitfield(t, S)
  \/ \E i \in Pieces : handle_have(t, i)
  \/ handle_unchoke(t)
  \/ handle_choke(t)
  \/ ReceiveLastBlock(t)
  \/ ReceiveOther(t)
  \/ Disconnect(t)

\* The steps a thread takes without waiting for the network.
Compute(t) ==
  \/ FillHave(t)
  \/ NextNeededHave(t)
  \/ NextNeededClaim(t)
  \/ EndgameHave(t)
  \/ CompleteHave(t)
  \/ CompleteRehave(t)
  \/ CompleteCas(t)
  \/ CompleteWrite(t)
  \/ CompleteBytes(t)
  \/ CompleteCount(t)
  \/ AbortHave(t)
  \/ AbortStore(t)

Next == \E t \in Threads : Connect(t) \/ Receive(t) \/ Compute(t)

Spec == Init /\ [][Next]_vars

\* The scheduler runs every thread that is not waiting for the network, and a
\* Steady peer is connected, sends its complete bitfield, unchokes us and
\* answers requests: messages of the last two kinds keep coming, however many
\* others are in between (strong fairness).
Fairness ==
  /\ \A t \in Threads : WF_vars(Compute(t))
  /\ \A t \in Steady :
       /\ WF_vars(Connect(t))
       /\ SF_vars(handle_bitfield(t, Pieces))
       /\ SF_vars(handle_unchoke(t))
       /\ SF_vars(ReceiveLastBlock(t))

FairSpec == Spec /\ Fairness

-----------------------------------------------------------------------------
(* Properties.                                                              *)

\* Thread t has reserved piece i by the compare-and-swap of next_needed.
Owns(t, i) == m_current_piece[t] = i /\ m_current_piece_exclusive[t]

\* A reserved piece has one owner: exclusive is handed out by a
\* compare-and-swap and given back by abort_piece, which is not atomic, while
\* endgame threads work on the same piece.
ExclusiveOwner ==
  \A i \in Pieces : \A t, u \in Threads : Owns(t, i) /\ Owns(u, i) => t = u

\* A reservation never outlives its owner: a claimed piece that is not
\* finished is in flight in some connection, whatever chokes, hash failures
\* and disconnections happened, so next_needed never skips it for good.
ClaimHasOwner ==
  \A i \in Pieces : m_claimed[i] /\ ~m_have[i] => \E t \in Threads : Owns(t, i)

\* Thread t won the compare-and-swap on m_have and is on its way through
\* write_piece and the counters.
Writing(t) == pc[t] \in {"cp_write", "cp_bytes", "cp_count"}

\* A piece is written and counted by one thread, although in endgame several
\* hold a verified copy of it.
SingleWriter ==
  \A t, u \in Threads :
    /\ Writing(t) /\ Writing(u) /\ m_current_piece[t] = m_current_piece[u]
    => t = u

\* The pieces whose bytes were added, and those that were counted.
BytesAdded == {i \in written : \A t \in Threads :
                 m_current_piece[t] = i => pc[t] # "cp_bytes"}
Counted == {i \in BytesAdded : \A t \in Threads :
              m_current_piece[t] = i => pc[t] # "cp_count"}

\* m_completed_count is the number of pieces stored by threads that are past
\* complete_piece: no piece is counted twice, before it is on disk, or when
\* its write failed.
CountIsExact == m_completed_count = Cardinality(Counted)

\* is_complete, which ends the download and turns the client into a seed, is
\* true only when every piece is on disk and every byte is accounted for, so
\* that the number of bytes left that is announced to the tracker is 0.
CompleteMeansStored ==
  is_complete => /\ written = Pieces
                 /\ m_curr_downloaded_bytes = TotalLength

\* No byte is counted twice, not even by endgame threads that hold copies of
\* one piece: the clamp in announce (torrent_manager.cpp:421) that would hide
\* an over-count from the tracker never applies.
DownloadedWithinTotal == m_curr_downloaded_bytes <= TotalLength

\* The piece table as the rest of the program sees it.
At(i, labels) ==
  \E t \in Threads : m_current_piece[t] = i /\ pc[t] \in labels

AbstractPhase(i) ==
  CASE ~m_have[i] -> "missing"
    [] m_have[i] /\ i \notin written /\ At(i, {"cp_write"}) -> "accepted"
    [] m_have[i] /\ i \notin written /\ ~At(i, {"cp_write"}) -> "lost"
    [] m_have[i] /\ i \in written /\ At(i, {"cp_bytes", "cp_count"}) -> "stored"
    [] OTHER -> "counted"

Abstract == INSTANCE PieceStore WITH
              phase <- [i \in Pieces |-> AbstractPhase(i)],
              count <- m_completed_count

\* The lock-free protocol implements the sequential piece table: whatever the
\* threads do, each piece is accepted, written and counted once, in this
\* order.
ImplementsPieceStore == Abstract!StoreSpec

\* A connection that may request and waits without a piece in flight has
\* nothing to fetch: no schedule of claims and releases makes fill_requests
\* overlook a missing piece that the peer has.
NeverIdleWithWork ==
  \A t \in Threads :
    /\ pc[t] = "recv" /\ ~m_peer_choking[t] /\ m_am_interested[t]
    /\ m_current_piece[t] = NoPiece
    => \A i \in m_peer_bitfield[t] : m_have[i]

\* m_have is never taken back, and a claim on an unfinished piece is released
\* by its owner alone.
PieceSteps ==
  [][\A i \in Pieces :
       /\ m_have[i] => m_have'[i]
       /\ m_claimed[i] /\ ~m_claimed'[i] =>
            \E t \in Threads : Owns(t, i) /\ ~Owns(t, i)']_vars

\* One responsive seed is enough to finish the download, whatever the other
\* peers do with the pieces they claimed, unless a write failed and its piece
\* is lost.
EventuallyComplete ==
  <>[](is_complete \/ \E i \in Pieces : AbstractPhase(i) = "lost")

\* piece_manager.h:39-40: abort_piece "releases a claim so the piece can be
\* retried by any other peer".  A piece marked as present that is not on disk
\* is therefore still being written by a live thread.
NoStrandedPiece ==
  \A i \in Pieces : m_have[i] /\ i \notin written =>
    \E t \in Threads : pc[t] = "cp_write" /\ m_current_piece[t] = i
=============================================================================
