----------------------------- MODULE DiskWriter -----------------------------
(***************************************************************************)
(* Pieces on disk (src/src/peer_wire/disk_writer.cpp).  The torrent is one *)
(* string of bytes that its files cut at other places than its pieces do.  *)
(* Peer threads write and read pieces; a call locks every file the piece   *)
(* touches, one after the other, and then goes through the files.          *)
(*                                                                         *)
(* The content of a byte is the position in the torrent it was meant for,  *)
(* or Zero as preallocated.  An operation of the file system on one file   *)
(* is one step and may fail; a failed write leaves a part of its bytes.    *)
(***************************************************************************)
EXTENDS Integers, Sequences, FiniteSets, FiniteSetsExt

CONSTANTS
  Threads,        \* threads that write and read pieces
  Layouts,        \* sequences of file lengths, for the choice of a torrent
  PieceSizes,     \* piece sizes, likewise
  DiskMayFail     \* file system operations may fail

ASSUME LayoutAssumption ==
  /\ \A layout \in Layouts : layout \in Seq(Nat)
  /\ PieceSizes \subseteq Nat \ {0}
ASSUME DiskAssumption == DiskMayFail \in BOOLEAN

VARIABLES
  m_files,               \* [offset, length] of each file
  m_piece_size,
  m_files_preallocated,
  created,               \* number of files preallocate_files has created
  disk,                  \* content of every byte of every file
  pc,                    \* "idle", "lock" (acquiring) or "io" of each thread
  op,                    \* the call: "write" or "read", and its piece
  index,
  locks,                 \* files whose mutex the thread holds
  file,                  \* next file of the loop
  offset, remaining,     \* write_offset or read_offset, and remaining
  out,                   \* bytes read so far
  done,                  \* pieces whose write_piece returned
  damaged                \* pieces whose write_piece threw midway

layoutVars == <<m_files, m_piece_size>>
callVars == <<pc, op, index, locks, file, offset, remaining, out>>
vars == <<layoutVars, m_files_preallocated, created, disk, callVars, done,
          damaged>>

Zero == -1

-----------------------------------------------------------------------------
(* Layout.                                                                  *)

Files == 1 .. Len(m_files)
EndOf(f) == m_files[f].offset + m_files[f].length
m_total_size == EndOf(Len(m_files))

\* The offsets that the constructor counts up to.
running_offset(lengths) ==
  LET before[n \in 1 .. Len(lengths)] ==
        IF n = 1 THEN 0 ELSE before[n - 1] + lengths[n - 1]
  IN  before

\* The files of a torrent, one behind the other.
WithOffsets(lengths) ==
  [n \in 1 .. Len(lengths) |->
     [offset |-> running_offset(lengths)[n], length |-> lengths[n]]]

Pieces == {p \in 0 .. m_total_size - 1 : p * m_piece_size < m_total_size}

piece_global_offset(p) == p * m_piece_size

piece_length(p) ==
  Min({piece_global_offset(p) + m_piece_size, m_total_size})
    - piece_global_offset(p)

\* Fault: only files that lie inside the piece.
FilesInside(p) ==
  {f \in Files :
     /\ piece_global_offset(p) <= m_files[f].offset
     /\ piece_global_offset(p) + piece_length(p) >= EndOf(f)}

file_indices_for_piece(p) ==
  {f \in Files :
     /\ piece_global_offset(p) + piece_length(p) > m_files[f].offset
     /\ piece_global_offset(p) < EndOf(f)}

-----------------------------------------------------------------------------
Positions(f) == 0 .. m_files[f].length - 1
Bytes(p) == piece_global_offset(p) .. piece_global_offset(p) + piece_length(p) - 1

TypeOK ==
  /\ m_files \in Seq([offset : Nat, length : Nat])
  /\ m_piece_size \in PieceSizes
  /\ m_files_preallocated \in BOOLEAN
  /\ created \in 0 .. Len(m_files)
  /\ DOMAIN disk = Files
  /\ \A f \in Files : disk[f] \in [Positions(f) -> {Zero} \cup Nat]
  /\ pc \in [Threads -> {"idle", "lock", "io"}]
  /\ op \in [Threads -> {"write", "read"}]
  /\ index \in [Threads -> Pieces]
  /\ locks \in [Threads -> SUBSET Files]
  /\ file \in [Threads -> 1 .. Len(m_files) + 1]
  /\ offset \in [Threads -> Nat]
  /\ remaining \in [Threads -> Nat]
  /\ out \in [Threads -> Seq({Zero} \cup Nat)]
  /\ done \subseteq Pieces /\ damaged \subseteq Pieces

\* The constructor, which refuses an empty torrent.
Init ==
  /\ \E layout \in Layouts : m_files = WithOffsets(layout)
  /\ m_files # <<>> /\ m_total_size > 0
  /\ m_piece_size \in PieceSizes
  /\ m_files_preallocated = FALSE
  /\ created = 0
  /\ disk = [f \in Files |-> [b \in Positions(f) |-> Zero]]
  /\ pc = [t \in Threads |-> "idle"]
  /\ op = [t \in Threads |-> "read"]
  /\ index = [t \in Threads |-> 0]
  /\ locks = [t \in Threads |-> {}]
  /\ file = [t \in Threads |-> 1]
  /\ offset = [t \in Threads |-> 0]
  /\ remaining = [t \in Threads |-> 0]
  /\ out = [t \in Threads |-> <<>>]
  /\ done = {} /\ damaged = {}

-----------------------------------------------------------------------------
(* preallocate_files, in the thread that starts the torrent.                *)

\* A file is created, or emptied, and extended to its length.
CreateFile ==
  /\ ~m_files_preallocated
  /\ created < Len(m_files)
  /\ created' = created + 1
  /\ disk' = [disk EXCEPT ![created + 1] = [b \in DOMAIN @ |-> Zero]]
  /\ UNCHANGED <<layoutVars, m_files_preallocated, callVars, done, damaged>>

FinishPreallocation ==
  /\ ~m_files_preallocated
  /\ created = Len(m_files)
  /\ m_files_preallocated' = TRUE
  /\ UNCHANGED <<layoutVars, created, disk, callVars, done, damaged>>

-----------------------------------------------------------------------------
(* write_piece and read_piece.                                              *)

\* Fault: a call does not wait for preallocate_files.
EnsureNothing == TRUE

ensure_preallocated == m_files_preallocated

\* A call that gets past ensure_preallocated; one that does not throws and
\* leaves no trace.  The data of a write has the length of the piece.
Call(t, o, p) ==
  /\ pc[t] = "idle"
  /\ ensure_preallocated
  /\ pc' = [pc EXCEPT ![t] = "lock"]
  /\ op' = [op EXCEPT ![t] = o]
  /\ index' = [index EXCEPT ![t] = p]
  /\ file' = [file EXCEPT ![t] = 1]
  /\ offset' = [offset EXCEPT ![t] = piece_global_offset(p)]
  /\ remaining' = [remaining EXCEPT ![t] = piece_length(p)]
  /\ out' = [out EXCEPT ![t] = <<>>]
  /\ UNCHANGED <<layoutVars, m_files_preallocated, created, disk, locks, done,
                 damaged>>

\* Files the thread still has to lock.
Wanted(t) == file_indices_for_piece(index[t]) \ locks[t]

\* Fault: readers lock from the last file down.
NextLockByOp(t) == IF op[t] = "read" THEN Max(Wanted(t)) ELSE Min(Wanted(t))

NextLock(t) == Min(Wanted(t))

MutexFree(f) == \A u \in Threads : f \notin locks[u]

Lock(t) ==
  /\ pc[t] = "lock"
  /\ Wanted(t) # {}
  /\ MutexFree(NextLock(t))
  /\ locks' = [locks EXCEPT ![t] = @ \cup {NextLock(t)}]
  /\ UNCHANGED <<layoutVars, m_files_preallocated, created, disk, pc, op,
                 index, file, offset, remaining, out, done, damaged>>

BeginIo(t) ==
  /\ pc[t] = "lock"
  /\ Wanted(t) = {}
  /\ pc' = [pc EXCEPT ![t] = "io"]
  /\ UNCHANGED <<layoutVars, m_files_preallocated, created, disk, op, index,
                 locks, file, offset, remaining, out, done, damaged>>

InLoop(t) == pc[t] = "io" /\ file[t] \in Files /\ remaining[t] > 0
Skips(t) == offset[t] >= EndOf(file[t])

Breaks(t) == offset[t] + remaining[t] <= m_files[file[t]].offset
Touches(t) == InLoop(t) /\ ~Skips(t) /\ ~Breaks(t)

StartInFile(t) == Max({offset[t] - m_files[file[t]].offset, 0})

Chunk(t) == Min({remaining[t], m_files[file[t]].length - StartInFile(t)})

\* The positions in the file of the first n bytes of a chunk.
Span(t, n) == StartInFile(t) .. StartInFile(t) + n - 1

SkipFile(t) ==
  /\ InLoop(t) /\ Skips(t)
  /\ file' = [file EXCEPT ![t] = @ + 1]
  /\ UNCHANGED <<layoutVars, m_files_preallocated, created, disk, pc, op,
                 index, locks, offset, remaining, out, done, damaged>>

\* The file with the first n bytes of the chunk in it.
Store(t, n) ==
  disk' = [disk EXCEPT ![file[t]] =
             [b \in DOMAIN @ |-> IF b \in Span(t, n)
                                 THEN offset[t] + b - StartInFile(t) ELSE @[b]]]

Advance(t) ==
  /\ file' = [file EXCEPT ![t] = @ + 1]
  /\ offset' = [offset EXCEPT ![t] = @ + Chunk(t)]
  /\ remaining' = [remaining EXCEPT ![t] = @ - Chunk(t)]

WriteChunk(t) ==
  /\ op[t] = "write" /\ Touches(t)
  /\ Store(t, Chunk(t))
  /\ Advance(t)
  /\ UNCHANGED <<layoutVars, m_files_preallocated, created, pc, op, index,
                 locks, out, done, damaged>>

ReadChunk(t) ==
  /\ op[t] = "read" /\ Touches(t)
  /\ out' = [out EXCEPT ![t] =
               @ \o [i \in 1 .. Chunk(t) |->
                       disk[file[t]][StartInFile(t) + i - 1]]]
  /\ Advance(t)
  /\ UNCHANGED <<layoutVars, m_files_preallocated, created, disk, pc, op,
                 index, locks, done, damaged>>

\* The locks are released and the locals are gone.
Return(t) ==
  /\ pc' = [pc EXCEPT ![t] = "idle"]
  /\ op' = [op EXCEPT ![t] = "read"]
  /\ index' = [index EXCEPT ![t] = 0]
  /\ locks' = [locks EXCEPT ![t] = {}]
  /\ file' = [file EXCEPT ![t] = 1]
  /\ offset' = [offset EXCEPT ![t] = 0]
  /\ remaining' = [remaining EXCEPT ![t] = 0]
  /\ out' = [out EXCEPT ![t] = <<>>]
  /\ UNCHANGED <<layoutVars, m_files_preallocated, created>>

\* An operation on a file fails and the call throws.
Throw(t) ==
  /\ DiskMayFail /\ Touches(t)
  /\ IF op[t] = "write"
     THEN /\ \E n \in 0 .. Chunk(t) : Store(t, n)
          /\ damaged' = damaged \cup {index[t]}
     ELSE UNCHANGED <<disk, damaged>>
  /\ Return(t)
  /\ UNCHANGED done

LoopEnds(t) ==
  /\ pc[t] = "io"
  /\ \/ remaining[t] = 0
     \/ file[t] \notin Files
     \/ InLoop(t) /\ Breaks(t) /\ ~Skips(t)

\* The call returns, or throws because the piece did not fit the files.
Finish(t) ==
  /\ LoopEnds(t)
  /\ done' = IF op[t] = "write" /\ remaining[t] = 0
             THEN done \cup {index[t]} ELSE done
  /\ Return(t)
  /\ UNCHANGED <<disk, damaged>>

Next ==
  \/ CreateFile \/ FinishPreallocation
  \/ \E t \in Threads :
       \/ \E p \in Pieces : Call(t, "write", p) \/ Call(t, "read", p)
       \/ Lock(t) \/ BeginIo(t)
       \/ SkipFile(t) \/ WriteChunk(t) \/ ReadChunk(t) \/ Throw(t)
       \/ Finish(t)

Spec == Init /\ [][Next]_vars

-----------------------------------------------------------------------------
(* Properties.                                                              *)

\* When write_piece has returned, the piece is on disk and stays there,
\* whatever is created, written next to it or fails afterwards.
DoneIsDurable ==
  \A p \in done : \A f \in Files : \A b \in Positions(f) :
    m_files[f].offset + b \in Bytes(p) => disk[f][b] = m_files[f].offset + b

\* read_piece returns a piece as a whole or as preallocated, never a mixture
\* of before and after a write, even when the piece spans files.
NoTornRead ==
  \A t \in Threads :
    /\ op[t] = "read" /\ LoopEnds(t)
    /\ index[t] \notin damaged
    => \/ out[t] = [i \in 1 .. piece_length(index[t]) |->
                      piece_global_offset(index[t]) + i - 1]
       \/ out[t] = [i \in 1 .. piece_length(index[t]) |-> Zero]

\* Not everyone waits for everyone: when calls are under way, one of them can
\* take its next step.
SomeCallProceeds ==
  (\E t \in Threads : pc[t] # "idle") =>
    \E t \in Threads :
      \/ pc[t] = "io"
      \/ pc[t] = "lock" /\ (Wanted(t) = {} \/ MutexFree(NextLock(t)))
=============================================================================
