--------------------------- MODULE TorrentManager ---------------------------
(***************************************************************************)
(* The worker pool of one torrent (src/src/peer_wire/torrent_manager.cpp). *)
(* Worker i is the thread that tries the i-th peer of m_all_peers.  The    *)
(* critical sections of m_spawn_mu are single steps, except that           *)
(* spawn_peers_locked is taken an iteration at a time (spawner is the      *)
(* thread inside it), because m_stopped and the piece table change without *)
(* the lock.  ctl is the session's thread, which calls start() and stop(). *)
(***************************************************************************)
EXTENDS Integers, FiniteSets, Sequences

CONSTANTS
  Peers,        \* addresses the tracker and the DHT may report
  MaxWorkers,   \* k_max_concurrent_peers
  MaxUpload     \* bound on the blocks served by one connection

ASSUME PeersAssumption == IsFiniteSet(Peers)
ASSUME WorkersAssumption == MaxWorkers \in Nat \ {0}
ASSUME UploadAssumption == MaxUpload \in Nat

VARIABLES
  m_all_peers,           \* sequence of addresses, without duplicates
  m_next_peer_index,     \* workers 1 .. m_next_peer_index were spawned
  m_workers_running,
  m_active_connections,  \* workers whose connection is registered
  m_stopped,
  m_tracker,             \* whether start() created the communicator
  m_peer_handshakes_ok,
  m_peer_handshake_failed,
  retired,     \* share of each connection in m_uploaded_bytes_retired
  uploaded,    \* bytes_uploaded() of each connection
  complete,    \* is_complete() of the piece table
  shut,        \* connections whose socket was shut down by cancel()
  wpc,         \* where worker i is
  spawner,     \* who holds m_spawn_mu between steps
  ctl,         \* where the session's thread is
  joined       \* stop() has joined the workers 1 .. joined

vars == <<m_all_peers, m_next_peer_index, m_workers_running,
          m_active_connections, m_stopped, m_tracker, m_peer_handshakes_ok,
          m_peer_handshake_failed, retired, uploaded, complete, shut, wpc,
          spawner, ctl, joined>>

Workers == 1 .. Cardinality(Peers)
Nobody == 0
StartCaller == -1
DhtCaller == -2

\* Where run_peer_worker is; "spawning" is on_peer_worker_finished inside
\* spawn_peers_locked.
Labels == {"none", "copy", "construct", "register", "connect", "handshake",
           "failed", "connected", "run", "unregister", "finish", "spawning",
           "done"}
Controls == {"new", "announcing", "append", "spawn", "up", "cancel", "join",
             "completed", "stopped", "down"}

TypeOK ==
  /\ m_all_peers \in Seq(Peers)
  /\ m_next_peer_index \in 0 .. Len(m_all_peers)
  /\ m_workers_running \in Nat
  /\ m_active_connections \subseteq Workers
  /\ m_stopped \in BOOLEAN
  /\ m_tracker \in BOOLEAN
  /\ m_peer_handshakes_ok \in Nat
  /\ m_peer_handshake_failed \in Nat
  /\ retired \in [Workers -> Nat]
  /\ uploaded \in [Workers -> Nat]
  /\ complete \in BOOLEAN
  /\ shut \subseteq Workers
  /\ wpc \in [Workers -> Labels]
  /\ spawner \in Workers \cup {Nobody, StartCaller, DhtCaller}
  /\ ctl \in Controls
  /\ joined \in 0 .. m_next_peer_index

Init ==
  /\ m_all_peers = <<>>
  /\ m_next_peer_index = 0
  /\ m_workers_running = 0
  /\ m_active_connections = {}
  /\ m_stopped = FALSE
  /\ m_tracker = FALSE
  /\ m_peer_handshakes_ok = 0
  /\ m_peer_handshake_failed = 0
  /\ retired = [i \in Workers |-> 0]
  /\ uploaded = [i \in Workers |-> 0]
  /\ complete = FALSE
  /\ shut = {}
  /\ wpc = [i \in Workers |-> "none"]
  /\ spawner = Nobody
  /\ ctl = "new"
  /\ joined = 0

poolVars == <<m_all_peers, m_next_peer_index, m_workers_running>>
statVars == <<m_peer_handshakes_ok, m_peer_handshake_failed>>
uploadVars == <<retired, uploaded>>
workVars == <<poolVars, m_active_connections, statVars, uploadVars, complete,
              wpc, spawner>>
stopVars == <<m_stopped, m_tracker, shut, ctl, joined>>
GoTo(i, label) == wpc' = [wpc EXCEPT ![i] = label]

-----------------------------------------------------------------------------
(* append_unique_peers and spawn_peers_locked, under m_spawn_mu.            *)

append_unique(list, peer) ==
  IF \E i \in 1 .. Len(list) : list[i] = peer THEN list ELSE Append(list, peer)

\* Fault: the loop does not look at m_stopped.
MaySpawnStopped ==
  /\ m_workers_running < MaxWorkers
  /\ m_next_peer_index < Len(m_all_peers)
  /\ ~complete

\* Fault: one worker too many.
MaySpawnOneMore ==
  /\ ~m_stopped
  /\ m_workers_running <= MaxWorkers
  /\ m_next_peer_index < Len(m_all_peers)
  /\ ~complete

\* The condition of the loop and the break inside it.
MaySpawn ==
  /\ ~m_stopped
  /\ m_workers_running < MaxWorkers
  /\ m_next_peer_index < Len(m_all_peers)
  /\ ~complete

SpawnOne ==
  /\ spawner # Nobody /\ ctl # "append"
  /\ MaySpawn
  /\ m_next_peer_index' = m_next_peer_index + 1
  /\ m_workers_running' = m_workers_running + 1
  /\ GoTo(m_next_peer_index + 1, "copy")
  /\ UNCHANGED <<m_all_peers, m_active_connections, statVars, uploadVars,
                 complete, spawner, stopVars>>

\* The loop ends, its caller releases m_spawn_mu and returns.
SpawnDone ==
  /\ spawner # Nobody /\ ctl # "append"
  /\ ~MaySpawn
  /\ spawner' = Nobody
  /\ wpc' = IF spawner \in Workers THEN [wpc EXCEPT ![spawner] = "done"]
             ELSE wpc
  /\ ctl' = IF spawner = StartCaller THEN "up" ELSE ctl
  /\ UNCHANGED <<poolVars, m_active_connections, statVars, uploadVars,
                 complete, m_stopped, m_tracker, shut, joined>>

-----------------------------------------------------------------------------
(* start(), add_dht_peer() and stop().                                      *)

\* start() up to the announce, which runs outside the lock.
Start ==
  /\ ctl = "new" /\ spawner # DhtCaller
  /\ ctl' = "announcing"
  /\ m_tracker' = TRUE
  /\ UNCHANGED <<workVars, m_stopped, shut, joined>>

\* create_communicator or preallocate_files throws out of start(): the DHT may
\* still bring peers, and the destructor of the session stops the torrent.
StartThrows ==
  /\ ctl = "new" /\ spawner # DhtCaller
  /\ ctl' = "up"
  /\ m_tracker' \in BOOLEAN
  /\ UNCHANGED <<workVars, m_stopped, shut, joined>>

\* The answer is in, or the error that stands for an empty one: m_spawn_mu.
StartLock ==
  /\ ctl = "announcing" /\ spawner = Nobody
  /\ ctl' = "append"
  /\ spawner' = StartCaller
  /\ UNCHANGED <<poolVars, m_active_connections, statVars, uploadVars,
                 complete, wpc, m_stopped, m_tracker, shut, joined>>

\* append_unique_peers for one address of the answer.
StartAppend(peer) ==
  /\ ctl = "append"
  /\ m_all_peers' = append_unique(m_all_peers, peer)
  /\ UNCHANGED <<m_next_peer_index, m_workers_running, m_active_connections,
                 statVars, uploadVars, complete, wpc, spawner, stopVars>>

\* Without any peer spawn_peers_locked, which would do nothing, is not called.
StartSpawn ==
  /\ ctl = "append"
  /\ ctl' = "spawn"
  /\ UNCHANGED <<workVars, m_stopped, m_tracker, shut, joined>>

\* The DHT callback.  It holds the session's m_mutex, as start_all and the
\* stop() calls of stop_all do, but a node that announces our torrent to the
\* DHT may trigger it before start().
add_dht_peer(peer) ==
  /\ ctl \in {"new", "up"} /\ spawner = Nobody
  /\ append_unique(m_all_peers, peer) # m_all_peers
  /\ m_all_peers' = append_unique(m_all_peers, peer)
  /\ spawner' = DhtCaller
  /\ UNCHANGED <<m_next_peer_index, m_workers_running, m_active_connections,
                 statVars, uploadVars, complete, wpc, stopVars>>

\* m_stopped.exchange(true).  The session lets a callback finish first.
Stop ==
  /\ ctl \in {"new", "up"} /\ spawner # DhtCaller
  /\ m_stopped' = TRUE
  /\ ctl' = "cancel"
  /\ UNCHANGED <<workVars, m_tracker, shut, joined>>

\* Fault: stop() forgets to cancel the connections.
CancelsNobody == {}

\* The shutdown of a socket that is not connected yet is lost ("the socket may
\* not be connected yet").
Cancels == {i \in m_active_connections : wpc[i] # "connect"}

Cancel ==
  /\ ctl = "cancel" /\ spawner = Nobody
  /\ shut' = shut \cup Cancels
  /\ ctl' = "join"
  /\ UNCHANGED <<workVars, m_stopped, m_tracker, joined>>

AllJoined == joined = m_next_peer_index

\* An iteration of the loop over m_threads, which is read without the lock.
\* At its end the tracker is told, if start() created one.
Join ==
  /\ ctl = "join"
  /\ IF AllJoined
     THEN /\ ctl' = IF m_tracker THEN "completed" ELSE "down"
          /\ UNCHANGED joined
     ELSE /\ wpc[joined + 1] = "done"
          /\ joined' = joined + 1
          /\ UNCHANGED ctl
  /\ UNCHANGED <<workVars, m_stopped, m_tracker, shut>>

\* The event is sent if the download is complete by now; an announce returns
\* whatever the tracker does (TrackerCommunicator, over UDP and plain HTTP).
AnnounceCompleted ==
  /\ ctl = "completed"
  /\ ctl' = "stopped"
  /\ UNCHANGED <<workVars, m_stopped, m_tracker, shut, joined>>

AnnounceStopped ==
  /\ ctl = "stopped"
  /\ ctl' = "down"
  /\ UNCHANGED <<workVars, m_stopped, m_tracker, shut, joined>>

-----------------------------------------------------------------------------
(* run_peer_worker.                                                         *)

\* A step that changes nothing but the place of the worker.
Moves(i, from, to) ==
  /\ wpc[i] = from
  /\ GoTo(i, to)
  /\ UNCHANGED <<poolVars, m_active_connections, statVars, uploadVars,
                 complete, spawner, stopVars>>

\* The peer is copied under the lock; a missing one ends the worker.
CopyPeer(i) ==
  /\ spawner = Nobody
  /\ Moves(i, "copy", IF i > Len(m_all_peers) THEN "finish" ELSE "construct")

CountFailure ==
  /\ m_peer_handshake_failed' = m_peer_handshake_failed + 1
  /\ UNCHANGED m_peer_handshakes_ok

\* The constructor creates the socket; the outer handler catches its failure.
Construct(i) ==
  /\ wpc[i] = "construct"
  /\ \/ GoTo(i, "register") /\ UNCHANGED statVars
     \/ GoTo(i, "finish") /\ CountFailure
  /\ UNCHANGED <<poolVars, m_active_connections, uploadVars, complete,
                 spawner, stopVars>>

Register(i) ==
  /\ wpc[i] = "register" /\ spawner = Nobody
  /\ m_active_connections' = m_active_connections \cup {i}
  /\ GoTo(i, "connect")
  /\ UNCHANGED <<poolVars, statVars, uploadVars, complete, spawner, stopVars>>

\* conn.connect(): the TCP connection, then the handshake and the bitfield.
\* Both have timeouts, and either may fail, shut down or not.
TcpConnect(i) ==
  Moves(i, "connect", "handshake") \/ Moves(i, "connect", "failed")

Handshake(i) ==
  /\ wpc[i] = "handshake"
  /\ \/ /\ GoTo(i, "connected")
        /\ m_peer_handshakes_ok' = m_peer_handshakes_ok + 1
     \/ GoTo(i, "failed") /\ UNCHANGED m_peer_handshakes_ok
  /\ UNCHANGED <<poolVars, m_active_connections, m_peer_handshake_failed,
                 uploadVars, complete, spawner, stopVars>>

AfterHandshake == IF m_stopped THEN "unregister" ELSE "run"

EnterRun(i) == Moves(i, "connected", AfterHandshake)

\* run() serves a block; only the piece table knows what it downloads.
ServeBlock(i) ==
  /\ wpc[i] = "run"
  /\ uploaded[i] < MaxUpload
  /\ uploaded' = [uploaded EXCEPT ![i] = @ + 1]
  /\ UNCHANGED <<poolVars, m_active_connections, statVars, retired, complete,
                 wpc, spawner, stopVars>>

LastPieceDone(i) ==
  /\ wpc[i] = "run"
  /\ ~complete
  /\ complete' = TRUE
  /\ UNCHANGED <<poolVars, m_active_connections, statVars, uploadVars,
                 wpc, spawner, stopVars>>

\* run() is only left by an exception: the peer is gone or the socket shut.
RunFails(i) == Moves(i, "run", "unregister")

\* Fault: the totals of the connection are lost with it.
UnregisterWithoutFolding(i) ==
  /\ m_active_connections' = m_active_connections \ {i}
  /\ UNCHANGED uploadVars

\* Fault: the connection stays registered.
UnregisterForgotten(i) ==
  /\ retired' = [retired EXCEPT ![i] = @ + uploaded[i]]
  /\ UNCHANGED <<m_active_connections, uploaded>>

unregister(i) ==
  /\ m_active_connections' = m_active_connections \ {i}
  /\ retired' = [retired EXCEPT ![i] = @ + uploaded[i]]
  /\ UNCHANGED uploaded

ConnectFailed(i) ==
  /\ wpc[i] = "failed" /\ spawner = Nobody
  /\ unregister(i)
  /\ CountFailure
  /\ GoTo(i, "finish")
  /\ UNCHANGED <<poolVars, complete, spawner, stopVars>>

Unregister(i) ==
  /\ wpc[i] = "unregister" /\ spawner = Nobody
  /\ unregister(i)
  /\ GoTo(i, "finish")
  /\ UNCHANGED <<poolVars, statVars, complete, spawner, stopVars>>

\* Fault: the end of a worker does not start the next one.
FinishOnly(i) == spawner' = Nobody /\ GoTo(i, "done")

EnterSpawn(i) == spawner' = i /\ GoTo(i, "spawning")

on_peer_worker_finished(i) ==
  /\ wpc[i] = "finish" /\ spawner = Nobody
  /\ m_workers_running' = IF m_workers_running > 0 THEN m_workers_running - 1
                          ELSE m_workers_running
  /\ EnterSpawn(i)
  /\ UNCHANGED <<m_all_peers, m_next_peer_index, m_active_connections,
                 statVars, uploadVars, complete, stopVars>>

-----------------------------------------------------------------------------
Session ==
  \/ Start
  \/ StartThrows
  \/ StartLock
  \/ \E peer \in Peers : StartAppend(peer)
  \/ StartSpawn
  \/ Stop
  \/ Cancel
  \/ Join
  \/ AnnounceCompleted
  \/ AnnounceStopped

\* The steps of a worker outside run(), each of bounded duration.
WorkerStep(i) ==
  \/ CopyPeer(i)
  \/ Construct(i)
  \/ Register(i)
  \/ TcpConnect(i)
  \/ Handshake(i)
  \/ EnterRun(i)
  \/ ConnectFailed(i)
  \/ Unregister(i)
  \/ on_peer_worker_finished(i)

\* The torrent has been stopped and nothing is left to do.
Terminated == ctl = "down" /\ spawner = Nobody /\ UNCHANGED vars

Next ==
  \/ Session
  \/ SpawnOne
  \/ SpawnDone
  \/ \E peer \in Peers : add_dht_peer(peer)
  \/ \E i \in Workers :
       WorkerStep(i) \/ ServeBlock(i) \/ LastPieceDone(i) \/ RunFails(i)
  \/ Terminated

Spec == Init /\ [][Next]_vars

\* Threads run, connect and the handshake time out, and recv on a socket that
\* was shut down fails.  A connection that was not shut down may stay in run()
\* for ever.
Fairness ==
  /\ WF_vars(Cancel) /\ WF_vars(Join)
  /\ WF_vars(AnnounceCompleted) /\ WF_vars(AnnounceStopped)
  /\ WF_vars(SpawnOne \/ SpawnDone)
  /\ \A i \in Workers :
       WF_vars(WorkerStep(i)) /\ WF_vars(i \in shut /\ RunFails(i))

FairSpec == Spec /\ Fairness

-----------------------------------------------------------------------------
(* Properties.                                                              *)

Busy == {i \in Workers : wpc[i] \notin {"none", "spawning", "done"}}

\* The pool never exceeds k_max_concurrent_peers, and m_workers_running, which
\* three kinds of threads change, counts the workers that have not finished.
WorkersAreCounted ==
  /\ m_workers_running <= MaxWorkers
  /\ m_workers_running = Cardinality(Busy)

\* Outside the lock a free slot and an untried peer never coexist while the
\* download goes on: spawn_peers_locked was called after each event that could
\* make room or work.
NoIdleSlot ==
  spawner = Nobody /\ ~m_stopped /\ ~complete =>
    \/ m_workers_running = MaxWorkers
    \/ m_next_peer_index = Len(m_all_peers)

\* A pointer in m_active_connections, which stop() and the status thread
\* follow, refers to a connection that has not been destroyed, on every path
\* out of run_peer_worker.
NoDanglingConnection ==
  \A i \in m_active_connections :
    wpc[i] \in {"connect", "handshake", "failed", "connected", "run",
                "unregister"}

\* uploaded_bytes(), the sum over the registered connections and the retired
\* total, counts what each connection served exactly once, before, while and
\* after it closes.
UploadTotalsExact ==
  \A i \in Workers :
    retired[i] + (IF i \in m_active_connections THEN uploaded[i] ELSE 0)
      = uploaded[i]

\* Once stop() starts to join, each connection inside run() has been shut
\* down: one that cancel() was too early for, or that was not registered yet,
\* sees m_stopped and never enters run().
StopReachesRunners ==
  ctl \in {"join", "completed", "stopped", "down"} =>
    \A i \in Workers : wpc[i] = "run" => i \in shut

\* stop() iterates over m_threads without the lock: no thread is added to it
\* from then on.
ThreadsFixedWhileJoining ==
  [][(ctl \in {"join", "completed", "stopped", "down"}) =>
       UNCHANGED m_next_peer_index]_vars

\* stop() returns: no connection, and no worker that is spawned or that
\* registers while stop() runs, keeps it waiting.
StopTerminates == m_stopped ~> ctl = "down"
=============================================================================
