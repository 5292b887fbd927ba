------------------------ MODULE TorrentManagerProofs ------------------------
(***************************************************************************)
(* Proofs about TorrentManager for any number of peers and slots, and      *)
(* about its announces (TrackerCommunicator): an announce over UDP returns *)
(* the answer to that announce, for any number of retransmissions,         *)
(* addresses and announces.                                                *)
(***************************************************************************)
EXTENDS TorrentManager, TrackerCommunicator, FiniteSetTheorems, TLAPS

-----------------------------------------------------------------------------
(* The inductive invariant.                                                 *)

Unopened == {"none", "copy", "construct", "register"}
Opened == {"connect", "handshake", "failed", "connected", "run", "unregister"}
Joining == {"join", "completed", "stopped", "down"}

\* A thread inside spawn_peers_locked is where it called it.
SpawnerWaits ==
  /\ ctl \in {"append", "spawn"} <=> spawner = StartCaller
  /\ \A i \in Workers : spawner = i => wpc[i] = "spawning"

\* Workers are spawned in the order of m_all_peers.
SpawnedPrefix == \A i \in Workers : i > m_next_peer_index => wpc[i] = "none"

\* A connection is registered from the end of its construction to its end.
Registered ==
  \A i \in Workers : i \in m_active_connections <=> wpc[i] \in Opened

\* stop() has set m_stopped before anything else it does.
StopIsFlagged == ctl \in {"cancel"} \cup Joining => m_stopped

\* A connection has served nothing before it is open, and nothing of it is in
\* the retired total before it is closed.
UploadsByPhase ==
  \A i \in Workers :
    /\ wpc[i] \in Unopened => uploaded[i] = 0
    /\ wpc[i] \in Unopened \cup Opened => retired[i] = 0
    /\ wpc[i] \notin Unopened \cup Opened => retired[i] = uploaded[i]

\* What append_unique_peers keeps up: no address is tried twice.
NoDuplicatePeers ==
  \A i, j \in 1 .. Len(m_all_peers) : m_all_peers[i] = m_all_peers[j] => i = j

IInv ==
  /\ TypeOK
  /\ SpawnerWaits
  /\ SpawnedPrefix
  /\ Registered
  /\ StopIsFlagged
  /\ StopReachesRunners
  /\ UploadsByPhase
  /\ NoDuplicatePeers
  /\ WorkersAreCounted
  /\ NoIdleSlot

-----------------------------------------------------------------------------
(* Workers and peers.                                                       *)

\* The number of workers is a natural number, and none of them has the number
\* of a caller that is not a worker.
LEMMA WorkersAreNumbered ==
  /\ Cardinality(Peers) \in Nat
  /\ IsFiniteSet(Workers)
  /\ Workers \subseteq Nat \ {0}
  /\ Nobody \notin Workers /\ StartCaller \notin Workers
  /\ DhtCaller \notin Workers
<1>1. Cardinality(Peers) \in Nat
  BY Zenon, PeersAssumption, FS_CardinalityType
<1>2. IsFiniteSet(1 .. Cardinality(Peers))
  BY <1>1, FS_Interval
<1>. QED
  BY <1>1, <1>2 DEF Workers, Nobody, StartCaller, DhtCaller

\* A list without duplicates has no more entries than there are peers, so
\* that each entry of m_all_peers has a worker of its own.
LEMMA ListFitsWorkers ==
  ASSUME m_all_peers \in Seq(Peers), NoDuplicatePeers
  PROVE  Len(m_all_peers) <= Cardinality(Peers)
<1>. DEFINE D == 1 .. Len(m_all_peers)
<1>1. Len(m_all_peers) \in Nat
  OBVIOUS
<1>2. IsFiniteSet(D) /\ Cardinality(D) = Len(m_all_peers)
  <2>. DEFINE len == Len(m_all_peers)
  <2>1. len \in Nat
    BY Zenon, <1>1
  <2>. HIDE DEF len
  <2>2. /\ IsFiniteSet(1 .. len)
        /\ Cardinality(1 .. len) = IF 1 > len THEN 0 ELSE len - 1 + 1
    BY <2>1, FS_Interval
  <2>. QED
    BY <2>1, <2>2 DEF len
<1>3. m_all_peers \in [D -> Peers]
  OBVIOUS
<1>4. m_all_peers \in Injection(D, Peers)
  BY Zenon, <1>3 DEF Injection, IsInjective, NoDuplicatePeers
<1>5. Cardinality(D) <= Cardinality(Peers)
  BY Zenon, <1>4, PeersAssumption, FS_Injection
<1>. QED
  BY Zenon, <1>2, <1>5

\* append_unique_peers adds an address at the end or leaves the list alone,
\* and introduces no duplicate.
LEMMA AppendKeepsUnique ==
  ASSUME m_all_peers \in Seq(Peers), NoDuplicatePeers, NEW peer \in Peers,
         m_all_peers' = append_unique(m_all_peers, peer)
  PROVE  /\ m_all_peers' \in Seq(Peers)
         /\ Len(m_all_peers) <= Len(m_all_peers')
         /\ NoDuplicatePeers'
<1>1. CASE \E i \in 1 .. Len(m_all_peers) : m_all_peers[i] = peer
  BY <1>1 DEF append_unique, NoDuplicatePeers
<1>2. CASE ~ \E i \in 1 .. Len(m_all_peers) : m_all_peers[i] = peer
  BY <1>2 DEF append_unique, NoDuplicatePeers
<1>. QED
  BY Zenon, <1>1, <1>2

-----------------------------------------------------------------------------
(* Each conjunct is preserved by every step.                                *)

\* Every field keeps its type; m_next_peer_index stays within the list because
\* the list only grows, and stop() does not join beyond it.
LEMMA TypeInvariant ==
  TypeOK /\ NoDuplicatePeers /\ [Next]_vars => TypeOK'
<1>. SUFFICES ASSUME TypeOK, NoDuplicatePeers, [Next]_vars
              PROVE  TypeOK'
  BY Zenon
<1>1. CASE SpawnOne
  <2>1. /\ m_next_peer_index' \in 0 .. Len(m_all_peers')
        /\ joined' \in 0 .. m_next_peer_index'
        /\ m_workers_running' \in Nat
    BY <1>1 DEF TypeOK, SpawnOne, MaySpawn, stopVars
  <2>2. wpc' \in [Workers -> Labels]
    BY Zenon, <1>1 DEF TypeOK, SpawnOne, GoTo, Labels
  <2>. QED
    BY Zenon, <1>1, <2>1, <2>2 DEF TypeOK, SpawnOne, uploadVars, statVars, stopVars
<1>2. CASE SpawnDone
  BY Zenon, <1>2 DEF TypeOK, SpawnDone, Labels, Controls, Nobody, poolVars,
              uploadVars, statVars
<1>3. ASSUME NEW peer \in Peers, StartAppend(peer) \/ add_dht_peer(peer)
      PROVE  TypeOK'
  <2>1. /\ m_all_peers' \in Seq(Peers)
        /\ Len(m_all_peers) <= Len(m_all_peers')
    BY Zenon, <1>3, AppendKeepsUnique DEF TypeOK, StartAppend, add_dht_peer
  <2>. QED
    BY <1>3, <2>1 DEF TypeOK, StartAppend, add_dht_peer, uploadVars, statVars,
                      stopVars
<1>4. CASE Start \/ StartThrows \/ StartLock \/ StartSpawn
  BY Zenon, <1>4 DEF TypeOK, Start, StartThrows, StartLock, StartSpawn, Controls,
              workVars, poolVars, uploadVars, statVars
<1>5. CASE Stop \/ Cancel
  BY Zenon, <1>5 DEF TypeOK, Stop, Cancel, Cancels, Controls, workVars, poolVars,
              uploadVars, statVars
<1>6. CASE Join \/ AnnounceCompleted \/ AnnounceStopped
  BY <1>6 DEF TypeOK, Join, AllJoined, AnnounceCompleted, AnnounceStopped,
              Controls, workVars, poolVars, uploadVars, statVars
<1>7. ASSUME NEW i \in Workers,
             CopyPeer(i) \/ TcpConnect(i) \/ EnterRun(i) \/ RunFails(i)
      PROVE  TypeOK'
  BY Zenon, <1>7 DEF TypeOK, CopyPeer, TcpConnect, EnterRun, RunFails, Moves, GoTo,
              AfterHandshake, Labels, poolVars, uploadVars, statVars, stopVars
<1>8. ASSUME NEW i \in Workers,
             Construct(i) \/ Register(i) \/ Handshake(i)
      PROVE  TypeOK'
  <2>1. /\ wpc' \in [Workers -> Labels]
        /\ m_active_connections' \subseteq Workers
    BY Zenon, <1>8 DEF TypeOK, Construct, Register, Handshake, GoTo, Labels
  <2>2. m_peer_handshakes_ok' \in Nat /\ m_peer_handshake_failed' \in Nat
    BY <1>8 DEF TypeOK, Construct, Register, Handshake, CountFailure, statVars
  <2>. QED
    BY Zenon, <1>8, <2>1, <2>2 DEF TypeOK, Construct, Register, Handshake, poolVars,
                            uploadVars, stopVars
<1>9. ASSUME NEW i \in Workers,
             ServeBlock(i) \/ LastPieceDone(i)
      PROVE  TypeOK'
  <2>1. uploaded' \in [Workers -> Nat]
    <3>1. CASE ServeBlock(i)
      <4>1. uploaded[i] + 1 \in Nat
        BY DEF TypeOK
      <4>. QED
        BY Zenon, <3>1, <4>1 DEF TypeOK, ServeBlock
    <3>2. CASE LastPieceDone(i)
      BY Zenon, <3>2 DEF TypeOK, LastPieceDone, uploadVars
    <3>. QED
      BY Zenon, <1>9, <3>1, <3>2
  <2>. QED
    BY Zenon, <1>9, <2>1 DEF TypeOK, ServeBlock, LastPieceDone, poolVars, uploadVars,
                      statVars, stopVars
<1>10. ASSUME NEW i \in Workers,
              ConnectFailed(i) \/ Unregister(i)
       PROVE  TypeOK'
  <2>1. /\ wpc' \in [Workers -> Labels]
        /\ m_active_connections' \subseteq Workers
    BY Zenon, <1>10 DEF TypeOK, ConnectFailed, Unregister, unregister, GoTo, Labels
  <2>2. retired' \in [Workers -> Nat] /\ uploaded' \in [Workers -> Nat]
    BY <1>10 DEF TypeOK, ConnectFailed, Unregister, unregister
  <2>3. m_peer_handshakes_ok' \in Nat /\ m_peer_handshake_failed' \in Nat
    BY <1>10 DEF TypeOK, ConnectFailed, Unregister, CountFailure, statVars
  <2>. QED
    BY Zenon, <1>10, <2>1, <2>2, <2>3 DEF TypeOK, ConnectFailed, Unregister, poolVars,
                                   stopVars
<1>11. ASSUME NEW i \in Workers, on_peer_worker_finished(i)
       PROVE  TypeOK'
  <2>1. wpc' \in [Workers -> Labels]
    BY Zenon, <1>11 DEF TypeOK, on_peer_worker_finished, EnterSpawn, GoTo, Labels
  <2>2. m_workers_running' \in Nat
    BY <1>11 DEF TypeOK, on_peer_worker_finished
  <2>. QED
    BY Zenon, <1>11, <2>1, <2>2 DEF TypeOK, on_peer_worker_finished, EnterSpawn,
                             uploadVars, statVars, stopVars
<1>12. CASE UNCHANGED vars
  BY Zenon, <1>12 DEF TypeOK, vars
<1>. QED
  BY Zenon, <1>1, <1>2, <1>3, <1>4, <1>5, <1>6, <1>7, <1>8, <1>9, <1>10, <1>11,
     <1>12
     DEF Next, Session, WorkerStep, Terminated

\* What run_peer_worker does between the locks of the pool: it prepares, opens,
\* uses or closes its connection.
Prepares(i, l) ==
  /\ wpc[i] \in {"copy", "construct"}
  /\ l \in {"construct", "register", "finish"}
  /\ UNCHANGED <<m_active_connections, uploadVars>>

Opens(i, l) ==
  /\ wpc[i] = "register" /\ l = "connect"
  /\ m_active_connections' = m_active_connections \cup {i}
  /\ UNCHANGED uploadVars

Uses(i, l) ==
  /\ wpc[i] \in Opened /\ l \in Opened
  /\ l = "run" => ~m_stopped
  /\ UNCHANGED <<m_active_connections, uploadVars>>

Closes(i, l) == wpc[i] \in Opened /\ l = "finish" /\ unregister(i)

\* The steps of a worker other than the end, which enters spawn_peers_locked.
WorkerMove(i) ==
  \/ CopyPeer(i) \/ TcpConnect(i) \/ EnterRun(i) \/ RunFails(i)
  \/ Construct(i) \/ Register(i) \/ Handshake(i)
  \/ ConnectFailed(i) \/ Unregister(i)

\* Such a step leaves the pool and stop() alone.
LEMMA WorkerMoves ==
  ASSUME NEW i \in Workers, WorkerMove(i)
  PROVE  /\ UNCHANGED <<poolVars, complete, spawner, stopVars>>
         /\ \E l \in Labels :
              /\ wpc' = [wpc EXCEPT ![i] = l]
              /\ Prepares(i, l) \/ Opens(i, l) \/ Uses(i, l) \/ Closes(i, l)
<1>1. CASE CopyPeer(i) \/ Construct(i)
  BY Zenon, <1>1 DEF CopyPeer, Construct, Moves, GoTo, Prepares, Labels
<1>2. CASE Register(i)
  BY Zenon, <1>2 DEF Register, GoTo, Opens, Labels
<1>3. CASE TcpConnect(i) \/ EnterRun(i) \/ RunFails(i) \/ Handshake(i)
  BY Zenon, <1>3 DEF TcpConnect, EnterRun, AfterHandshake, RunFails, Handshake, Moves,
              GoTo, Uses, Opened, Labels
<1>4. CASE ConnectFailed(i) \/ Unregister(i)
  BY Zenon, <1>4 DEF ConnectFailed, Unregister, GoTo, Closes, Opened, Labels
<1>. QED
  BY Zenon, <1>1, <1>2, <1>3, <1>4 DEF WorkerMove

\* A step of the pool is one of these.
LEMMA NextCases ==
  ASSUME [Next]_vars
  PROVE  \/ SpawnOne \/ SpawnDone
         \/ \E peer \in Peers : StartAppend(peer) \/ add_dht_peer(peer)
         \/ Start \/ StartThrows \/ StartLock \/ StartSpawn
         \/ Stop \/ Cancel \/ Join \/ AnnounceCompleted \/ AnnounceStopped
         \/ \E i \in Workers : WorkerMove(i)
         \/ \E i \in Workers : on_peer_worker_finished(i)
         \/ \E i \in Workers : ServeBlock(i) \/ LastPieceDone(i)
         \/ UNCHANGED vars
  BY Zenon DEF Next, Session, WorkerStep, WorkerMove, Terminated

\* A thread that is inside spawn_peers_locked holds m_spawn_mu, and no other
\* step moves it.
LEMMA SpawnerInvariant ==
  TypeOK /\ SpawnerWaits /\ SpawnedPrefix /\ [Next]_vars => SpawnerWaits'
<1>. SUFFICES ASSUME TypeOK, SpawnerWaits, SpawnedPrefix, [Next]_vars
              PROVE  SpawnerWaits'
  BY Zenon
<1>0. /\ StartCaller # Nobody /\ DhtCaller # Nobody /\ StartCaller # DhtCaller
      /\ Nobody \notin Workers /\ StartCaller \notin Workers
      /\ DhtCaller \notin Workers
  BY WorkersAreNumbered DEF Nobody, StartCaller, DhtCaller
<1>1. CASE SpawnOne
  <2>1. ASSUME NEW i \in Workers, spawner = i
        PROVE  wpc'[i] = "spawning"
    <3>1. wpc[i] = "spawning"
      BY Zenon, <2>1 DEF SpawnerWaits
    <3>2. i # m_next_peer_index + 1
      BY <3>1, WorkersAreNumbered DEF SpawnedPrefix, TypeOK
    <3>. QED
      BY Zenon, <1>1, <3>1, <3>2 DEF SpawnOne, GoTo, TypeOK
  <2>. QED
    BY Zenon, <1>1, <2>1 DEF SpawnerWaits, SpawnOne, stopVars
<1>2. CASE SpawnDone
  BY Zenon, <1>0, <1>2 DEF SpawnerWaits, SpawnDone
<1>3. ASSUME NEW peer \in Peers, StartAppend(peer) \/ add_dht_peer(peer)
      PROVE  SpawnerWaits'
  BY Zenon, <1>0, <1>3 DEF SpawnerWaits, StartAppend, add_dht_peer, stopVars
<1>4. CASE \/ Start \/ StartThrows \/ StartLock \/ StartSpawn \/ Stop
           \/ Cancel \/ Join \/ AnnounceCompleted \/ AnnounceStopped
  BY Zenon, <1>0, <1>4 DEF SpawnerWaits, Start, StartThrows, StartLock, StartSpawn,
                    Stop, Cancel, Join, AnnounceCompleted, AnnounceStopped,
                    workVars
<1>5. ASSUME NEW i \in Workers, WorkerMove(i)
      PROVE  SpawnerWaits'
  <2>1. /\ spawner' = spawner /\ ctl' = ctl
        /\ wpc[i] # "spawning"
        /\ \E l \in Labels : wpc' = [wpc EXCEPT ![i] = l]
    BY Zenon, <1>5, WorkerMoves DEF Prepares, Opens, Uses, Closes, Opened, stopVars
  <2>. QED
    BY Zenon, <2>1 DEF SpawnerWaits, TypeOK
<1>6. ASSUME NEW i \in Workers, on_peer_worker_finished(i)
      PROVE  SpawnerWaits'
  BY Zenon, <1>0, <1>6 DEF SpawnerWaits, TypeOK, on_peer_worker_finished, EnterSpawn,
                    GoTo, stopVars
<1>7. ASSUME NEW i \in Workers, ServeBlock(i) \/ LastPieceDone(i)
      PROVE  SpawnerWaits'
  BY Zenon, <1>7 DEF SpawnerWaits, ServeBlock, LastPieceDone, stopVars
<1>8. CASE UNCHANGED vars
  BY Zenon, <1>8 DEF SpawnerWaits, vars
<1>. QED
  BY Zenon, <1>1, <1>2, <1>3, <1>4, <1>5, <1>6, <1>7, <1>8, NextCases

\* The next worker to be spawned does not exist yet.
LEMMA PrefixInvariant ==
  TypeOK /\ SpawnerWaits /\ SpawnedPrefix /\ [Next]_vars => SpawnedPrefix'
<1>. SUFFICES ASSUME TypeOK, SpawnerWaits, SpawnedPrefix, [Next]_vars
              PROVE  SpawnedPrefix'
  BY Zenon
<1>0. Workers \subseteq Nat \ {0} /\ m_next_peer_index \in Nat
  BY WorkersAreNumbered DEF TypeOK
<1>1. CASE SpawnOne
  BY <1>0, <1>1 DEF SpawnedPrefix, SpawnOne, GoTo, TypeOK
<1>2. CASE SpawnDone
  <2>1. ASSUME NEW i \in Workers, i > m_next_peer_index
        PROVE  wpc'[i] = "none"
    <3>1. wpc[i] = "none" /\ i # spawner
      BY Zenon, <2>1 DEF SpawnedPrefix, SpawnerWaits
    <3>. QED
      BY Zenon, <1>2, <3>1 DEF SpawnDone, TypeOK
  <2>. QED
    BY Zenon, <1>2, <2>1 DEF SpawnedPrefix, SpawnDone, poolVars
<1>3. ASSUME NEW peer \in Peers, StartAppend(peer) \/ add_dht_peer(peer)
      PROVE  SpawnedPrefix'
  BY Zenon, <1>3 DEF SpawnedPrefix, StartAppend, add_dht_peer
<1>4. CASE \/ Start \/ StartThrows \/ StartLock \/ StartSpawn \/ Stop
           \/ Cancel \/ Join \/ AnnounceCompleted \/ AnnounceStopped
  BY Zenon, <1>4 DEF SpawnedPrefix, Start, StartThrows, StartLock, StartSpawn, Stop,
              Cancel, Join, AnnounceCompleted, AnnounceStopped, workVars,
              poolVars
<1>5. ASSUME NEW i \in Workers, WorkerMove(i)
      PROVE  SpawnedPrefix'
  <2>1. /\ m_next_peer_index' = m_next_peer_index
        /\ wpc[i] # "none"
        /\ \E l \in Labels : wpc' = [wpc EXCEPT ![i] = l]
    BY Zenon, <1>5, WorkerMoves DEF Prepares, Opens, Uses, Closes, Opened, poolVars
  <2>. QED
    BY Zenon, <2>1 DEF SpawnedPrefix, TypeOK
<1>6. ASSUME NEW i \in Workers, on_peer_worker_finished(i)
      PROVE  SpawnedPrefix'
  BY Zenon, <1>6 DEF SpawnedPrefix, TypeOK, on_peer_worker_finished, EnterSpawn, GoTo
<1>7. ASSUME NEW i \in Workers, ServeBlock(i) \/ LastPieceDone(i)
      PROVE  SpawnedPrefix'
  BY Zenon, <1>7 DEF SpawnedPrefix, ServeBlock, LastPieceDone, poolVars
<1>8. CASE UNCHANGED vars
  BY Zenon, <1>8 DEF SpawnedPrefix, vars
<1>. QED
  BY Zenon, <1>1, <1>2, <1>3, <1>4, <1>5, <1>6, <1>7, <1>8, NextCases

\* A connection is in m_active_connections for as long as its object lives in
\* the worker's frame, whichever way the worker goes.
LEMMA RegisteredInvariant ==
  TypeOK /\ SpawnerWaits /\ SpawnedPrefix /\ Registered /\ [Next]_vars
    => Registered'
<1>. SUFFICES ASSUME TypeOK, SpawnerWaits, SpawnedPrefix, Registered,
                     [Next]_vars
              PROVE  Registered'
  BY Zenon
<1>0. Workers \subseteq Nat \ {0} /\ m_next_peer_index \in Nat
  BY WorkersAreNumbered DEF TypeOK
<1>1. CASE SpawnOne
  BY <1>0, <1>1 DEF SpawnedPrefix, Registered, Opened, SpawnOne, GoTo, TypeOK
<1>2. CASE SpawnDone
  BY Zenon, <1>2 DEF SpawnerWaits, Registered, Opened, SpawnDone, TypeOK
<1>3. ASSUME NEW peer \in Peers, StartAppend(peer) \/ add_dht_peer(peer)
      PROVE  Registered'
  BY Zenon, <1>3 DEF Registered, StartAppend, add_dht_peer
<1>4. CASE \/ Start \/ StartThrows \/ StartLock \/ StartSpawn \/ Stop
           \/ Cancel \/ Join \/ AnnounceCompleted \/ AnnounceStopped
  BY Zenon, <1>4 DEF Registered, Start, StartThrows, StartLock, StartSpawn, Stop,
              Cancel, Join, AnnounceCompleted, AnnounceStopped, workVars
<1>5. ASSUME NEW i \in Workers, WorkerMove(i)
      PROVE  Registered'
  <2>1. PICK l \in Labels :
          /\ wpc' = [wpc EXCEPT ![i] = l]
          /\ Prepares(i, l) \/ Opens(i, l) \/ Uses(i, l) \/ Closes(i, l)
    BY Zenon, <1>5, WorkerMoves
  <2>2. wpc'[i] = l /\ \A j \in Workers \ {i} : wpc'[j] = wpc[j]
    BY Zenon, <2>1 DEF TypeOK
  <2>3. CASE Prepares(i, l)
    BY Zenon, <2>2, <2>3 DEF Registered, Prepares, Opened
  <2>4. CASE Opens(i, l)
    BY Zenon, <2>2, <2>4 DEF Registered, Opens, Opened
  <2>5. CASE Uses(i, l)
    BY Zenon, <2>2, <2>5 DEF Registered, Uses
  <2>6. CASE Closes(i, l)
    BY Zenon, <2>2, <2>6 DEF Registered, Closes, unregister, Opened
  <2>. QED
    BY Zenon, <2>1, <2>3, <2>4, <2>5, <2>6
<1>6. ASSUME NEW i \in Workers, on_peer_worker_finished(i)
      PROVE  Registered'
  BY Zenon, <1>6 DEF Registered, Opened, TypeOK, on_peer_worker_finished, EnterSpawn,
              GoTo
<1>7. ASSUME NEW i \in Workers, ServeBlock(i) \/ LastPieceDone(i)
      PROVE  Registered'
  BY Zenon, <1>7 DEF Registered, ServeBlock, LastPieceDone
<1>8. CASE UNCHANGED vars
  BY Zenon, <1>8 DEF Registered, vars
<1>. QED
  BY Zenon, <1>1, <1>2, <1>3, <1>4, <1>5, <1>6, <1>7, <1>8, NextCases

\* m_stopped is set before the connections are cancelled, and a connection
\* that is not in run() by then never gets there.
LEMMA StopInvariant ==
  TypeOK /\ Registered /\ StopIsFlagged /\ StopReachesRunners /\ [Next]_vars
    => StopIsFlagged' /\ StopReachesRunners'
<1>. SUFFICES ASSUME TypeOK, Registered, StopIsFlagged, StopReachesRunners,
                     [Next]_vars
              PROVE  StopIsFlagged' /\ StopReachesRunners'
  BY Zenon
<1>. USE DEF Joining
<1>1. CASE SpawnOne
  BY Zenon, <1>1 DEF StopIsFlagged, StopReachesRunners, SpawnOne, GoTo, TypeOK,
              stopVars
<1>2. CASE SpawnDone
  BY Zenon, <1>2 DEF StopIsFlagged, StopReachesRunners, SpawnDone, TypeOK
<1>3. ASSUME NEW peer \in Peers, StartAppend(peer) \/ add_dht_peer(peer)
      PROVE  StopIsFlagged' /\ StopReachesRunners'
  BY Zenon, <1>3 DEF StopIsFlagged, StopReachesRunners, StartAppend, add_dht_peer,
              stopVars
<1>4. CASE \/ Start \/ StartThrows \/ StartLock \/ StartSpawn \/ Stop
           \/ Join \/ AnnounceCompleted \/ AnnounceStopped
  BY Zenon, <1>4 DEF StopIsFlagged, StopReachesRunners, Start, StartThrows, StartLock,
              StartSpawn, Stop, Join, AnnounceCompleted, AnnounceStopped,
              workVars
<1>5. CASE Cancel
  <2>1. ASSUME NEW i \in Workers, wpc'[i] = "run"
        PROVE  i \in shut'
    <3>1. wpc[i] = "run" /\ i \in m_active_connections
      BY Zenon, <1>5, <2>1 DEF Cancel, workVars, Registered, Opened
    <3>. QED
      BY Zenon, <1>5, <3>1 DEF Cancel, Cancels
  <2>. QED
    BY Zenon, <1>5, <2>1 DEF StopIsFlagged, StopReachesRunners, Cancel
<1>6. ASSUME NEW i \in Workers, WorkerMove(i)
      PROVE  StopIsFlagged' /\ StopReachesRunners'
  <2>1. PICK l \in Labels :
          /\ wpc' = [wpc EXCEPT ![i] = l]
          /\ Prepares(i, l) \/ Opens(i, l) \/ Uses(i, l) \/ Closes(i, l)
    BY Zenon, <1>6, WorkerMoves
  <2>2. l = "run" => ~m_stopped
    BY Zenon, <2>1 DEF Prepares, Opens, Uses, Closes
  <2>3. UNCHANGED <<ctl, m_stopped, shut>>
    BY Zenon, <1>6, WorkerMoves DEF stopVars
  <2>. QED
    BY Zenon, <2>1, <2>2, <2>3 DEF StopIsFlagged, StopReachesRunners, TypeOK
<1>7. ASSUME NEW i \in Workers, on_peer_worker_finished(i)
      PROVE  StopIsFlagged' /\ StopReachesRunners'
  BY Zenon, <1>7 DEF StopIsFlagged, StopReachesRunners, TypeOK, EnterSpawn, GoTo,
              on_peer_worker_finished, stopVars
<1>8. ASSUME NEW i \in Workers, ServeBlock(i) \/ LastPieceDone(i)
      PROVE  StopIsFlagged' /\ StopReachesRunners'
  BY Zenon, <1>8 DEF StopIsFlagged, StopReachesRunners, ServeBlock, LastPieceDone,
              stopVars
<1>9. CASE UNCHANGED vars
  BY Zenon, <1>9 DEF StopIsFlagged, StopReachesRunners, vars
<1>. QED
  BY Zenon, <1>1, <1>2, <1>3, <1>4, <1>5, <1>6, <1>7, <1>8, <1>9, NextCases

\* The bytes of a connection are folded into the retired total in the step
\* that takes it out of m_active_connections.
LEMMA UploadInvariant ==
  TypeOK /\ SpawnerWaits /\ SpawnedPrefix /\ UploadsByPhase /\ [Next]_vars
    => UploadsByPhase'
<1>. SUFFICES ASSUME TypeOK, SpawnerWaits, SpawnedPrefix, UploadsByPhase,
                     [Next]_vars
              PROVE  UploadsByPhase'
  BY Zenon
<1>. USE DEF Unopened, Opened
<1>0. Workers \subseteq Nat \ {0} /\ m_next_peer_index \in Nat
  BY WorkersAreNumbered DEF TypeOK
<1>1. CASE SpawnOne
  BY <1>0, <1>1 DEF SpawnedPrefix, UploadsByPhase, SpawnOne, GoTo, TypeOK,
                    uploadVars
<1>2. CASE SpawnDone
  BY Zenon, <1>2 DEF SpawnerWaits, UploadsByPhase, SpawnDone, TypeOK, uploadVars
<1>3. ASSUME NEW peer \in Peers, StartAppend(peer) \/ add_dht_peer(peer)
      PROVE  UploadsByPhase'
  BY Zenon, <1>3 DEF UploadsByPhase, StartAppend, add_dht_peer, uploadVars
<1>4. CASE \/ Start \/ StartThrows \/ StartLock \/ StartSpawn \/ Stop
           \/ Cancel \/ Join \/ AnnounceCompleted \/ AnnounceStopped
  BY Zenon, <1>4 DEF UploadsByPhase, Start, StartThrows, StartLock, StartSpawn, Stop,
              Cancel, Join, AnnounceCompleted, AnnounceStopped, workVars,
              uploadVars
<1>5. ASSUME NEW i \in Workers, WorkerMove(i)
      PROVE  UploadsByPhase'
  <2>1. PICK l \in Labels :
          /\ wpc' = [wpc EXCEPT ![i] = l]
          /\ Prepares(i, l) \/ Opens(i, l) \/ Uses(i, l) \/ Closes(i, l)
    BY Zenon, <1>5, WorkerMoves
  <2>2. CASE Prepares(i, l) \/ Opens(i, l) \/ Uses(i, l)
    BY Zenon, <2>1, <2>2 DEF UploadsByPhase, TypeOK, Prepares, Opens, Uses,
                      uploadVars
  <2>3. CASE Closes(i, l)
    <3>1. retired[i] = 0 /\ uploaded[i] \in Nat
      BY Zenon, <2>3 DEF UploadsByPhase, TypeOK, Closes
    <3>2. retired[i] + uploaded[i] = uploaded[i]
      BY <3>1
    <3>3. retired' = [retired EXCEPT ![i] = uploaded[i]]
      BY Zenon, <2>3, <3>2 DEF Closes, unregister
    <3>. QED
      BY Zenon, <2>1, <2>3, <3>3 DEF UploadsByPhase, TypeOK, Closes, unregister
  <2>. QED
    BY Zenon, <2>1, <2>2, <2>3
<1>6. ASSUME NEW i \in Workers, on_peer_worker_finished(i)
      PROVE  UploadsByPhase'
  BY Zenon, <1>6 DEF UploadsByPhase, TypeOK, on_peer_worker_finished, EnterSpawn,
              GoTo, uploadVars
<1>7. ASSUME NEW i \in Workers, ServeBlock(i) \/ LastPieceDone(i)
      PROVE  UploadsByPhase'
  BY Zenon, <1>7 DEF UploadsByPhase, TypeOK, ServeBlock, LastPieceDone, uploadVars
<1>8. CASE UNCHANGED vars
  BY Zenon, <1>8 DEF UploadsByPhase, vars
<1>. QED
  BY Zenon, <1>1, <1>2, <1>3, <1>4, <1>5, <1>6, <1>7, <1>8, NextCases

\* append_unique_peers is the only code that changes m_all_peers.
LEMMA UniqueInvariant ==
  TypeOK /\ NoDuplicatePeers /\ [Next]_vars => NoDuplicatePeers'
<1>. SUFFICES ASSUME TypeOK, NoDuplicatePeers, [Next]_vars
              PROVE  NoDuplicatePeers'
  BY Zenon
<1>1. ASSUME NEW peer \in Peers, StartAppend(peer) \/ add_dht_peer(peer)
      PROVE  NoDuplicatePeers'
  BY Zenon, <1>1, AppendKeepsUnique DEF TypeOK, StartAppend, add_dht_peer
<1>2. CASE UNCHANGED m_all_peers
  BY Zenon, <1>2 DEF NoDuplicatePeers
<1>3. \/ UNCHANGED m_all_peers
      \/ \E peer \in Peers : StartAppend(peer) \/ add_dht_peer(peer)
  BY Zenon, NextCases, WorkerMoves
     DEF SpawnOne, SpawnDone, Start, StartThrows, StartLock, StartSpawn, Stop,
         Cancel, Join, AnnounceCompleted, AnnounceStopped, ServeBlock,
         LastPieceDone, on_peer_worker_finished, workVars, poolVars, vars
<1>. QED
  BY Zenon, <1>1, <1>2, <1>3

\* Room in the pool and work for it are made under m_spawn_mu only, and its
\* holder fills the pool before it lets go of the lock.
LEMMA IdleInvariant ==
  TypeOK /\ SpawnerWaits /\ WorkersAreCounted /\ NoIdleSlot /\ [Next]_vars
    => NoIdleSlot'
<1>. SUFFICES ASSUME TypeOK, SpawnerWaits, WorkersAreCounted, NoIdleSlot,
                     [Next]_vars
              PROVE  NoIdleSlot'
  BY Zenon
<1>0. /\ StartCaller # Nobody /\ DhtCaller # Nobody
      /\ Nobody \notin Workers
  BY WorkersAreNumbered DEF Nobody, StartCaller, DhtCaller
<1>1. CASE SpawnOne
  BY Zenon, <1>1 DEF NoIdleSlot, SpawnOne
<1>2. CASE SpawnDone
  BY <1>2, WorkersAssumption
     DEF NoIdleSlot, SpawnDone, MaySpawn, TypeOK, WorkersAreCounted, poolVars
<1>3. ASSUME NEW peer \in Peers, StartAppend(peer) \/ add_dht_peer(peer)
      PROVE  NoIdleSlot'
  BY Zenon, <1>0, <1>3 DEF NoIdleSlot, SpawnerWaits, StartAppend, add_dht_peer
<1>4. CASE \/ Start \/ StartThrows \/ StartLock \/ StartSpawn \/ Stop
           \/ Cancel \/ Join \/ AnnounceCompleted \/ AnnounceStopped
  BY Zenon, <1>0, <1>4
     DEF NoIdleSlot, TypeOK, Start, StartThrows, StartLock, StartSpawn, Stop,
         Cancel, Join, AnnounceCompleted, AnnounceStopped, workVars, poolVars
<1>5. ASSUME NEW i \in Workers, WorkerMove(i)
      PROVE  NoIdleSlot'
  BY Zenon, <1>5, WorkerMoves DEF NoIdleSlot, poolVars, stopVars
<1>6. ASSUME NEW i \in Workers, on_peer_worker_finished(i)
      PROVE  NoIdleSlot'
  BY Zenon, <1>0, <1>6 DEF NoIdleSlot, on_peer_worker_finished, EnterSpawn
<1>7. ASSUME NEW i \in Workers, ServeBlock(i) \/ LastPieceDone(i)
      PROVE  NoIdleSlot'
  BY Zenon, <1>7 DEF NoIdleSlot, ServeBlock, LastPieceDone, poolVars, stopVars
<1>8. CASE UNCHANGED vars
  BY Zenon, <1>8 DEF NoIdleSlot, vars
<1>. QED
  BY Zenon, <1>1, <1>2, <1>3, <1>4, <1>5, <1>6, <1>7, <1>8, NextCases

\* Only the spawn loop makes a worker busy, and only the end of a worker makes
\* it idle; both change m_workers_running by one under the lock.
LEMMA CountInvariant ==
  TypeOK /\ SpawnerWaits /\ SpawnedPrefix /\ NoDuplicatePeers
    /\ WorkersAreCounted /\ [Next]_vars => WorkersAreCounted'
<1>. SUFFICES ASSUME TypeOK, SpawnerWaits, SpawnedPrefix, NoDuplicatePeers,
                     WorkersAreCounted, [Next]_vars
              PROVE  WorkersAreCounted'
  BY Zenon
<1>0. /\ IsFiniteSet(Busy) /\ Cardinality(Busy) \in Nat
      /\ Workers \subseteq Nat \ {0} /\ m_next_peer_index \in Nat
  <2>1. Busy \in SUBSET Workers
    BY Zenon DEF Busy
  <2>2. IsFiniteSet(Busy)
    BY Zenon, <2>1, WorkersAreNumbered, FS_Subset
  <2>. QED
    BY <2>2, WorkersAreNumbered, FS_CardinalityType DEF TypeOK
<1>1. CASE SpawnOne
  <2>. DEFINE next == m_next_peer_index + 1
  <2>1. next \in Workers
    BY <1>1, ListFitsWorkers, WorkersAreNumbered
       DEF Workers, TypeOK, SpawnOne, MaySpawn
  <2>2. wpc[next] = "none" /\ next \notin Busy
    BY <1>0, <2>1 DEF SpawnedPrefix, Busy
  <2>3. Busy' = Busy \cup {next}
    BY Zenon, <1>1, <2>1 DEF Busy, SpawnOne, GoTo, TypeOK
  <2>. HIDE DEF next
  <2>4. Cardinality(Busy') = Cardinality(Busy) + 1
    BY Zenon, <1>0, <2>2, <2>3, FS_AddElement
  <2>. QED
    BY <1>0, <1>1, <2>4, WorkersAssumption
       DEF WorkersAreCounted, SpawnOne, MaySpawn
<1>2. ASSUME NEW i \in Workers, on_peer_worker_finished(i)
      PROVE  WorkersAreCounted'
  <2>1. i \in Busy
    BY Zenon, <1>2 DEF Busy, on_peer_worker_finished
  <2>2. Busy' = Busy \ {i}
    BY Zenon, <1>2 DEF Busy, on_peer_worker_finished, EnterSpawn, GoTo, TypeOK
  <2>3. Cardinality(Busy') = Cardinality(Busy) - 1
    BY Zenon, <1>0, <2>1, <2>2, FS_RemoveElement
  <2>4. Cardinality(Busy) # 0
    BY Zenon, <1>0, <2>1, FS_EmptySet
  <2>. QED
    BY <1>0, <1>2, <2>3, <2>4, WorkersAssumption
       DEF WorkersAreCounted, on_peer_worker_finished
<1>3. CASE SpawnDone
  <2>1. Busy' = Busy
    BY Zenon, <1>3 DEF Busy, SpawnerWaits, SpawnDone, TypeOK
  <2>. QED
    BY Zenon, <1>3, <2>1 DEF WorkersAreCounted, SpawnDone, poolVars
<1>4. ASSUME NEW i \in Workers, WorkerMove(i)
      PROVE  WorkersAreCounted'
  <2>1. PICK l \in Labels :
          /\ wpc' = [wpc EXCEPT ![i] = l]
          /\ Prepares(i, l) \/ Opens(i, l) \/ Uses(i, l) \/ Closes(i, l)
    BY Zenon, <1>4, WorkerMoves
  <2>2. /\ wpc[i] \notin {"none", "spawning", "done"}
        /\ l \notin {"none", "spawning", "done"}
    BY Zenon, <2>1 DEF Prepares, Opens, Uses, Closes, Opened
  <2>3. Busy' = Busy
    BY Zenon, <2>1, <2>2 DEF Busy, TypeOK
  <2>. QED
    BY Zenon, <1>4, <2>3, WorkerMoves DEF WorkersAreCounted, poolVars
<1>5. CASE UNCHANGED <<wpc, m_workers_running>>
  BY Zenon, <1>5 DEF WorkersAreCounted, Busy
<1>6. \/ SpawnOne \/ SpawnDone
      \/ \E i \in Workers : WorkerMove(i) \/ on_peer_worker_finished(i)
      \/ UNCHANGED <<wpc, m_workers_running>>
  BY Zenon, NextCases
     DEF StartAppend, add_dht_peer, Start, StartThrows, StartLock, StartSpawn,
         Stop, Cancel, Join, AnnounceCompleted, AnnounceStopped, ServeBlock,
         LastPieceDone, workVars, poolVars, vars
<1>. QED
  BY Zenon, <1>1, <1>2, <1>3, <1>4, <1>5, <1>6

-----------------------------------------------------------------------------
(* The theorems.                                                            *)

\* A torrent starts without peers, workers or connections.
LEMMA InitIInv == Init => IInv
<1>. SUFFICES ASSUME Init
              PROVE  IInv
  BY Zenon
<1>1. TypeOK
  <2>1. /\ m_all_peers \in Seq(Peers)
        /\ m_next_peer_index \in 0 .. Len(m_all_peers)
        /\ joined \in 0 .. m_next_peer_index
    BY DEF Init
  <2>. QED
    BY Zenon, <2>1 DEF Init, TypeOK, Labels, Controls
<1>2. SpawnerWaits
  BY WorkersAreNumbered DEF Init, SpawnerWaits, Nobody, StartCaller
<1>3. SpawnedPrefix /\ Registered /\ StopIsFlagged /\ StopReachesRunners
  BY Zenon DEF Init, SpawnedPrefix, Registered, Opened, StopIsFlagged, Joining,
         StopReachesRunners
<1>4. UploadsByPhase /\ NoDuplicatePeers
  BY DEF Init, UploadsByPhase, Unopened, Opened, NoDuplicatePeers
<1>5. WorkersAreCounted
  <2>1. Busy = {}
    BY Zenon DEF Init, Busy
  <2>. QED
    BY <2>1, FS_EmptySet, WorkersAssumption DEF Init, WorkersAreCounted
<1>6. NoIdleSlot
  BY Zenon DEF Init, NoIdleSlot
<1>. QED
  BY Zenon, <1>1, <1>2, <1>3, <1>4, <1>5, <1>6 DEF IInv

\* Every step of every thread keeps the invariant.
LEMMA NextIInv == IInv /\ [Next]_vars => IInv'
  BY Zenon, TypeInvariant, SpawnerInvariant, PrefixInvariant, RegisteredInvariant,
     StopInvariant, UploadInvariant, UniqueInvariant, IdleInvariant,
     CountInvariant
     DEF IInv

\* It holds in every state of every execution.
LEMMA Invariance == Spec => []IInv
  BY InitIInv, NextIInv, PTL DEF Spec

\* The pool is bounded by k_max_concurrent_peers and m_workers_running counts
\* the workers that have not finished, for any number of peers and slots.
THEOREM PoolIsBounded == Spec => []WorkersAreCounted
<1>1. IInv => WorkersAreCounted
  BY Zenon DEF IInv
<1>. QED
  BY <1>1, Invariance, PTL

\* Whenever m_spawn_mu is free and the download goes on, the pool is full or
\* every known peer has been tried.
THEOREM PoolIsUsed == Spec => []NoIdleSlot
<1>1. IInv => NoIdleSlot
  BY Zenon DEF IInv
<1>. QED
  BY <1>1, Invariance, PTL

\* stop() and the status thread never follow a pointer to a connection that
\* was destroyed.
THEOREM ConnectionsAreAlive == Spec => []NoDanglingConnection
<1>1. IInv => NoDanglingConnection
  BY Zenon DEF IInv, TypeOK, Registered, Opened, NoDanglingConnection
<1>. QED
  BY <1>1, Invariance, PTL

\* uploaded_bytes() counts every served block exactly once.
THEOREM UploadsAreExact == Spec => []UploadTotalsExact
<1>1. IInv => UploadTotalsExact
  <2>. SUFFICES ASSUME IInv, NEW i \in Workers
                PROVE  retired[i] + (IF i \in m_active_connections
                                     THEN uploaded[i] ELSE 0) = uploaded[i]
    BY Zenon DEF UploadTotalsExact
  <2>1. retired[i] \in Nat /\ uploaded[i] \in Nat
    BY Zenon DEF IInv, TypeOK
  <2>2. i \in m_active_connections <=> wpc[i] \in Opened
    BY Zenon DEF IInv, Registered
  <2>3. /\ wpc[i] \in Unopened => uploaded[i] = 0
        /\ wpc[i] \in Unopened \cup Opened => retired[i] = 0
        /\ wpc[i] \notin Unopened \cup Opened => retired[i] = uploaded[i]
    BY Zenon DEF IInv, UploadsByPhase
  <2>. QED
    BY <2>1, <2>2, <2>3
<1>. QED
  BY <1>1, Invariance, PTL

\* Once stop() joins the workers, each one that is inside run() has had its
\* socket shut down: stop() waits for nobody it has not reached.
THEOREM RunnersAreReached == Spec => []StopReachesRunners
<1>1. IInv => StopReachesRunners
  BY Zenon DEF IInv
<1>. QED
  BY <1>1, Invariance, PTL

\* No thread is added to m_threads while stop() iterates over it without the
\* lock, because m_stopped is set by then and ends the spawn loop.
THEOREM JoinLoopIsStable == Spec => ThreadsFixedWhileJoining
<1>1. ASSUME IInv, [Next]_vars, ctl \in Joining
      PROVE  UNCHANGED m_next_peer_index
  <2>1. m_stopped
    BY Zenon, <1>1 DEF IInv, StopIsFlagged
  <2>2. ~SpawnOne
    BY Zenon, <2>1 DEF SpawnOne, MaySpawn
  <2>. QED
    BY Zenon, <1>1, <2>2, NextCases, WorkerMoves
       DEF SpawnDone, StartAppend, add_dht_peer, Start, StartThrows,
           StartLock, StartSpawn, Stop, Cancel, Join, AnnounceCompleted,
           AnnounceStopped, ServeBlock, LastPieceDone,
           on_peer_worker_finished, workVars, poolVars, vars
<1>2. IInv /\ [Next]_vars =>
        [(ctl \in {"join", "completed", "stopped", "down"}) =>
           UNCHANGED m_next_peer_index]_vars
  BY Zenon, <1>1 DEF Joining
<1>. QED
  BY <1>2, Invariance, PTL DEF Spec, ThreadsFixedWhileJoining

-----------------------------------------------------------------------------
(* TorrentManager::announce and the communicators: the inductive invariant. *)

UdpPhases == {"connect", "connecting", "announce", "announcing"}
AnnouncePhases == {"announce", "announcing"}
WebPhases == {"request", "tls", "send", "recv", "ssl_recv", "response",
              "parse"}
Requests == [action : {CONNECT, ANNOUNCE}, txn : Nat]

\* The requests that can be answered were made with ids drawn before, and the
\* id of the announce phase was not used for a connect request.
Asked ==
  /\ drawn \in Nat /\ since \in Nat /\ since <= drawn
  /\ asked \subseteq Requests
  /\ \A q \in asked : q.txn <= drawn
  /\ pc \in UdpPhases => since < drawn
  /\ pc \in AnnouncePhases =>
       \A q \in asked : q.txn = drawn => q.action = ANNOUNCE

\* The web protocols have steps of their own.
Protocols == pc \in WebPhases => protocol # "udp"

\* There are no peers before the announce returns.
Answered ==
  /\ pc # "idle" => result.is = "none"
  /\ PeersAnswerThisAnnounce

AnnounceIInv == Asked /\ Protocols /\ Answered

-----------------------------------------------------------------------------
(* The datagrams of an announce.                                            *)

\* The three actions are different, and the phases are those of the requests.
LEMMA Actions ==
  /\ Phase(CONNECT) = "connect" /\ Polling(CONNECT) = "connecting"
  /\ Phase(ANNOUNCE) = "announce" /\ Polling(ANNOUNCE) = "announcing"
  /\ CONNECT # ANNOUNCE /\ ERROR # ANNOUNCE
  BY DEF Phase, Polling, CONNECT, ANNOUNCE, ERROR

\* A datagram that the announce phase accepts answers an announce request with
\* the transaction id of that phase.
LEMMA AcceptedAnswersRequest ==
  ASSUME Asked, pc = "announcing",
         NEW q \in asked, NEW m \in Answers(q),
         Verdict(m, ANNOUNCE) = "accept"
  PROVE  m.txn = drawn /\ [action |-> ANNOUNCE, txn |-> m.txn] \in asked
<1>1. m.txn = q.txn
  BY DEF Answers
<1>2. m.txn = drawn
  BY Zenon DEF Verdict
<1>3. q.action = ANNOUNCE /\ q \in Requests
  BY Zenon, <1>1, <1>2 DEF Asked, AnnouncePhases
<1>4. q = [action |-> ANNOUNCE, txn |-> m.txn]
  BY Zenon, <1>1, <1>3 DEF Requests
<1>. QED
  BY Zenon, <1>2, <1>4

-----------------------------------------------------------------------------
(* The steps of an announce.                                                *)

\* There are three verdicts on a datagram.
LEMMA Verdicts ==
  ASSUME NEW m, NEW action
  PROVE  Verdict(m, action) \in {"again", "throw", "accept"}
  BY Zenon DEF Verdict

\* A poll in the connect phase ends in the announce phase, another attempt or
\* the next address.
LEMMA PollConnectCases ==
  ASSUME PollConnect
  PROVE  /\ pc = "connecting"
         /\ UNCHANGED <<protocol, since, asked, result>>
         /\ \/ pc' \in {"connect", "address"} /\ UNCHANGED drawn
            \/ pc' = "announce" /\ drawn' = drawn + 1
<1>1. ASSUME NEW m, Again(CONNECT, m)
      PROVE  pc' \in {"connect", "address"}
  BY Zenon, <1>1, Actions DEF Again, AddressFails
<1>2. CASE Again(CONNECT, {}) /\ UNCHANGED <<drawn, result>>
  BY Zenon, <1>1, <1>2, Actions DEF PollConnect, Poll
<1>3. ASSUME NEW q \in asked, NEW m \in Answers(q),
             CASE Verdict(m, CONNECT) = "again" ->
                    Again(CONNECT, {m}) /\ UNCHANGED <<drawn, result>>
               [] Verdict(m, CONNECT) = "throw" ->
                    AddressFails /\ UNCHANGED <<n, drawn, result>>
               [] Verdict(m, CONNECT) = "accept" -> Accepted(CONNECT, m)
      PROVE  /\ \/ pc' \in {"connect", "address"} /\ UNCHANGED drawn
                \/ pc' = "announce" /\ drawn' = drawn + 1
             /\ UNCHANGED result
  <2>1. CASE Verdict(m, CONNECT) = "again"
    BY Zenon, <1>1, <1>3, <2>1
  <2>2. CASE Verdict(m, CONNECT) = "throw"
    BY Zenon, <1>3, <2>2 DEF AddressFails
  <2>3. CASE Verdict(m, CONNECT) = "accept"
    BY Zenon, <1>3, <2>3, Actions DEF Accepted, Connected
  <2>. QED
    BY Zenon, <2>1, <2>2, <2>3, Verdicts
<1>. QED
  BY Zenon, <1>2, <1>3, Actions DEF PollConnect, Poll

\* A poll in the announce phase yields the answer, another attempt or the next
\* address.
LEMMA PollAnnounceCases ==
  ASSUME PollAnnounce
  PROVE  /\ pc = "announcing"
         /\ UNCHANGED <<protocol, since, asked, drawn>>
         /\ \/ pc' \in {"announce", "address"} /\ UNCHANGED result
            \/ \E q \in asked : \E m \in Answers(q) :
                 /\ Verdict(m, ANNOUNCE) = "accept"
                 /\ pc' = "idle"
                 /\ result' = [is |-> "peers", txn |-> m.txn]
<1>1. ASSUME NEW m, Again(ANNOUNCE, m)
      PROVE  pc' \in {"announce", "address"}
  BY Zenon, <1>1, Actions DEF Again, AddressFails
<1>2. CASE Again(ANNOUNCE, {}) /\ UNCHANGED <<drawn, result>>
  BY Zenon, <1>1, <1>2, Actions DEF PollAnnounce, Poll
<1>3. ASSUME NEW q \in asked, NEW m \in Answers(q),
             CASE Verdict(m, ANNOUNCE) = "again" ->
                    Again(ANNOUNCE, {m}) /\ UNCHANGED <<drawn, result>>
               [] Verdict(m, ANNOUNCE) = "throw" ->
                    AddressFails /\ UNCHANGED <<n, drawn, result>>
               [] Verdict(m, ANNOUNCE) = "accept" -> Accepted(ANNOUNCE, m)
      PROVE  /\ UNCHANGED drawn
             /\ \/ pc' \in {"announce", "address"} /\ UNCHANGED result
                \/ /\ Verdict(m, ANNOUNCE) = "accept"
                   /\ pc' = "idle"
                   /\ result' = [is |-> "peers", txn |-> m.txn]
  <2>1. CASE Verdict(m, ANNOUNCE) = "again"
    BY Zenon, <1>1, <1>3, <2>1
  <2>2. CASE Verdict(m, ANNOUNCE) = "throw"
    BY Zenon, <1>3, <2>2 DEF AddressFails
  <2>3. CASE Verdict(m, ANNOUNCE) = "accept"
    BY Zenon, <1>3, <2>3, Actions DEF Accepted, Announced, Return
  <2>. QED
    BY Zenon, <2>1, <2>2, <2>3, Verdicts
<1>. QED
  BY Zenon, <1>2, <1>3, Actions DEF PollAnnounce, Poll

\* A step of the web protocols changes nothing that UDP relies on, and peers
\* that come from it come with another protocol.
LEMMA WebCases ==
  ASSUME \/ connect_with_timeout \/ SSLSocket \/ send
         \/ recv_all_with_timeout \/ ssl_recv_all \/ parse_http_response
         \/ parse_tracker_response
  PROVE  /\ UNCHANGED <<protocol, since, asked, drawn>>
         /\ pc \in WebPhases
         /\ pc' \in WebPhases \cup {"address", "thrown", "idle"}
         /\ pc' # "idle" => UNCHANGED result
  BY Zenon DEF connect_with_timeout, SSLSocket, send, recv_all_with_timeout,
         ssl_recv_all, parse_http_response, parse_tracker_response, Exchange,
         Return, AddressFails, udpVars, WebPhases

\* Sending a request adds it to those that can be answered.
LEMMA SendCases ==
  ASSUME NEW action \in {CONNECT, ANNOUNCE}, SendTo(action)
  PROVE  /\ pc = Phase(action)
         /\ UNCHANGED <<protocol, since, drawn, result>>
         /\ \/ /\ pc' = Polling(action)
               /\ asked' = asked \cup {[action |-> action, txn |-> drawn]}
            \/ pc' = "address" /\ UNCHANGED asked
  BY Zenon DEF SendTo, AddressFails

\* The invariant is preserved by every step.
LEMMA NextAnnounceIInv == AnnounceIInv /\ [AnnounceNext]_announceVars => AnnounceIInv'
<1>. SUFFICES ASSUME AnnounceIInv, [AnnounceNext]_announceVars
              PROVE  AnnounceIInv'
  BY Zenon
<1>. USE DEF AnnounceIInv, UdpPhases, AnnouncePhases, WebPhases
<1>1. CASE Announce
  <2>1. /\ pc' = "address" /\ since' = drawn /\ result' = NoResult
        /\ UNCHANGED <<protocol, drawn, asked>>
    BY Zenon, <1>1 DEF Announce
  <2>2. Asked'
    BY <2>1 DEF Asked
  <2>. QED
    BY <2>1, <2>2 DEF Protocols, Answered, PeersAnswerThisAnnounce, NoResult
<1>2. CASE TryAddress
  <2>1. CASE protocol = "udp"
    <3>1. /\ drawn' = drawn + 1 /\ asked' \subseteq asked
          /\ pc = "address" /\ pc' = "connect"
          /\ UNCHANGED <<protocol, since, result>>
      BY Zenon, <1>2, <2>1 DEF TryAddress
    <3>2. \A q \in asked' : q.txn \in Nat /\ q.txn <= drawn
      BY Zenon, <3>1 DEF Asked, Requests
    <3>3. \A q \in asked' : q.txn <= drawn + 1
      BY <3>2 DEF Asked
    <3>4. drawn + 1 \in Nat /\ since <= drawn + 1 /\ since < drawn + 1
      BY DEF Asked
    <3>5. Asked'
      BY Zenon, <3>1, <3>3, <3>4 DEF Asked
    <3>. QED
      BY Zenon, <3>1, <3>5 DEF Protocols, Answered, PeersAnswerThisAnnounce
  <2>2. CASE protocol # "udp"
    BY Zenon, <1>2, <2>2 DEF TryAddress, Asked, Protocols, Answered,
                      PeersAnswerThisAnnounce
  <2>. QED
    BY Zenon, <2>1, <2>2
<1>3. CASE Exhausted \/ Caught
  BY <1>3 DEF Exhausted, Caught, Asked, Protocols, Answered,
              PeersAnswerThisAnnounce
<1>4. CASE SendTo(CONNECT) \/ SendTo(ANNOUNCE)
  <2>1. PICK action \in {CONNECT, ANNOUNCE} : SendTo(action)
    BY Zenon, <1>4
  <2>2. /\ pc = Phase(action)
        /\ UNCHANGED <<protocol, since, drawn, result>>
        /\ \/ /\ pc' = Polling(action)
              /\ asked' = asked \cup {[action |-> action, txn |-> drawn]}
           \/ pc' = "address" /\ UNCHANGED asked
    BY Zenon, <2>1, SendCases
  <2>3. Asked'
    BY <2>1, <2>2, Actions DEF Asked, Requests
  <2>. QED
    BY Zenon, <2>1, <2>2, <2>3, Actions DEF Protocols, Answered,
                                     PeersAnswerThisAnnounce
<1>5. CASE PollConnect
  <2>1. Asked'
    BY <1>5, PollConnectCases DEF Asked, Requests
  <2>. QED
    BY Zenon, <1>5, <2>1, PollConnectCases DEF Protocols, Answered,
                                        PeersAnswerThisAnnounce
<1>6. CASE PollAnnounce
  <2>1. CASE pc' \in {"announce", "address"} /\ UNCHANGED result
    BY Zenon, <1>6, <2>1, PollAnnounceCases DEF Asked, Protocols, Answered,
                                         PeersAnswerThisAnnounce
  <2>2. ASSUME NEW q \in asked, NEW m \in Answers(q),
               Verdict(m, ANNOUNCE) = "accept", pc' = "idle",
               result' = [is |-> "peers", txn |-> m.txn]
        PROVE  AnnounceIInv'
    <3>1. m.txn = drawn /\ [action |-> ANNOUNCE, txn |-> m.txn] \in asked
      BY Zenon, <1>6, <2>2, AcceptedAnswersRequest, PollAnnounceCases
    <3>2. since < drawn
      BY Zenon, <1>6, PollAnnounceCases DEF Asked
    <3>. QED
      BY Zenon, <1>6, <2>2, <3>1, <3>2, PollAnnounceCases
         DEF Asked, Protocols, Answered, PeersAnswerThisAnnounce
  <2>. QED
    BY Zenon, <1>6, <2>1, <2>2, PollAnnounceCases
<1>7. CASE \/ connect_with_timeout \/ SSLSocket \/ send
           \/ recv_all_with_timeout \/ ssl_recv_all \/ parse_http_response
           \/ parse_tracker_response
  BY Zenon, <1>7, WebCases DEF Asked, Protocols, Answered, PeersAnswerThisAnnounce
<1>8. CASE UNCHANGED announceVars
  BY Zenon, <1>8 DEF announceVars, Asked, Protocols, Answered, PeersAnswerThisAnnounce
<1>. QED
  BY Zenon, <1>1, <1>2, <1>3, <1>4, <1>5, <1>6, <1>7, <1>8
     DEF AnnounceNext, Step, Finished

\* No datagram that was meant for another request, of this announce or of one
\* before, is taken for the answer of the tracker, however many there are and
\* however late they come.
THEOREM AnswersBelong == AnnounceSpec => []PeersAnswerThisAnnounce
<1>1. AnnounceInit => AnnounceIInv
  BY DEF AnnounceInit, AnnounceIInv, Asked, Protocols, Answered, PeersAnswerThisAnnounce,
         NoResult, UdpPhases, AnnouncePhases, WebPhases
<1>2. AnnounceIInv => PeersAnswerThisAnnounce
  BY Zenon DEF AnnounceIInv, Answered
<1>. QED
  BY <1>1, <1>2, NextAnnounceIInv, PTL DEF AnnounceSpec

-----------------------------------------------------------------------------
(* How long an announce takes.                                              *)

\* Steps with one address at most: two requests over UDP, each of them sent and
\* polled for MAX_RETRANSMISSIONS + 1 times, or an exchange with a web server.
PerAddress == 4 * (MAX_RETRANSMISSIONS + 1) + 8

\* Steps left with the address under way, at p with m retransmissions made.
WithAddress(p, m) ==
  CASE p = "connect"    -> 4 * (MAX_RETRANSMISSIONS + 1) - 2 * m
    [] p = "connecting" -> 4 * (MAX_RETRANSMISSIONS + 1) - 2 * m - 1
    [] p = "announce"   -> 2 * (MAX_RETRANSMISSIONS + 1) - 2 * m
    [] p = "announcing" -> 2 * (MAX_RETRANSMISSIONS + 1) - 2 * m - 1
    [] p = "request"    -> 7
    [] p = "tls"        -> 6
    [] p = "send"       -> 5
    [] p \in {"recv", "ssl_recv"} -> 4
    [] p = "response"   -> 3
    [] p = "parse"      -> 2

\* Steps left with k addresses untried, the one under way among them.
Left(p, k, m) ==
  IF p = "idle" THEN 0
  ELSE IF p = "thrown" THEN 1
  ELSE IF p = "address" THEN k * PerAddress + 2
  ELSE (k - 1) * PerAddress + 2 + WithAddress(p, m)

StepsLeft == Left(pc, addresses - tried, n)

\* The loops keep to their bounds.
Loops ==
  /\ addresses \in Nat /\ tried \in Nat /\ tried <= addresses
  /\ n \in Nat /\ n <= MAX_RETRANSMISSIONS
  /\ pc \in UdpPhases \cup WebPhases \cup {"idle", "address", "thrown"}
  /\ pc \in UdpPhases \cup WebPhases => tried < addresses

\* Every step of an announce leaves fewer steps to take.
AnnounceProgress == [][Step => StepsLeft' < StepsLeft]_announceVars

\* The steps with the addresses to come, when one more is taken up.
LEMMA OneAddressLess ==
  ASSUME NEW k \in Nat, k > 0
  PROVE  /\ PerAddress \in Nat
         /\ (k - 1) * PerAddress \in Nat
         /\ k * PerAddress = (k - 1) * PerAddress + PerAddress
<1>1. PerAddress \in Nat
  BY BoundsAssumption DEF PerAddress
<1>2. ASSUME NEW j \in Nat, NEW q \in Nat
      PROVE  j * q \in Nat /\ (j + 1) * q = j * q + q
  OBVIOUS
<1>3. k - 1 \in Nat /\ (k - 1) + 1 = k
  OBVIOUS
<1>. QED
  BY Zenon, <1>1, <1>2, <1>3

\* What is left with the address under way is positive and less than what a
\* whole address takes.
LEMMA WithAddressBounds ==
  ASSUME NEW p \in UdpPhases \cup WebPhases,
         NEW m \in Nat, m <= MAX_RETRANSMISSIONS
  PROVE  /\ WithAddress(p, m) \in Nat
         /\ 0 < WithAddress(p, m) /\ WithAddress(p, m) < PerAddress
<1>1. /\ p = "connect" => WithAddress(p, m) = 4 * (MAX_RETRANSMISSIONS + 1) - 2 * m
      /\ p = "connecting" =>
           WithAddress(p, m) = 4 * (MAX_RETRANSMISSIONS + 1) - 2 * m - 1
      /\ p = "announce" => WithAddress(p, m) = 2 * (MAX_RETRANSMISSIONS + 1) - 2 * m
      /\ p = "announcing" =>
           WithAddress(p, m) = 2 * (MAX_RETRANSMISSIONS + 1) - 2 * m - 1
  BY Zenon DEF WithAddress
<1>2. p \in WebPhases => WithAddress(p, m) \in 2 .. 7
  BY DEF WithAddress, WebPhases
<1>3. CASE p \in WebPhases
  BY <1>2, <1>3, BoundsAssumption DEF PerAddress
<1>4. CASE p \in {"connect", "connecting"}
  BY <1>1, <1>4, BoundsAssumption DEF PerAddress
<1>5. CASE p \in {"announce", "announcing"}
  BY <1>1, <1>5, BoundsAssumption DEF PerAddress
<1>. QED
  BY Zenon, <1>3, <1>4, <1>5 DEF UdpPhases

\* The steps of an address either give it up or come closer to its end.
OnAddress ==
  /\ pc \in UdpPhases \cup WebPhases
  /\ \/ pc' = "address" /\ tried' = tried + 1 /\ n' = n
     \/ /\ tried' = tried
        /\ pc' \in UdpPhases \cup WebPhases
        /\ n' \in Nat /\ n' <= MAX_RETRANSMISSIONS
        /\ WithAddress(pc', n') < WithAddress(pc, n)
     \/ tried' = tried /\ n' = n /\ pc' \in {"idle", "thrown"}

\* Another attempt is one of those that MAX_RETRANSMISSIONS allows.
LEMMA AgainOnAddress ==
  ASSUME Loops, NEW action \in {CONNECT, ANNOUNCE}, NEW m,
         pc = Polling(action), Again(action, m)
  PROVE  OnAddress
<1>1. CASE n < MAX_RETRANSMISSIONS
  <2>1. n' = n + 1 /\ pc' = Phase(action) /\ tried' = tried
    BY Zenon, <1>1 DEF Again
  <2>2. CASE action = CONNECT
    BY <1>1, <2>1, <2>2, Actions, BoundsAssumption
       DEF Loops, OnAddress, WithAddress, UdpPhases, WebPhases
  <2>3. CASE action = ANNOUNCE
    BY <1>1, <2>1, <2>3, Actions, BoundsAssumption
       DEF Loops, OnAddress, WithAddress, UdpPhases, WebPhases
  <2>. QED
    BY Zenon, <2>2, <2>3
<1>2. CASE ~(n < MAX_RETRANSMISSIONS)
  BY Zenon, <1>2, Actions DEF Again, AddressFails, OnAddress, UdpPhases
<1>. QED
  BY Zenon, <1>1, <1>2

\* A poll, whatever it finds.
LEMMA PollOnAddress ==
  ASSUME Loops, NEW action \in {CONNECT, ANNOUNCE}, Poll(action)
  PROVE  OnAddress
<1>1. pc = Polling(action) /\ pc \in UdpPhases
  BY Zenon, Actions DEF Poll, UdpPhases
<1>2. ASSUME NEW m, Accepted(action, m)
      PROVE  OnAddress
  <2>1. CASE action = CONNECT
    <3>1. pc = "connecting" /\ pc' = "announce" /\ n' = 0 /\ tried' = tried
      BY Zenon, <1>1, <1>2, <2>1, Actions DEF Accepted, Connected
    <3>. QED
      BY <3>1, BoundsAssumption
         DEF Loops, OnAddress, WithAddress, UdpPhases, WebPhases
  <2>2. CASE action = ANNOUNCE
    BY Zenon, <1>1, <1>2, <2>2, Actions DEF Accepted, Announced, Return, OnAddress
  <2>. QED
    BY Zenon, <2>1, <2>2
<1>3. ASSUME NEW q \in asked, NEW m \in Answers(q),
             CASE Verdict(m, action) = "again" ->
                    Again(action, {m}) /\ UNCHANGED <<drawn, result>>
               [] Verdict(m, action) = "throw" ->
                    AddressFails /\ UNCHANGED <<n, drawn, result>>
               [] Verdict(m, action) = "accept" -> Accepted(action, m)
      PROVE  OnAddress
  <2>1. CASE Verdict(m, action) = "again"
    BY Zenon, <1>1, <1>3, <2>1, AgainOnAddress
  <2>2. CASE Verdict(m, action) = "throw"
    BY Zenon, <1>1, <1>3, <2>2 DEF AddressFails, OnAddress
  <2>3. CASE Verdict(m, action) = "accept"
    BY Zenon, <1>2, <1>3, <2>3
  <2>. QED
    BY Zenon, <2>1, <2>2, <2>3, Verdicts
<1>4. CASE Again(action, {})
  BY Zenon, <1>1, <1>4, AgainOnAddress
<1>. QED
  BY Zenon, <1>3, <1>4 DEF Poll

\* A request is sent and then polled for, or sending it fails.
LEMMA SendOnAddress ==
  ASSUME Loops, NEW action \in {CONNECT, ANNOUNCE}, SendTo(action)
  PROVE  OnAddress
<1>1. CASE action = CONNECT
  BY <1>1, Actions, BoundsAssumption
     DEF SendTo, AddressFails, Loops, OnAddress, WithAddress, UdpPhases
<1>2. CASE action = ANNOUNCE
  BY <1>2, Actions, BoundsAssumption
     DEF SendTo, AddressFails, Loops, OnAddress, WithAddress, UdpPhases
<1>. QED
  BY Zenon, <1>1, <1>2

\* A step of the exchange with a web server, to a later one.
LEMMA ExchangeOnAddress ==
  ASSUME Loops, NEW from \in WebPhases, NEW to \in WebPhases,
         WithAddress(to, n) < WithAddress(from, n), Exchange(from, to)
  PROVE  OnAddress
  BY Zenon DEF Exchange, AddressFails, udpVars, Loops, OnAddress

\* The web protocols' steps.
LEMMA WebOnAddress ==
  ASSUME Loops,
         \/ connect_with_timeout \/ SSLSocket \/ send
         \/ recv_all_with_timeout \/ ssl_recv_all \/ parse_http_response
         \/ parse_tracker_response
  PROVE  OnAddress
<1>1. /\ WithAddress("tls", n) < WithAddress("request", n)
      /\ WithAddress("send", n) < WithAddress("request", n)
      /\ WithAddress("send", n) < WithAddress("tls", n)
      /\ WithAddress("recv", n) < WithAddress("send", n)
      /\ WithAddress("ssl_recv", n) < WithAddress("send", n)
      /\ WithAddress("response", n) < WithAddress("recv", n)
      /\ WithAddress("response", n) < WithAddress("ssl_recv", n)
      /\ WithAddress("parse", n) < WithAddress("response", n)
  BY DEF WithAddress
<1>2. CASE connect_with_timeout
  BY Zenon, <1>1, <1>2, ExchangeOnAddress DEF connect_with_timeout, WebPhases
<1>3. CASE SSLSocket
  BY Zenon, <1>1, <1>3, ExchangeOnAddress DEF SSLSocket, WebPhases
<1>4. CASE send
  BY Zenon, <1>1, <1>4, ExchangeOnAddress DEF send, WebPhases
<1>5. CASE recv_all_with_timeout
  BY Zenon, <1>1, <1>5, ExchangeOnAddress DEF recv_all_with_timeout, WebPhases
<1>6. CASE ssl_recv_all
  BY Zenon, <1>1, <1>6, ExchangeOnAddress DEF ssl_recv_all, WebPhases
<1>7. CASE parse_http_response
  BY Zenon, <1>1, <1>7, ExchangeOnAddress DEF parse_http_response, WebPhases
<1>8. CASE parse_tracker_response
  BY Zenon, <1>8 DEF parse_tracker_response, Return, udpVars, OnAddress, WebPhases
<1>. QED
  BY Zenon, <1>2, <1>3, <1>4, <1>5, <1>6, <1>7, <1>8

\* The steps of an announce: between two addresses, or with one.
LEMMA StepCases ==
  ASSUME Loops, Step
  PROVE  /\ addresses' = addresses
         /\ \/ /\ pc = "address" /\ tried < addresses /\ tried' = tried
               /\ pc' \in UdpPhases \cup WebPhases
               /\ n' \in Nat /\ n' <= MAX_RETRANSMISSIONS
            \/ pc = "address" /\ pc' = "thrown" /\ UNCHANGED <<tried, n>>
            \/ pc = "thrown" /\ pc' = "idle" /\ UNCHANGED <<tried, n>>
            \/ OnAddress
<1>1. CASE TryAddress
  BY <1>1, BoundsAssumption DEF TryAddress, Loops, UdpPhases, WebPhases
<1>2. CASE Exhausted \/ Caught
  BY Zenon, <1>2 DEF Exhausted, Caught
<1>3. CASE SendTo(CONNECT) \/ SendTo(ANNOUNCE)
  BY Zenon, <1>3, SendOnAddress DEF SendTo
<1>4. CASE PollConnect \/ PollAnnounce
  BY Zenon, <1>4, PollOnAddress DEF PollConnect, PollAnnounce, Poll
<1>5. CASE \/ connect_with_timeout \/ SSLSocket \/ send
           \/ recv_all_with_timeout \/ ssl_recv_all \/ parse_http_response
           \/ parse_tracker_response
  <2>1. addresses' = addresses
    BY Zenon, <1>5 DEF connect_with_timeout, SSLSocket, send, recv_all_with_timeout,
                ssl_recv_all, parse_http_response, parse_tracker_response,
                Exchange
  <2>. QED
    BY Zenon, <1>5, <2>1, WebOnAddress
<1>. QED
  BY Zenon, <1>1, <1>2, <1>3, <1>4, <1>5 DEF Step

\* The bounds of the loops are kept.
LEMMA NextLoops == Loops /\ [AnnounceNext]_announceVars => Loops'
<1>. SUFFICES ASSUME Loops, [AnnounceNext]_announceVars
              PROVE  Loops'
  BY Zenon
<1>1. CASE Announce
  BY <1>1, BoundsAssumption
     DEF Announce, dns_lookup, Loops, UdpPhases, WebPhases
<1>2. CASE Step
  <2>1. CASE OnAddress
    BY <1>2, <2>1, StepCases DEF Loops, OnAddress, UdpPhases, WebPhases
  <2>2. CASE ~OnAddress
    BY Zenon, <1>2, <2>2, StepCases DEF Loops, UdpPhases, WebPhases
  <2>. QED
    BY Zenon, <2>1, <2>2
<1>3. CASE UNCHANGED announceVars
  BY Zenon, <1>3 DEF announceVars, Loops
<1>. QED
  BY Zenon, <1>1, <1>2, <1>3 DEF AnnounceNext, Finished

\* Every step leaves fewer to take.
LEMMA StepLeavesFewer ==
  ASSUME Loops, Step
  PROVE  StepsLeft' < StepsLeft
<1>. DEFINE k == addresses - tried
<1>1. k \in Nat /\ addresses' = addresses /\ addresses \in Nat /\ tried \in Nat
  BY StepCases DEF Loops
<1>2. ASSUME k > 0
      PROVE  /\ (k - 1) * PerAddress \in Nat /\ PerAddress \in Nat
             /\ k * PerAddress = (k - 1) * PerAddress + PerAddress
  BY Zenon, <1>1, <1>2, OneAddressLess
<1>3. k * PerAddress \in Nat
  <2>1. PerAddress \in Nat
    BY BoundsAssumption DEF PerAddress
  <2>. QED
    BY <1>1, <2>1
<1>4. CASE /\ pc = "address" /\ tried < addresses /\ tried' = tried
           /\ pc' \in UdpPhases \cup WebPhases
           /\ n' \in Nat /\ n' <= MAX_RETRANSMISSIONS
  <2>1. k > 0 /\ addresses' - tried' = k
    BY <1>1, <1>4
  <2>2. WithAddress(pc', n') \in Nat /\ WithAddress(pc', n') < PerAddress
    BY Zenon, <1>4, WithAddressBounds
  <2>3. StepsLeft' = (k - 1) * PerAddress + 2 + WithAddress(pc', n')
    BY Zenon, <1>4, <2>1 DEF StepsLeft, Left, UdpPhases, WebPhases
  <2>4. StepsLeft = k * PerAddress + 2
    BY Zenon, <1>4 DEF StepsLeft, Left
  <2>. HIDE DEF k
  <2>. QED
    BY <1>2, <2>1, <2>2, <2>3, <2>4
<1>5. CASE pc = "address" /\ pc' = "thrown"
  BY <1>3, <1>5 DEF StepsLeft, Left
<1>6. CASE pc = "thrown" /\ pc' = "idle"
  BY <1>6 DEF StepsLeft, Left
<1>7. CASE OnAddress
  <2>1. pc \in UdpPhases \cup WebPhases /\ k > 0
    BY <1>1, <1>7 DEF OnAddress, Loops
  <2>2. WithAddress(pc, n) \in Nat /\ 0 < WithAddress(pc, n)
    BY Zenon, <2>1, WithAddressBounds DEF Loops
  <2>3. StepsLeft = (k - 1) * PerAddress + 2 + WithAddress(pc, n)
    BY Zenon, <2>1 DEF StepsLeft, Left, UdpPhases, WebPhases
  <2>4. CASE pc' = "address" /\ tried' = tried + 1
    <3>1. addresses' - tried' = k - 1
      BY <1>1, <2>4
    <3>2. StepsLeft' = (k - 1) * PerAddress + 2
      BY Zenon, <2>4, <3>1 DEF StepsLeft, Left
    <3>. HIDE DEF k
    <3>. QED
      BY <1>2, <2>1, <2>2, <2>3, <3>2
  <2>5. CASE /\ tried' = tried
             /\ pc' \in UdpPhases \cup WebPhases
             /\ n' \in Nat /\ n' <= MAX_RETRANSMISSIONS
             /\ WithAddress(pc', n') < WithAddress(pc, n)
    <3>1. addresses' - tried' = k
      BY Zenon, <1>1, <2>5
    <3>2. StepsLeft' = (k - 1) * PerAddress + 2 + WithAddress(pc', n')
      BY Zenon, <2>5, <3>1 DEF StepsLeft, Left, UdpPhases, WebPhases
    <3>3. WithAddress(pc', n') \in Nat
      BY Zenon, <2>5, WithAddressBounds
    <3>. HIDE DEF k
    <3>. QED
      BY <1>2, <2>1, <2>2, <2>3, <2>5, <3>2, <3>3
  <2>6. CASE pc' \in {"idle", "thrown"}
    <3>1. StepsLeft' \in {0, 1}
      BY Zenon, <2>6 DEF StepsLeft, Left
    <3>. HIDE DEF k
    <3>. QED
      BY <1>2, <2>1, <2>2, <2>3, <3>1
  <2>. QED
    BY Zenon, <1>7, <2>4, <2>5, <2>6 DEF OnAddress
<1>. QED
  BY Zenon, <1>4, <1>5, <1>6, <1>7, StepCases

\* The steps that are left are a number.
LEMMA StepsAreCounted ==
  ASSUME Loops
  PROVE  StepsLeft \in Nat
<1>. DEFINE k == addresses - tried
<1>1. k \in Nat /\ PerAddress \in Nat
  BY BoundsAssumption DEF Loops, PerAddress
<1>2. CASE pc \in {"idle", "thrown", "address"}
  BY <1>1, <1>2 DEF StepsLeft, Left
<1>3. CASE pc \in UdpPhases \cup WebPhases
  <2>1. k > 0
    BY <1>3 DEF Loops
  <2>2. (k - 1) * PerAddress \in Nat
    BY Zenon, <1>1, <2>1, OneAddressLess
  <2>3. WithAddress(pc, n) \in Nat
    BY Zenon, <1>3, WithAddressBounds DEF Loops
  <2>4. StepsLeft = (k - 1) * PerAddress + 2 + WithAddress(pc, n)
    BY Zenon, <1>3 DEF StepsLeft, Left, UdpPhases, WebPhases
  <2>. HIDE DEF k
  <2>. QED
    BY <2>2, <2>3, <2>4
<1>. QED
  BY Zenon, <1>2, <1>3 DEF Loops

\* An announce takes at most addresses * PerAddress + 2 steps, for any limit of
\* retransmissions, any number of addresses and whatever datagrams and replies
\* arrive: every step, of UDP or of a web server, leaves fewer.  This is why
\* announce() returns wherever each of its waits does.
THEOREM AnnouncesAreBounded ==
  AnnounceSpec => [](StepsLeft \in Nat) /\ AnnounceProgress
<1>1. AnnounceInit => Loops
  BY BoundsAssumption DEF AnnounceInit, Loops, UdpPhases, WebPhases
<1>2. Loops => StepsLeft \in Nat
  BY Zenon, StepsAreCounted
<1>3. Loops /\ [AnnounceNext]_announceVars
        => [Step => StepsLeft' < StepsLeft]_announceVars
  BY Zenon, StepLeavesFewer
<1>. QED
  BY <1>1, <1>2, <1>3, NextLoops, PTL DEF AnnounceSpec, AnnounceProgress

=============================================================================
