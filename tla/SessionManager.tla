--------------------------- MODULE SessionManager ---------------------------
(***************************************************************************)
(* A session of several torrents (src/src/peer_wire/session_manager.cpp):  *)
(* the thread that starts and stops it, the status thread, and the receive *)
(* thread of the DHT client, which hands peers to the torrents.  One mutex *)
(* guards the sessions; both threads are joined while it is free.          *)
(*                                                                         *)
(* A torrent is what the session sees of a TorrentManager: whether it was  *)
(* started and stopped, whether it is complete, and its summary file.  Its *)
(* start() and stop() do not need m_mutex and are one step each.  The      *)
(* session has an output directory for its summaries.                      *)
(***************************************************************************)
EXTENDS Naturals, UPnPPortMapping

CONSTANT Torrents

VARIABLES
  pc,                  \* main thread: next statement
  todo,                \* main thread: torrents its loop has not reached
  dtor,                \* main thread: in the destructor
  m_mutex,             \* holder, or "free"
  m_status_stop,
  status,              \* status thread: next statement, or "none"
  unprinted,           \* status thread: torrents its loop has not reached
  dht,                 \* receive thread: next statement, or "none"
  running_,            \* of the DHT client
  torrent,             \* "new", "up" or "stopped"
  complete,            \* is_complete
  completed_in_time,   \* complete before the session was told to stop
  m_summary_written,
  summary,             \* the file: who wrote it and whether it says complete
  m_reference_match    \* has been set

mainVars == <<pc, todo, dtor>>
statusVars == <<status, unprinted, m_status_stop>>
dhtVars == <<dht, running_>>
summaryVars == <<m_summary_written, summary>>
vars == <<mainVars, m_mutex, statusVars, dhtVars, torrent, complete,
          completed_in_time, summaryVars, m_reference_match, upnpVars>>

NoSummary == [by |-> "nobody", complete |-> FALSE]

TypeOK ==
  /\ pc \in {"upnp", "start_dht", "start_lock", "start_each", "refresh", "poll",
             "status_stop", "status_join", "flush_lock", "flush", "dht_stop",
             "dht_join", "stop_lock", "stop_each", "returned", "release", "end"}
  /\ todo \subseteq Torrents
  /\ dtor \in BOOLEAN
  /\ m_mutex \in {"free", "main", "status", "dht"}
  /\ m_status_stop \in BOOLEAN
  /\ status \in {"none", "check", "lock", "print", "exited"}
  /\ unprinted \subseteq Torrents
  /\ dht \in {"none", "recv", "lock", "add", "exited"}
  /\ running_ \in BOOLEAN
  /\ torrent \in [Torrents -> {"new", "up", "stopped"}]
  /\ complete \in [Torrents -> BOOLEAN]
  /\ completed_in_time \subseteq Torrents
  /\ m_summary_written \in [Torrents -> BOOLEAN]
  /\ summary \in [Torrents -> [by : {"nobody", "status", "flush"},
                               complete : BOOLEAN]]
  /\ m_reference_match \in BOOLEAN
  /\ m_mutex = "main" => pc \in {"start_each", "flush", "stop_each"}
  /\ m_mutex = "status" => status = "print"
  /\ m_mutex = "dht" => dht = "add"

Init ==
  /\ UPnPInit
  /\ pc = "upnp" /\ todo = {} /\ dtor = FALSE
  /\ m_mutex = "free"
  /\ m_status_stop = TRUE /\ status = "none" /\ unprinted = {}
  /\ dht = "none" /\ running_ = FALSE
  /\ torrent = [s \in Torrents |-> "new"]
  /\ complete = [s \in Torrents |-> FALSE]
  /\ completed_in_time = {}
  /\ m_summary_written = [s \in Torrents |-> FALSE]
  /\ summary = [s \in Torrents |-> NoSummary]
  /\ m_reference_match = FALSE

-----------------------------------------------------------------------------
(* The main thread.                                                         *)

\* Fault: the DHT client outlives the torrents.
DhtLast == [flush |-> "stop_lock", stop_each |-> "dht_stop",
            dht_join |-> "returned"]

\* The order of the parts of stop_all.
Then == [flush |-> "dht_stop", dht_join |-> "stop_lock",
         stop_each |-> "returned"]

GoTo(label) == pc' = label
Locks(label) ==
  m_mutex = "free" /\ m_mutex' = "main" /\ todo' = Torrents /\ GoTo(label)
Unlocks(label) == m_mutex' = "free" /\ GoTo(label)

\* start_all begins with the port mapping, and goes on without one.
CreateMapping ==
  /\ pc = "upnp"
  /\ create
  /\ GoTo(CASE upnp' = "done" -> "start_dht"
            [] upnp' = "thrown" -> "status_stop"
            [] OTHER -> "upnp")
  /\ dtor' = (upnp' = "thrown")
  /\ UNCHANGED <<todo, m_mutex, statusVars, dhtVars, torrent, complete,
                 completed_in_time, summaryVars, m_reference_match>>

\* start_all up to m_dht_client->start(); peers may arrive from here on.
StartDht ==
  /\ pc = "start_dht"
  /\ dht' = "recv" /\ running_' = TRUE
  /\ GoTo("start_lock")
  /\ UNCHANGED <<todo, dtor, m_mutex, statusVars, torrent, complete,
                 completed_in_time, summaryVars, m_reference_match, upnpVars>>

LockToStart ==
  /\ pc = "start_lock" /\ Locks("start_each")
  /\ UNCHANGED <<dtor, statusVars, dhtVars, torrent, complete,
                 completed_in_time, summaryVars, m_reference_match, upnpVars>>

StartTorrent(s) ==
  /\ pc = "start_each" /\ s \in todo
  /\ torrent' = [torrent EXCEPT ![s] = "up"]
  /\ todo' = todo \ {s}
  /\ UNCHANGED <<pc, dtor, m_mutex, statusVars, dhtVars, complete,
                 completed_in_time, summaryVars, m_reference_match, upnpVars>>

\* m_dht_client->start() throws before its threads run, because the port is
\* taken, or while they run, because of the routing table's file; the session
\* is destroyed.
StartDhtThrows ==
  /\ pc = "start_dht"
  /\ \/ UNCHANGED dhtVars
     \/ dht' = "recv" /\ running_' = TRUE
  /\ GoTo("status_stop")
  /\ dtor' = TRUE
  /\ completed_in_time' = {s \in Torrents : complete[s]}
  /\ UNCHANGED <<todo, m_mutex, statusVars, torrent, complete, summaryVars,
                 m_reference_match, upnpVars>>

\* The start() of a torrent throws.
StartThrows ==
  /\ pc = "start_each" /\ todo # {}
  /\ Unlocks("status_stop")
  /\ dtor' = TRUE
  /\ completed_in_time' = {s \in Torrents : complete[s]}
  /\ UNCHANGED <<todo, statusVars, dhtVars, torrent, complete, summaryVars,
                 m_reference_match, upnpVars>>

StartReturns ==
  /\ pc = "start_each" /\ todo = {}
  /\ Unlocks("refresh")
  /\ UNCHANGED <<todo, dtor, statusVars, dhtVars, torrent, complete,
                 completed_in_time, summaryVars, m_reference_match, upnpVars>>

start_status_refresh ==
  /\ pc = "refresh" /\ m_mutex = "free"
  /\ m_status_stop' = FALSE /\ status' = "check"
  /\ GoTo("poll")
  /\ UNCHANGED <<todo, dtor, m_mutex, unprinted, dhtVars, torrent, complete,
                 completed_in_time, summaryVars, m_reference_match, upnpVars>>

\* The program waits for all_complete or gives up, and may then pass the result
\* of a comparison with reference files.
EndOfDownload ==
  /\ pc = "poll" /\ m_mutex = "free"
  /\ m_reference_match' \in BOOLEAN
  /\ completed_in_time' = {s \in Torrents : complete[s]}
  /\ GoTo("status_stop")
  /\ UNCHANGED <<todo, dtor, m_mutex, statusVars, dhtVars, torrent, complete,
                 summaryVars, upnpVars>>

\* stop_all and the destructor begin with stop_status_refresh.
StopStatus ==
  /\ pc = "status_stop"
  /\ m_status_stop' = TRUE
  /\ GoTo("status_join")
  /\ UNCHANGED <<todo, dtor, m_mutex, status, unprinted, dhtVars, torrent,
                 complete, completed_in_time, summaryVars, m_reference_match,
                 upnpVars>>

StatusGone == status \in {"none", "exited"}

JoinStatus ==
  /\ pc = "status_join" /\ StatusGone
  /\ GoTo("flush_lock")
  /\ UNCHANGED <<todo, dtor, m_mutex, statusVars, dhtVars, torrent, complete,
                 completed_in_time, summaryVars, m_reference_match, upnpVars>>

LockToFlush ==
  /\ pc = "flush_lock" /\ Locks("flush")
  /\ UNCHANGED <<dtor, statusVars, dhtVars, torrent, complete,
                 completed_in_time, summaryVars, m_reference_match, upnpVars>>

\* The summary is written once, or again when there is a comparison to add.
FlushSummary(s) ==
  /\ pc = "flush" /\ s \in todo
  /\ todo' = todo \ {s}
  /\ summary' = IF m_reference_match \/ ~m_summary_written[s]
                THEN [summary EXCEPT ![s] = [by |-> "flush",
                                             complete |-> complete[s]]]
                ELSE summary
  /\ m_summary_written' = [m_summary_written EXCEPT
                             ![s] = @ \/ ~m_reference_match]
  /\ UNCHANGED <<pc, dtor, m_mutex, statusVars, dhtVars, torrent, complete,
                 completed_in_time, m_reference_match, upnpVars>>

FlushReturns ==
  /\ pc = "flush" /\ todo = {}
  /\ Unlocks(Then["flush"])
  /\ UNCHANGED <<todo, dtor, statusVars, dhtVars, torrent, complete,
                 completed_in_time, summaryVars, m_reference_match, upnpVars>>

StopDht ==
  /\ pc = "dht_stop"
  /\ running_' = FALSE
  /\ GoTo("dht_join")
  /\ UNCHANGED <<todo, dtor, m_mutex, statusVars, dht, torrent, complete,
                 completed_in_time, summaryVars, m_reference_match, upnpVars>>

JoinDht ==
  /\ pc = "dht_join" /\ dht \in {"none", "exited"}
  /\ dht' = "none"
  /\ GoTo(Then["dht_join"])
  /\ UNCHANGED <<todo, dtor, m_mutex, statusVars, running_, torrent, complete,
                 completed_in_time, summaryVars, m_reference_match, upnpVars>>

LockToStop ==
  /\ pc = "stop_lock" /\ Locks("stop_each")
  /\ UNCHANGED <<dtor, statusVars, dhtVars, torrent, complete,
                 completed_in_time, summaryVars, m_reference_match, upnpVars>>

StopTorrent(s) ==
  /\ pc = "stop_each" /\ s \in todo
  /\ todo' = todo \ {s}
  /\ torrent' = [torrent EXCEPT ![s] = "stopped"]
  /\ UNCHANGED <<pc, dtor, m_mutex, statusVars, dhtVars, complete,
                 completed_in_time, summaryVars, m_reference_match, upnpVars>>

StopReturns ==
  /\ pc = "stop_each" /\ todo = {}
  /\ Unlocks(Then["stop_each"])
  /\ UNCHANGED <<todo, dtor, statusVars, dhtVars, torrent, complete,
                 completed_in_time, summaryVars, m_reference_match, upnpVars>>

\* The destructor stops everything once more, and then the members go.
Destroy ==
  /\ pc = "returned"
  /\ GoTo(IF dtor THEN "release" ELSE "status_stop")
  /\ dtor' = TRUE
  /\ UNCHANGED <<todo, m_mutex, statusVars, dhtVars, torrent, complete,
                 completed_in_time, summaryVars, m_reference_match, upnpVars>>

ReleaseMapping ==
  /\ pc = "release"
  /\ DestroyMapping
  /\ GoTo("end")
  /\ UNCHANGED <<todo, dtor, m_mutex, statusVars, dhtVars, torrent, complete,
                 completed_in_time, summaryVars, m_reference_match>>

-----------------------------------------------------------------------------
(* The status thread.                                                       *)

CheckStop ==
  /\ status = "check"
  /\ status' = IF m_status_stop THEN "exited" ELSE "lock"
  /\ UNCHANGED <<mainVars, m_mutex, unprinted, m_status_stop, dhtVars, torrent,
                 complete, completed_in_time, summaryVars, m_reference_match,
                 upnpVars>>

\* The first print_status_locked, and one that comes too soon, has no loop.
LockToPrint ==
  /\ status = "lock" /\ m_mutex = "free"
  /\ m_mutex' = "status" /\ status' = "print"
  /\ unprinted' \in {{}, Torrents}
  /\ UNCHANGED <<mainVars, m_status_stop, dhtVars, torrent, complete,
                 completed_in_time, summaryVars, m_reference_match, upnpVars>>

\* Fault: any torrent is reported.
ReportsAny(s) == ~m_summary_written[s]

Reports(s) == complete[s] /\ ~m_summary_written[s]

\* print_status_locked writes the summary of a torrent it finds complete.
PrintTorrent(s) ==
  /\ status = "print" /\ s \in unprinted
  /\ unprinted' = unprinted \ {s}
  /\ IF Reports(s)
     THEN /\ m_summary_written' = [m_summary_written EXCEPT ![s] = TRUE]
          /\ summary' = [summary EXCEPT ![s] = [by |-> "status",
                                                complete |-> complete[s]]]
     ELSE UNCHANGED summaryVars
  /\ UNCHANGED <<mainVars, m_mutex, status, m_status_stop, dhtVars, torrent,
                 complete, completed_in_time, m_reference_match, upnpVars>>

PrintReturns ==
  /\ status = "print" /\ unprinted = {}
  /\ m_mutex' = "free" /\ status' = "check"
  /\ UNCHANGED <<mainVars, unprinted, m_status_stop, dhtVars, torrent, complete,
                 completed_in_time, summaryVars, m_reference_match, upnpVars>>

-----------------------------------------------------------------------------
(* The DHT receive thread, and the torrents.                                *)

\* Fault: stop() does not end the loop.
LoopsForever == TRUE

LoopGoesOn == running_

\* A message that carries peers, or the end of recv_loop.
Receive ==
  /\ dht = "recv"
  /\ dht' = IF LoopGoesOn THEN "lock" ELSE "exited"
  /\ UNCHANGED <<mainVars, m_mutex, statusVars, running_, torrent, complete,
                 completed_in_time, summaryVars, m_reference_match, upnpVars>>

LockToAdd ==
  /\ dht = "lock" /\ m_mutex = "free"
  /\ m_mutex' = "dht" /\ dht' = "add"
  /\ UNCHANGED <<mainVars, statusVars, running_, torrent, complete,
                 completed_in_time, summaryVars, m_reference_match, upnpVars>>

\* The callback has called add_dht_peer of the torrent with that hash, if any.
AddPeer ==
  /\ dht = "add"
  /\ m_mutex' = "free" /\ dht' = "recv"
  /\ UNCHANGED <<mainVars, statusVars, running_, torrent, complete,
                 completed_in_time, summaryVars, m_reference_match, upnpVars>>

\* The last piece is written by a peer thread of the torrent.
Complete(s) ==
  /\ torrent[s] # "stopped" /\ ~complete[s]
  /\ complete' = [complete EXCEPT ![s] = TRUE]
  /\ UNCHANGED <<mainVars, m_mutex, statusVars, dhtVars, torrent,
                 completed_in_time, summaryVars, m_reference_match, upnpVars>>

-----------------------------------------------------------------------------
Acquire == LockToStart \/ LockToFlush \/ LockToStop \/ start_status_refresh
           \/ EndOfDownload

Main ==
  \/ Acquire
  \/ CreateMapping \/ StartDht \/ StartDhtThrows \/ StartThrows \/ StartReturns
  \/ \E s \in Torrents : StartTorrent(s) \/ FlushSummary(s) \/ StopTorrent(s)
  \/ StopStatus \/ JoinStatus \/ FlushReturns
  \/ StopDht \/ JoinDht \/ StopReturns \/ Destroy \/ ReleaseMapping

Status ==
  \/ CheckStop \/ LockToPrint \/ PrintReturns
  \/ \E s \in Torrents : PrintTorrent(s)
Dht == Receive \/ LockToAdd \/ AddPeer

Terminated == pc = "end" /\ UNCHANGED vars

Next == Main \/ Status \/ Dht \/ (\E s \in Torrents : Complete(s)) \/ Terminated

Spec == Init /\ [][Next]_vars

\* Every thread runs, and one that waits for the mutex gets it in the end: the
\* others spend most of their time asleep or waiting for a datagram.
FairSpec ==
  /\ Spec
  /\ WF_vars(Main) /\ WF_vars(Status) /\ WF_vars(Dht)
  /\ SF_vars(Acquire) /\ SF_vars(LockToPrint) /\ SF_vars(LockToAdd)

-----------------------------------------------------------------------------
(* Properties.                                                              *)

\* A peer found by the DHT is never handed to a torrent that was stopped, or
\* whose stop() is walking its threads.
NoPeerAfterStop == dht = "add" => \A s \in Torrents : torrent[s] # "stopped"

\* Once stop_all has flushed them there is a summary for every torrent, and
\* that of a torrent that was complete in time says so, whichever thread wrote
\* it.
SummariesAreRight ==
  pc \in {"dht_stop", "dht_join", "stop_lock", "stop_each", "returned",
         "release", "end"} =>
    \A s \in Torrents :
      /\ summary[s].by # "nobody"
      /\ s \in completed_in_time => summary[s].complete

\* The session comes down, wherever the status thread and the DHT callback are
\* when stop_all begins.
SessionEnds == (pc = "status_stop") ~> (pc = "end")

\* upnp.h: the mapping is removed "on destruction", of the session and of
\* nothing else: none of the objects it was moved through deletes it, however
\* the session ends it is deleted, and only a message that got lost leaves the
\* router with something else.
PortMappingLivesWithSession ==
  /\ "m_upnp_mapping" \in m_valid => mapped # "no"
  /\ pc = "end" => mapped # "yes"
=============================================================================
