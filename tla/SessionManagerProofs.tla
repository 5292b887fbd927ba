------------------------ MODULE SessionManagerProofs ------------------------
(***************************************************************************)
(* Proofs about SessionManager for any number of torrents: the end of the  *)
(* DHT callback, the summaries, and the port mapping of the session.       *)
(***************************************************************************)
EXTENDS SessionManager, TLAPS

-----------------------------------------------------------------------------
(* The inductive invariant.                                                 *)

Starting == {"upnp", "start_dht", "start_lock", "start_each"}
Early == Starting \cup {"refresh", "poll"}
Flushed == {"dht_stop", "dht_join", "stop_lock", "stop_each", "returned",
            "release", "end"}
DhtGone == {"stop_lock", "stop_each", "returned", "release", "end"}

Shape ==
  /\ torrent \in [Torrents -> {"new", "up", "stopped"}]
  /\ complete \in [Torrents -> BOOLEAN]
  /\ m_summary_written \in [Torrents -> BOOLEAN]
  /\ summary \in [Torrents -> [by : {"nobody", "status", "flush"},
                               complete : BOOLEAN]]

\* The receive thread is joined before the first torrent is stopped, and there
\* is never another one.
DhtFirst ==
  /\ pc \in DhtGone => dht = "none"
  /\ \A s \in Torrents :
       torrent[s] = "stopped" => dht = "none" /\ pc \notin Starting

\* What the summary of a torrent says, whoever wrote it.
SummaryOf(s) ==
  /\ summary[s].by = "status" => summary[s].complete
  /\ summary[s].by # "nobody" /\ s \in completed_in_time => summary[s].complete
  /\ m_summary_written[s] => summary[s].by # "nobody"
  /\ s \in completed_in_time => complete[s]
  /\ pc \in Early => summary[s].by # "flush"
  /\ pc \in Flushed \/ (pc = "flush" /\ s \notin todo) =>
       summary[s].by # "nobody"

Summaries == \A s \in Torrents : SummaryOf(s)

\* Exactly one object owns the mapping once it is made, and which one it is.
Mapping ==
  /\ pc = "upnp" <=> upnp \notin {"done", "thrown"}
  /\ m_valid \in CASE upnp = "return" -> {{"local"}}
                   [] upnp = "assign" -> {{"returned"}}
                   [] upnp = "done" /\ pc # "end" -> SUBSET {"m_upnp_mapping"}
                   [] OTHER -> {{}}
  /\ m_valid # {} => mapped # "no"
  /\ m_valid = {} => mapped # "yes"

IInv == Shape /\ DhtFirst /\ Summaries /\ Mapping

-----------------------------------------------------------------------------
(* The steps.                                                               *)

\* A step of the session is one of these.
LEMMA NextCases ==
  ASSUME [Next]_vars
  PROVE  \/ CreateMapping \/ StartDht \/ StartDhtThrows \/ LockToStart
         \/ \E s \in Torrents : StartTorrent(s)
         \/ StartThrows \/ StartReturns \/ start_status_refresh
         \/ EndOfDownload \/ StopStatus \/ JoinStatus \/ LockToFlush
         \/ \E s \in Torrents : FlushSummary(s)
         \/ FlushReturns \/ StopDht \/ JoinDht \/ LockToStop
         \/ \E s \in Torrents : StopTorrent(s)
         \/ StopReturns \/ Destroy \/ ReleaseMapping
         \/ CheckStop \/ LockToPrint \/ PrintReturns
         \/ \E s \in Torrents : PrintTorrent(s)
         \/ Receive \/ LockToAdd \/ AddPeer
         \/ \E s \in Torrents : Complete(s)
         \/ UNCHANGED vars
  BY DEF Next, Main, Acquire, Status, Dht, Terminated

\* The functions keep their types.
LEMMA ShapeInvariant == Shape /\ [Next]_vars => Shape'
<1>. SUFFICES ASSUME Shape, [Next]_vars
              PROVE  Shape'
  OBVIOUS
<1>1. ASSUME NEW s \in Torrents, StartTorrent(s) \/ StopTorrent(s)
      PROVE  Shape'
  BY <1>1 DEF Shape, StartTorrent, StopTorrent, summaryVars
<1>2. ASSUME NEW s \in Torrents, FlushSummary(s)
      PROVE  Shape'
  <2>1. /\ summary' \in [Torrents -> [by : {"nobody", "status", "flush"},
                                      complete : BOOLEAN]]
        /\ m_summary_written' \in [Torrents -> BOOLEAN]
    BY <1>2 DEF Shape, FlushSummary
  <2>. QED
    BY <1>2, <2>1 DEF Shape, FlushSummary
<1>3. ASSUME NEW s \in Torrents, PrintTorrent(s)
      PROVE  Shape'
  <2>1. /\ summary' \in [Torrents -> [by : {"nobody", "status", "flush"},
                                      complete : BOOLEAN]]
        /\ m_summary_written' \in [Torrents -> BOOLEAN]
    <3>1. CASE Reports(s)
      <4>1. [by |-> "status", complete |-> complete[s]]
              \in [by : {"nobody", "status", "flush"}, complete : BOOLEAN]
        BY DEF Shape
      <4>2. summary' = [summary EXCEPT ![s] = [by |-> "status",
                                               complete |-> complete[s]]]
        BY <1>3, <3>1 DEF PrintTorrent
      <4>3. m_summary_written' = [m_summary_written EXCEPT ![s] = TRUE]
        BY <1>3, <3>1 DEF PrintTorrent
      <4>. QED
        BY <4>1, <4>2, <4>3 DEF Shape
    <3>2. CASE ~Reports(s)
      BY <1>3, <3>2 DEF Shape, PrintTorrent, summaryVars
    <3>. QED
      BY <3>1, <3>2
  <2>. QED
    BY <1>3, <2>1 DEF Shape, PrintTorrent
<1>4. ASSUME NEW s \in Torrents, Complete(s)
      PROVE  Shape'
  BY <1>4 DEF Shape, Complete, summaryVars
<1>5. CASE UNCHANGED <<torrent, complete, summaryVars>>
  BY <1>5 DEF Shape, summaryVars
<1>6. \/ \E s \in Torrents : \/ StartTorrent(s) \/ StopTorrent(s)
                             \/ FlushSummary(s) \/ PrintTorrent(s)
                             \/ Complete(s)
      \/ UNCHANGED <<torrent, complete, summaryVars>>
  BY NextCases
     DEF CreateMapping, StartDht, StartDhtThrows, LockToStart, StartThrows,
         StartReturns, start_status_refresh, EndOfDownload, StopStatus,
         JoinStatus, LockToFlush, FlushReturns, StopDht, JoinDht, LockToStop,
         StopReturns, Destroy, ReleaseMapping, CheckStop, LockToPrint,
         PrintReturns, Receive, LockToAdd, AddPeer, vars
<1>. QED
  BY <1>1, <1>2, <1>3, <1>4, <1>5, <1>6

\* The order of the parts of stop_all: the receive thread is gone before the
\* torrents are stopped.
LEMMA DhtInvariant == Shape /\ DhtFirst /\ [Next]_vars => DhtFirst'
<1>. SUFFICES ASSUME Shape, DhtFirst, [Next]_vars
              PROVE  DhtFirst'
  OBVIOUS
<1>. USE DEF Starting, DhtGone
<1>1. CASE \/ CreateMapping \/ StartDht \/ StartDhtThrows \/ LockToStart
           \/ StartThrows \/ StartReturns
  BY <1>1 DEF DhtFirst, CreateMapping, StartDht, StartDhtThrows, LockToStart,
              StartThrows, StartReturns, Locks, Unlocks, GoTo, dhtVars
<1>2. ASSUME NEW s \in Torrents, StartTorrent(s) \/ StopTorrent(s)
      PROVE  DhtFirst'
  BY <1>2 DEF Shape, DhtFirst, StartTorrent, StopTorrent, dhtVars
<1>3. CASE \/ start_status_refresh \/ EndOfDownload \/ StopStatus
           \/ JoinStatus \/ LockToFlush \/ FlushReturns
  BY <1>3 DEF DhtFirst, start_status_refresh, EndOfDownload, StopStatus,
              JoinStatus, LockToFlush, FlushReturns, Locks, Unlocks, GoTo,
              Then, dhtVars
<1>4. CASE StopDht \/ JoinDht \/ LockToStop \/ StopReturns
  BY <1>4 DEF DhtFirst, StopDht, JoinDht, LockToStop, StopReturns, Locks,
              Unlocks, GoTo, Then, dhtVars
<1>5. CASE Destroy \/ ReleaseMapping
  BY <1>5 DEF DhtFirst, Destroy, ReleaseMapping, GoTo, dhtVars
<1>6. CASE CheckStop \/ LockToPrint \/ PrintReturns
  BY <1>6 DEF DhtFirst, CheckStop, LockToPrint, PrintReturns, mainVars,
              dhtVars
<1>7. ASSUME NEW s \in Torrents,
             FlushSummary(s) \/ PrintTorrent(s) \/ Complete(s)
      PROVE  DhtFirst'
  BY <1>7 DEF DhtFirst, FlushSummary, PrintTorrent, Complete, mainVars,
              dhtVars
<1>8. CASE Receive \/ LockToAdd \/ AddPeer
  BY <1>8 DEF DhtFirst, Receive, LockToAdd, AddPeer, mainVars
<1>9. CASE UNCHANGED vars
  BY <1>9 DEF DhtFirst, vars, mainVars, dhtVars
<1>. QED
  BY <1>1, <1>2, <1>3, <1>4, <1>5, <1>6, <1>7, <1>8, <1>9, NextCases

\* The status thread writes a summary only of a complete torrent, flush writes
\* what is_complete says then, and a torrent that was complete stays so.
LEMMA SummariesInvariant == Shape /\ Summaries /\ [Next]_vars => Summaries'
<1>. SUFFICES ASSUME Shape, Summaries, [Next]_vars, NEW r \in Torrents
              PROVE  SummaryOf(r)'
  BY DEF Summaries
<1>0. SummaryOf(r)
  BY DEF Summaries
<1>. USE DEF Early, Starting, Flushed, SummaryOf
<1>1. CASE \/ CreateMapping \/ StartDht \/ LockToStart \/ StartReturns
           \/ start_status_refresh
  BY <1>0, <1>1 DEF CreateMapping, StartDht, LockToStart, StartReturns,
                    start_status_refresh, Locks, Unlocks, GoTo, summaryVars
<1>2. CASE StartDhtThrows \/ StartThrows \/ EndOfDownload
  <2>1. /\ pc \in Early /\ pc' = "status_stop"
        /\ completed_in_time' = {s \in Torrents : complete[s]}
        /\ UNCHANGED <<complete, summary, m_summary_written>>
    BY <1>2 DEF StartDhtThrows, StartThrows, EndOfDownload, Unlocks, GoTo,
                summaryVars
  <2>2. summary[r].by \in {"nobody", "status", "flush"}
    BY DEF Shape
  <2>. QED
    BY <1>0, <2>1, <2>2
<1>3. ASSUME NEW s \in Torrents, StartTorrent(s) \/ StopTorrent(s)
      PROVE  SummaryOf(r)'
  BY <1>0, <1>3 DEF StartTorrent, StopTorrent, summaryVars
<1>4. CASE StopStatus \/ JoinStatus \/ LockToFlush
  BY <1>0, <1>4 DEF StopStatus, JoinStatus, LockToFlush, Locks, GoTo,
                    summaryVars
<1>5. ASSUME NEW s \in Torrents, FlushSummary(s)
      PROVE  SummaryOf(r)'
  <2>1. CASE r # s
    BY <1>0, <1>5, <2>1 DEF FlushSummary, Shape
  <2>2. CASE r = s /\ (m_reference_match \/ ~m_summary_written[s])
    <3>1. summary'[r] = [by |-> "flush", complete |-> complete[r]]
      BY <1>5, <2>2 DEF FlushSummary, Shape
    <3>. QED
      BY <1>0, <1>5, <2>2, <3>1 DEF FlushSummary, Shape
  <2>3. CASE r = s /\ ~(m_reference_match \/ ~m_summary_written[s])
    BY <1>0, <1>5, <2>3 DEF FlushSummary, Shape
  <2>. QED
    BY <2>1, <2>2, <2>3
<1>6. CASE FlushReturns
  BY <1>0, <1>6 DEF FlushReturns, Unlocks, GoTo, Then, summaryVars
<1>7. CASE StopDht \/ JoinDht \/ LockToStop \/ StopReturns
  BY <1>0, <1>7 DEF StopDht, JoinDht, LockToStop, StopReturns, Locks, Unlocks,
                    GoTo, Then, summaryVars
<1>8. CASE Destroy \/ ReleaseMapping
  BY <1>0, <1>8 DEF Destroy, ReleaseMapping, GoTo, summaryVars
<1>9. ASSUME NEW s \in Torrents, PrintTorrent(s)
      PROVE  SummaryOf(r)'
  <2>1. CASE Reports(s)
    BY <1>0, <1>9, <2>1 DEF PrintTorrent, Reports, Shape, mainVars
  <2>2. CASE ~Reports(s)
    BY <1>0, <1>9, <2>2 DEF PrintTorrent, mainVars, summaryVars
  <2>. QED
    BY <2>1, <2>2
<1>10. ASSUME NEW s \in Torrents, Complete(s)
       PROVE  SummaryOf(r)'
  BY <1>0, <1>10 DEF Complete, Shape, mainVars, summaryVars
<1>11. CASE \/ CheckStop \/ LockToPrint \/ PrintReturns \/ Receive
            \/ LockToAdd \/ AddPeer
  BY <1>0, <1>11 DEF CheckStop, LockToPrint, PrintReturns, Receive, LockToAdd,
                     AddPeer, mainVars, summaryVars
<1>12. CASE UNCHANGED vars
  BY <1>0, <1>12 DEF vars, mainVars, summaryVars
<1>. QED
  BY <1>1, <1>2, <1>3, <1>4, <1>5, <1>6, <1>7, <1>8, <1>9, <1>10, <1>11,
     <1>12, NextCases

\* The move constructor takes the ownership away from its argument, so that
\* only the object that ends up in the session deletes the mapping.
LEMMA MappingInvariant == Mapping /\ [Next]_vars => Mapping'
<1>. SUFFICES ASSUME Mapping, [Next]_vars
              PROVE  Mapping'
  OBVIOUS
<1>1. CASE CreateMapping
  <2>0. create
    BY <1>1 DEF CreateMapping
  <2>1. pc = "upnp" /\ pc' = CASE upnp' = "done" -> "start_dht"
                               [] upnp' = "thrown" -> "status_stop"
                               [] OTHER -> "upnp"
    BY <1>1 DEF CreateMapping, GoTo
  <2>2. CASE \/ Multicast \/ Unicast \/ HttpProbe \/ fetch_igd_info
             \/ local_ip_for \/ get_external_ip
    <3>1. /\ upnp \notin {"return", "assign", "done", "thrown"}
          /\ upnp' \notin {"return", "assign"}
          /\ UNCHANGED <<m_valid, mapped>>
      BY <2>2 DEF Multicast, Unicast, HttpProbe, fetch_igd_info, local_ip_for,
                  get_external_ip, Goes
    <3>2. m_valid = {} /\ mapped # "yes"
      BY <3>1 DEF Mapping
    <3>. QED
      BY <2>1, <3>1, <3>2 DEF Mapping
  <2>3. CASE AddPortMapping
    <3>1. m_valid = {} /\ mapped # "yes"
      BY <2>3 DEF Mapping, AddPortMapping
    <3>. QED
      BY <2>1, <2>3, <3>1 DEF Mapping, AddPortMapping, SoapOutcomes
  <2>4. CASE ReturnMapping
    <3>1. m_valid = {"local"} /\ mapped # "no"
      BY <2>4 DEF Mapping, ReturnMapping
    <3>2. MoveConstruct("local", "returned") = {"returned"}
      BY <3>1 DEF MoveConstruct
    <3>3. m_valid' = {"returned"} /\ mapped' = mapped /\ upnp' = "assign"
      BY <2>4, <3>2 DEF ReturnMapping, release
    <3>. QED
      BY <2>1, <3>1, <3>3 DEF Mapping
  <2>5. CASE AssignMapping
    <3>1. m_valid = {"returned"} /\ mapped # "no"
      BY <2>5 DEF Mapping, AssignMapping
    <3>2. MoveConstruct("returned", "m_upnp_mapping") = {"m_upnp_mapping"}
      BY <3>1 DEF MoveConstruct
    <3>3. m_valid' = {"m_upnp_mapping"} /\ mapped' = mapped /\ upnp' = "done"
      BY <2>5, <3>2 DEF AssignMapping, release
    <3>. QED
      BY <2>1, <3>1, <3>3 DEF Mapping
  <2>. QED
    BY <2>0, <2>2, <2>3, <2>4, <2>5 DEF create
<1>2. CASE ReleaseMapping
  <2>1. /\ upnp \in {"done", "thrown"} /\ upnp' = upnp /\ pc' = "end"
        /\ m_valid \subseteq {"m_upnp_mapping"}
    BY <1>2 DEF Mapping, ReleaseMapping, DestroyMapping, GoTo
  <2>2. m_valid' = {} /\ mapped' # "yes"
    BY <1>2, <2>1 DEF Mapping, ReleaseMapping, DestroyMapping, release
  <2>. QED
    BY <2>1, <2>2 DEF Mapping
<1>3. CASE UNCHANGED upnpVars /\ pc # "upnp" /\ pc' # "upnp"
           /\ (pc' = "end" <=> pc = "end")
  BY <1>3 DEF Mapping, upnpVars
<1>4. CASE UNCHANGED <<upnpVars, pc>>
  BY <1>4 DEF Mapping, upnpVars
<1>5. \/ CreateMapping \/ ReleaseMapping
      \/ UNCHANGED upnpVars /\ pc # "upnp" /\ pc' # "upnp"
         /\ (pc' = "end" <=> pc = "end")
      \/ UNCHANGED <<upnpVars, pc>>
  BY NextCases
     DEF StartDht, StartDhtThrows, LockToStart, StartTorrent, StartThrows,
         StartReturns, start_status_refresh, EndOfDownload, StopStatus,
         JoinStatus, LockToFlush, FlushSummary, FlushReturns, StopDht,
         JoinDht, LockToStop, StopTorrent, StopReturns, Destroy, CheckStop,
         LockToPrint, PrintReturns, PrintTorrent, Receive, LockToAdd, AddPeer,
         Complete, Locks, Unlocks, GoTo, Then, mainVars, vars
<1>. QED
  BY <1>1, <1>2, <1>3, <1>4, <1>5

-----------------------------------------------------------------------------
(* The theorems.                                                            *)

\* A session that has not been started.
LEMMA InitIInv == Init => IInv
<1>. SUFFICES ASSUME Init
              PROVE  IInv
  OBVIOUS
<1>1. Shape /\ DhtFirst
  BY DEF Init, Shape, NoSummary, DhtFirst, DhtGone
<1>2. Summaries
  BY DEF Init, Summaries, SummaryOf, NoSummary, Early, Starting, Flushed
<1>3. Mapping
  BY DEF Init, UPnPInit, Mapping
<1>. QED
  BY <1>1, <1>2, <1>3 DEF IInv

\* The invariant holds in every state of every execution.
LEMMA Invariance == Spec => []IInv
<1>1. IInv /\ [Next]_vars => IInv'
  BY ShapeInvariant, DhtInvariant, SummariesInvariant, MappingInvariant
     DEF IInv
<1>. QED
  BY <1>1, InitIInv, PTL DEF Spec

\* The DHT callback never reaches a torrent that stop_all has stopped.
THEOREM CallbackEndsFirst == Spec => []NoPeerAfterStop
<1>1. IInv => NoPeerAfterStop
  BY DEF IInv, DhtFirst, NoPeerAfterStop
<1>. QED
  BY <1>1, Invariance, PTL

\* After flush_run_summaries each torrent has its summary, and none that was
\* complete in time is reported as incomplete.
THEOREM EveryTorrentIsReported == Spec => []SummariesAreRight
<1>1. IInv => SummariesAreRight
  BY DEF IInv, Summaries, SummaryOf, Flushed, SummariesAreRight
<1>. QED
  BY <1>1, Invariance, PTL

\* The mapping is there for as long as the session may rely on it, and is not
\* left behind.
THEOREM MappingHasOneOwner == Spec => []PortMappingLivesWithSession
<1>1. IInv => PortMappingLivesWithSession
  BY DEF IInv, Mapping, PortMappingLivesWithSession
<1>. QED
  BY <1>1, Invariance, PTL

=============================================================================
