-------------------------- MODULE DhtClientProofs ---------------------------
(***************************************************************************)
(* Proofs about DhtClient for any number of nodes and torrents: what       *)
(* stop() guarantees about the two threads, and the saved routing table.   *)
(***************************************************************************)
EXTENDS DhtClient, TLAPS

-----------------------------------------------------------------------------
(* The inductive invariant.                                                 *)

States == {"absent", "stale", "good"}
Kinds == {"none", "whole", "torn", "mixed"}

Shape ==
  /\ table \in [Nodes -> States]
  /\ file \in [is : Kinds, nodes : SUBSET Nodes]
  /\ saving \in [Writers -> SUBSET Nodes]
  /\ kept \subseteq Nodes

\* The threads and the socket live from start() to the end of stop().
Lifetime ==
  /\ socket_ = "null" <=> main = "idle"
  /\ main = "idle" => /\ recv = "exited" /\ maint = "exited"
                      /\ received_tokens_ = {}

\* The maintenance thread holds stop_mutex_ from its look at running_ until it
\* is asleep, so that the notification of stop() finds it before or after.
Sleep ==
  /\ stop_mutex_ = IF maint = "sleep" THEN "maint" ELSE "free"
  /\ main \in {"save", "saving", "notify", "close", "join"} => ~running_
  /\ main \in {"close", "join"} => maint \notin {"sleep", "wait"}

\* Who is writing the file.
Saving ==
  /\ maint = "saving" <=> saving["maint"] # {}
  /\ main = "saving" <=> saving["main"] # {}
  /\ main \in {"save", "saving"} => Known # {}
  /\ main = "load" => running_ /\ maint \in {"head", "sleep", "wait"}

\* What stop() has saved is in the table until the node is destroyed, in the
\* file until it is loaded, and in the table again from then on.
Kept ==
  /\ ~persist_routing_table_ => kept = {}
  /\ main = "save" => kept = {} /\ persist_routing_table_
  /\ main \in {"saving", "notify", "close", "join", "verify", "decide"} =>
       kept \subseteq Known
  /\ main = "saving" => /\ kept \subseteq file.nodes
                        /\ file.is = "torn" => maint # "saving"
                        /\ file.is \in {"torn", "mixed"}
  /\ main \in {"notify", "close", "join", "idle", "load"} =>
       /\ kept \subseteq file.nodes
       /\ \/ kept = {}
          \/ file.is = "whole"
          \/ file.is = "torn" /\ maint = "saving"

IInv == Shape /\ Lifetime /\ Sleep /\ Saving /\ Kept

-----------------------------------------------------------------------------
(* Helpers.                                                                 *)

\* There are two threads that write the file.
LEMMA OtherWriter == Other("main") = "maint" /\ Other("maint") = "main"
  BY DEF Other, Writers

\* A step of any thread that neither destroys nor restarts the node: nodes are
\* added to the table and never taken out.
LEMMA TableGrows ==
  ASSUME Shape, NEW S \in SUBSET Nodes, table' = Heard(S)
  PROVE  table' \in [Nodes -> States] /\ Known' = Known \cup S
  BY DEF Shape, States, Heard, Known

\* The steps that leave the table, the file and the threads' lives alone.
Quiet == UNCHANGED <<main, recv, maint, stop_mutex_, socketVars, file, saving,
                     kept, config>>

\* Registration, lookups and the passing of time are such steps.
QuietStep ==
  \/ \E h \in Hashes : \/ register_torrent(h) \/ unregister_torrent(h)
                       \/ get_peers(h) \/ LookupEnds(h) \/ RefreshTime(h)
  \/ \E n \in Nodes : NodeTurnsStale(n)
  \/ RetryTime
  \/ UNCHANGED vars

\* They keep the table's nodes and the tokens, too.
LEMMA QuietSteps ==
  ASSUME Shape, QuietStep
  PROVE  /\ Quiet
         /\ Known' = Known /\ table' \in [Nodes -> States]
         /\ received_tokens_' = received_tokens_
<1>1. ASSUME NEW h \in Hashes,
             \/ register_torrent(h) \/ unregister_torrent(h) \/ get_peers(h)
             \/ LookupEnds(h) \/ RefreshTime(h)
      PROVE  Quiet /\ UNCHANGED <<table, received_tokens_>>
  BY <1>1 DEF register_torrent, unregister_torrent, get_peers, LookupEnds,
              RefreshTime, Register, Unregister, mark_initial_lookup_started,
              RefreshFallsDue, Quiet, fileVars, coordinatorVars
<1>2. ASSUME NEW n \in Nodes, NodeTurnsStale(n)
      PROVE  /\ Quiet /\ UNCHANGED received_tokens_
             /\ Known' = Known /\ table' \in [Nodes -> States]
  BY <1>2 DEF NodeTurnsStale, Quiet, fileVars, coordinatorVars, Shape, Known,
              States
<1>3. CASE RetryTime \/ UNCHANGED vars
  BY <1>3 DEF RetryTime, vars, Quiet, fileVars, coordinatorVars, Shape, Known
<1>4. table' = table => Known' = Known /\ table' \in [Nodes -> States]
  BY DEF Shape, Known
<1>. QED
  BY <1>1, <1>2, <1>3, <1>4 DEF QuietStep

\* A step of the node is one of these.
LEMMA NextCases ==
  ASSUME [Next]_vars
  PROVE  \/ QuietStep
         \/ StartThreads \/ LoadTable \/ LoadThrows \/ Verified
         \/ StartReturns
         \/ Stop \/ StopSaves \/ StopSaved \/ Notify \/ CloseSocket
         \/ StopReturns \/ Destroy \/ Kill
         \/ RecvLoop \/ RecvNothing \/ RecvPending
         \/ \E n \in Nodes : HearFrom(n)
         \/ \E n \in Nodes, S \in SUBSET Nodes : on_response(n, S)
         \/ MaintHead \/ MaintSleep \/ MaintWake \/ MaintPending
         \/ maintain_registered_torrents \/ MaintSaves \/ MaintSaved
         \/ MaintRetry
  BY DEF Next, Main, Starting, Stopping, Recv, RecvStep, Maint, Time,
         QuietStep

-----------------------------------------------------------------------------
(* Each conjunct is preserved by every step.                                *)

\* The table and the file keep their shape.
LEMMA ShapeInvariant == Shape /\ [Next]_vars => Shape'
<1>. SUFFICES ASSUME Shape, [Next]_vars
              PROVE  Shape'
  OBVIOUS
<1>1. CASE QuietStep
  BY <1>1, QuietSteps DEF Quiet, Shape
<1>2. CASE \/ StartThreads \/ LoadThrows \/ Verified \/ StartReturns \/ Notify
           \/ CloseSocket \/ StopReturns \/ RecvLoop \/ RecvNothing
           \/ RecvPending \/ MaintHead \/ MaintSleep \/ MaintWake
           \/ MaintPending \/ maintain_registered_torrents \/ MaintRetry
  <2>1. UNCHANGED <<table, file, saving, kept>>
    BY <1>2 DEF StartThreads, LoadThrows, Verified, StartReturns, Notify,
                CloseSocket, StopReturns, RecvLoop, RecvNothing, RecvPending,
                MaintHead, MaintSleep, MaintWake, MaintPending,
                maintain_registered_torrents, MaintRetry, fileVars
  <2>. QED
    BY <2>1 DEF Shape
<1>3. CASE LoadTable
  <2>1. PICK S \in load, seen \in {"stale", "good"} :
          \/ file' \in {NoFile, file} /\ kept' = {} /\ table' = table
          \/ /\ table' = [n \in Nodes |-> IF n \in S THEN seen ELSE table[n]]
             /\ UNCHANGED <<file, kept>>
    BY <1>3 DEF LoadTable
  <2>2. table' \in [Nodes -> States]
    BY <2>1 DEF Shape, States
  <2>3. file' \in [is : Kinds, nodes : SUBSET Nodes] /\ kept' \subseteq Nodes
    BY <2>1 DEF Shape, NoFile, Kinds
  <2>. QED
    BY <1>3, <2>2, <2>3 DEF Shape, LoadTable
<1>4. CASE Stop
  BY <1>4 DEF Shape, Stop
<1>5. CASE StopSaves \/ MaintSaves
  <2>1. CASE UNCHANGED <<file, saving, kept>>
    BY <1>5, <2>1 DEF Shape, StopSaves, MaintSaves
  <2>2. ASSUME NEW w \in Writers, save_open(w)
        PROVE  /\ file' \in [is : Kinds, nodes : SUBSET Nodes]
               /\ saving' \in [Writers -> SUBSET Nodes]
    <3>1. Known \in SUBSET Nodes /\ saving[Other(w)] \in SUBSET Nodes
      BY <2>2, OtherWriter DEF Shape, Known, Writers
    <3>. QED
      BY <2>2, <3>1 DEF Shape, save_open, Kinds
  <2>3. kept' \subseteq Nodes
    BY <1>5 DEF StopSaves, MaintSaves, Shape, Known, fileVars
  <2>4. \/ UNCHANGED <<file, saving, kept>>
        \/ \E w \in Writers : save_open(w)
    BY <1>5 DEF StopSaves, MaintSaves, Writers, fileVars
  <2>. QED
    BY <1>5, <2>1, <2>2, <2>3, <2>4 DEF Shape, StopSaves, MaintSaves
<1>6. CASE StopSaved \/ MaintSaved
  <2>1. PICK w \in Writers, good \in BOOLEAN : save_close(w, good)
    BY <1>6 DEF StopSaved, MaintSaved, Writers
  <2>2. /\ file' \in [is : Kinds, nodes : SUBSET Nodes]
        /\ saving' \in [Writers -> SUBSET Nodes]
    BY <2>1 DEF Shape, save_close, Kinds
  <2>. QED
    BY <1>6, <2>2 DEF Shape, StopSaved, MaintSaved
<1>7. CASE Destroy \/ Kill
  BY <1>7 DEF Shape, Destroy, Kill, EmptyTable, Nothing, States, fileVars
<1>8. ASSUME NEW n \in Nodes, HearFrom(n)
      PROVE  Shape'
  BY <1>8, TableGrows DEF Shape, HearFrom, fileVars
<1>9. ASSUME NEW n \in Nodes, NEW S \in SUBSET Nodes, on_response(n, S)
      PROVE  Shape'
  BY <1>9, TableGrows DEF Shape, on_response, fileVars
<1>. QED
  BY <1>1, <1>2, <1>3, <1>4, <1>5, <1>6, <1>7, <1>8, <1>9, NextCases

\* stop() clears the tokens and resets the socket after both joins, and nobody
\* but the receive thread adds a token.
LEMMA LifetimeInvariant == Shape /\ Lifetime /\ [Next]_vars => Lifetime'
<1>. SUFFICES ASSUME Shape, Lifetime, [Next]_vars
              PROVE  Lifetime'
  OBVIOUS
<1>1. CASE QuietStep
  BY <1>1, QuietSteps DEF Quiet, Lifetime, socketVars
<1>2. CASE StartThreads \/ LoadTable \/ LoadThrows \/ Verified \/ StartReturns
  BY <1>2 DEF Lifetime, StartThreads, LoadTable, LoadThrows, Verified,
              StartReturns, socketVars
<1>3. CASE Stop \/ StopSaves \/ StopSaved \/ Notify \/ CloseSocket
  BY <1>3 DEF Lifetime, Stop, StopSaves, StopSaved, Notify, CloseSocket,
              socketVars
<1>4. CASE StopReturns \/ Destroy \/ Kill
  BY <1>4 DEF Lifetime, StopReturns, Joined, Destroy, Kill, clear, socketVars
<1>5. CASE RecvLoop \/ RecvNothing \/ RecvPending
  BY <1>5 DEF Lifetime, RecvLoop, RecvNothing, RecvPending, socketVars
<1>6. ASSUME NEW n \in Nodes, HearFrom(n)
      PROVE  Lifetime'
  BY <1>6 DEF Lifetime, HearFrom, socketVars
<1>7. ASSUME NEW n \in Nodes, NEW S \in SUBSET Nodes, on_response(n, S)
      PROVE  Lifetime'
  BY <1>7 DEF Lifetime, on_response, socketVars
<1>8. CASE \/ MaintHead \/ MaintSleep \/ MaintWake \/ MaintPending
           \/ maintain_registered_torrents \/ MaintSaves \/ MaintSaved
           \/ MaintRetry
  BY <1>8 DEF Lifetime, MaintHead, MaintSleep, MaintWake, MaintPending,
              maintain_registered_torrents, MaintSaves, MaintSaved,
              MaintRetry, socketVars
<1>. QED
  BY <1>1, <1>2, <1>3, <1>4, <1>5, <1>6, <1>7, <1>8, NextCases

\* Between its look at running_ and its sleep the maintenance thread holds the
\* mutex that stop() needs to notify it.
LEMMA SleepInvariant ==
  Shape /\ Lifetime /\ Sleep /\ [Next]_vars => Sleep'
<1>. SUFFICES ASSUME Shape, Lifetime, Sleep, [Next]_vars
              PROVE  Sleep'
  OBVIOUS
<1>1. CASE QuietStep
  BY <1>1, QuietSteps DEF Quiet, Sleep, socketVars
<1>2. CASE StartThreads \/ LoadTable \/ LoadThrows \/ Verified \/ StartReturns
  BY <1>2 DEF Sleep, Lifetime, StartThreads, LoadTable, LoadThrows, Verified,
              StartReturns, socketVars
<1>3. CASE Stop \/ StopSaves \/ StopSaved \/ Notify \/ CloseSocket
  BY <1>3 DEF Sleep, Stop, StopSaves, StopSaved, Notify, CloseSocket,
              socketVars
<1>4. CASE StopReturns \/ Destroy \/ Kill
  BY <1>4 DEF Sleep, StopReturns, Destroy, Kill, socketVars
<1>5. CASE RecvLoop \/ RecvNothing \/ RecvPending
  BY <1>5 DEF Sleep, RecvLoop, RecvNothing, RecvPending, socketVars
<1>6. ASSUME NEW n \in Nodes, HearFrom(n)
      PROVE  Sleep'
  BY <1>6 DEF Sleep, HearFrom, socketVars
<1>7. ASSUME NEW n \in Nodes, NEW S \in SUBSET Nodes, on_response(n, S)
      PROVE  Sleep'
  BY <1>7 DEF Sleep, on_response, socketVars
<1>8. CASE \/ MaintHead \/ MaintSleep \/ MaintWake \/ MaintPending
           \/ maintain_registered_torrents \/ MaintSaves \/ MaintSaved
           \/ MaintRetry
  BY <1>8 DEF Sleep, MaintHead, MaintSleep, MaintWake, MaintPending,
              maintain_registered_torrents, MaintSaves, MaintSaved,
              MaintRetry, socketVars
<1>. QED
  BY <1>1, <1>2, <1>3, <1>4, <1>5, <1>6, <1>7, <1>8, NextCases

\* Neither thread writes the file but between opening and closing it.
LEMMA SavingInvariant ==
  Shape /\ Lifetime /\ Saving /\ [Next]_vars => Saving'
<1>. SUFFICES ASSUME Shape, Lifetime, Saving, [Next]_vars
              PROVE  Saving'
  OBVIOUS
<1>1. CASE QuietStep
  BY <1>1, QuietSteps DEF Quiet, Saving, socketVars
<1>2. CASE \/ StartThreads \/ LoadThrows \/ Verified \/ StartReturns \/ Notify
           \/ CloseSocket \/ StopReturns \/ RecvLoop \/ RecvNothing
           \/ RecvPending \/ MaintHead \/ MaintSleep \/ MaintWake
           \/ MaintPending \/ maintain_registered_torrents \/ MaintRetry
  <2>1. UNCHANGED <<table, saving>> /\ Known' = Known
    BY <1>2 DEF StartThreads, LoadThrows, Verified, StartReturns, Notify,
                CloseSocket, StopReturns, RecvLoop, RecvNothing, RecvPending,
                MaintHead, MaintSleep, MaintWake, MaintPending,
                maintain_registered_torrents, MaintRetry, fileVars, Known
  <2>2. CASE \/ StartThreads \/ LoadThrows \/ Verified \/ StartReturns
             \/ CloseSocket \/ StopReturns
    BY <2>1, <2>2 DEF Saving, Lifetime, StartThreads, LoadThrows, Verified,
                      StartReturns, CloseSocket, StopReturns, socketVars
  <2>3. CASE Notify \/ RecvLoop \/ RecvNothing \/ RecvPending
    BY <2>1, <2>3 DEF Saving, Notify, RecvLoop, RecvNothing, RecvPending,
                      socketVars
  <2>4. CASE \/ MaintHead \/ MaintSleep \/ MaintWake \/ MaintPending
             \/ maintain_registered_torrents \/ MaintRetry
    BY <2>1, <2>4 DEF Saving, MaintHead, MaintSleep, MaintWake, MaintPending,
                      maintain_registered_torrents, MaintRetry, socketVars
  <2>. QED
    BY <1>2, <2>2, <2>3, <2>4
<1>3. CASE LoadTable \/ Stop
  BY <1>3 DEF socketVars, Saving, LoadTable, Stop, Known
<1>4. CASE StopSaves \/ MaintSaves
  <2>1. Known' = Known
    BY <1>4 DEF StopSaves, MaintSaves, Known
  <2>. QED
    BY <1>4, <2>1 DEF Saving, Shape, Writers, StopSaves, MaintSaves, save_open,
                      fileVars, socketVars
<1>5. CASE StopSaved \/ MaintSaved
  <2>1. Known' = Known
    BY <1>5 DEF StopSaved, MaintSaved, Known
  <2>. QED
    BY <1>5, <2>1 DEF Saving, Shape, Writers, StopSaved, MaintSaved, save_close,
                      socketVars
<1>6. CASE Destroy \/ Kill
  BY <1>6 DEF Saving, Lifetime, Destroy, Kill, Nothing, Writers, fileVars,
              socketVars
<1>7. ASSUME NEW n \in Nodes, HearFrom(n)
      PROVE  Saving'
  BY <1>7, TableGrows DEF socketVars, Saving, HearFrom, fileVars
<1>8. ASSUME NEW n \in Nodes, NEW S \in SUBSET Nodes, on_response(n, S)
      PROVE  Saving'
  BY <1>8, TableGrows DEF socketVars, Saving, on_response, fileVars
<1>. QED
  BY <1>1, <1>2, <1>3, <1>4, <1>5, <1>6, <1>7, <1>8, NextCases

\* What stop() wrote stays in the file, whatever the maintenance thread adds
\* to it before it ends, and is loaded before that thread of the next run
\* comes to write.
LEMMA KeptInvariant ==
  Shape /\ Lifetime /\ Saving /\ Kept /\ [Next]_vars => Kept'
<1>. SUFFICES ASSUME Shape, Lifetime, Saving, Kept, [Next]_vars
              PROVE  Kept'
  OBVIOUS
<1>1. CASE QuietStep
  BY <1>1, QuietSteps DEF Quiet, Kept, config
<1>2. CASE \/ StartThreads \/ LoadThrows \/ Verified \/ StartReturns \/ Notify
           \/ CloseSocket \/ StopReturns \/ RecvLoop \/ RecvNothing
           \/ RecvPending \/ MaintHead \/ MaintSleep \/ MaintWake
           \/ MaintPending \/ maintain_registered_torrents \/ MaintRetry
  <2>1. UNCHANGED <<table, file, kept, config>> /\ Known' = Known
    BY <1>2 DEF StartThreads, LoadThrows, Verified, StartReturns, Notify,
                CloseSocket, StopReturns, RecvLoop, RecvNothing, RecvPending,
                MaintHead, MaintSleep, MaintWake, MaintPending,
                maintain_registered_torrents, MaintRetry, fileVars, Known
  <2>. QED
    BY <1>2, <2>1
       DEF Kept, Lifetime, config, StartThreads, LoadThrows, Verified,
           StartReturns, Notify, CloseSocket, StopReturns, RecvLoop,
           RecvNothing, RecvPending, MaintHead, MaintSleep, MaintWake,
           MaintPending, maintain_registered_torrents, MaintRetry
<1>3. CASE LoadTable
  <2>1. CASE clear_persisted_on_start_
    BY <1>3, <2>1 DEF Kept, LoadTable, config
  <2>2. CASE ~clear_persisted_on_start_
    <3>1. PICK S \in load, seen \in {"stale", "good"} :
            /\ table' = [n \in Nodes |-> IF n \in S THEN seen ELSE table[n]]
            /\ main' \in {"verify", "decide"}
            /\ UNCHANGED <<file, kept, config>>
      BY <1>3, <2>2 DEF LoadTable
    <3>2. kept \subseteq S
      BY <1>3 DEF LoadTable, load, Kept, Saving
    <3>3. kept \subseteq Known'
      BY <3>1, <3>2 DEF Known, Shape
    <3>. QED
      BY <3>1, <3>3 DEF Kept, config
  <2>. QED
    BY <2>1, <2>2
<1>4. CASE Stop
  BY <1>4 DEF Kept, Stop, config
<1>5. CASE StopSaves
  <2>1. Known' = Known
    BY <1>5 DEF StopSaves, Known
  <2>2. CASE save_open("main") /\ kept' = Known /\ main' = "saving"
    <3>1. /\ file'.nodes = Known \cup saving["maint"]
          /\ file'.is = IF saving["maint"] # {} THEN "mixed" ELSE "torn"
      BY <2>2, OtherWriter DEF save_open
    <3>. QED
      BY <1>5, <2>1, <2>2, <3>1 DEF Kept, Saving, StopSaves, config
  <2>3. CASE main' = "notify" /\ UNCHANGED fileVars
    BY <1>5, <2>1, <2>3 DEF Kept, StopSaves, fileVars, config
  <2>. QED
    BY <1>5, <2>2, <2>3 DEF StopSaves

<1>6. CASE StopSaved
  <2>1. Known' = Known
    BY <1>6 DEF StopSaved, Known
  <2>2. PICK good \in BOOLEAN :
          /\ save_close("main", good)
          /\ kept' = IF file.is = "torn" /\ good THEN kept ELSE {}
    BY <1>6 DEF StopSaved
  <2>3. /\ file'.nodes = file.nodes
        /\ file.is = "torn" /\ good => file'.is = "whole"
    BY <2>2 DEF save_close, Shape
  <2>. QED
    BY <1>6, <2>1, <2>2, <2>3 DEF Kept, StopSaved, config
<1>7. CASE MaintSaves
  <2>1. Known' = Known /\ UNCHANGED <<main, kept, config>>
    BY <1>7 DEF MaintSaves, Known
  <2>2. CASE save_open("maint") /\ maint' = "saving"
    <3>1. /\ file'.nodes = Known \cup saving["main"]
          /\ file'.is = IF saving["main"] # {} THEN "mixed" ELSE "torn"
      BY <2>2, OtherWriter DEF save_open
    <3>2. main \notin {"idle", "load"}
      BY <1>7 DEF MaintSaves, Lifetime, Saving
    <3>. QED
      BY <2>1, <2>2, <3>1, <3>2 DEF Kept, Saving, config
  <2>3. CASE maint' = "retry" /\ UNCHANGED <<file, saving>>
    BY <1>7, <2>1, <2>3 DEF Kept, MaintSaves, config
  <2>. QED
    BY <1>7, <2>2, <2>3 DEF MaintSaves
<1>8. CASE MaintSaved
  <2>1. Known' = Known /\ UNCHANGED <<main, config>>
    BY <1>8 DEF MaintSaved, Known
  <2>2. PICK good \in BOOLEAN :
          /\ save_close("maint", good)
          /\ kept' = IF good THEN kept ELSE {}
    BY <1>8 DEF MaintSaved
  <2>3. /\ file'.nodes = file.nodes
        /\ file'.is = IF file.is = "torn" /\ good THEN "whole" ELSE file.is
    BY <2>2 DEF save_close, Shape
  <2>. QED
    BY <1>8, <2>1, <2>2, <2>3 DEF Kept, MaintSaved, config
<1>9. CASE Destroy \/ Kill
  BY <1>9 DEF Kept, Destroy, Kill, fileVars, config
<1>10. ASSUME NEW n \in Nodes, HearFrom(n)
       PROVE  Kept'
  BY <1>10, TableGrows DEF Kept, HearFrom, fileVars, config
<1>11. ASSUME NEW n \in Nodes, NEW S \in SUBSET Nodes, on_response(n, S)
       PROVE  Kept'
  <2>1. Known \subseteq Known'
    BY <1>11, TableGrows DEF on_response
  <2>. QED
    BY <1>11, <2>1 DEF Kept, on_response, fileVars, config
<1>. QED
  BY <1>1, <1>2, <1>3, <1>4, <1>5, <1>6, <1>7, <1>8, <1>9, <1>10, <1>11,
     NextCases

-----------------------------------------------------------------------------
(* The theorems.                                                            *)

\* A node that was never started.
LEMMA InitIInv == Init => IInv
<1>. SUFFICES ASSUME Init
              PROVE  IInv
  OBVIOUS
<1>1. Shape
  BY DEF Init, Shape, EmptyTable, NoFile, Nothing, States, Kinds
<1>2. Lifetime /\ Sleep
  BY DEF Init, CoordinatorInit, Lifetime, Sleep
<1>3. Saving /\ Kept
  BY DEF Init, Saving, Kept, Nothing, Writers, NoFile
<1>. QED
  BY <1>1, <1>2, <1>3 DEF IInv

\* The invariant holds in every state of every execution, across restarts and
\* kills.
LEMMA Invariance == Spec => []IInv
<1>1. IInv /\ [Next]_vars => IInv'
  BY ShapeInvariant, LifetimeInvariant, SleepInvariant, SavingInvariant,
     KeptInvariant
     DEF IInv
<1>. QED
  BY <1>1, InitIInv, PTL DEF Spec

\* No thread of the node is left when stop() has reset the socket, and no
\* token is left for the next run.
THEOREM StopIsFinal == Spec => []NothingOutlivesStop
<1>1. IInv => NothingOutlivesStop
  BY DEF IInv, Lifetime, NothingOutlivesStop
<1>. QED
  BY <1>1, Invariance, PTL

\* The notification of stop() is not lost: the maintenance thread is awake
\* when it is joined.
THEOREM NoLostWakeup == Spec => []StopIsPrompt
<1>1. IInv => StopIsPrompt
  BY DEF IInv, Sleep, StopIsPrompt
<1>. QED
  BY <1>1, Invariance, PTL

\* The nodes that stop() has saved are in the table of the next run, for any
\* number of nodes and whatever the maintenance thread was writing.
THEOREM TableSurvivesRestart == Spec => []SavedTableIsLoaded
<1>1. IInv => SavedTableIsLoaded
  BY DEF IInv, Kept, SavedTableIsLoaded
<1>. QED
  BY <1>1, Invariance, PTL

=============================================================================
