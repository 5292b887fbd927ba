----------------------------- MODULE DhtClient ------------------------------
(***************************************************************************)
(* A DHT node from start() to stop() (src/src/dht/dht_client.cpp): the     *)
(* thread of the application, the receive thread and the maintenance       *)
(* thread, the torrents of the AnnounceCoordinator, and the file in which  *)
(* RoutingTableStore keeps the routing table across runs.  The process may *)
(* be killed at any time.                                                  *)
(*                                                                         *)
(* The routing table is seen from outside: a node is not in it, in it, or  *)
(* in it and good; so is the lookup manager: a torrent has queries in      *)
(* flight or not.  The query handlers of the receive thread are in         *)
(* DhtQueries.  Intervals are flags that the passing of time sets.         *)
(***************************************************************************)
EXTENDS AnnounceCoordinator, Naturals

CONSTANT kMinGoodEntriesToSkipBootstrap

ASSUME MinGoodAssumption == kMinGoodEntriesToSkipBootstrap \in Nat \ {0}

VARIABLES
  persist_routing_table_, clear_persisted_on_start_, bootstrap_on_start_,
  main,            \* application thread: next statement
  recv,            \* receive thread: next statement, or "exited"
  maint,           \* maintenance thread: next statement, or "exited"
  running_,
  socket_,         \* "null", "open" or "closed"
  stop_mutex_,     \* holder, or "free"
  table,           \* "absent", "stale" or "good"
  lookups,         \* torrents with queries in flight
  file,            \* the saved table: "none", "whole" or "torn", and its nodes
  saving,          \* nodes that each thread is writing to it
  kept,            \* nodes that stop() has saved, with no write failing
  retry_due        \* BOOTSTRAP_RETRY_INTERVAL has passed since bootstrap()

config == <<persist_routing_table_, clear_persisted_on_start_,
            bootstrap_on_start_>>
socketVars == <<running_, socket_>>
fileVars == <<file, saving, kept>>
vars == <<config, main, recv, maint, stop_mutex_, socketVars, coordinatorVars,
          table, lookups, fileVars, retry_due>>

Writers == {"main", "maint"}
Nothing == [w \in Writers |-> {}]
NoFile == [is |-> "none", nodes |-> {}]

EmptyTable == [n \in Nodes |-> "absent"]
Known == {n \in Nodes : table[n] # "absent"}
count_good_routing_entries == Cardinality({n \in Nodes : table[n] = "good"})

Init ==
  /\ persist_routing_table_ \in BOOLEAN
  /\ clear_persisted_on_start_ \in {FALSE, persist_routing_table_}
  /\ bootstrap_on_start_ \in BOOLEAN
  /\ main = "idle" /\ recv = "exited" /\ maint = "exited"
  /\ running_ = FALSE /\ socket_ = "null" /\ stop_mutex_ = "free"
  /\ CoordinatorInit
  /\ table = EmptyTable /\ lookups = {}
  /\ file = NoFile /\ saving = Nothing /\ kept = {}
  /\ retry_due \in {FALSE, bootstrap_on_start_}

-----------------------------------------------------------------------------
(* RoutingTableStore.                                                       *)

Other(w) == CHOOSE v \in Writers : v # w

\* Fault: only the good nodes are written.
save_good(w) ==
  /\ saving' = [saving EXCEPT ![w] = {n \in Nodes : table[n] = "good"}]
  /\ file' = [is |-> "torn", nodes |-> {n \in Nodes : table[n] = "good"}]

\* The nodes are read from the table and the file is truncated.  It is not
\* whole again before it is closed, and not even then if both threads write.
save_open(w) ==
  /\ saving' = [saving EXCEPT ![w] = Known]
  /\ file' = [is |-> IF saving[Other(w)] # {} THEN "mixed" ELSE "torn",
              nodes |-> Known \cup saving[Other(w)]]

\* The writes have all succeeded, or not.
save_close(w, good) ==
  /\ saving' = [saving EXCEPT ![w] = {}]
  /\ file' = [file EXCEPT !.is = IF @ = "torn" /\ good THEN "whole" ELSE @]

\* What load may find in the file: all entries, or those up to a line that was
\* cut off; one malformed line and it is as if there were none.
load ==
  IF file.is \in {"none", "whole"} THEN {file.nodes} ELSE SUBSET file.nodes

-----------------------------------------------------------------------------
(* The application thread: start().                                         *)

StartThreads ==
  /\ main = "idle"
  /\ running_' = TRUE /\ socket_' = "open"
  /\ recv' = "loop" /\ maint' = "head"
  /\ main' = IF persist_routing_table_ THEN "load" ELSE "decide"
  /\ UNCHANGED <<config, stop_mutex_, coordinatorVars, table, lookups, fileVars,
                 retry_due>>

\* The file is deleted, if that succeeds, or its nodes are added, with
\* last_seen 0: steady_clock counts from the boot of the machine, so they are
\* good if that is less than NODE_GOOD_TIMEOUT ago.
LoadTable ==
  /\ main = "load"
  /\ \E S \in load, seen \in {"stale", "good"} :
       IF clear_persisted_on_start_
       THEN /\ file' \in {NoFile, file} /\ kept' = {}
            /\ main' = "decide"
            /\ UNCHANGED table
       ELSE /\ table' = [n \in Nodes |-> IF n \in S THEN seen ELSE table[n]]
            /\ main' = IF S \cup Known # {} THEN "verify" ELSE "decide"
            /\ UNCHANGED <<file, kept>>
  /\ UNCHANGED <<config, recv, maint, stop_mutex_, socketVars, coordinatorVars,
                 lookups, saving, retry_due>>

\* Lines of two writers have run into each other, and what should be a number
\* is none: the exception of stoul leaves start(), and the session stops the
\* node that it has not registered anything with.
LoadThrows ==
  /\ main = "load" /\ ~clear_persisted_on_start_
  /\ file.is = "mixed"
  /\ main' = "thrown"
  /\ UNCHANGED <<config, recv, maint, stop_mutex_, socketVars, coordinatorVars,
                 table, lookups, fileVars, retry_due>>

\* verify_loaded_routing_entries pings all nodes and waits until enough are
\* good or the time is up.
Verified ==
  /\ main = "verify"
  /\ main' = "decide"
  /\ UNCHANGED <<config, recv, maint, stop_mutex_, socketVars, coordinatorVars,
                 table, lookups, fileVars, retry_due>>

SkipsBootstrap ==
  /\ persist_routing_table_ /\ ~clear_persisted_on_start_
  /\ count_good_routing_entries >= kMinGoodEntriesToSkipBootstrap

\* bootstrap() asks the public nodes, any of which may be out of reach.
StartReturns ==
  /\ main = "decide"
  /\ main' = "up"
  /\ retry_due' = (retry_due /\ ~(bootstrap_on_start_ /\ ~SkipsBootstrap))
  /\ UNCHANGED <<config, recv, maint, stop_mutex_, socketVars, coordinatorVars,
                 table, lookups, fileVars>>

-----------------------------------------------------------------------------
(* The application thread: torrents, and stop().                            *)

register_torrent(h) ==
  /\ main \in {"idle", "up"}
  /\ LET started == running_ /\ Known # {}
     IN  /\ Register(h, started)
         /\ lookups' = IF started THEN lookups \cup {h} ELSE lookups
  /\ UNCHANGED <<config, main, recv, maint, stop_mutex_, socketVars, table,
                 fileVars, retry_due>>

unregister_torrent(h) ==
  /\ main \in {"idle", "up"}
  /\ Unregister(h)
  /\ UNCHANGED <<config, main, recv, maint, stop_mutex_, socketVars, table,
                 lookups, fileVars, retry_due>>

\* A lookup that the application asks for.
get_peers(h) ==
  /\ main = "up" /\ Known # {}
  /\ lookups' = lookups \cup {h}
  /\ mark_initial_lookup_started({h})
  /\ UNCHANGED <<config, main, recv, maint, stop_mutex_, socketVars, table,
                 fileVars, retry_due>>

Stop ==
  /\ main \in {"up", "thrown"}
  /\ running_' = FALSE
  /\ main' = IF persist_routing_table_ /\ Known # {} THEN "save" ELSE "notify"
  /\ kept' = {}
  /\ UNCHANGED <<config, recv, maint, stop_mutex_, socket_, coordinatorVars,
                 table, lookups, file, saving, retry_due>>

\* The file may be impossible to open.
StopSaves ==
  /\ main = "save"
  /\ \/ save_open("main") /\ kept' = Known /\ main' = "saving"
     \/ main' = "notify" /\ UNCHANGED fileVars
  /\ UNCHANGED <<config, recv, maint, stop_mutex_, socketVars, coordinatorVars,
                 table, lookups, retry_due>>

StopSaved ==
  /\ main = "saving"
  /\ \E good \in BOOLEAN :
       /\ save_close("main", good)
       /\ kept' = IF file.is = "torn" /\ good THEN kept ELSE {}
  /\ main' = "notify"
  /\ UNCHANGED <<config, recv, maint, stop_mutex_, socketVars, coordinatorVars,
                 table, lookups, retry_due>>

\* Fault: notify_all without the mutex.
NotifyUnlocked ==
  /\ main = "notify"
  /\ maint' = IF maint = "wait" THEN "woken" ELSE maint
  /\ main' = "close"
  /\ UNCHANGED <<config, recv, stop_mutex_, socketVars, coordinatorVars, table,
                 lookups, fileVars, retry_due>>

Notify ==
  /\ main = "notify" /\ stop_mutex_ = "free"
  /\ maint' = IF maint = "wait" THEN "woken" ELSE maint
  /\ main' = "close"
  /\ UNCHANGED <<config, recv, stop_mutex_, socketVars, coordinatorVars, table,
                 lookups, fileVars, retry_due>>

CloseSocket ==
  /\ main = "close"
  /\ socket_' = "closed"
  /\ main' = "join"
  /\ UNCHANGED <<config, recv, maint, stop_mutex_, running_, coordinatorVars,
                 table, lookups, fileVars, retry_due>>

\* Fault: only the maintenance thread is waited for.
JoinOne == maint = "exited"

Joined == recv = "exited" /\ maint = "exited"

StopReturns ==
  /\ main = "join" /\ Joined
  /\ clear
  /\ socket_' = "null"
  /\ main' = "idle"
  /\ UNCHANGED <<config, recv, maint, stop_mutex_, running_, table, lookups,
                 fileVars, retry_due>>

\* The session destroys its DhtClient, and another run makes a new one.
Destroy ==
  /\ main = "idle"
  /\ clear
  /\ table' = EmptyTable /\ lookups' = {}
  /\ retry_due' \in {FALSE, bootstrap_on_start_}
  /\ UNCHANGED <<config, main, recv, maint, stop_mutex_, socketVars, fileVars>>

\* The process is killed.
Kill ==
  /\ main # "idle"
  /\ main' = "idle" /\ recv' = "exited" /\ maint' = "exited"
  /\ running_' = FALSE /\ socket_' = "null" /\ stop_mutex_' = "free"
  /\ clear
  /\ table' = EmptyTable /\ lookups' = {} /\ saving' = Nothing /\ kept' = {}
  /\ retry_due' \in {FALSE, bootstrap_on_start_}
  /\ UNCHANGED <<config, file>>

-----------------------------------------------------------------------------
(* The receive thread.                                                      *)

RecvLoop ==
  /\ recv = "loop"
  /\ recv' = IF running_ /\ socket_ = "open" THEN "recv" ELSE "exited"
  /\ UNCHANGED <<config, main, maint, stop_mutex_, socketVars, coordinatorVars,
                 table, lookups, fileVars, retry_due>>

\* A second without a datagram, one that is no message, or a closed socket.
RecvNothing ==
  /\ recv = "recv"
  /\ recv' = "loop"
  /\ UNCHANGED <<config, main, maint, stop_mutex_, socketVars, coordinatorVars,
                 table, lookups, fileVars, retry_due>>

Heard(S) == [n \in Nodes |-> IF n \in S THEN "good" ELSE table[n]]

\* handle_message for a query or an error of node n.
HearFrom(n) ==
  /\ recv = "recv" /\ socket_ = "open"
  /\ table' = Heard({n})
  /\ recv' = "loop"
  /\ UNCHANGED <<config, main, maint, stop_mutex_, socketVars, coordinatorVars,
                 lookups, fileVars, retry_due>>

\* on_response: the reply of n names some nodes; if it belongs to the lookup of
\* h it may carry a token, and the lookup may end.
on_response(n, nodes) ==
  /\ recv = "recv" /\ socket_ = "open"
  /\ table' = Heard({n} \cup nodes)
  /\ \/ recv' = "loop" /\ UNCHANGED <<lookups, coordinatorVars>>
     \/ \E h \in lookups :
          /\ lookups' \in {lookups, lookups \ {h}}
          /\ on_get_peers_response(n) \/ UNCHANGED coordinatorVars
          /\ recv' = "pending"
  /\ UNCHANGED <<config, main, maint, stop_mutex_, socketVars, fileVars,
                 retry_due>>

\* Fault: only torrents that were looked up before are looked at.
NothingPending == {}

Pending == IF Known = {} THEN {} ELSE initial_lookup_pending \ lookups

try_pending_initial_lookups ==
  /\ lookups' = lookups \cup Pending
  /\ mark_initial_lookup_started(Pending)

RecvPending ==
  /\ recv = "pending"
  /\ try_pending_initial_lookups
  /\ recv' = "loop"
  /\ UNCHANGED <<config, main, maint, stop_mutex_, socketVars, table, fileVars,
                 retry_due>>

-----------------------------------------------------------------------------
(* The maintenance thread.                                                  *)

\* The mutex, the condition of the loop and that of wait_for before it waits.
MaintHead ==
  /\ maint = "head" /\ stop_mutex_ = "free"
  /\ IF running_ THEN maint' = "sleep" /\ stop_mutex_' = "maint"
     ELSE maint' = "exited" /\ UNCHANGED stop_mutex_
  /\ UNCHANGED <<config, main, recv, socketVars, coordinatorVars, table,
                 lookups, fileVars, retry_due>>

\* wait_for releases the mutex and waits, in one step.
MaintSleep ==
  /\ maint = "sleep"
  /\ maint' = "wait" /\ stop_mutex_' = "free"
  /\ UNCHANGED <<config, main, recv, socketVars, coordinatorVars, table,
                 lookups, fileVars, retry_due>>

\* After MAINT_INTERVAL, which is far longer than start() takes to read the
\* file, or notified; the mutex is released for the body.
MaintWake ==
  /\ maint \in {"wait", "woken"} /\ stop_mutex_ = "free"
  /\ main # "load"
  /\ maint' = IF running_ THEN "pending" ELSE "exited"
  /\ UNCHANGED <<config, main, recv, stop_mutex_, socketVars, coordinatorVars,
                 table, lookups, fileVars, retry_due>>

MaintPending ==
  /\ maint = "pending"
  /\ try_pending_initial_lookups
  /\ maint' = "refresh"
  /\ UNCHANGED <<config, main, recv, stop_mutex_, socketVars, table, fileVars,
                 retry_due>>

\* Torrents that are due are refreshed even if there is no node to ask.
maintain_registered_torrents ==
  /\ maint = "refresh"
  /\ LET idle == due \ lookups
     IN  /\ MarkRefreshed(idle, Known # {})
         /\ lookups' = IF Known # {} THEN lookups \cup idle ELSE lookups
  /\ maint' = "save"
  /\ UNCHANGED <<config, main, recv, stop_mutex_, socketVars, table, fileVars,
                 retry_due>>

\* In the first pass, and whenever ROUTING_TABLE_SAVE_INTERVAL has passed.
MaintSaves ==
  /\ maint = "save"
  /\ \/ /\ persist_routing_table_ /\ Known # {}
        /\ save_open("maint") /\ maint' = "saving"
     \/ maint' = "retry" /\ UNCHANGED <<file, saving>>
  /\ UNCHANGED <<config, main, recv, stop_mutex_, socketVars, coordinatorVars,
                 table, lookups, kept, retry_due>>

MaintSaved ==
  /\ maint = "saving"
  /\ \E good \in BOOLEAN :
       /\ save_close("maint", good)
       /\ kept' = IF good THEN kept ELSE {}
  /\ maint' = "retry"
  /\ UNCHANGED <<config, main, recv, stop_mutex_, socketVars, coordinatorVars,
                 table, lookups, retry_due>>

\* Fault: bootstrap is tried again only while the table is empty.
RetryIfEmpty == bootstrap_on_start_ /\ Known = {} /\ retry_due

Retries == bootstrap_on_start_ /\ count_good_routing_entries = 0 /\ retry_due

MaintRetry ==
  /\ maint = "retry"
  /\ retry_due' = (retry_due /\ ~Retries)
  /\ maint' = "head"
  /\ UNCHANGED <<config, main, recv, stop_mutex_, socketVars, coordinatorVars,
                 table, lookups, fileVars>>

-----------------------------------------------------------------------------
(* Time.                                                                    *)

NodeTurnsStale(n) ==
  /\ table[n] = "good"
  /\ table' = [table EXCEPT ![n] = "stale"]
  /\ UNCHANGED <<config, main, recv, maint, stop_mutex_, socketVars,
                 coordinatorVars, lookups, fileVars, retry_due>>

LookupEnds(h) ==
  /\ h \in lookups
  /\ lookups' = lookups \ {h}
  /\ UNCHANGED <<config, main, recv, maint, stop_mutex_, socketVars,
                 coordinatorVars, table, fileVars, retry_due>>

RetryTime ==
  /\ bootstrap_on_start_
  /\ retry_due' = TRUE
  /\ UNCHANGED <<config, main, recv, maint, stop_mutex_, socketVars,
                 coordinatorVars, table, lookups, fileVars>>

RefreshTime(h) ==
  /\ RefreshFallsDue(h)
  /\ UNCHANGED <<config, main, recv, maint, stop_mutex_, socketVars, table,
                 lookups, fileVars, retry_due>>

-----------------------------------------------------------------------------
Starting == StartThreads \/ LoadTable \/ LoadThrows \/ Verified \/ StartReturns
Stopping == StopSaves \/ StopSaved \/ Notify \/ CloseSocket \/ StopReturns

Main ==
  \/ Starting \/ Stopping \/ Stop \/ Destroy
  \/ \E h \in Hashes :
       register_torrent(h) \/ unregister_torrent(h) \/ get_peers(h)

RecvStep == RecvLoop \/ RecvNothing \/ RecvPending
Recv ==
  \/ RecvStep
  \/ \E n \in Nodes : HearFrom(n) \/ \E S \in SUBSET Nodes : on_response(n, S)

Maint ==
  \/ MaintHead \/ MaintSleep \/ MaintWake \/ MaintPending
  \/ maintain_registered_torrents \/ MaintSaves \/ MaintSaved \/ MaintRetry

Time ==
  \/ \E n \in Nodes : NodeTurnsStale(n)
  \/ \E h \in Hashes : LookupEnds(h) \/ RefreshTime(h)
  \/ RetryTime

Next == Main \/ Recv \/ Maint \/ Time \/ Kill

Spec == Init /\ [][Next]_vars

\* The threads run, stop() is not abandoned, the wait for a datagram and the
\* wait of the maintenance loop are bounded, and lookups end (LookupsEnd of
\* GetPeersLookupManager).
FairSpec ==
  /\ Spec
  /\ WF_vars(LoadTable \/ LoadThrows \/ Verified \/ StartReturns)
  /\ WF_vars(Stopping)
  /\ WF_vars(RecvStep)
  /\ WF_vars(Maint)
  /\ \A h \in Hashes : WF_vars(LookupEnds(h))

-----------------------------------------------------------------------------
(* Properties.                                                              *)

\* dht_client.cpp:416-417: socket_ is kept "alive until worker threads have
\* exited so they never dereference a null socket_", and what they learn in
\* the meantime does not outlive stop() either.
NothingOutlivesStop ==
  socket_ = "null" =>
    /\ recv = "exited" /\ maint = "exited"
    /\ received_tokens_ = {}

\* dht_client.h: stop() wakes the maintenance thread, "so join() does not
\* block for the full maintenance interval (60s)": once stop() has notified,
\* the thread is not asleep and does not go to sleep, wherever it was in its
\* loop.
StopIsPrompt == main \in {"close", "join"} => maint # "wait"

\* The nodes that stop() has saved are there after the next start, unless both
\* threads were writing the file at once or a write of the maintenance thread
\* failed after that.
SavedTableIsLoaded == main \in {"verify", "decide"} => kept \subseteq Known

\* A registered torrent is looked up for the first time as soon as there is a
\* node to ask, although its registration found none, and again when it is
\* due, for as long as the node runs.  (A torrent that is due waits while a
\* lookup that the application asked for is under way.)
TorrentsAreLookedUp ==
  \A h \in Hashes :
    /\ (h \in initial_lookup_pending /\ Known # {} /\ running_)
         ~> (h \notin initial_lookup_pending \/ ~running_)
    /\ (h \in due /\ running_) ~> (h \notin due \/ h \in lookups \/ ~running_)

\* A node that has lost all its contacts, or that skipped bootstrap for nodes
\* that never answered, goes back to the public nodes.
NeverIsolated ==
  (/\ bootstrap_on_start_ /\ running_
   /\ count_good_routing_entries = 0 /\ retry_due)
    ~> (~retry_due \/ count_good_routing_entries > 0 \/ ~running_)
=============================================================================
