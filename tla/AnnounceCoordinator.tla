------------------------ MODULE AnnounceCoordinator -------------------------
(***************************************************************************)
(* The torrents a DHT node announces                                       *)
(* (src/src/dht/announce_coordinator.cpp).  Every operation holds the      *)
(* coordinator's mutex; this module gives them as action fragments, which  *)
(* DhtClient strings together.                                             *)
(*                                                                         *)
(* Ports and tokens are opaque, and the announce requests that the         *)
(* coordinator returns leave the node at once.  last_refresh is whether it *)
(* is at least kAnnounceRefreshInterval ago.                               *)
(***************************************************************************)
EXTENDS FiniteSets

CONSTANTS
  Hashes,
  Nodes           \* DHT nodes, id and address in one

VARIABLES
  registered_,             \* torrents that are registered
  initial_lookup_pending,  \* those that wait for their first lookup
  due,                     \* those whose last refresh is long ago
  received_tokens_         \* nodes that have sent a token

coordinatorVars == <<registered_, initial_lookup_pending, due, received_tokens_>>

CoordinatorInit ==
  /\ registered_ = {} /\ initial_lookup_pending = {} /\ due = {}
  /\ received_tokens_ = {}

clear ==
  /\ registered_' = {} /\ initial_lookup_pending' = {} /\ due' = {}
  /\ received_tokens_' = {}

\* A torrent that is registered again starts over.  Its lookup is started by
\* the same call if `started`.
Register(h, started) ==
  /\ registered_' = registered_ \cup {h}
  /\ initial_lookup_pending' =
       IF started THEN initial_lookup_pending \ {h}
       ELSE initial_lookup_pending \cup {h}
  /\ due' = due \ {h}
  /\ UNCHANGED received_tokens_

Unregister(h) ==
  /\ registered_' = registered_ \ {h}
  /\ initial_lookup_pending' = initial_lookup_pending \ {h}
  /\ due' = due \ {h}
  /\ UNCHANGED received_tokens_

on_get_peers_response(n) ==
  /\ received_tokens_' = received_tokens_ \cup {n}
  /\ UNCHANGED <<registered_, initial_lookup_pending, due>>

mark_initial_lookup_started(S) ==
  /\ initial_lookup_pending' = initial_lookup_pending \ S
  /\ UNCHANGED <<registered_, due, received_tokens_>>

\* mark_refreshed, after the lookup of get_peers was started if `started`.
MarkRefreshed(S, started) ==
  /\ due' = due \ S
  /\ initial_lookup_pending' =
       IF started THEN initial_lookup_pending \ S ELSE initial_lookup_pending
  /\ UNCHANGED <<registered_, received_tokens_>>

\* kAnnounceRefreshInterval has passed since the last refresh.
RefreshFallsDue(h) ==
  /\ h \in registered_ \ due
  /\ due' = due \cup {h}
  /\ UNCHANGED <<registered_, initial_lookup_pending, received_tokens_>>
=============================================================================
