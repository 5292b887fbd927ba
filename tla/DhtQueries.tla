----------------------------- MODULE DhtQueries -----------------------------
(***************************************************************************)
(* How a DHT node serves get_peers and announce_peer queries               *)
(* (src/src/dht/dht_client.cpp): the handlers of the receive thread, with  *)
(* the tokens of TokenSecretRotator and the peers of DhtPeerStore, beside  *)
(* the maintenance thread, which rotates the secrets and expires peers,    *)
(* and the lookups of the application, which add to the store.             *)
(*                                                                         *)
(* A node is the peer that it announces.  ping and find_node change        *)
(* neither tokens nor peers.  The clock stands still during a call.        *)
(***************************************************************************)
EXTENDS TokenSecretRotator, DhtPeerStore

VARIABLES
  request,           \* the query that the receive thread handles
  polled,            \* the maintenance loop has run in this tick
  token, issued_at,  \* a token, and the node that holds it
  met                \* both threads were rotating at once since it was issued

tokenVars == <<token, issued_at, met>>
vars == <<now, secretVars, pc, storeVars, request, polled, tokenVars>>

Queries == {"get_peers", "announce_peer"}
NoToken == [node |-> NoSecret, secret |-> NoSecret]
NoRequest == [query |-> "none", node |-> NoSecret, info_hash |-> NoSecret]

Init ==
  /\ now = 0
  /\ TokenInit /\ StoreInit
  /\ request = NoRequest
  /\ polled = FALSE
  /\ token = NoToken /\ issued_at = 0 /\ met = FALSE

-----------------------------------------------------------------------------
(* The receive thread and the maintenance thread.                           *)

Enters(t) ==
  /\ rotate_if_needed(t)
  /\ met' = (met \/ (RotationDue /\ \E u \in Threads : Rotating(u)))
  /\ UNCHANGED <<now, storeVars, polled, token, issued_at>>

\* handle_message for one of the two queries.
handle_message(query, p, h) ==
  /\ Enters("recv")
  /\ request' = [query |-> query, node |-> p, info_hash |-> h]

RotateStep(t) ==
  /\ Assignment(t)
  /\ UNCHANGED <<now, storeVars, request, polled, tokenVars>>

\* The node gets a token, which it may throw away, and the store is swept.
on_get_peers ==
  /\ pc["recv"] = "rotated" /\ request.query = "get_peers"
  /\ \/ /\ token' = [node |-> request.node, secret |-> current_secret_]
        /\ issued_at' = now
        /\ met' = \E u \in Threads : Rotating(u)
     \/ UNCHANGED tokenVars
  /\ expire_stale
  /\ GoTo("recv", "live_peers")
  /\ UNCHANGED <<now, secretVars, request, polled>>

\* The answer holds the live peers, or else nodes that are closer.
AnswerGetPeers ==
  /\ pc["recv"] = "live_peers"
  /\ live_peers(request.info_hash)
  /\ GoTo("recv", "idle") /\ request' = NoRequest
  /\ UNCHANGED <<now, secretVars, polled, tokenVars>>

Presents == token.node = request.node

on_announce_peer ==
  /\ pc["recv"] = "rotated" /\ request.query = "announce_peer"
  /\ IF Presents /\ verify_token(token.secret)
     THEN upsert(request.info_hash, request.node)
     ELSE UNCHANGED storeVars
  /\ GoTo("recv", "idle") /\ request' = NoRequest
  /\ UNCHANGED <<now, secretVars, polled, tokenVars>>

\* A peer from the answer to one of our own lookups.
on_response(h, p) ==
  /\ pc["recv"] = "idle"
  /\ upsert(h, p)
  /\ UNCHANGED <<now, secretVars, pc, request, polled, tokenVars>>

maintenance_loop == Enters("maintenance") /\ UNCHANGED request

EndOfMaintenance ==
  /\ pc["maintenance"] = "rotated"
  /\ expire_stale
  /\ GoTo("maintenance", "idle")
  /\ polled' = TRUE
  /\ UNCHANGED <<now, secretVars, request, tokenVars>>

-----------------------------------------------------------------------------
(* The application, and time.                                               *)

get_peers(h) ==
  /\ ensure_bucket(h)
  /\ UNCHANGED <<now, secretVars, pc, request, polled, tokenVars>>

\* MAINT_INTERVAL is a fraction of a tick.
Tick ==
  /\ now < MaxTime
  /\ polled
  /\ \A t \in Threads : pc[t] = "idle"
  /\ now' = now + 1
  /\ polled' = FALSE
  /\ UNCHANGED <<secretVars, pc, storeVars, request, tokenVars>>

Next ==
  \/ \E p \in Peers, h \in Hashes :
       on_response(h, p) \/ \E query \in Queries : handle_message(query, p, h)
  \/ \E t \in Threads : RotateStep(t)
  \/ on_get_peers \/ AnswerGetPeers \/ on_announce_peer
  \/ maintenance_loop \/ EndOfMaintenance
  \/ \E h \in Hashes : get_peers(h)
  \/ Tick

Spec == Init /\ [][Next]_vars

-----------------------------------------------------------------------------
(* Properties.                                                              *)

\* on_announce_peer has called rotate_if_needed and is about to verify.
Verifying ==
  /\ pc["recv"] = "rotated" /\ request.query = "announce_peer"
  /\ token # NoToken /\ Presents
Age == now - issued_at

\* A node that got its token less than a rotation interval ago is not turned
\* away, although a rotation came in between, unless both threads carried out
\* that rotation at once.
TokenOutlivesRotation ==
  Verifying /\ Age < Interval /\ ~met => verify_token(token.secret)

\* token_secret_rotator.h:11-13: "the previous secret remains valid for ten
\* minutes so clients that received a token just before rotation can still
\* announce": no schedule of the two threads turns them away.
AnnouncesAfterRotation ==
  Verifying /\ Age < Interval => verify_token(token.secret)

\* A bucket holds the most recently reported peers, as many as fit: however
\* announcements repeat and interleave with lookups and sweeps, a peer is only
\* lost to MAX_PEERS_PER_HASH fresher ones.
KeepsFreshest ==
  \A h \in Hashes :
    /\ IsPrefix(peers[h], reported[h])
    /\ Len(peers[h]) < Len(reported[h]) => Len(peers[h]) = MAX_PEERS_PER_HASH

\* expire_stale frees memory and nothing else: judging a bucket by its first
\* entry never drops a peer that live_peers would still have answered.
ExpiryIsInvisible ==
  [][expire_stale /\ UNCHANGED now => \A h \in Hashes : Live(h)' = Live(h)]_vars
=============================================================================
