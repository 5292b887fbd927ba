---------------------------- MODULE DhtPeerStore ----------------------------
(***************************************************************************)
(* The peers a DHT node knows for each torrent                             *)
(* (src/src/dht/dht_peer_store.cpp): an LruCache of info hashes, each with *)
(* an LruCache of peers and the time each was last seen.  Every operation  *)
(* holds the store's mutex and is one step; DhtQueries calls them.         *)
(***************************************************************************)
EXTENDS Clock, LruCache

CONSTANTS
  Hashes,                \* info hashes
  Peers,                 \* peer addresses
  MAX_PEERS_PER_HASH,
  MAX_INFO_HASHES,
  PEER_ENTRY_TTL         \* in ticks

ASSUME CapacityAssumption ==
  /\ MAX_PEERS_PER_HASH \in Nat \ {0}
  /\ MAX_INFO_HASHES \in Nat \ {0}
ASSUME TimeAssumption == PEER_ENTRY_TTL \in Nat

VARIABLES
  buckets_,     \* info hashes, most recently used first
  peers,        \* peers of each bucket, most recently seen first
  last_seen,    \* when each of them was last seen
  reported      \* all peers reported since the bucket was created, likewise

storeVars == <<buckets_, peers, last_seen, reported>>

StoreInit ==
  /\ buckets_ = <<>>
  /\ peers = [h \in Hashes |-> <<>>]
  /\ last_seen = [h \in Hashes |-> <<>>]
  /\ reported = [h \in Hashes |-> <<>>]

\* A hash without a bucket has no peers.
Clear(f, gone) == [h \in Hashes |-> IF h \in gone THEN <<>> ELSE f[h]]
Evicted(h) == Keys(buckets_) \ Keys(put(buckets_, h, MAX_INFO_HASHES))

\* ensure_bucket, when a lookup starts.
ensure_bucket(h) ==
  /\ buckets_' = put(buckets_, h, MAX_INFO_HASHES)
  /\ peers' = Clear(peers, Evicted(h))
  /\ last_seen' = Clear(last_seen, Evicted(h))
  /\ reported' = Clear(reported, Evicted(h))

\* upsert, for an announced peer or one found by a lookup.
upsert(h, p) ==
  /\ buckets_' = put(buckets_, h, MAX_INFO_HASHES)
  /\ peers' = [Clear(peers, Evicted(h)) EXCEPT
                 ![h] = put(@, p, MAX_PEERS_PER_HASH)]
  /\ reported' = [Clear(reported, Evicted(h)) EXCEPT ![h] = ToFront(@, p)]
  /\ last_seen' = [Clear(last_seen, Evicted(h)) EXCEPT
                     ![h] = [q \in Keys(peers'[h]) |->
                               IF q = p THEN now ELSE @[q]]]

\* live_peers, for a node that asks: its answer is Live(h), and it counts as a
\* use of the bucket.
live_peers(h) ==
  /\ buckets_' = get(buckets_, h)
  /\ UNCHANGED <<peers, last_seen, reported>>

\* Fault: a bucket is judged by its oldest peer.
DeadByOldest(h) ==
  peers[h] = <<>> \/ now - last_seen[h][Last(peers[h])] >= PEER_ENTRY_TTL

\* A bucket is judged by its first peer alone.
bucket_is_dead(h) ==
  peers[h] = <<>> \/ now - last_seen[h][Head(peers[h])] >= PEER_ENTRY_TTL

expire_stale ==
  LET dead == {h \in Keys(buckets_) : bucket_is_dead(h)}
  IN  /\ buckets_' = SelectSeq(buckets_, LAMBDA h : h \notin dead)
      /\ peers' = Clear(peers, dead)
      /\ last_seen' = Clear(last_seen, dead)
      /\ reported' = Clear(reported, dead)

\* What live_peers answers.
Live(h) == {p \in Keys(peers[h]) : now - last_seen[h][p] < PEER_ENTRY_TTL}
=============================================================================
