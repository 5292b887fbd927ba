# A TLA+ model of the BitTorrent client

This directory holds TLA+ modules that model the stateful parts of the client,
the TLC configurations that check them on small instances, and proofs, checked
by TLAPS, of the properties that matter most.  Source files are named by their
place in the repository's tree (`src/...`, `inc/...`).

## The system

A `SessionManager` owns one `TorrentManager` per torrent, one `DhtClient` and
the port mapping of the router.  A `TorrentManager` asks the tracker and the DHT
for peers and runs one worker thread per peer, at most 40 at a time.  A worker
runs one `PeerConnection`.  All connections of a torrent share a lock-free
`PieceManager` and a `DiskWriter`.  The `DhtClient` runs a receive thread and a
maintenance thread over a routing table, a lookup manager, an announce
coordinator, a token rotator and a store of peers.

| Part | State | What makes it hard | Module |
|------|-------|--------------------|--------|
| `PieceManager` | `m_have`, `m_claimed` (atomic flags), two atomic counters | no lock: each operation is several atomic accesses, interleaved over all peer threads; endgame mode lets several threads fetch one piece | `PieceManager` |
| `PeerConnection` | choking, interest, peer bitfield, piece in flight | messages in any order; a choke, time-out or exception while a piece is claimed | `PeerConnection` |
| its blocks | requested offset, received blocks, `requests_in_flight` | late, repeated, stale and unfit blocks; requests dropped by a choke | `BlockPipeline` |
| `DiskWriter` | one mutex and stream per file | pieces that span files take several locks; writers and readers overlap | `DiskWriter` |
| `TorrentManager` | peers, next index, running workers, registered connections, totals | workers spawn workers; `stop()` cancels and joins while they register, connect and finish | `TorrentManager` |
| `SessionManager` | sessions, status thread, DHT client, mapping | one mutex held across calls that wait for other threads | `SessionManager` |
| `UPnPPortMapping` | whether the object is valid, the router's mapping | errors at every step; an object that is moved and must delete its mapping once | `UPnPPortMapping` |
| trackers | connection id, transaction ids, attempts, addresses | lost, late and foreign replies; blocking calls | `TrackerCommunicator` |
| `DhtClient` | threads, socket, flags, table file | two threads over shared state; start, stop, kill and restart | `DhtClient`, `DhtQueries` |
| announce coordinator | registered torrents, first lookups, tokens | lookups that can not start yet; refresh | `AnnounceCoordinator` |
| lookup manager | active lookups, pending queries | an iterative search that must end whichever nodes answer | `KademliaLookup`, `GetPeersLookupManager` |
| routing table | buckets, time of last contact, refresh cursor | full buckets, stale entries | `RoutingTable` |
| peer store | per-torrent peers with a time | two levels of eviction; expiry at the boundary | `LruCache`, `DhtPeerStore` |
| token rotator | current and previous secret | rotation between issue and use, by two threads without a lock | `Clock`, `TokenSecretRotator` |

`PieceStore` is the abstract piece table that the peer threads implement.  The
modules ending in `Proofs` hold the theorems; the `MC` modules name the
instances that TLC checks.  How the modules are composed:

* `PieceManager` ← `PeerConnection` ← `BlockPipeline`, which refines it;
* `UPnPPortMapping` ← `SessionManager`;
* `AnnounceCoordinator` ← `DhtClient`;
* `Clock` ← `TokenSecretRotator`, `DhtPeerStore` (over `LruCache`) ← `DhtQueries`;
* `KademliaLookup` ← `GetPeersLookupManager`.

The large components are not multiplied with each other; each sees its
neighbours as choices, and what it assumes of them is what another module
shows.  `SessionManager` takes `start()` and `stop()` of a torrent as steps that
end (`StopTerminates`, `AnnounceReturns`); `TorrentManager` relies on
`NoPeerAfterStop`; `DhtClient` takes lookups as something that ends
(`LookupsEnd`) and the routing table as nodes that are absent, known or good.

Operators named as faults ("Fault: ...") are changes of a definition that a
property must notice; no specification uses them.

## How the modules correspond to the code

### PieceManager and PeerConnection

`pc[t]` names the next access of thread `t` to the piece table.  Everything a
thread does between two such accesses touches only its own fields, so a step
runs up to and including the next access: `CompleteCas` is the compare-and-swap
on `m_have` in `complete_piece`, and `CompleteWrite` the call of `write_piece`
after it, which may throw.  The fields `m_current_piece`,
`m_current_piece_exclusive`, `m_peer_choking`, `m_am_interested` and
`m_peer_bitfield` are those of the class.  `written` is what the disk holds.

A worker slot that is `closed` may connect to a new peer; after `Disconnect`,
or an exception out of `write_piece`, `Unwind` and `Close` are the destructor.
A failed `send` ends a connection as a failed `recv` does and has no action of
its own.  `acquire`/`release` accesses to single flags are taken as sequentially
consistent.  The loop in `handle_bitfield` that looks for a missing piece only
reads `m_have`, which never becomes false again, and is one step.
`ReceiveLastBlock` is the block message that makes the piece whole,
`ReceiveOther` any other message.

### BlockPipeline

The same threads, with the blocks of those in `Watched` followed: the request
loop of `fill_requests` and all of `handle_piece`.  The steps of a watched
thread are those of `PeerConnection`, with the piece whole exactly when the
last missing block has come.  `requests_in_flight` is a counter modulo
`Modulus`, as `uint32_t` is.  The peer answers requests in any order, drops them
when it chokes us, and sends blocks that were not asked for, were sent before,
belong to another piece or do not fit.

### TorrentManager

Worker `i` is the thread that tries `m_all_peers[i]`; `wpc[i]` is where it is
in `run_peer_worker`.  Critical sections of `m_spawn_mu` are single steps, but
the loop of `spawn_peers_locked` is taken an iteration at a time, because
`m_stopped` and the piece table change without the lock; `spawner` holds the
lock meanwhile.  `ctl` is the session's thread in `start()` and `stop()`.
`retired[i]` is the share of connection `i` in `m_uploaded_bytes_retired`.
`add_dht_peer` may run before `start()` and after it, but never during
`start()` or once `stop()` has begun: the DHT callback, `start()` and `stop()`
all run under the session's mutex, and the DHT client is stopped first.

### DiskWriter

`Call` is the entry of `write_piece` or `read_piece`; `Lock` takes one mutex,
and `SkipFile`, `WriteChunk`, `ReadChunk` are iterations of the loop over the
files.  The content of a byte is the position in the torrent it was written
for.  File operations may fail; a failed write leaves any prefix of its chunk.
`CreateFile` truncates one file in `preallocate_files`.  `done` and `damaged`
are history variables: pieces whose write returned, and threw.  Calls with an
index out of range or data of the wrong length throw before any effect and are
left out.

### SessionManager and UPnPPortMapping

`pc` is the thread that owns the session, `status` the status thread and `dht`
the receive thread of the DHT client.  `m_mutex` is held from `LockTo...` to the
end of its block, and the loops under it go torrent by torrent, since torrents
complete without the mutex.  The maintenance thread of the DHT client does not
take `m_mutex` and is left out.  `completed_in_time` is a history variable.
`start_all` creates the port mapping step by step: discovery, the description
of the device, the requests with their lease times, and the moves of the object
into the session.  A request without an answer may or may not have reached the
router.  Discovery may throw out of `start_all`, after which only the destructor
runs.

### TrackerCommunicator

`TorrentManager::announce` with the UDP and the HTTP communicator below it, in
the session's thread.  A UDP exchange is two phases, each an attempt at a time
over every address; a poll yields nothing or any answer to a request that was
sent from the local port.  The HTTP exchange goes through resolving, connecting,
TLS, sending and receiving, and its replies are kept apart by what the code does
with them.  Transaction ids are taken to be different.

### DhtClient and AnnounceCoordinator

`main` is the application's thread in `start()`, `stop()` and the destructor,
`recv` and `maint` the two loops.  `stop_mutex_` is a variable, because a
notification between the test of `running_` and the sleep would be lost.
`table` says for each node whether it is absent, stale or good; `file` is the
saved table: none, whole, torn (the process was killed or the write failed) or
mixed (two threads wrote it).  `kept` is a history variable: the nodes that the
last `stop()` saved.  `Kill` ends the process anywhere.  `MaintWake` is not taken
while `start()` reads the file: the loop sleeps for `MAINT_INTERVAL`, far longer.
`AnnounceCoordinator` gives the coordinator's operations, each under its mutex,
as action fragments.

### DhtQueries, TokenSecretRotator, DhtPeerStore, LruCache

`DhtQueries` is the receive thread's handling of `get_peers` and
`announce_peer`, beside the maintenance thread (rotation and expiry) and the
application's lookups, which add peers.  The four assignments of
`rotate_if_needed` are steps of their own, because two threads call it without a
lock.  A token is represented by the secret it was made from.  The clock stands
still during a call.  A cache is the sequence of its keys, most recently used
first; `buckets_` is the outer one, `peers[h]` that of bucket `h`.  `reported`
(every peer reported since its bucket was created) and `met` (both threads were
rotating at once) are history variables.

### RoutingTable

Ids are sequences of bits, so that `bucket_index` and `random_id_in_bucket` are
defined on them as in the code, from opposite ends.  Buckets are sequences in
the code's order; `last_seen` is an age.  `refresh_buckets` is the step of the
maintenance loop, with its cursor.

### KademliaLookup and GetPeersLookupManager

Each public operation holds the manager's mutex and is one step; the seeds of
`start_or_advance` are read before it and may be out of date.  The routing
table is changed by messages of every kind between the steps, so `closest()`
returns the K closest of any set of nodes.  The loop of `tick` is taken a lookup
at a time, in any order: it goes over a hash table and reads the routing table
anew for each lookup.  `ticking` holds the lookups it has yet to advance; no
other operation, but for the passing of time, comes in between.  A node is its
rank by distance; the same ranks serve every hash.  `sort` puts at each place
the node that has that many nodes before it, and a set of nodes is appended to
the candidates in one fixed order (`Listing`), which sorting undoes.
`random_txn` returns any id; the history variable `collided` records that it
returned one that was in use.

## Runs

| Run | Instance | Shows |
|-----|----------|-------|
| `peer_threads` | 2 threads, 2 pieces (the last one short), 2 corrupted pieces, failing writes, one responsive seed | `ExclusiveOwner`, `ClaimHasOwner`, `SingleWriter`: reservations are exclusive and owned, a piece has one writer; `NeverIdleWithWork`: no connection idles while its peer has a missing piece; `CompleteMeansStored`; `PieceSteps`; `ImplementsPieceStore`; `EventuallyComplete`: the download ends, unless a failed write lost a piece |
| `blocks` | 2 threads, one watched; pieces of 2 and 1 blocks, window 1, counter modulo 3, 1 corrupted piece | `AnswerIsDue`: a connection with a piece in flight has a request for a missing block with its peer; `PieceEnds`: no piece stays in flight for ever |
| `torrent_pool` | 3 peers, 2 slots | `WorkersAreCounted`, `NoIdleSlot`: the pool is bounded and used; `NoDanglingConnection`, `UploadTotalsExact`; `ThreadsFixedWhileJoining`, `StopTerminates`: `stop()` walks a fixed list and returns |
| `disk_calls` | 2 threads, 18 layouts of up to 3 files, piece sizes 2 to 4, failing disk | `DoneIsDurable`, `NoTornRead`, `SomeCallProceeds`: written pieces stay, reads are whole, the file locks do not deadlock |
| `session_threads` | 2 torrents, three threads, the port mapping | `NoPeerAfterStop`, `SummariesAreRight`, `PortMappingLivesWithSession`, `SessionEnds` |
| `lookups` | 2 hashes, 2 nodes, K = 2, 1 query at a time, 2 ids that may collide | `TxnsRouted`: the two tables of ids agree; `ClosestIsAsked`; `LookupsEnd` |
| `routing_table` | ids of 3 bits, buckets of 2, 7 ids with the zero id and our own | `TableIsSound`, `GoodNodesStay`, `RefreshAsksTheBucket`, `RefreshReachesEveryBucket` |
| `dht_client` | 1 torrent, 1 node | `NothingOutlivesStop`, `StopIsPrompt`, `SavedTableIsLoaded`; `TorrentsAreLookedUp`, `NeverIsolated` |
| `dht_queries` | 2 hashes in 1 bucket, 3 peers in 2 entries, 4 ticks | `TokenOutlivesRotation`, `KeepsFreshest`, `ExpiryIsInvisible` |
| `trackers` | 3 retransmissions, 2 addresses, 3 announces, all protocols | `PeersAnswerThisAnnounce`, `AnnounceReturns` |
| `peer_stranded`, `token_race` | as `peer_threads` without a responsive seed; 1 hash and 1 peer | comments that the code does not live up to, below |

### Bounds

Two pieces are enough for a scan that skips one piece and takes another, for
the endgame loop to start behind a claimed piece, and for the short last piece.
Two threads give an owner and an endgame thread that race to complete; what a
third one could add is covered by the proofs, which hold for any number.
Corrupted pieces are bounded by `MaxHashFailures` so that the counter is finite.

With pieces of up to two blocks and a window of one, the first request fills
the window, the second block is the short one, and a counter modulo 3 wraps; an
instance with three blocks in a window of two (`NominalLength` 5, `TotalLength`
6, `Modulus` 4) also holds, in more time.

Two slots and three peers make the third worker start from the end of another
one.  The disk layouts have empty files at every place, and pieces inside a
file, across two and across all three.  Two hashes and two ids let a reply go to
the wrong lookup; with K = 2 and repeated nodes the candidate list is cut.

In the routing table the farthest bucket overflows, others stay small, entries
are fresh, on the boundary and past it, and one bucket per tick makes the cursor
skip; ids of 4 bits with another node (190,750 states) also hold, in more time.
In the peer store each cache is one smaller than the set of its keys, so
that evictions happen at both levels.  A tick of `dht_queries` is half a
rotation interval; its four ticks hold a token through two rotations.  With one node the
threshold `kMinGoodEntriesToSkipBootstrap` is met or not met, and a file is empty
or holds it; the safety properties of that run are proved for any number.  Three
retransmissions over two addresses make a late reply reach another attempt,
another phase, another address and the next announce.

### Fairness

* `peer_threads`: every thread that does not wait for the network runs (weak
  fairness of `Compute`); one peer (`Steady`) connects, sends a complete
  bitfield, unchokes us and answers however many other messages are in between
  (strong fairness).  Other peers may do anything for ever.
* `blocks`: the watched thread runs, and its peer answers a request if requests
  keep being with it.  It may choke, disconnect and send strays for ever.
* `torrent_pool`: threads run, connecting and the handshake time out
  (`connect_with_timeout`, 10 s in `do_handshake`), and `recv` on a socket that
  was shut down fails.  A connection that was not shut down may stay in `run()`
  for ever.
* `session_threads`: threads run, and one that waits for `m_mutex` gets it in
  the end (strong fairness): the status thread sleeps between its rounds and the
  receive thread waits for datagrams.
* `lookups`: time passes, the loop of a `tick` ends, and the maintenance loop,
  which waits for the mutex to call `expire_active_lookups`, gets it in the end
  (strong fairness).  `routing_table`: that loop calls `refresh_buckets`.
* `dht_client`: `start()`, `stop()` and both loops run; their waits are bounded
  by a poll time-out and by `MAINT_INTERVAL`; lookups end.
* `trackers`: every step but `SSL_connect` and the receiving of an `SSLSocket`,
  which have no time-out; `AnnounceReturns` leaves HTTPS out for that reason.

### Findings

* `complete_piece` sets `m_have` before it calls `write_piece`.  When the write
  throws, `abort_piece` in the destructor sees `m_have` and does not release
  the piece, which nobody downloads again, although `piece_manager.h:39` says
  `abort_piece` "releases a claim so the piece can be retried by any other
  peer" (`peer_stranded`).
* `token_secret_rotator.h:11` promises that the previous secret "remains valid
  for ten minutes so clients that received a token just before rotation can
  still announce".  When both threads find the rotation due at the same time,
  the secret is rotated twice and a token issued just before is refused at once
  (`token_race`); accesses to the strings are taken as atomic, so this is the
  mildest outcome of that race.

### Observations without a run

* Pieces.  `m_have[i]` is visible to other threads before the piece is on disk,
  although `piece_manager.h:85` reads "true = verified + on disk", so `read_block`
  may serve bytes that are not there yet.  A piece dropped in an endgame race
  leaves its requests with the peer (no Cancel), and unfit blocks lower
  `requests_in_flight`, so more than `MAX_PIPELINE` requests may be outstanding.
  The counter may wrap, but only when everything is requested.  Bytes of a piece
  fetched again after a choke are counted again in the speed.
* Rotation.  The next rotation, after five minutes, overwrites the previous
  secret before its ten minutes are over.
* Lookups.  Two that draw the same 16-bit transaction id share the reply, and the
  first stays until its lifetime is over (`TxnsRouted` is stated for ids drawn
  once).  `merge_nodes` keeps copies of nodes it has, and copies push unasked
  nodes off the list (`kademlia_lookup.h:88-89` speaks of "the K closest").  A due
  refresh is postponed while the application keeps lookups of the torrent going.
* Routing table.  Nodes that are merely mentioned in a reply count as just seen.
  Loaded entries have the epoch of the steady clock as `last_seen`, so they are
  good during the first 15 minutes after boot; loading overwrites a fresher
  time.  `remove` has no caller.
* Table file.  `stop()` may save while the maintenance thread is saving the same
  file.  A mixed file can make `node_id_from_hex` throw out of `start()`; a line
  cut inside the port loads another port; a failed save of the maintenance
  thread destroys what `stop()` wrote.
* `announce_peer` is answered at the announced port, not at the sender's.
* Trackers.  Every datagram uses up an attempt; an error reply is believed
  whatever its transaction id.  `TorrentManager` always announces `uploaded` = 0.
* UPnP.  The lease loop ends with the first refusal, although a shorter lease is
  meant to follow; an empty answer counts as success; the mapping is TCP only
  although `session_manager.cpp:95-96` says that it covers DHT traffic; sockets
  that fail in discovery throw, although `upnp.h` says that `create()` returns
  `nullopt`.
* `stop_all` does not flush the summary of a torrent that the status thread has
  reported.

## Proofs

All theorems hold for every value of the constants that the named assumptions
allow: any number of threads, pieces, peers, slots, torrents and nodes, any
lengths, block sizes and windows.  Besides types, the assumptions are: at least
one piece, the last one not empty and not longer than the others
(`LengthAssumption`), finitely many threads, peers and nodes, a counter modulus
larger than the window (`PipelineAssumption`; it is 2^32 against 15), a previous
secret that lives at least as long as a rotation interval (`TtlAssumption`; ten
minutes against five), and sizes, capacities and time-outs that are not zero.

* `PeerConnectionProofs` proves `Spec => []IInv` and derives the invariants of
  `peer_threads`, `CountIsExact` and `DownloadedWithinTotal`.  `ExclusiveOwner` is
  not inductive: that a second thread can not claim a piece needs "an owner's
  piece is claimed" (`OwnerClaimed`), and that a thread in `abort_piece` or
  `complete_piece` has a piece at all needs `Shape`.  `CountIsExact` needs
  `WriterInv` (a piece at `cp_write` is marked and not yet written) and
  `SingleWriter`; `CompleteMeansStored` further needs the byte counter in closed
  form (`BytesAreExact`).  `NeverIdleWithWork` needs what the scan has
  established about the pieces it passed (`EndgamePrefix`).  Every action changes
  only its thread's fields (`OnlyChanges`) and has one of nine effects on the
  table (keeps, drops, takes an endgame piece, claims, marks, stores, adds bytes,
  counts, releases); each part of the invariant is preserved by each effect.
  `Refinement` is `Spec => ImplementsPieceStore`: each effect moves at most one
  piece to its next phase.
* The second half of that module proves that `BlockPipeline` implements
  `PeerConnection` (`BlocksImplementConnection`), so that everything above holds
  with blocks, and the invariant `BInv` behind `WindowIsFull` and `AnswerIsDue`.
  A block that was requested and is missing is still with the peer (`Pending`),
  which a choke can only break together with the piece (`Engaged`).  So it
  remains to show that there is one: while blocks are left to request, `requests_in_flight` and the
  received blocks are together no more than the requests made (`Window`), and
  the thread waits only with a full window or everything requested (`FullAt`).
  A counter that is too small only makes the loop request more, and it can
  wrap only when nothing is left to request.
* `TorrentManagerProofs`: pool size, no idle slot, no dangling connection, exact
  totals, a fixed list while joining, and `StopReachesRunners`.  The argument
  rests on who is inside `spawn_peers_locked` (`SpawnerWaits`), that the started
  workers are a prefix of the peers (`SpawnedPrefix`), that a
  connection is registered from its construction to its end (`Registered`), and
  that `stop()` sets `m_stopped` before anything else (`StopIsFlagged`), so that
  a connection is there to be cancelled or its worker sees the flag.  The end of
  the module is about its announces (`TrackerCommunicator`):
  `PeersAnswerThisAnnounce`, since the id of the announce phase was never used
  for a connect request or by an earlier announce (`Asked`); and
  `AnnouncesAreBounded`: from the addresses untried and the attempts left one can
  count the steps an announce has left (`StepsLeft`), and every step leaves
  fewer, whatever arrives.  This is what `AnnounceReturns` rests on, besides
  each wait coming to an end; over HTTPS it bounds the steps, not the time.
* `DhtClientProofs`: `NothingOutlivesStop`, `StopIsPrompt` (the maintenance
  thread holds `stop_mutex_` from its test to its sleep) and
  `SavedTableIsLoaded` (what `stop()` saved is in the table, then in the file,
  then in the table again, by the phase of `main`).
* `SessionManagerProofs`: `NoPeerAfterStop` (the DHT thread is joined before the
  first torrent stops), `SummariesAreRight`, `PortMappingLivesWithSession`.
* `DiskWriterProofs`, for any layout of files (empty ones included) and any piece
  size.  The files lie one behind the other (`Layout`), so a call passes them in
  order and no file starts beyond the offset at which it is reached (`Walk`); the
  check for remaining bytes behind the loop cannot fail (`PiecesFitFiles`).  A call takes
  the mutexes of its files in ascending order and holds all of them during its
  loop (`Locks`), so two calls for one piece exclude each other, and of the
  calls that wait, the one that waits for the last file waits for nobody:
  `SomeCallProceeds`.  A writer has written everything up to its offset, a
  piece that nobody writes and no failure has damaged is written or blank as a
  whole (`Content`), and a reader holds what is on disk up to its offset
  (`Reads`); hence `DoneIsDurable` and `NoTornRead`.
* `RoutingTableProofs`, for ids of any width.  `TableIsSound` is inductive with
  the types of the entries; `GoodNodesStay` is an action property.
  `RefreshAsksTheBucket` is about the XOR metric: the bucket of an id is given by
  the first bit in which it differs from ours (`BucketOf`), which two ids of one
  bucket share, so every node inside is nearer than any node outside
  (`InsideIsNearer`).
* `DhtQueriesProofs`, for any number of peers and hashes and any intervals.
  `TokenOutlivesRotation`: a secret that was issued is the current one, or the
  previous one with enough of its life left, with one case for each statement at
  which a rotation may stand (`Tokens`); `met` excludes two rotations at once.
  `KeepsFreshest` and `ExpiryIsInvisible`: a bucket is a prefix of the peers
  reported, freshest first (`Stored`), so an expired first entry means that none
  is alive.
* `GetPeersLookupManagerProofs`, for any number of lookups, nodes and ids, any K
  and any `LOOKUP_ALPHA`.  The invariant is stated of a manager's record, so that
  each private function preserves it and the operations are put together from
  them.  `TxnsRouted`: the two tables of ids agree (`Routed`), except that
  `on_response` takes the id of the reply from its lookup first and from the
  manager's table last, so that this one id is exempt in between.
  `ClosestIsAsked`: for every node a lookup has heard of, a candidate is at least
  as close (`SoundCandidates`), and the first K of a sorted list keep that; so
  when all candidates have been asked, the closest node was.  That `sort` is
  one is a theorem too (`SortIsSorting`): it returns the same nodes, each as
  often as before, in order.  `AtMostAlphaQueries` holds even after ids have
  collided.  `LookupsGrowOld` is the part of `LookupsEnd` that is not liveness: no
  operation and no reply makes a lookup younger or lets it forget a node, and
  `expire_active_lookups` leaves no lookup that is too old.

Only model-checked is liveness, which is out of the proof system's reach:
`EventuallyComplete`, `PieceEnds`, `StopTerminates`, `SessionEnds`, `LookupsEnd`,
`RefreshReachesEveryBucket`, `TorrentsAreLookedUp`, `NeverIsolated` and
`AnnounceReturns`.  Every invariant and action property of a passing run is
proved.  No module uses `RECURSIVE`.

## Not modelled

* The upload side of `PeerConnection` (`handle_interested`, `handle_request`,
  `handle_cancel`) beyond its byte totals: its flags are read by nothing else
  here, and which bytes `read_block` returns is a question to `DiskWriter`.
* `scrape` of both trackers, `RoutingTable` statistics, the counters and speeds
  of the summaries and of the status display: no caller, or display only.
* Byte formats: bencode, KRPC, wire messages, `.torrent` files, HTTP and XML
  text, hexadecimal ids.  They convert text without state that outlives a call;
  their outcomes appear as choices.
* Sockets, TLS, SHA-1 and logging: external calls, represented by their outcomes
  and by whether they end.  That `std::thread` can not be created is left out.
* Weak memory order, data races on a single string, and 32-bit overflow of
  `num_blocks` for pieces of nearly 4 GiB.
