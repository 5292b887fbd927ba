---------------------------- MODULE RoutingTable ----------------------------
(***************************************************************************)
(* The Kademlia routing table of a DHT node                                *)
(* (src/src/dht/routing_table.cpp) and the refresh of its buckets by the   *)
(* maintenance loop (DhtClient::refresh_buckets).  Every operation holds   *)
(* the table's mutex and is one step; the receive, maintenance and start   *)
(* threads call them in any order.                                         *)
(*                                                                         *)
(* A node id is its bits, the most significant first.  last_seen is an     *)
(* age that stops at MaxAge, where the order of entries is not known any   *)
(* more.  Addresses, which are overwritten along with last_seen, and the   *)
(* number of nodes received per bucket, a statistic, are left out.         *)
(***************************************************************************)
EXTENDS Integers, FiniteSets, Sequences, SequencesExt

CONSTANTS
  NUM_BUCKETS,                    \* number of bits of a node id
  K,                              \* capacity of a bucket
  self_id_,
  Network,                        \* ids of the nodes of the network
  NODE_GOOD_TIMEOUT,              \* also the age at which a bucket is stale
  MaxAge,                         \* bound on the ages
  MAX_BUCKETS_REFRESH_PER_TICK

Bits == 1 .. NUM_BUCKETS
NodeId == [Bits -> {0, 1}]
Zero == [i \in Bits |-> 0]
Buckets == 0 .. NUM_BUCKETS - 1

ASSUME WidthAssumption == NUM_BUCKETS \in Nat \ {0}
ASSUME IdAssumption == self_id_ \in NodeId /\ Network \subseteq NodeId
ASSUME CapacityAssumption == K \in Nat \ {0}
ASSUME AgeAssumption ==
  /\ NODE_GOOD_TIMEOUT \in Nat \ {0}
  /\ MaxAge \in Nat /\ NODE_GOOD_TIMEOUT <= MaxAge
ASSUME RefreshAssumption == MAX_BUCKETS_REFRESH_PER_TICK \in Nat \ {0}

VARIABLES
  buckets_,                \* entries of each bucket, the last one moved last
  refresh_bucket_cursor_,  \* of the DhtClient
  refreshed                \* buckets the last maintenance tick has looked up

tableVars == <<refresh_bucket_cursor_, refreshed>>
vars == <<buckets_, refresh_bucket_cursor_, refreshed>>

Entry == [id : NodeId, age : 0 .. MaxAge]

Init ==
  /\ buckets_ = [b \in Buckets |-> <<>>]
  /\ refresh_bucket_cursor_ = 0
  /\ refreshed = {}

-----------------------------------------------------------------------------
(* Node ids (src/src/dht/node_id.cpp).                                      *)

xor(a, b) == [i \in Bits |-> IF a[i] = b[i] THEN 0 ELSE 1]
is_zero(a) == \A i \in Bits : a[i] = 0
less(a, b) == \E i \in Bits : a[i] < b[i] /\ \A j \in 1 .. i - 1 : a[j] = b[j]

\* The most significant bit that is set.
FirstOne(d) == CHOOSE i \in Bits : d[i] = 1 /\ \A j \in 1 .. i - 1 : d[j] = 0

\* The farthest half of the ids is bucket NUM_BUCKETS - 1.
bucket_index(id) ==
  IF is_zero(xor(self_id_, id)) THEN NUM_BUCKETS
  ELSE NUM_BUCKETS - FirstOne(xor(self_id_, id))

\* Fault: the bit of a bucket is counted from the wrong end.
LeastSignificantFirst(b) ==
  {id \in NodeId : /\ \A i \in 1 .. b : id[i] = self_id_[i]
                   /\ id[b + 1] # self_id_[b + 1]}

\* Every id it may return: the bits above that of the bucket are ours, that
\* bit is not, and the ones below are random.
random_id_in_bucket(b) ==
  LET msb == NUM_BUCKETS - b
  IN  {id \in NodeId : /\ \A i \in 1 .. msb - 1 : id[i] = self_id_[i]
                       /\ id[msb] # self_id_[msb]}

-----------------------------------------------------------------------------
(* Buckets.                                                                 *)

is_good(e) == e.age < NODE_GOOD_TIMEOUT

Ids(s) == {s[i].id : i \in DOMAIN s}
RemoveId(s, id) == RemoveFirstMatch(s, LAMBDA e : e.id = id)

\* Fault: an entry that is in the bucket already is not looked for.
NeverFound(s, id) == FALSE

find_in_bucket(s, id) == id \in Ids(s)

touch_bucket_entry(s, e) == Append(RemoveId(s, e.id), e)

\* Entries that are seen least recently.
Oldest(s) == {i \in DOMAIN s : \A j \in DOMAIN s : s[j].age <= s[i].age}

\* Fault: the least recently seen entry makes room even if it is good.
ReplaceGood(s, e) == {[s EXCEPT ![i] = e] : i \in Oldest(s)}

\* A full bucket: the least recently seen entry is replaced where it is, or
\* the new one is dropped.
ReplaceOldest(s, e) ==
  {IF is_good(s[i]) THEN s ELSE [s EXCEPT ![i] = e] : i \in Oldest(s)}

\* The bucket after add(e).
Added(s, e) ==
  IF find_in_bucket(s, e.id) THEN {touch_bucket_entry(s, e)}
  ELSE IF Len(s) < K THEN {Append(s, e)}
  ELSE ReplaceOldest(s, e)

-----------------------------------------------------------------------------
(* Operations.                                                              *)

\* The sender of a message and the nodes of a reply have just been seen; an
\* entry of the persisted table has the oldest time there is.
Ages == {0, MaxAge}

add(e) ==
  LET b == bucket_index(e.id)
  IN  /\ e.id # self_id_ /\ ~is_zero(e.id)
      /\ \E s \in Added(buckets_[b], e) : buckets_' = [buckets_ EXCEPT ![b] = s]
      /\ UNCHANGED tableVars

remove(id) ==
  LET b == bucket_index(id)
  IN  /\ b < NUM_BUCKETS
      /\ buckets_' = [buckets_ EXCEPT ![b] = RemoveId(@, id)]
      /\ UNCHANGED tableVars

all == UNION {ToSet(buckets_[b]) : b \in Buckets}

\* The first k entries in the order of their distance: those that fewer than
\* k others precede.
Nearer(target, e, f) == less(xor(target, e.id), xor(target, f.id))
closest(target, k) ==
  {e \in all : Cardinality({f \in all : Nearer(target, f, e)}) < k}

NeedsRefresh(s) == \A i \in DOMAIN s : s[i].age >= NODE_GOOD_TIMEOUT

\* In the order of the buckets.
buckets_needing_refresh ==
  SelectSeq([b \in 1 .. NUM_BUCKETS |-> b - 1],
            LAMBDA b : NeedsRefresh(buckets_[b]))

Lesser(m, n) == IF m < n THEN m ELSE n

\* Fault: every tick begins at the first bucket of the list.
CursorAtStart(start, n) == 0

NextCursor(start, n) == (start + Lesser(MAX_BUCKETS_REFRESH_PER_TICK, n)) % n

\* Each of these buckets is refreshed by find_node for an id in it, sent to
\* the closest nodes.
refresh_buckets ==
  LET stale == buckets_needing_refresh
      n == Len(stale)
      start == refresh_bucket_cursor_ % n
  IN  /\ n > 0
      /\ refreshed' = {stale[((start + i) % n) + 1] :
                         i \in 0 .. Lesser(MAX_BUCKETS_REFRESH_PER_TICK, n) - 1}
      /\ refresh_bucket_cursor_' = NextCursor(start, n)
      /\ UNCHANGED buckets_

\* The maintenance loop finds no bucket to refresh.
NothingToRefresh ==
  /\ buckets_needing_refresh = <<>>
  /\ refreshed' = {}
  /\ UNCHANGED <<buckets_, refresh_bucket_cursor_>>

TimePasses ==
  /\ buckets_' = [b \in Buckets |->
                    [i \in DOMAIN buckets_[b] |->
                       [buckets_[b][i] EXCEPT !.age = Lesser(@ + 1, MaxAge)]]]
  /\ UNCHANGED tableVars

Next ==
  \/ \E id \in Network, age \in Ages : add([id |-> id, age |-> age])
  \/ \E id \in Network : remove(id)
  \/ refresh_buckets
  \/ NothingToRefresh
  \/ TimePasses

Spec == Init /\ [][Next]_vars

\* The maintenance loop goes on for as long as the node runs.
FairSpec == Spec /\ WF_vars(refresh_buckets)

-----------------------------------------------------------------------------
(* Properties.                                                              *)

\* A node is in the table once, in the bucket its distance gives it, no bucket
\* is over its capacity, and neither the node itself nor the zero id of a
\* malformed message is there, however additions, moves to the end and
\* replacements follow each other.
TableIsSound ==
  \A b \in Buckets :
    /\ Len(buckets_[b]) <= K
    /\ \A i \in DOMAIN buckets_[b] :
         /\ bucket_index(buckets_[b][i].id) = b
         /\ ~is_zero(buckets_[b][i].id)
         /\ \A j \in DOMAIN buckets_[b] :
              buckets_[b][i].id = buckets_[b][j].id => i = j

\* A good node is never displaced, although a replacement in place leaves a
\* bucket that is not in the order of last_seen: a step that is no remove()
\* keeps every good node of every bucket.
GoodNodesStay ==
  [][(\A id \in Network : ~remove(id)) =>
       \A b \in Buckets : \A i \in DOMAIN buckets_[b] :
         is_good(buckets_[b][i]) => buckets_[b][i].id \in Ids(buckets_'[b])]_vars

\* routing_table.cpp:307-309: "the nodes closest to that target are exactly
\* the ones that belong in the bucket": whatever id is drawn for it, the
\* refresh of a bucket asks the nodes of the bucket before any other.
RefreshAsksTheBucket ==
  \A b \in Buckets : \A target \in random_id_in_bucket(b) :
    closest(target, Len(buckets_[b])) = ToSet(buckets_[b])

\* No stale bucket is passed over for ever: unless the list of stale buckets
\* goes on changing under the cursor, each bucket in it gets its turn.
RefreshReachesEveryBucket ==
  \/ []<><<buckets_needing_refresh' # buckets_needing_refresh>>_vars
  \/ \A b \in Buckets :
       []<>(b \in refreshed \/ ~NeedsRefresh(buckets_[b]))
=============================================================================
