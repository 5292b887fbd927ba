----------------------- MODULE GetPeersLookupManager ------------------------
(***************************************************************************)
(* The lookups of a DHT node for the peers of its torrents                 *)
(* (src/src/dht/get_peers_lookup_manager.cpp).  The receive, maintenance   *)
(* and session threads call its operations in any order.  An operation     *)
(* holds the manager's mutex and is one step, except that the loop of tick *)
(* is taken a lookup at a time (ticking), because each iteration may read  *)
(* the routing table again.  Replies may be lost, late, repeated or        *)
(* foreign.                                                                *)
(*                                                                         *)
(* The routing table is another component, which messages of every kind    *)
(* change between the steps: closest() finds the K closest of any set of   *)
(* nodes.  Times are ages that stop at their limit.  The manager's state   *)
(* is a record, so that its private functions are operators on it;         *)
(* random_txn makes them set-valued.                                       *)
(***************************************************************************)
EXTENDS KademliaLookup

CONSTANTS
  Hashes,
  Nodes,                  \* ranks of the nodes of the network
  Txns,                   \* transaction ids
  LOOKUP_ALPHA,
  GET_PEERS_TXN_TTL,
  GET_PEERS_LOOKUP_TTL

ASSUME NodesAssumption == Nodes \subseteq Nat /\ IsFiniteSet(Nodes)
ASSUME LimitAssumption ==
  /\ LOOKUP_ALPHA \in Nat \ {0}
  /\ GET_PEERS_TXN_TTL \in Nat \ {0}
  /\ GET_PEERS_LOOKUP_TTL \in Nat \ {0}

VARIABLES
  kademlia_lookups_,   \* lookup of each hash that has one
  pending_lookups_,    \* hash and age of each transaction id in use
  ticking,             \* lookups that the tick under way has yet to advance
  finished,            \* the lookup that ended last by exhausting its nodes
  collided             \* random_txn has drawn an id that was in use

vars == <<kademlia_lookups_, pending_lookups_, ticking, finished, collided>>

manager == [lookups |-> kademlia_lookups_, txns |-> pending_lookups_,
            finished |-> finished, collided |-> collided]

None == [queried |-> {}, heard |-> {}]
Empty == [x \in {} |-> 0]

TypeOK ==
  /\ DOMAIN kademlia_lookups_ \subseteq Hashes
  /\ \A h \in DOMAIN kademlia_lookups_ :
       LET l == kademlia_lookups_[h]
       IN  /\ l.candidates \in Seq(Nodes) /\ Len(l.candidates) <= K
           /\ l.queried \subseteq l.heard /\ l.heard \subseteq Nodes
           /\ l.pending \subseteq Txns
           /\ l.age \in 0 .. GET_PEERS_LOOKUP_TTL
  /\ DOMAIN pending_lookups_ \subseteq Txns
  /\ \A x \in DOMAIN pending_lookups_ :
       /\ pending_lookups_[x].hash \in Hashes
       /\ pending_lookups_[x].age \in 0 .. GET_PEERS_TXN_TTL
  /\ ticking \subseteq Hashes
  /\ collided \in BOOLEAN

Init ==
  /\ kademlia_lookups_ = Empty
  /\ pending_lookups_ = Empty
  /\ ticking = {}
  /\ finished = None
  /\ collided = FALSE

-----------------------------------------------------------------------------
(* Private functions, on a manager m.                                       *)

Without(f, S) == Restrict(f, DOMAIN f \ S)
Assign(f, S, v) == [x \in DOMAIN f \cup S |-> IF x \in S THEN v ELSE f[x]]
SetLookup(m, h, l) == [m EXCEPT !.lookups = Assign(@, {h}, l)]

finish_lookup(m, h) ==
  LET l == m.lookups[h]
  IN  [m EXCEPT !.lookups = Without(@, {h}),
                !.txns = Without(@, l.pending),
                !.finished = [queried |-> l.queried, heard |-> l.heard]]

\* lookup_should_finish refills an exhausted lookup from the routing table.
Exhausted(l) == l.pending = {} /\ all_candidates_queried(l)

Replenished(l, table) ==
  IF Exhausted(l) THEN merge_nodes(l, Closest(table, K)) ELSE l

\* The results of n calls of random_txn, which looks at no table.
random_txn(n) == [1 .. n -> Txns]

Collides(m, d) == ~IsInjective(d) \/ Range(d) \cap DOMAIN m.txns # {}

Send(m, h, l, nodes) ==
  {[SetLookup(m, h, [l EXCEPT !.queried = @ \cup nodes,
                              !.pending = @ \cup Range(d)])
      EXCEPT !.txns = Assign(@, Range(d), [hash |-> h, age |-> 0]),
             !.collided = @ \/ Collides(m, d)] :
     d \in random_txn(Cardinality(nodes))}

CanSend(l) ==
  IF Cardinality(l.pending) >= LOOKUP_ALPHA THEN 0
  ELSE LOOKUP_ALPHA - Cardinality(l.pending)

advance_lookup(m, h, table) ==
  IF h \notin DOMAIN m.lookups THEN {m}
  ELSE LET l == Replenished(m.lookups[h], table)
       IN  IF Exhausted(l) THEN {finish_lookup(SetLookup(m, h, l), h)}
           ELSE Send(m, h, l, select_next_candidates(l, CanSend(l)))

\* Fault: the lookup goes on waiting for the reply.
ForgetTxnsOnly(m, dead) == [m EXCEPT !.txns = Without(@, dead)]

ForgetTxns(m, dead) ==
  [m EXCEPT
     !.txns = Without(@, dead),
     !.lookups = [h \in DOMAIN m.lookups |->
                    [m.lookups[h] EXCEPT !.pending =
                       @ \ {x \in dead : m.txns[x].hash = h}]]]

expire_pending_lookups_locked(m) ==
  ForgetTxns(m, {x \in DOMAIN m.txns : m.txns[x].age >= GET_PEERS_TXN_TTL})

\* Fault: only lookups that wait for nobody are given up.
StaleIfIdle(m) ==
  {h \in DOMAIN m.lookups : /\ m.lookups[h].age >= GET_PEERS_LOOKUP_TTL
                            /\ m.lookups[h].pending = {}}

Stale(m) == {h \in DOMAIN m.lookups : m.lookups[h].age >= GET_PEERS_LOOKUP_TTL}

expire_active_lookups_locked(m) ==
  [m EXCEPT
     !.txns = Without(@, UNION {m.lookups[h].pending : h \in Stale(m)}),
     !.lookups = Without(@, Stale(m))]

-----------------------------------------------------------------------------
(* Operations.                                                              *)

BecomesOneOf(S) ==
  \E m \in S : /\ kademlia_lookups_' = m.lookups
               /\ pending_lookups_' = m.txns
               /\ finished' = m.finished
               /\ collided' = m.collided

\* A lookup that was finished is followed by a new one at once.
StartIfNone(m, h, seeds, table) ==
  IF h \in DOMAIN m.lookups THEN {m}
  ELSE advance_lookup(SetLookup(m, h, NewLookup(Closest(seeds, K))), h, table)

\* The seeds were read from the routing table before the mutex was taken.
start_or_advance(h, seeds, table) ==
  LET m == expire_active_lookups_locked(expire_pending_lookups_locked(manager))
      waiting == h \in DOMAIN m.lookups /\ m.lookups[h].pending # {}
  IN  /\ ticking = {} /\ UNCHANGED ticking
      /\ seeds # {}
      /\ BecomesOneOf(
           IF waiting THEN {m}
           ELSE UNION {StartIfNone(n, h, seeds, table) :
                         n \in advance_lookup(m, h, table)})

\* A reply, or anything with a transaction id that is in use.
on_response(txn, nodes, table) ==
  LET h == pending_lookups_[txn].hash
      l == merge_nodes([kademlia_lookups_[h] EXCEPT !.pending = @ \ {txn}], nodes)
      Forget(n) == [n EXCEPT !.txns = Without(@, {txn})]
  IN  /\ ticking = {} /\ UNCHANGED ticking
      /\ txn \in DOMAIN pending_lookups_
      /\ BecomesOneOf(
           {Forget(n) : n \in IF h \in DOMAIN kademlia_lookups_
                              THEN advance_lookup(SetLookup(manager, h, l), h, table)
                              ELSE {manager}})

\* tick, by the receive loop and by the maintenance loop, ...
tick ==
  /\ ticking = {}
  /\ BecomesOneOf({expire_pending_lookups_locked(manager)})
  /\ ticking' = DOMAIN kademlia_lookups_

\* ... and an iteration of its loop; the order is that of a hash table.
TickLookup(h, table) ==
  /\ h \in ticking
  /\ BecomesOneOf(advance_lookup(manager, h, table))
  /\ ticking' = ticking \ {h}

expire_active_lookups ==
  /\ ticking = {} /\ UNCHANGED ticking
  /\ BecomesOneOf({expire_active_lookups_locked(manager)})

Older(age, limit) == IF age < limit THEN age + 1 ELSE limit

TimePasses ==
  /\ kademlia_lookups_' =
       [h \in DOMAIN kademlia_lookups_ |->
          [kademlia_lookups_[h] EXCEPT !.age = Older(@, GET_PEERS_LOOKUP_TTL)]]
  /\ pending_lookups_' =
       [x \in DOMAIN pending_lookups_ |->
          [pending_lookups_[x] EXCEPT !.age = Older(@, GET_PEERS_TXN_TTL)]]
  /\ UNCHANGED <<ticking, finished, collided>>

Next ==
  \/ \E table \in SUBSET Nodes :
       \/ \E h \in Hashes, seeds \in SUBSET Nodes : start_or_advance(h, seeds, table)
       \/ \E txn \in Txns, nodes \in SUBSET Nodes : on_response(txn, nodes, table)
       \/ \E h \in Hashes : TickLookup(h, table)
  \/ tick
  \/ expire_active_lookups
  \/ TimePasses

Spec == Init /\ [][Next]_vars

\* Time passes, a tick ends, and the maintenance loop, which waits for the
\* mutex, gets it in the end.
FairSpec ==
  /\ Spec
  /\ WF_vars(TimePasses)
  /\ WF_vars(\E h \in Hashes, table \in SUBSET Nodes : TickLookup(h, table))
  /\ SF_vars(expire_active_lookups)

-----------------------------------------------------------------------------
(* Properties.                                                              *)

\* As long as no id was drawn twice the two tables of transaction ids agree: a
\* lookup waits for exactly the ids whose replies are routed to it, through
\* replies, time-outs and the end of lookups.
TxnsRouted ==
  ~collided =>
    /\ \A h \in DOMAIN kademlia_lookups_ : \A x \in kademlia_lookups_[h].pending :
         x \in DOMAIN pending_lookups_ /\ pending_lookups_[x].hash = h
    /\ \A x \in DOMAIN pending_lookups_ :
         /\ pending_lookups_[x].hash \in DOMAIN kademlia_lookups_
         /\ x \in kademlia_lookups_[pending_lookups_[x].hash].pending

\* A lookup that ended by itself has asked the closest node it ever heard of.
ClosestIsAsked ==
  finished.heard # {} =>
    \E x \in finished.queried : \A y \in finished.heard : x <= y

\* No lookup goes on for ever: a lookup that is there ends, whichever nodes
\* answer and even when another one has taken its transaction ids, or is
\* replaced by a new one.
LookupsEnd ==
  \A h \in Hashes :
    h \in DOMAIN kademlia_lookups_ ~>
      (h \in DOMAIN kademlia_lookups_ => kademlia_lookups_[h].age = 0)
=============================================================================
