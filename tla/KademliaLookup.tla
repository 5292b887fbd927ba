--------------------------- MODULE KademliaLookup ---------------------------
(***************************************************************************)
(* One iterative lookup (src/src/dht/kademlia_lookup.cpp) as a record.     *)
(* A node is its rank by distance to the target, the closest first; id and *)
(* address are taken as one, and the node itself, which merge_nodes leaves *)
(* out, has no rank.  candidates is a sequence in which a node may occur   *)
(* more than once.  heard is a history variable: every node that was       *)
(* offered to the lookup.                                                  *)
(***************************************************************************)
EXTENDS Integers, Sequences, FiniteSets, Functions

CONSTANT K    \* RoutingTable::K

ASSUME KAssumption == K \in Nat \ {0}

\* The n closest of a set of nodes.
Closest(nodes, n) == {x \in nodes : Cardinality({y \in nodes : y < x}) < n}

\* The node that is at place i of a list when it is sorted.
Nth(s, i) ==
  CHOOSE x \in Range(s) :
    /\ Cardinality({j \in DOMAIN s : s[j] < x}) < i
    /\ i <= Cardinality({j \in DOMAIN s : s[j] <= x})

sort(s) == [i \in DOMAIN s |-> Nth(s, i)]

\* Nodes in some order, for what is sorted at once.
Listing(nodes) == CHOOSE s \in Injection(1 .. Cardinality(nodes), nodes) : TRUE

\* The seeds come from the routing table in the order of their distance.
NewLookup(seeds) ==
  [candidates |-> sort(Listing(seeds)), queried |-> {}, pending |-> {},
   age |-> 0, heard |-> seeds]

all_candidates_queried(l) == Range(l.candidates) \subseteq l.queried

\* Fault: the farthest candidates are kept.
ResizeFront(s) == IF Len(s) <= K THEN s ELSE SubSeq(s, Len(s) - K + 1, Len(s))

Resize(s) == IF Len(s) <= K THEN s ELSE SubSeq(s, 1, K)

\* Nodes are appended whether they are in the list already or not.
merge_nodes(l, nodes) ==
  [l EXCEPT !.candidates = Resize(sort(@ \o Listing(nodes))),
            !.heard = @ \cup nodes]

\* The list is sorted, so the first unqueried nodes are the closest ones.
select_next_candidates(l, count) ==
  Closest(Range(l.candidates) \ l.queried, count)
=============================================================================
