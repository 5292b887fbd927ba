---------------------------- MODULE MCDhtQueries ----------------------------
(* Small instances of DhtQueries for TLC; five and ten minutes are two and  *)
(* four ticks.                                                              *)
EXTENDS DhtQueries

CONSTANTS h1, h2, p1, p2, p3

OneHash == {h1}
TwoHashes == {h1, h2}
OnePeer == {p1}
ThreePeers == {p1, p2, p3}
Symmetry == Permutations(TwoHashes) \cup Permutations(ThreePeers)
=============================================================================
