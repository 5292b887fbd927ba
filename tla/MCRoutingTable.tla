--------------------------- MODULE MCRoutingTable ---------------------------
(* Ids of three bits: the farthest bucket can overflow, the others hold a   *)
(* single node each, and the zero id and our own id are among the nodes     *)
(* that messages name.                                                      *)
EXTENDS RoutingTable

Id(a, b, c) == <<a, b, c>>

Self == Id(1, 0, 1)
SmallNetwork ==
  {Self, Id(0, 0, 0), Id(0, 0, 1), Id(0, 1, 0), Id(0, 1, 1),
   Id(1, 0, 0), Id(1, 1, 0)}
=============================================================================
