------------------------ MODULE MCVirtualPortRouter ------------------------
(***************************************************************************)
(* Two wrappers, of one thread or of one each, use two ports of a router   *)
(* or contend for one.                                                     *)
(***************************************************************************)
EXTENDS VirtualPortRouter

CONSTANTS w1, w2, node1, node2

MCWrappers == {w1, w2}
MCThreads  == {node1, node2}
MCOwnerships == {[w \in MCWrappers |-> node1], [w \in MCWrappers |-> IF w = w1 THEN node1 ELSE node2]}
=============================================================================
