------------------------- MODULE MCChordNodeManager -------------------------
(***************************************************************************)
(* Two nodes, the second given the contact of the first, of which one may  *)
(* fail, or be left by its router; enough calls for a node to be paused,   *)
(* resumed and paused again.                                               *)
(***************************************************************************)
EXTENDS ChordNodeManager, MCChordStabilization

ManagedNodes == {1, 6}
ManagedContacts == (1 :> << >>) @@ (6 :> <<1>>)

ManagedView == <<MCView, managerVars, nodeVars, socketVars>>
=============================================================================
