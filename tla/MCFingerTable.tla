--------------------------- MODULE MCFingerTable ---------------------------
(***************************************************************************)
(* A ring of eight ids with four nodes on both sides of the wrap-around;   *)
(* two fingers, one of whose targets wraps as well.                        *)
(***************************************************************************)
EXTENDS FingerTable

CONSTANTS here, there
MCNodes == {1, 3, 6, 7}
MCContacts == {here, there}
=============================================================================
