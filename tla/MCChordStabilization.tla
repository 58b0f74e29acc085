------------------------ MODULE MCChordStabilization ------------------------
(***************************************************************************)
(* Four nodes on a ring of eight ids, one more than main.cpp creates: two  *)
(* slots cannot hold all others then, and a node can be forgotten.         *)
(* Each is given one contact: two of them the first node, which has to     *)
(* choose whom it keeps, and the last a node that is not its neighbour on  *)
(* the ring.  The thread of the last may end.                              *)
(***************************************************************************)
EXTENDS ChordStabilization, TLC

MCNodes == {0, 2, 4, 6}
MCContacts == (0 :> << >>) @@ (4 :> <<0>>) @@ (2 :> <<0>>) @@ (6 :> <<2>>)
MCMortal == {6}

\* States that differ only in what can have no effect are one: in how high the numbers are,
\* which are only compared; in answers whose number is gone; in answers of a round that
\* would change nothing, and in requests that would change nothing and whose number is gone
\* (as slots only get closer, they never will).
Live(n, id) == id \in DOMAIN requests[n]
Rank(n, id) == Cardinality({other \in DOMAIN requests[n] : other <= id})
MCView ==
    <<thread, best,
      [n \in Nodes |-> {<<Rank(n, id), requests[n][id]>> : id \in DOMAIN requests[n]}],
      UNION {InFlight(n) : n \in Nodes},
      {<<m.from, m.to, Live(m.from, m.id)>> : m \in {k \in network :
          /\ k.kind = "isActive"
          /\ Live(k.from, k.id) \/ WouldImprove(k.to, k.from)}},
      {<<m.from, m.to>> : m \in {k \in network : k.kind = "active" /\ Live(k.to, k.id)}}>>
=============================================================================
