------------------------- MODULE MCFindAddressOwner -------------------------
(***************************************************************************)
(* Four nodes on a ring of eight ids, of which this one is the lowest; one *)
(* client, and the update of the one finger beside it.                     *)
(***************************************************************************)
EXTENDS FindAddressOwner

CONSTANT client

\* Enough for a path of three nodes, owners found and not believed, and every way back.
MCNodes == {1, 3, 4, 6}
MCKnows == [n \in MCNodes |-> CASE n = 3 -> {4} [] n = 4 -> {3, 6} [] n = 6 -> {1} [] OTHER -> {}]
MCHeardOf == {3}
MCClients == {client}
MCAddresses == {0}

\* States that differ only in what can have no effect are one: in the questions and events
\* under numbers that are gone, and in how high the numbers are, which are only compared.
Pending == SelectSeq(eventQueue, LAMBDA id : id \in DOMAIN requests)
Rank(id) == Cardinality({other \in DOMAIN requests : other <= id})
MCView == <<running, best, fingerTableUpdateHasTakePlace, owed, lookups, ignored,
            {<<Rank(id), requests[id].target, requests[id].path, requests[id].seen,
               connectionID[id]>> : id \in DOMAIN requests},
            [i \in DOMAIN Pending |-> Rank(Pending[i])],
            {<<Rank(m.id), m.to>> : m \in {n \in network : n.id \in DOMAIN requests}},
            {<<m.from, m.address>> : m \in toHandler},
            [i \in DOMAIN toDealer |-> toDealer[i].owner],
            {fingerIndex[number] : number \in DOMAIN fingerIndex}>>
=============================================================================
