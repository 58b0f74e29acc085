---------------------- MODULE ChordStabilization_proofs ----------------------
(***************************************************************************)
(* The ring of Chord nodes and the manager that pauses it, for any number  *)
(* of nodes: no datagram breaks a ring that has formed, and what is read   *)
(* of paused nodes stands still.                                           *)
(*                                                                         *)
(* The first is not about datagrams at all: in a formed ring every slot    *)
(* holds the closest node there is, so no check of any node, asked for by  *)
(* whatever late message, finds a better one.  That messages name nothing  *)
(* but nodes is what TypeOK is needed for.  The second is about counting:  *)
(* a call returns only when every node has answered it, so the next call   *)
(* starts with nothing under way (ManagerInv).  Last, the two together:    *)
(* the steps of ManagerSpec as the nodes see them (NodesStep).             *)
(***************************************************************************)
EXTENDS ChordNodeManager, TLAPS, FiniteSetTheorems

\* What a table with two slots finds better (fingerTable::checkAndUpdateIfBetter).
LEMMA Improves ==
  ASSUME NEW n \in Nodes, NEW id \in Nodes, NEW b \in [Slots -> Nodes]
  PROVE  /\ Table(n, b)!Improved(id) \subseteq Slots
         /\ Successor \in Table(n, b)!Improved(id)
                => \/ Behind(b[Successor], n) > Behind(id, n) /\ id # n
                   \/ b[Successor] = n
         /\ Predecessor \in Table(n, b)!Improved(id)
                => \/ Behind(n, b[Predecessor]) > Behind(n, id) /\ id # n
                   \/ b[Predecessor] = n
  BY DEF Table!Improved, Table!BetterSuccessor, Table!BetterPredecessor, Table!BetterFinger,
         Table!Successor, Table!Predecessor, Table!Fingers, Table!Minus, Table!Modulus,
         Behind, Modulus, Successor, Predecessor, Slots

LEMMA BehindTyped ==
  ASSUME NEW a \in Nodes, NEW b \in Nodes
  PROVE  /\ Behind(a, b) \in Int
         /\ a = b => Behind(a, b) = 0
  BY ChordStabilizationAssumption DEF Behind

\* A check of one node against a table of the right type leaves tables of the right type.
LEMMA CheckTyped ==
  ASSUME best \in [Nodes -> [Slots -> Nodes]], NEW n \in Nodes, NEW id \in Nodes
  PROVE  checkAndUpdateIfBetter(n, id) \in [Nodes -> [Slots -> Nodes]]
  BY DEF checkAndUpdateIfBetter

\* In a formed ring of two nodes or more, no node is better than what a slot holds.
LEMMA NothingIsBetter ==
  ASSUME best \in [Nodes -> [Slots -> Nodes]], RingFormed,
         NEW n \in Nodes, NEW id \in Nodes, NEW other \in Nodes \ {n}
  PROVE  checkAndUpdateIfBetter(n, id) = best
<1> DEFINE b == best[n]
<1>1. b \in [Slots -> Nodes] /\ Successor \in Slots /\ Predecessor \in Slots
  BY DEF Slots
<1>2. b[Successor] # n /\ b[Predecessor] # n
  BY <1>1, BehindTyped DEF RingFormed, FormedAmong
<1>3. ASSUME id # n
      PROVE  /\ ~(Behind(b[Successor], n) > Behind(id, n))
             /\ ~(Behind(n, b[Predecessor]) > Behind(n, id))
  BY <1>1, <1>3, BehindTyped DEF RingFormed, FormedAmong
<1>4. Table(n, b)!Improved(id) = {}
  BY <1>1, <1>2, <1>3, Improves DEF Slots
<1> QED BY <1>1, <1>4 DEF checkAndUpdateIfBetter

-----------------------------------------------------------------------------
(***************************************************************************)
(* Types                                                                   *)
(***************************************************************************)

\* TypeOK in three parts, of which a step disturbs some.
TablesTyped ==
    /\ thread \in [Nodes -> {"none", "running", "paused", "stuck", "ended"}]
    /\ best \in [Nodes -> [Slots -> Nodes]]
    /\ number \in [Nodes -> Nat]

RequestTyped(n, id) ==
    /\ id \in 1 .. number[n]
    /\ requests[n][id] \in [to : Nodes \ {n}, resends : 0 .. MaximumResends]

RequestsTyped ==
    /\ requests = [n \in Nodes |-> [id \in DOMAIN requests[n] |-> requests[n][id]]]
    /\ \A n \in Nodes : \A id \in DOMAIN requests[n] : RequestTyped(n, id)

DatagramTyped(m) ==
    /\ m.from \in Nodes /\ m.to \in Nodes
    /\ m.kind = "stabilized" => m.predecessor \in Nodes

NetworkTyped == \A m \in network : DatagramTyped(m)

LEMMA TypeParts == TypeOK <=> TablesTyped /\ RequestsTyped /\ NetworkTyped
  BY DEF TypeOK, TablesTyped, RequestsTyped, RequestTyped, NetworkTyped, DatagramTyped

\* Datagrams are added with care.
LEMMA NetworkGrows ==
  ASSUME NetworkTyped, NEW out, \A m \in out : DatagramTyped(m),
         network' \subseteq network \cup Reach(out)
  PROVE  NetworkTyped'
<1>1. \A m \in network' : DatagramTyped(m)
  BY DEF NetworkTyped, Reach
<1> QED BY <1>1 DEF NetworkTyped, DatagramTyped

LEMMA RequestsKept ==
  ASSUME RequestsTyped, number \in [Nodes -> Nat], UNCHANGED <<requests, number>>
  PROVE  RequestsTyped'
  BY DEF RequestsTyped, RequestTyped

\* The requests of one node are others, each of its type, and the others' numbers only grow.
LEMMA RequestsReplaced ==
  ASSUME RequestsTyped, number \in [Nodes -> Nat], number' \in [Nodes -> Nat],
         NEW n \in Nodes, \A other \in Nodes \ {n} : number[other] <= number'[other], NEW f, f = [id \in DOMAIN f |-> f[id]],
         \A id \in DOMAIN f : /\ id \in 1 .. number'[n]
                              /\ f[id] \in [to : Nodes \ {n}, resends : 0 .. MaximumResends],
         requests' = [requests EXCEPT ![n] = f]
  PROVE  RequestsTyped'
<1>1. DOMAIN requests = Nodes
  BY DEF RequestsTyped
<1>2. requests' = [other \in Nodes |-> IF other = n THEN f ELSE requests[other]]
  BY <1>1
<1>3. \A other \in Nodes : requests'[other] = IF other = n THEN f ELSE requests[other]
  BY <1>2
<1>4. requests' = [other \in Nodes |-> [id \in DOMAIN requests'[other] |-> requests'[other][id]]]
  <2>1. \A other \in Nodes :
            requests'[other] = [id \in DOMAIN requests'[other] |-> requests'[other][id]]
    <3> TAKE other \in Nodes
    <3>1. requests[other] = [id \in DOMAIN requests[other] |-> requests[other][id]]
      BY DEF RequestsTyped
    <3>2. CASE other = n
      BY <1>3, <3>2
    <3>3. CASE other # n
      BY <1>3, <3>1, <3>3
    <3> QED BY <3>2, <3>3
  <2> QED BY <1>2, <2>1
<1>5. ASSUME NEW other \in Nodes, NEW id \in DOMAIN requests'[other]
      PROVE  RequestTyped(other, id)'
  <2>1. CASE other = n
    BY <1>3, <1>5, <2>1 DEF RequestTyped
  <2>2. CASE other # n
    <3>1. id \in DOMAIN requests[other] /\ requests'[other][id] = requests[other][id]
      BY <1>3, <1>5, <2>2
    <3>2. id \in 1 .. number[other] /\ number[other] \in Nat /\ number'[other] \in Nat
      BY <3>1 DEF RequestsTyped, RequestTyped
    <3> QED BY <3>1, <3>2 DEF RequestsTyped, RequestTyped
  <2> QED BY <2>1, <2>2
<1> QED BY <1>4, <1>5 DEF RequestsTyped

\* The requests of a node to some of its contacts.
LEMMA FirstRequestsTyped ==
  ASSUME NetworkTyped, NEW n \in Nodes, NEW k \in 0 .. Len(Contacts[n]),
         network' = network \cup FirstRequests(n, k)
  PROVE  NetworkTyped'
<1> DEFINE out == {IsActive(n, Contacts[n][i], i) : i \in 1 .. k}
<1>1. Contacts[n] \in Seq(Nodes) /\ Len(Contacts[n]) \in Nat
  BY ChordStabilizationAssumption
<1>2. \A i \in 1 .. k : i \in 1 .. Len(Contacts[n]) /\ Contacts[n][i] \in Nodes
  BY <1>1
<1>3. \A m \in out : DatagramTyped(m)
  BY <1>2 DEF DatagramTyped, IsActive
<1>4. network' \subseteq network \cup Reach(out)
  BY DEF FirstRequests
<1> HIDE DEF out
<1> QED BY <1>3, <1>4, NetworkGrows

\* What the thread of a node does to the tables, requests and datagrams.
LEMMA TypeStep ==
  ASSUME TypeOK, NEW n \in Nodes, startNodeIsActiveRequests(n) \/ Handles(n) \/ Frees(n)
  PROVE  TypeOK'
<1> USE ChordStabilizationAssumption
<1>0. TablesTyped /\ RequestsTyped /\ NetworkTyped
  BY TypeParts
<1> SUFFICES TablesTyped' /\ RequestsTyped' /\ NetworkTyped'
  BY TypeParts DEF TypeOK, TablesTyped, RequestsTyped, RequestTyped, NetworkTyped, DatagramTyped
<1>1. ASSUME startNodeIsActiveRequests(n)
      PROVE  TablesTyped' /\ RequestsTyped' /\ NetworkTyped'
  <2> DEFINE contacts == Contacts[n]
             f == [i \in DOMAIN contacts |-> [to |-> contacts[i], resends |-> 0]]
  <2>1. /\ contacts \in Seq(Nodes) /\ Len(contacts) \in Nat /\ DOMAIN contacts = 1 .. Len(contacts)
        /\ \A i \in DOMAIN contacts : contacts[i] \in Nodes \ {n}
    OBVIOUS
  <2>2. TablesTyped'
    BY <1>0, <1>1, <2>1 DEF TablesTyped, startNodeIsActiveRequests
  <2>3. RequestsTyped'
    <3>1. /\ number \in [Nodes -> Nat] /\ number' = [number EXCEPT ![n] = Len(contacts)]
          /\ requests' = [requests EXCEPT ![n] = f]
      BY <1>0, <1>1 DEF TablesTyped, startNodeIsActiveRequests
    <3>2. /\ number' \in [Nodes -> Nat] /\ number'[n] = Len(contacts)
          /\ \A other \in Nodes \ {n} : number[other] <= number'[other]
      BY <2>1, <3>1
    <3>3. /\ f = [id \in DOMAIN f |-> f[id]] /\ DOMAIN f = 1 .. Len(contacts)
          /\ \A id \in DOMAIN f : f[id] \in [to : Nodes \ {n}, resends : 0 .. MaximumResends]
      BY <2>1
    <3> HIDE DEF f, contacts
    <3> QED BY <1>0, <3>1, <3>2, <3>3, RequestsReplaced
  <2>4. NetworkTyped'
    <3>1. Len(contacts) \in 0 .. Len(contacts)
      BY <2>1
    <3>2. network' = network \cup FirstRequests(n, Len(contacts))
      BY <1>1 DEF startNodeIsActiveRequests
    <3> QED BY <1>0, <3>1, <3>2, FirstRequestsTyped
  <2> QED BY <2>2, <2>3, <2>4
<1>2. ASSUME resendNodeIsActiveRequestIfTimedOut(n)
      PROVE  TablesTyped' /\ RequestsTyped' /\ NetworkTyped'
  <2> DEFINE next == number[n] + 1
             kept(id) == [i \in DOMAIN requests[n] \ {id} |-> requests[n][i]]
             again(id) == [i \in (DOMAIN requests[n] \ {id}) \cup {next} |->
                              IF i = next THEN [to |-> requests[n][id].to,
                                                resends |-> requests[n][id].resends + 1]
                                          ELSE requests[n][i]]
  <2>0. /\ number \in [Nodes -> Nat] /\ DOMAIN requests = Nodes
        /\ \A i \in DOMAIN requests[n] : RequestTyped(n, i)
    BY <1>0 DEF TablesTyped, RequestsTyped
  <2>1. PICK id \in DOMAIN requests[n] :
           \/ /\ requests' = [requests EXCEPT ![n] = kept(id)]
              /\ UNCHANGED <<number, network>>
           \/ /\ requests[n][id].resends < MaximumResends
              /\ requests' = [requests EXCEPT ![n] = again(id)]
              /\ number' = [number EXCEPT ![n] = next]
              /\ network' = network \cup Reach({IsActive(n, requests[n][id].to, next)})
    BY <1>2, <2>0 DEF resendNodeIsActiveRequestIfTimedOut
  <2>2. TablesTyped'
    <3>1. UNCHANGED <<thread, best>>
      BY <1>2 DEF resendNodeIsActiveRequestIfTimedOut
    <3>2. number[n] \in Nat /\ next \in Nat
      BY <2>0
    <3>3. number' \in {number, [number EXCEPT ![n] = next]}
      BY <2>1
    <3> HIDE DEF next
    <3>4. number' \in [Nodes -> Nat]
      BY <2>0, <3>2, <3>3
    <3> QED BY <1>0, <3>1, <3>4 DEF TablesTyped
  <2>3. CASE requests' = [requests EXCEPT ![n] = kept(id)] /\ UNCHANGED <<number, network>>
    <3>1. /\ kept(id) = [i \in DOMAIN kept(id) |-> kept(id)[i]]
          /\ \A i \in DOMAIN kept(id) :
                /\ i \in 1 .. number'[n]
                /\ kept(id)[i] \in [to : Nodes \ {n}, resends : 0 .. MaximumResends]
      BY <2>0, <2>3 DEF RequestTyped
    <3>2. \A other \in Nodes \ {n} : number[other] <= number'[other]
      BY <2>0, <2>3
    <3>3. RequestsTyped'
      <4> HIDE DEF kept
      <4> QED BY <1>0, <2>0, <2>3, <3>1, <3>2, RequestsReplaced
    <3> QED BY <1>0, <2>2, <2>3, <3>3 DEF NetworkTyped, DatagramTyped
  <2>4. CASE /\ requests[n][id].resends < MaximumResends
             /\ requests' = [requests EXCEPT ![n] = again(id)]
             /\ number' = [number EXCEPT ![n] = next]
             /\ network' = network \cup Reach({IsActive(n, requests[n][id].to, next)})
    <3>1. /\ next \in Nat \ {0} /\ number[n] <= next /\ number' \in [Nodes -> Nat]
          /\ number'[n] = next
          /\ \A other \in Nodes \ {n} : number[other] <= number'[other]
      BY <2>0, <2>4
    <3>2. requests[n][id] \in [to : Nodes \ {n}, resends : 0 .. MaximumResends]
      BY <2>0, <2>1 DEF RequestTyped
    <3>3. again(id) = [i \in DOMAIN again(id) |-> again(id)[i]]
      OBVIOUS
    <3>4. ASSUME NEW i \in DOMAIN again(id)
          PROVE  /\ i \in 1 .. number'[n]
                 /\ again(id)[i] \in [to : Nodes \ {n}, resends : 0 .. MaximumResends]
      <4>1. CASE i = next
        <5>1. again(id)[i] = [to |-> requests[n][id].to, resends |-> requests[n][id].resends + 1]
          BY <4>1
        <5>2. /\ requests[n][id].to \in Nodes \ {n}
              /\ requests[n][id].resends \in Nat
              /\ requests[n][id].resends < MaximumResends
          BY <2>4, <3>2
        <5>3. requests[n][id].resends + 1 \in 0 .. MaximumResends
          BY <5>2, ChordStabilizationAssumption
        <5>4. i \in 1 .. number'[n]
          <6> HIDE DEF next
          <6> QED BY <3>1, <4>1
        <5> HIDE DEF again
        <5> QED BY <5>1, <5>2, <5>3, <5>4
      <4>2. CASE i # next
        <5>1. i \in DOMAIN requests[n] /\ again(id)[i] = requests[n][i]
          BY <4>2
        <5>2. RequestTyped(n, i)
          BY <2>0, <5>1
        <5>3. /\ i \in 1 .. number[n]
              /\ requests[n][i] \in [to : Nodes \ {n}, resends : 0 .. MaximumResends]
          BY <5>2 DEF RequestTyped
        <5>4. number[n] \in Nat
          BY <2>0
        <5>5. i \in 1 .. next
          BY <5>3, <5>4
        <5> HIDE DEF next, again
        <5> QED BY <3>1, <5>1, <5>3, <5>5
      <4> QED BY <4>1, <4>2
    <3>5. RequestsTyped'
      <4> HIDE DEF again, next
      <4> QED BY <1>0, <2>0, <2>4, <3>1, <3>3, <3>4, RequestsReplaced
    <3>6. DatagramTyped(IsActive(n, requests[n][id].to, next))
      BY <3>2 DEF DatagramTyped, IsActive
    <3>7. NetworkTyped'
      <4> DEFINE out == {IsActive(n, requests[n][id].to, next)}
      <4>1. (\A m \in out : DatagramTyped(m)) /\ network' \subseteq network \cup Reach(out)
        BY <2>4, <3>6
      <4> HIDE DEF out
      <4> QED BY <1>0, <4>1, NetworkGrows
    <3> QED BY <2>2, <3>5, <3>7
  <2> QED BY <2>1, <2>3, <2>4
<1>3. ASSUME processStabilizationRequestTimeout(n)
      PROVE  TablesTyped' /\ RequestsTyped' /\ NetworkTyped'
  <2>1. DatagramTyped(Stabilize(n, best[n][Successor]))
    BY <1>0, <1>3 DEF TablesTyped, DatagramTyped, Stabilize, Slots
  <2>2. NetworkTyped'
    <3> DEFINE out == {Stabilize(n, best[n][Successor])}
    <3>1. (\A m \in out : DatagramTyped(m)) /\ network' \subseteq network \cup Reach(out)
      BY <1>3, <2>1 DEF processStabilizationRequestTimeout
    <3> HIDE DEF out
    <3> QED BY <1>0, <3>1, NetworkGrows
  <2> QED BY <1>0, <1>3, <2>2, RequestsKept DEF TablesTyped, processStabilizationRequestTimeout
<1>4. ASSUME Frees(n)
      PROVE  TablesTyped' /\ RequestsTyped' /\ NetworkTyped'
  <2>1. NetworkTyped'
    BY <1>0, <1>4 DEF NetworkTyped, DatagramTyped, Frees
  <2>2. RequestsTyped'
    <3>1. << >> = [id \in DOMAIN << >> |-> << >>[id]] /\ DOMAIN << >> = {}
      OBVIOUS
    <3>2. /\ number \in [Nodes -> Nat] /\ number' \in [Nodes -> Nat]
          /\ \A other \in Nodes \ {n} : number[other] <= number'[other]
      BY <1>0, <1>4 DEF Frees, TablesTyped
    <3>3. requests' = [requests EXCEPT ![n] = << >>]
      BY <1>4 DEF Frees
    <3> QED BY <1>0, <3>1, <3>2, <3>3, RequestsReplaced
  <2> QED BY <1>0, <1>4, <2>1, <2>2 DEF TablesTyped, Frees
<1>5. ASSUME NEW m \in network, m.to = n, processNodeIsActiveRequest(m)
      PROVE  TablesTyped' /\ RequestsTyped' /\ NetworkTyped'
  <2>1. m.to \in Nodes /\ m.from \in Nodes
    BY <1>0 DEF NetworkTyped, DatagramTyped
  <2>2. DatagramTyped(Active(m.to, m.from, m.id))
    BY <2>1 DEF DatagramTyped, Active
  <2>3. NetworkTyped'
    BY <1>0, <1>5, <2>2, NetworkGrows DEF processNodeIsActiveRequest
  <2> QED BY <1>0, <1>5, <2>1, <2>3, CheckTyped, RequestsKept
          DEF TablesTyped, processNodeIsActiveRequest
<1>6. ASSUME NEW m \in network, m.to = n, processNodeIsActiveRequestReply(m)
      PROVE  TablesTyped' /\ RequestsTyped' /\ NetworkTyped'
  <2> DEFINE f == [i \in DOMAIN requests[n] \ {m.id} |-> requests[n][i]]
  <2>1. n \in Nodes /\ m.from \in Nodes
    BY <1>0 DEF NetworkTyped, DatagramTyped
  <2>2. NetworkTyped'
    BY <1>0, <1>6 DEF NetworkTyped, DatagramTyped, processNodeIsActiveRequestReply
  <2>3. TablesTyped'
    <3>1. /\ best' = checkAndUpdateIfBetter(n, m.from) \/ best' = best
          /\ UNCHANGED <<thread, number>>
      BY <1>6 DEF processNodeIsActiveRequestReply
    <3>2. best' \in [Nodes -> [Slots -> Nodes]]
      <4>1. best \in [Nodes -> [Slots -> Nodes]]
        BY <1>0 DEF TablesTyped
      <4>2. checkAndUpdateIfBetter(n, m.from) \in [Nodes -> [Slots -> Nodes]]
        BY <2>1, <4>1, CheckTyped
      <4> QED BY <3>1, <4>1, <4>2
    <3> QED BY <1>0, <3>1, <3>2 DEF TablesTyped
  <2>4. /\ number' = number /\ number \in [Nodes -> Nat] /\ DOMAIN requests = Nodes
        /\ \A i \in DOMAIN requests[n] : RequestTyped(n, i)
    BY <1>0, <1>6, <2>1 DEF TablesTyped, RequestsTyped, processNodeIsActiveRequestReply
  <2>5. CASE UNCHANGED requests
    BY <1>0, <2>2, <2>3, <2>4, <2>5, RequestsKept
  <2>6. CASE requests' = [requests EXCEPT ![n] = f]
    <3>1. /\ f = [id \in DOMAIN f |-> f[id]]
          /\ \A id \in DOMAIN f : /\ id \in 1 .. number'[n]
                                 /\ f[id] \in [to : Nodes \ {n}, resends : 0 .. MaximumResends]
      BY <2>4 DEF RequestTyped
    <3>2. \A other \in Nodes \ {n} : number[other] <= number'[other]
      BY <2>4
    <3> HIDE DEF f
    <3>3. RequestsTyped'
      BY <1>0, <2>1, <2>4, <2>6, <3>1, <3>2, RequestsReplaced
    <3> QED BY <2>2, <2>3, <3>3
  <2> QED BY <1>6, <2>4, <2>5, <2>6 DEF processNodeIsActiveRequestReply
<1>7. ASSUME NEW m \in network, NEW lost \in BOOLEAN, processStabilizationRequest(m, lost)
      PROVE  TablesTyped' /\ RequestsTyped' /\ NetworkTyped'
  <2>1. m.to \in Nodes /\ m.from \in Nodes
    BY <1>0 DEF NetworkTyped, DatagramTyped
  <2>2. TablesTyped'
    BY <1>0, <1>7, <2>1, CheckTyped DEF TablesTyped, processStabilizationRequest
  <2>3. DatagramTyped(Stabilized(m.to, m.from, best'[m.to][Predecessor]))
    <3>1. best'[m.to][Predecessor] \in Nodes
      <4>1. best' \in [Nodes -> [Slots -> Nodes]] /\ Predecessor \in Slots
        BY <2>2 DEF TablesTyped, Slots
      <4> QED BY <2>1, <4>1
    <3> QED BY <2>1, <3>1 DEF DatagramTyped, Stabilized
  <2>4. NetworkTyped'
    BY <1>0, <1>7, <2>3, NetworkGrows DEF processStabilizationRequest
  <2> QED BY <1>0, <1>7, <2>2, <2>4, RequestsKept DEF TablesTyped, processStabilizationRequest
<1>8. ASSUME NEW m \in network, processStabilizationRequestReply(m)
      PROVE  TablesTyped' /\ RequestsTyped' /\ NetworkTyped'
  <2>1. m.to \in Nodes /\ m.predecessor \in Nodes
    BY <1>0, <1>8 DEF NetworkTyped, DatagramTyped, processStabilizationRequestReply, Reads
  <2>2. TablesTyped'
    BY <1>0, <1>8, <2>1, CheckTyped DEF TablesTyped, processStabilizationRequestReply
  <2>3. NetworkTyped'
    BY <1>0, <1>8 DEF NetworkTyped, DatagramTyped, processStabilizationRequestReply
  <2> QED BY <1>0, <1>8, <2>2, <2>3, RequestsKept
          DEF TablesTyped, processStabilizationRequestReply
<1> QED BY <1>1, <1>2, <1>3, <1>4, <1>5, <1>6, <1>7, <1>8 DEF Handles

LEMMA TypesUnchanged == TypeOK /\ UNCHANGED vars => TypeOK'
  BY DEF TypeOK, vars

\* Every variable has its type, and no datagram comes from, goes to or names anything but
\* a node, for any ring, contacts and bounds (the handlers of chordNodeResources).
THEOREM TypeCorrect == Spec => []TypeOK
<1>1. Init => TypeOK
  BY ChordStabilizationAssumption DEF Init, TypeOK
<1>2. TypeOK /\ [Next]_vars => TypeOK'
  BY TypeStep, TypesUnchanged DEF Next, Ends
<1> QED BY <1>1, <1>2, PTL DEF Spec

-----------------------------------------------------------------------------
(***************************************************************************)
(* The ring                                                                *)
(***************************************************************************)

\* No thread changes a table of a ring of two nodes or more.
LEMMA RingUnchanged ==
  ASSUME TypeOK, RingFormed, NEW n \in Nodes, Handles(n),
         NEW a \in Nodes, NEW c \in Nodes \ {a}
  PROVE  best' = best
<1> USE DEF TypeOK
<1>1. ASSUME NEW id \in Nodes PROVE checkAndUpdateIfBetter(n, id) = best
  <2>1. PICK other \in Nodes \ {n} : TRUE
    OBVIOUS
  <2> QED BY <2>1, NothingIsBetter
<1>2. ASSUME resendNodeIsActiveRequestIfTimedOut(n) \/ processStabilizationRequestTimeout(n)
      PROVE  best' = best
  BY <1>2 DEF resendNodeIsActiveRequestIfTimedOut, processStabilizationRequestTimeout
<1>3. ASSUME NEW m \in network, m.to = n, processNodeIsActiveRequest(m) PROVE best' = best
  BY <1>1, <1>3 DEF processNodeIsActiveRequest
<1>4. ASSUME NEW m \in network, m.to = n, processNodeIsActiveRequestReply(m) PROVE best' = best
  BY <1>1, <1>4 DEF processNodeIsActiveRequestReply
<1>5. ASSUME NEW m \in network, m.to = n, NEW lost \in BOOLEAN, processStabilizationRequest(m, lost)
      PROVE  best' = best
  BY <1>1, <1>5 DEF processStabilizationRequest
<1>6. ASSUME NEW m \in network, m.to = n, processStabilizationRequestReply(m) PROVE best' = best
  BY <1>1, <1>6 DEF processStabilizationRequestReply, Reads
<1> QED BY <1>2, <1>3, <1>4, <1>5, <1>6 DEF Handles

\* A step of which only the handlers of a thread may change a table keeps a formed ring.
LEMMA RingKept ==
  ASSUME TypeOK, RingFormed,
         \/ best' = best
         \/ \E n \in Nodes : Handles(n)
         \/ \E n \in Nodes, id \in Nodes : best' = checkAndUpdateIfBetter(n, id)
  PROVE  RingFormed'
<1> SUFFICES ASSUME NEW n \in Nodes, NEW other \in Nodes \ {n}
             PROVE  /\ Behind(best'[n][Successor], n) \in 1 .. Behind(other, n)
                    /\ Behind(n, best'[n][Predecessor]) \in 1 .. Behind(n, other)
  BY DEF RingFormed, FormedAmong, Behind
<1>1. best' = best
  <2>1. ASSUME NEW m \in Nodes, NEW id \in Nodes PROVE checkAndUpdateIfBetter(m, id) = best
    <3>1. PICK c \in Nodes \ {m} : TRUE
      OBVIOUS
    <3> QED BY <3>1, NothingIsBetter DEF TypeOK
  <2> QED BY <2>1, RingUnchanged
<1> QED BY <1>1 DEF RingFormed, FormedAmong

\* However many nodes there are, whatever is still under way when the ring has formed, and
\* whoever's thread ends: every node keeps its neighbours (processStabilizationRequest and
\* the handlers that call checkAndUpdateIfBetter).
THEOREM FormedRingStays == Spec => RingStays
<1>1. [Next]_vars => best' = best \/ \E n \in Nodes : Handles(n)
  BY DEF Next, vars, startNodeIsActiveRequests, Ends, Frees
<1>2. TypeOK /\ [Next]_vars => [RingFormed => RingFormed']_vars
  BY <1>1, RingKept
<1> QED BY <1>2, TypeCorrect, PTL DEF Spec, RingStays

-----------------------------------------------------------------------------
(***************************************************************************)
(* The manager of these nodes                                              *)
(*                                                                         *)
(* What makes counting safe is that a call returns only when every node    *)
(* has answered it, so the next one starts with nothing under way.         *)
(***************************************************************************)

\* A created node has done with the call the manager is in.
Done(n) ==
  /\ signals[n] = << >> /\ acks[n] = << >>
  /\ call = "pause" => thread[n] = "paused"

\* In a call each node has its signal to read, or its acknowledgement under way, or neither.
OneOfEach ==
  \A n \in Nodes :
    /\ signals[n] \in {<< >>, <<call>>}
    /\ acks[n] \in {<< >>, <<call>>}
    /\ signals[n] = << >> \/ acks[n] = << >>
    /\ acks[n] # << >> /\ call = "pause" => thread[n] = "paused"

ManagerTyped ==
  /\ thread \in [Nodes -> {"none", "running", "paused", "stuck", "ended"}]
  /\ signals \in [Nodes -> Seq({"pause", "resume"})]
  /\ acks \in [Nodes -> Seq({"pause", "resume"})]
  /\ created \subseteq Nodes /\ IsFiniteSet(created)
  /\ hears \subseteq created /\ snapshot \subseteq created
  /\ received \in Nat

ManagerInv ==
  /\ ManagerTyped
  /\ \A n \in Nodes \ created : signals[n] = << >> /\ acks[n] = << >>
  /\ call \in {"pause", "resume"} =>
        /\ OneOfEach
        /\ received <= Cardinality({n \in created : Done(n)})
        /\ snapshot = {}
  /\ call \notin {"pause", "resume"} =>
        /\ \A n \in Nodes : signals[n] = << >> /\ acks[n] = << >>
        /\ \A n \in snapshot : thread[n] = "paused"

LEMMA ManagerInitially == ManagerInit => ManagerInv
<1> SUFFICES ASSUME ManagerInit PROVE ManagerInv
  OBVIOUS
<1>1. /\ call = "none" /\ received = 0 /\ created = {} /\ hears = {} /\ snapshot = {}
      /\ thread = [n \in Nodes |-> "none"]
      /\ signals = [n \in Nodes |-> << >>] /\ acks = [n \in Nodes |-> << >>]
  BY DEF ManagerInit, Init
<1>2. ManagerTyped
  BY <1>1, FS_EmptySet DEF ManagerTyped
<1> QED BY <1>1, <1>2 DEF ManagerInv

\* Parts of a finite set.
LEMMA Counted ==
  ASSUME NEW C, IsFiniteSet(C), NEW S \in SUBSET C
  PROVE  /\ IsFiniteSet(S) /\ Cardinality(S) \in Nat /\ Cardinality(C) \in Nat
         /\ Cardinality(S) <= Cardinality(C)
         /\ Cardinality(S) = Cardinality(C) => S = C
  BY FS_Subset, FS_CardinalityType

\* A node is created between calls, and paused nodes stay as they are.
LEMMA CreateStep ==
  ASSUME ManagerInv, NEW n \in Nodes, createChordNode(n)
  PROVE  ManagerInv'
<1>1. /\ call = "none" /\ call' \in {"none", "create"}
      /\ created' \in {created, created \cup {n}}
      /\ \E status \in {"running", "ended", "stuck"} : thread' = [thread EXCEPT ![n] = status]
      /\ thread[n] = "none"
      /\ UNCHANGED <<received, snapshot, hears, signals, acks>>
  BY DEF createChordNode, startNodeIsActiveRequests, socketVars
<1>2. /\ signals \in [Nodes -> Seq({"pause", "resume"})]
      /\ \A other \in Nodes : signals[other] = << >> /\ acks[other] = << >>
      /\ \A other \in snapshot : thread[other] = "paused"
      /\ thread \in [Nodes -> {"none", "running", "paused", "stuck", "ended"}]
      /\ snapshot \subseteq Nodes
  BY <1>1 DEF ManagerInv, ManagerTyped
<1>3. thread' \in [Nodes -> {"none", "running", "paused", "stuck", "ended"}]
  BY <1>1, <1>2
<1>4. ManagerTyped'
  <2>1. IsFiniteSet(created') /\ created' \subseteq Nodes /\ created \subseteq created'
    BY <1>1, FS_AddElement DEF ManagerInv, ManagerTyped
  <2> QED BY <1>1, <1>3, <2>1 DEF ManagerInv, ManagerTyped
<1>5. \A other \in snapshot' : thread'[other] = "paused"
  BY <1>1, <1>2
<1> QED BY <1>1, <1>2, <1>4, <1>5 DEF ManagerInv

\* A call starts with nothing under way but the signals it sends.
LEMMA CallStep ==
  ASSUME ManagerInv, NEW signal \in {"pause", "resume"}, pauseOrResumeNodes(signal)
  PROVE  ManagerInv'
<1>1. /\ call = "none" /\ call' = signal /\ received' = 0 /\ snapshot' = {}
      /\ signals' = [n \in Nodes |-> IF n \in hears /\ thread[n] # "ended"
                                     THEN Append(signals[n], signal) ELSE signals[n]]
      /\ UNCHANGED <<created, thread, hears, acks>>
  BY DEF pauseOrResumeNodes, vars
<1>2. /\ \A n \in Nodes : signals[n] = << >> /\ acks[n] = << >>
      /\ hears \subseteq created
  BY <1>1 DEF ManagerInv, ManagerTyped
<1>3. \A n \in Nodes : /\ signals'[n] \in {<< >>, <<signal>>} /\ acks'[n] = << >>
                       /\ n \notin created => signals'[n] = << >>
  <2>1. Append(<< >>, signal) = <<signal>>
    OBVIOUS
  <2> QED BY <1>1, <1>2, <2>1
<1>4. ManagerTyped'
  <2>1. \A n \in Nodes : signals'[n] \in Seq({"pause", "resume"})
    <3>1. << >> \in Seq({"pause", "resume"}) /\ <<signal>> \in Seq({"pause", "resume"})
      OBVIOUS
    <3> QED BY <1>3, <3>1
  <2>2. signals' \in [Nodes -> Seq({"pause", "resume"})]
    BY <1>1, <2>1
  <2> QED BY <1>1, <2>2 DEF ManagerInv, ManagerTyped
<1>5. 0 <= Cardinality({n \in created' : Done(n)'})
  <2>1. IsFiniteSet(created') /\ {n \in created' : Done(n)'} \in SUBSET created'
    BY <1>4 DEF ManagerTyped
  <2>2. Cardinality({n \in created' : Done(n)'}) \in Nat
    BY <2>1, Counted
  <2> QED BY <2>2
<1>6. OneOfEach'
  BY <1>1, <1>3 DEF OneOfEach
<1>7. \A n \in Nodes \ created' : signals'[n] = << >> /\ acks'[n] = << >>
  BY <1>1, <1>3
<1> QED BY <1>1, <1>4, <1>5, <1>6, <1>7 DEF ManagerInv

\* Where the nodes that are done stay done, the count of those that have answered holds.
LEMMA DoneStays ==
  ASSUME ManagerInv, call \in {"pause", "resume"}, created' = created, received' = received,
         \A n \in created : Done(n) => Done(n)'
  PROVE  received' <= Cardinality({n \in created' : Done(n)'})
<1> DEFINE before == {n \in created : Done(n)}
           after  == {n \in created' : Done(n)'}
<1>1. before \subseteq after /\ after \subseteq created /\ IsFiniteSet(created)
  BY DEF ManagerInv, ManagerTyped
<1> HIDE DEF before, after
<1>2. IsFiniteSet(after) /\ before \in SUBSET after
  BY <1>1, FS_Subset
<1>3. /\ Cardinality(before) <= Cardinality(after)
      /\ Cardinality(before) \in Nat /\ Cardinality(after) \in Nat
  BY <1>2, Counted
<1>4. received <= Cardinality(before) /\ received \in Nat
  BY DEF before, ManagerInv, ManagerTyped
<1> QED BY <1>3, <1>4 DEF after

\* An acknowledgement that is read is that of the call, and its node is done.
LEMMA ReceiveStep ==
  ASSUME ManagerInv, NEW n \in Nodes, Receives(n)
  PROVE  ManagerInv'
<1>1. /\ call \in {"pause", "resume"} /\ acks[n] # << >>
      /\ acks' = [acks EXCEPT ![n] = Tail(@)]
      /\ received' = IF Head(acks[n]) = call THEN received + 1 ELSE received
      /\ UNCHANGED <<call, snapshot, created, thread, hears, signals>>
  BY DEF Receives, vars
<1>2. ManagerTyped /\ OneOfEach /\ received <= Cardinality({m \in created : Done(m)})
      /\ snapshot = {} /\ \A m \in Nodes \ created : signals[m] = << >> /\ acks[m] = << >>
  BY <1>1 DEF ManagerInv
<1>3. acks[n] = <<call>> /\ signals[n] = << >> /\ (call = "pause" => thread[n] = "paused") /\ n \in created
  BY <1>1, <1>2 DEF OneOfEach
<1>4. /\ Head(acks[n]) = call /\ Tail(acks[n]) = << >>
      /\ acks \in [Nodes -> Seq({"pause", "resume"})]
  BY <1>2, <1>3 DEF ManagerTyped
<1>5. received' = received + 1 /\ acks' = [acks EXCEPT ![n] = << >>] /\ received \in Nat
  BY <1>1, <1>2, <1>4 DEF ManagerTyped
<1>6. ManagerTyped'
  <2>1. acks' \in [Nodes -> Seq({"pause", "resume"})]
    BY <1>4, <1>5
  <2> QED BY <1>1, <1>2, <1>5, <2>1 DEF ManagerTyped
<1>7. OneOfEach'
  BY <1>1, <1>2, <1>4, <1>5 DEF OneOfEach
<1>8. received' <= Cardinality({m \in created' : Done(m)'})
  <2> DEFINE before == {m \in created : Done(m)}
             after  == {m \in created' : Done(m)'}
  <2>1. n \notin before /\ n \in after
    BY <1>1, <1>3, <1>4, <1>5 DEF Done
  <2>2. before \cup {n} \in SUBSET after /\ after \subseteq created /\ before \subseteq created
    BY <1>1, <1>3, <1>4, <1>5 DEF Done
  <2>3. IsFiniteSet(created) /\ received <= Cardinality(before)
    BY <1>2 DEF ManagerTyped
  <2> HIDE DEF before, after
  <2>4. IsFiniteSet(after) /\ IsFiniteSet(before)
    BY <2>2, <2>3, FS_Subset
  <2>5. /\ Cardinality(before \cup {n}) = Cardinality(before) + 1
        /\ Cardinality(before \cup {n}) <= Cardinality(after)
        /\ Cardinality(before) \in Nat /\ Cardinality(after) \in Nat
    BY <2>1, <2>2, <2>4, FS_AddElement, FS_CardinalityType, Counted
  <2> QED BY <1>5, <2>3, <2>5 DEF after
<1>9. \A m \in Nodes \ created' : signals'[m] = << >> /\ acks'[m] = << >>
  BY <1>1, <1>2, <1>4, <1>5
<1> QED BY <1>1, <1>2, <1>6, <1>7, <1>8, <1>9 DEF ManagerInv

\* As many answers as there are nodes: all are done.
LEMMA ReturnStep ==
  ASSUME ManagerInv, Returns
  PROVE  ManagerInv'
<1>1. /\ call \in {"pause", "resume"} /\ received >= Cardinality(created) /\ call' = "none"
      /\ snapshot' = IF call = "pause" THEN created ELSE {}
      /\ UNCHANGED <<received, created, thread, hears, signals, acks>>
  BY DEF Returns, vars, socketVars
<1> DEFINE done == {n \in created : Done(n)}
<1>2. /\ received <= Cardinality(done) /\ received \in Nat /\ IsFiniteSet(created)
      /\ \A n \in Nodes \ created : signals[n] = << >> /\ acks[n] = << >>
      /\ done \in SUBSET created
  BY <1>1 DEF ManagerInv, ManagerTyped
<1>3. done = created
  <2> HIDE DEF done
  <2>1. /\ Cardinality(done) \in Nat /\ Cardinality(created) \in Nat
        /\ Cardinality(done) <= Cardinality(created)
        /\ Cardinality(done) = Cardinality(created) => done = created
    BY <1>2, Counted
  <2>2. Cardinality(done) = Cardinality(created)
    BY <1>1, <1>2, <2>1
  <2> QED BY <2>1, <2>2
<1>4. /\ \A n \in Nodes : signals[n] = << >> /\ acks[n] = << >>
      /\ call = "pause" => \A n \in created : thread[n] = "paused"
  BY <1>2, <1>3 DEF Done
<1>5. ManagerTyped'
  BY <1>1 DEF ManagerInv, ManagerTyped
<1> QED BY <1>1, <1>4, <1>5 DEF ManagerInv

\* Destruction begins, goes on and ends with nothing under way.
LEMMA DestroySteps ==
  ASSUME ManagerInv, Destroys \/ Destroyed \/ \E n \in Nodes : DestroysNode(n)
  PROVE  ManagerInv'
<1>1. /\ call \notin {"pause", "resume"} /\ call' \notin {"pause", "resume"}
      /\ snapshot' \in {{}, snapshot}
      /\ UNCHANGED <<received, created, thread, hears, signals, acks>>
  BY DEF Destroys, Destroyed, DestroysNode, vars, socketVars, managerVars
<1>2. ManagerTyped'
  BY <1>1 DEF ManagerInv, ManagerTyped
<1> QED BY <1>1, <1>2 DEF ManagerInv

\* A subscription only widens whom the next signal reaches.
LEMMA SubscribeStep ==
  ASSUME ManagerInv, NEW n \in Nodes, Subscribes(n)
  PROVE  ManagerInv'
<1>1. /\ n \in created /\ hears' \in {hears, hears \cup {n}}
      /\ UNCHANGED <<call, received, snapshot, created, thread, signals, acks>>
  BY DEF Subscribes, vars, managerVars
<1>2. ManagerTyped'
  BY <1>1 DEF ManagerInv, ManagerTyped
<1>3. call \in {"pause", "resume"} => received' <= Cardinality({m \in created' : Done(m)'})
  BY <1>1, DoneStays DEF Done
<1>4. OneOfEach => OneOfEach'
  BY <1>1 DEF OneOfEach
<1> QED BY <1>1, <1>2, <1>3, <1>4 DEF ManagerInv

\* A node reads its signal, which is that of the call, and answers it at most.
LEMMA SignalStep ==
  ASSUME ManagerInv, NEW n \in Nodes, processPauseResumeSignals(n)
  PROVE  ManagerInv'
<1>1. /\ signals[n] # << >> /\ signals' = [signals EXCEPT ![n] = Tail(@)]
      /\ UNCHANGED <<call, received, snapshot, created, hears>>
  BY DEF processPauseResumeSignals, managerVars
<1>2. call \in {"pause", "resume"}
  BY <1>1 DEF ManagerInv
<1>3. /\ ManagerTyped /\ OneOfEach /\ snapshot = {}
      /\ \A m \in Nodes \ created : signals[m] = << >> /\ acks[m] = << >>
  BY <1>2 DEF ManagerInv
<1>4. signals[n] = <<call>> /\ acks[n] = << >> /\ n \in created
  BY <1>1, <1>3 DEF OneOfEach
<1>5. /\ signals \in [Nodes -> Seq({"pause", "resume"})]
      /\ acks \in [Nodes -> Seq({"pause", "resume"})]
      /\ thread \in [Nodes -> {"none", "running", "paused", "stuck", "ended"}]
  BY <1>3 DEF ManagerTyped
<1>6. Head(signals[n]) = call /\ Tail(signals[n]) = << >> /\ Append(acks[n], call) = <<call>>
  BY <1>4
<1>7. signals' = [signals EXCEPT ![n] = << >>]
  BY <1>1, <1>6
<1>8. /\ acks' \in {acks, [acks EXCEPT ![n] = <<call>>]}
      /\ \/ call = "pause" /\ thread' = [thread EXCEPT ![n] = "paused"]
         \/ call = "resume" /\ thread' = [thread EXCEPT ![n] = "running"]
         \/ call = "pause" /\ thread[n] = "paused" /\ UNCHANGED <<thread, acks>>
         \/ call = "resume" /\ UNCHANGED <<thread, acks>>
  BY <1>2, <1>6 DEF processPauseResumeSignals, acknowledgePauseResumeSignal
<1>9. ManagerTyped'
  <2>1. << >> \in Seq({"pause", "resume"}) /\ <<call>> \in Seq({"pause", "resume"})
    BY <1>2
  <2>2. /\ signals' \in [Nodes -> Seq({"pause", "resume"})]
        /\ acks' \in [Nodes -> Seq({"pause", "resume"})]
    BY <1>5, <1>7, <1>8, <2>1
  <2>3. thread' \in [Nodes -> {"none", "running", "paused", "stuck", "ended"}]
    BY <1>5, <1>8
  <2> QED BY <1>1, <1>3, <2>2, <2>3 DEF ManagerTyped
<1>10. \A m \in Nodes : m # n => signals'[m] = signals[m] /\ acks'[m] = acks[m] /\ thread'[m] = thread[m]
  BY <1>5, <1>7, <1>8
<1>11. /\ signals'[n] = << >> /\ acks'[n] \in {<< >>, <<call>>}
       /\ acks'[n] # << >> /\ call = "pause" => thread'[n] = "paused"
  BY <1>4, <1>5, <1>7, <1>8
<1>12. OneOfEach'
  BY <1>1, <1>3, <1>10, <1>11 DEF OneOfEach
<1>13. received' <= Cardinality({m \in created' : Done(m)'})
  <2>1. ASSUME NEW m \in created, Done(m) PROVE Done(m)'
    <3>1. m # n /\ m \in Nodes
      BY <1>1, <1>3, <2>1 DEF Done, ManagerTyped
    <3> QED BY <1>1, <1>10, <2>1, <3>1 DEF Done
  <2> QED BY <1>1, <1>2, <2>1, DoneStays
<1>14. \A m \in Nodes \ created' : signals'[m] = << >> /\ acks'[m] = << >>
  BY <1>1, <1>3, <1>4, <1>10
<1> QED BY <1>1, <1>2, <1>3, <1>9, <1>12, <1>13, <1>14 DEF ManagerInv

\* A thread that ends or blocks was running: during a pause it has not answered, and will not.
LEMMA LeaveStep ==
  ASSUME ManagerInv, NEW n \in Nodes,
         Fails(n) \/ handlePauseResumeAndShutdownSignal(n) \/ Blocks(n)
  PROVE  ManagerInv'
<1>1. /\ thread[n] = "running"
      /\ \E status \in {"ended", "stuck"} : thread' = [thread EXCEPT ![n] = status]
      /\ signals' \in {signals, [signals EXCEPT ![n] = << >>]}
      /\ UNCHANGED <<call, received, snapshot, created, hears, acks>>
  BY DEF Fails, handlePauseResumeAndShutdownSignal, Running, Leaves, Frees, Blocks, managerVars,
         socketVars
<1>2. /\ signals \in [Nodes -> Seq({"pause", "resume"})]
      /\ thread \in [Nodes -> {"none", "running", "paused", "stuck", "ended"}]
      /\ created \subseteq Nodes /\ snapshot \subseteq created
  BY DEF ManagerInv, ManagerTyped
<1>3. ManagerTyped'
  <2>1. << >> \in Seq({"pause", "resume"})
    OBVIOUS
  <2>2. signals' \in [Nodes -> Seq({"pause", "resume"})]
    BY <1>1, <1>2, <2>1
  <2>3. thread' \in [Nodes -> {"none", "running", "paused", "stuck", "ended"}]
    BY <1>1, <1>2
  <2> QED BY <1>1, <2>2, <2>3 DEF ManagerInv, ManagerTyped
<1>4. /\ \A m \in Nodes : m # n => signals'[m] = signals[m] /\ thread'[m] = thread[m]
      /\ signals'[n] \in {signals[n], << >>} /\ thread'[n] # "paused"
  BY <1>1, <1>2
<1>5. \A m \in Nodes \ created' : signals'[m] = << >> /\ acks'[m] = << >>
  BY <1>1, <1>4 DEF ManagerInv
<1>6. CASE call \in {"pause", "resume"}
  <2>1. OneOfEach /\ snapshot = {}
    BY <1>6 DEF ManagerInv
  <2>2. OneOfEach'
    BY <1>1, <1>4, <2>1 DEF OneOfEach
  <2>3. ASSUME NEW m \in created, Done(m) PROVE Done(m)'
    BY <1>1, <1>2, <1>4, <2>3 DEF Done
  <2>4. received' <= Cardinality({m \in created' : Done(m)'})
    BY <1>1, <1>6, <2>3, DoneStays
  <2> QED BY <1>1, <1>3, <1>5, <1>6, <2>1, <2>2, <2>4 DEF ManagerInv
<1>7. CASE call \notin {"pause", "resume"}
  <2>1. \A m \in Nodes : signals[m] = << >> /\ acks[m] = << >>
    BY <1>7 DEF ManagerInv
  <2>2. \A m \in snapshot : thread[m] = "paused" /\ m # n /\ m \in Nodes
    BY <1>1, <1>2, <1>7 DEF ManagerInv
  <2>3. \A m \in Nodes : signals'[m] = << >> /\ acks'[m] = << >>
    BY <1>1, <1>4, <2>1
  <2>4. \A m \in snapshot' : thread'[m] = "paused"
    BY <1>1, <1>4, <2>2
  <2> QED BY <1>1, <1>3, <1>5, <1>7, <2>3, <2>4 DEF ManagerInv
<1> QED BY <1>6, <1>7

\* Threads are where they were when one has handled an event or a datagram, and other
\* nodes' tables are what they were.
LEMMA OwnTable ==
  ASSUME TypeOK, NEW n \in Nodes, Handles(n)
  PROVE  /\ Running(n) /\ thread' = thread
         /\ \A other \in Nodes \ {n} : best'[other] = best[other]
<1>1. ASSUME NEW id PROVE \A other \in Nodes \ {n} : checkAndUpdateIfBetter(n, id)[other] = best[other]
  BY DEF TypeOK, checkAndUpdateIfBetter
<1>2. CASE resendNodeIsActiveRequestIfTimedOut(n) \/ processStabilizationRequestTimeout(n)
  BY <1>2 DEF resendNodeIsActiveRequestIfTimedOut, processStabilizationRequestTimeout
<1>3. ASSUME NEW m \in network, m.to = n,
             \/ processNodeIsActiveRequest(m)
             \/ processNodeIsActiveRequestReply(m)
             \/ \E lost \in BOOLEAN : processStabilizationRequest(m, lost)
             \/ processStabilizationRequestReply(m)
      PROVE  /\ Running(n) /\ thread' = thread
             /\ best' = best \/ \E id : best' = checkAndUpdateIfBetter(n, id)
  BY <1>3 DEF processNodeIsActiveRequest, processNodeIsActiveRequestReply, Reads,
              processStabilizationRequest, processStabilizationRequestReply
<1> QED BY <1>1, <1>2, <1>3 DEF Handles

LEMMA OperateStep ==
  ASSUME ManagerInv, TypeOK, NEW n \in Nodes, operateNode(n)
  PROVE  ManagerInv'
<1>1. UNCHANGED <<call, received, snapshot, created, thread, hears, signals, acks>>
  BY OwnTable DEF operateNode, managerVars, socketVars
<1> QED BY <1>1 DEF ManagerInv, ManagerTyped, OneOfEach, Done

LEMMA ManagerKept == ManagerInv /\ TypeOK /\ [ManagerNext]_managedVars => ManagerInv'
<1> SUFFICES ASSUME ManagerInv, TypeOK, [ManagerNext]_managedVars PROVE ManagerInv'
  OBVIOUS
<1>1. ASSUME NEW n \in Nodes, createChordNode(n) PROVE ManagerInv'
  BY <1>1, CreateStep
<1>2. ASSUME NEW n \in Nodes, Subscribes(n) PROVE ManagerInv'
  BY <1>2, SubscribeStep
<1>3. ASSUME NEW n \in Nodes, Receives(n) PROVE ManagerInv'
  BY <1>3, ReceiveStep
<1>4. ASSUME NEW n \in Nodes, DestroysNode(n) PROVE ManagerInv'
  BY <1>4, DestroySteps
<1>5. ASSUME NEW n \in Nodes, processPauseResumeSignals(n) PROVE ManagerInv'
  BY <1>5, SignalStep
<1>6. ASSUME NEW n \in Nodes, handlePauseResumeAndShutdownSignal(n) \/ Fails(n) \/ Blocks(n)
      PROVE  ManagerInv'
  BY <1>6, LeaveStep
<1>7. ASSUME NEW n \in Nodes, operateNode(n) PROVE ManagerInv'
  BY <1>7, OperateStep
<1>8. ASSUME NEW signal \in {"pause", "resume"}, pauseOrResumeNodes(signal) PROVE ManagerInv'
  BY <1>8, CallStep
<1>9. CASE Returns
  BY <1>9, ReturnStep
<1>10. CASE Destroys \/ Destroyed
  BY <1>10, DestroySteps
<1>11. CASE UNCHANGED managedVars \/ \E n \in Nodes : RouterStops(n)
  <2>1. UNCHANGED <<call, received, snapshot, created, thread, hears, signals, acks>>
    BY <1>11 DEF RouterStops, managedVars, vars, managerVars, socketVars
  <2> QED BY <2>1 DEF ManagerInv, ManagerTyped, OneOfEach, Done
<1> QED BY <1>1, <1>2, <1>3, <1>4, <1>5, <1>6, <1>7, <1>8, <1>9, <1>10, <1>11 DEF ManagerNext

-----------------------------------------------------------------------------
(***************************************************************************)
(* The ring and its manager                                                *)
(***************************************************************************)

\* A step of the manager and its nodes, as the nodes alone see it.
LEMMA NodesStep ==
  ASSUME TypeOK, [ManagerNext]_managedVars
  PROVE  \/ \E n \in Nodes : startNodeIsActiveRequests(n) \/ Handles(n) \/ Frees(n)
         \/ UNCHANGED vars
         \/ \E n \in Nodes :
               /\ \E status \in {"running", "paused", "stuck", "ended"} :
                     thread' = [thread EXCEPT ![n] = status]
               /\ UNCHANGED <<number, requests>>
               /\ \/ UNCHANGED best
                  \/ Running(n) /\ \E id \in Nodes : best' = checkAndUpdateIfBetter(n, id)
               /\ \/ UNCHANGED network
                  \/ \E k \in 0 .. Len(Contacts[n]) : network' = network \cup FirstRequests(n, k)
<1>1. CASE \E n \in Nodes : createChordNode(n)
  BY <1>1 DEF createChordNode
<1>2. CASE \E n \in Nodes : processPauseResumeSignals(n)
  BY <1>2 DEF processPauseResumeSignals, tableVars, TypeOK
<1>3. CASE \E n \in Nodes : handlePauseResumeAndShutdownSignal(n) \/ Fails(n) \/ operateNode(n)
  BY <1>3 DEF handlePauseResumeAndShutdownSignal, Fails, Leaves, operateNode, tableVars
<1>5. CASE \E n \in Nodes : Blocks(n)
  BY <1>5 DEF Blocks, TypeOK
<1>4. CASE \/ \E n \in Nodes : Subscribes(n) \/ Receives(n) \/ DestroysNode(n)
           \/ \E signal \in {"pause", "resume"} : pauseOrResumeNodes(signal)
           \/ Returns \/ Destroys \/ Destroyed
           \/ \E n \in Nodes : RouterStops(n)
           \/ UNCHANGED managedVars
  BY <1>4 DEF RouterStops, Subscribes, Receives, DestroysNode, pauseOrResumeNodes, Returns, Destroys,
              Destroyed, managedVars
<1> QED BY <1>1, <1>2, <1>3, <1>4, <1>5 DEF ManagerNext

LEMMA ManagedTypesKept == TypeOK /\ [ManagerNext]_managedVars => TypeOK'
<1> SUFFICES ASSUME TypeOK, [ManagerNext]_managedVars PROVE TypeOK'
  OBVIOUS
<1>1. ASSUME NEW n \in Nodes, UNCHANGED <<number, requests>>,
             NEW status \in {"running", "paused", "stuck", "ended"},
             thread' = [thread EXCEPT ![n] = status],
             UNCHANGED best \/ \E id \in Nodes : best' = checkAndUpdateIfBetter(n, id),
             \/ UNCHANGED network
             \/ \E k \in 0 .. Len(Contacts[n]) : network' = network \cup FirstRequests(n, k)
      PROVE  TypeOK'
  <2>1. TablesTyped /\ RequestsTyped /\ NetworkTyped
    BY TypeParts
  <2>2. TablesTyped'
    BY <1>1, <2>1, CheckTyped DEF TablesTyped
  <2>3. RequestsTyped'
    BY <1>1, <2>1, RequestsKept DEF TablesTyped
  <2>4. NetworkTyped'
    BY <1>1, <2>1, FirstRequestsTyped DEF NetworkTyped, DatagramTyped
  <2> QED BY <2>2, <2>3, <2>4 DEF TypeOK, TablesTyped, RequestsTyped, RequestTyped,
                                  NetworkTyped, DatagramTyped
<1> QED BY <1>1, NodesStep, TypeStep, TypesUnchanged

\* Types stay correct when a manager creates, pauses, resumes and destroys the nodes.
THEOREM ManagedTypeCorrect == ManagerSpec => []TypeOK
<1>1. ManagerInit => TypeOK
  BY ChordStabilizationAssumption DEF ManagerInit, Init, TypeOK
<1> QED BY <1>1, ManagedTypesKept, PTL DEF ManagerSpec

THEOREM ManagerInvariant == ManagerSpec => []ManagerInv
  BY ManagedTypeCorrect, ManagerInitially, ManagerKept, PTL DEF ManagerSpec

\* Once pauseNodes has returned, and until the next call, every node it counted is there and
\* paused: for any number of nodes and calls, wherever subscriptions are late and threads fail.
THEOREM PausedNodesStand == ManagerSpec => []SnapshotStands
<1>1. ManagerInv => SnapshotStands
  BY DEF ManagerInv, SnapshotStands
<1> QED BY <1>1, ManagerInvariant, PTL

\* And no table of theirs changes, whatever reaches them and whatever the others do: it may
\* be read from the manager's thread.
THEOREM PausedTablesStand == ManagerSpec => TablesStand
<1>1. ASSUME ManagerInv, TypeOK, [ManagerNext]_managedVars,
             NEW paused \in snapshot \cap snapshot'
      PROVE  best'[paused] = best[paused]
  <2>1. paused \in Nodes /\ ~Running(paused)
    BY <1>1 DEF ManagerInv, ManagerTyped, Running
  <2>2. ASSUME NEW n \in Nodes, Handles(n) PROVE best'[paused] = best[paused]
    BY <1>1, <2>1, <2>2, OwnTable
  <2>3. ASSUME NEW n \in Nodes, Running(n), NEW id \in Nodes, best' = checkAndUpdateIfBetter(n, id)
        PROVE  best'[paused] = best[paused]
    BY <1>1, <2>1, <2>3 DEF TypeOK, checkAndUpdateIfBetter
  <2> QED BY <1>1, <2>2, <2>3, NodesStep DEF startNodeIsActiveRequests, Frees, vars
<1>2. ManagerInv /\ TypeOK /\ [ManagerNext]_managedVars
          => [\A n \in snapshot \cap snapshot' : best'[n] = best[n]]_managedVars
  BY <1>1
<1> QED BY <1>2, ManagerInvariant, ManagedTypeCorrect, PTL DEF ManagerSpec, TablesStand

\* A ring that has formed stays formed however its manager pauses, resumes, creates and
\* destroys nodes, and whichever of them fail: what waited for a paused node does no harm.
THEOREM ManagedRingStays == ManagerSpec => RingStays
<1>1. TypeOK /\ [ManagerNext]_managedVars
         => \/ best' = best
            \/ \E n \in Nodes : Handles(n)
            \/ \E n \in Nodes, id \in Nodes : best' = checkAndUpdateIfBetter(n, id)
  BY NodesStep DEF startNodeIsActiveRequests, Frees, vars
<1>2. TypeOK /\ [ManagerNext]_managedVars => [RingFormed => RingFormed']_vars
  BY <1>1, RingKept
<1> QED BY <1>2, ManagedTypeCorrect, PTL DEF ManagerSpec, RingStays
=============================================================================
