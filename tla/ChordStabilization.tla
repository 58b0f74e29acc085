------------------------- MODULE ChordStabilization -------------------------
(***************************************************************************)
(* How nodes of the Chord prototype (chordNode) find their place: each     *)
(* asks the nodes it was given whether they are active, again and again    *)
(* until they answer or it has asked too often, and each asks its          *)
(* successor periodically for the successor's predecessor.  Whoever asks   *)
(* or is named is checked against the finger table.                        *)
(*                                                                         *)
(* A datagram waits in network for any time, arrives in any order, or is   *)
(* lost in that nobody ever reads it; only the answer of a round, for      *)
(* which its node waits in this model, is lost visibly, and so stands for  *)
(* the loss of the request as well.  Time is left out: the next event may  *)
(* be due at any moment.  All timeouts of is-active requests have one      *)
(* delay, so they come in the order of their numbers; one whose number is  *)
(* gone is passed over.                                                    *)
(*                                                                         *)
(* The tables are FingerTable's without fingers: no handler here reads     *)
(* them.  Lookups, which alone replace nodes in a table, are the subject   *)
(* of FindAddressOwner.  Threads are created as main.cpp creates them, and *)
(* none is paused here: ChordNodeManager extends this module with that.    *)
(***************************************************************************)
EXTENDS Integers, FiniteSets, Sequences

CONSTANTS
    IDBits, Nodes,      \* as in FingerTable
    Contacts,           \* node -> the nodes it is given when it is created
    Mortal,             \* nodes whose thread may end
    MaximumResends,     \* MAXIMUM_NUMBER_OF_IS_NODE_ACTIVE_RESENDS
    MaximumInFlight     \* bound: a node's stabilization messages under way

Modulus == 2 ^ IDBits
Successor   == 0    \* FingerTable's slots when there are no fingers
Predecessor == 1
Slots == {Successor, Predecessor}

\* The table of node n as it is when its slots hold b.
Table(n, b) == INSTANCE FingerTable WITH
    chordID <- n, best <- b, FingerTableSize <- 0,
    IDReferenceCounts <- [id \in Nodes |-> Cardinality({s \in Slots : b[s] = id})
                                           + (IF id = n THEN 1 ELSE 0)],
    idToContactInfo <- [id \in Nodes |-> 0],
    checked <- {}, resolved <- {}, Contacts <- {0}, SelfContact <- 0, NoContact <- 1

ASSUME ChordStabilizationAssumption ==
    /\ IDBits \in Nat \ {0}
    /\ Modulus \in Nat \ {0}
    /\ Nodes \subseteq 0 .. (Modulus - 1)
    /\ Contacts \in [Nodes -> Seq(Nodes)]
    /\ \A n \in Nodes : \A i \in DOMAIN Contacts[n] : Contacts[n][i] # n
    /\ Mortal \subseteq Nodes
    /\ MaximumResends \in Nat
    /\ MaximumInFlight \in Nat \ {0}

VARIABLES
    thread,    \* node -> "none", "running", "paused" or "stuck" (ChordNodeManager) or "ended"
    best,      \* node -> its finger table's slots
    number,    \* node -> nodeMessageNumberIndex
    requests,  \* node -> requestIDToNodeIsActiveRequest: live ids -> [to, resends]
    network    \* datagrams under way

vars == <<thread, best, number, requests, network>>

-----------------------------------------------------------------------------
(***************************************************************************)
(* Tables and datagrams                                                    *)
(***************************************************************************)

Running(n) == thread[n] = "running"

\* The table of n after it has checked whether id is better.
checkAndUpdateIfBetter(n, id) ==
    [best EXCEPT ![n] =
        [s \in Slots |-> IF s \in Table(n, best[n])!Improved(id) THEN id ELSE best[n][s]]]

\* What reaches a node whose sockets are open: it waits there while the node is paused.
Reach(out) == {m \in out : thread[m.to] \in {"running", "paused"}}

IsActive(n, to, id) == [kind |-> "isActive", from |-> n, to |-> to, id |-> id]
Active(n, to, id)   == [kind |-> "active", from |-> n, to |-> to, id |-> id]
Stabilize(n, to)    == [kind |-> "stabilize", from |-> n, to |-> to]
Stabilized(n, to, p) == [kind |-> "stabilized", from |-> n, to |-> to, predecessor |-> p]

\* The node is running and reads a datagram of a kind.
Reads(m, kind) == m \in network /\ m.kind = kind /\ Running(m.to)

\* A check of id would change the table of n.
WouldImprove(n, id) == Table(n, best[n])!Improved(id) # {}

\* The rounds of n under way: questions, and answers that would change its table.
InFlight(n) ==
    {m \in network :
        \/ m.kind = "stabilize" /\ m.from = n
        \/ /\ m.kind = "stabilized" /\ m.to = n
           /\ m.from = best[n][Successor] /\ WouldImprove(n, m.predecessor)}

-----------------------------------------------------------------------------
(***************************************************************************)
(* Handlers                                                                *)
(***************************************************************************)

Init ==
    /\ thread = [n \in Nodes |-> "none"]
    /\ best = [n \in Nodes |-> [s \in Slots |-> n]]
    /\ number = [n \in Nodes |-> 0]
    /\ requests = [n \in Nodes |-> << >>]
    /\ network = {}

\* The requests of a new node to the first k of its contacts.
FirstRequests(n, k) == Reach({IsActive(n, Contacts[n][i], i) : i \in 1 .. k})

\* A node is created with the contacts of nodes that were, and asks all of them.
startNodeIsActiveRequests(n) ==
    LET contacts == Contacts[n]
    IN  /\ thread[n] = "none"
        /\ \A i \in DOMAIN contacts : thread[contacts[i]] # "none"
        /\ thread' = [thread EXCEPT ![n] = "running"]
        /\ requests' = [requests EXCEPT ![n] =
                           [i \in DOMAIN contacts |-> [to |-> contacts[i], resends |-> 0]]]
        /\ number' = [number EXCEPT ![n] = Len(contacts)]
        /\ network' = network \cup FirstRequests(n, Len(contacts))
        /\ UNCHANGED best

\* The next timeout: the request ends, or is sent again under a new number.
resendNodeIsActiveRequestIfTimedOut(n) ==
    \E id \in DOMAIN requests[n] :
        LET others == DOMAIN requests[n] \ {id}
            r      == requests[n][id]
            next   == number[n] + 1
        IN  /\ Running(n)
            /\ \A other \in others : id < other
            /\ \/ /\ r.resends >= MaximumResends
                  /\ requests' = [requests EXCEPT ![n] = [i \in others |-> @[i]]]
                  /\ UNCHANGED <<number, network>>
               \/ /\ r.resends < MaximumResends
                  /\ requests' = [requests EXCEPT ![n] =
                         [i \in others \cup {next} |->
                             IF i = next THEN [to |-> r.to, resends |-> r.resends + 1] ELSE @[i]]]
                  /\ number' = [number EXCEPT ![n] = next]
                  /\ network' = network \cup Reach({IsActive(n, r.to, next)})
            /\ UNCHANGED <<thread, best>>

\* Whoever asks is checked, and told that this node is there.
processNodeIsActiveRequest(m) ==
    /\ Reads(m, "isActive")
    /\ best' = checkAndUpdateIfBetter(m.to, m.from)
    /\ network' = (network \ {m}) \cup Reach({Active(m.to, m.from, m.id)})
    /\ UNCHANGED <<thread, number, requests>>

\* Mutant: the node that answers becomes the successor.
TakesAsSuccessor(m) ==
    LET n == m.to
        ids == DOMAIN requests[n]
    IN  /\ Reads(m, "active")
        /\ network' = network \ {m}
        /\ IF m.id \in ids /\ requests[n][m.id].to = m.from
           THEN /\ best' = [checkAndUpdateIfBetter(n, m.from) EXCEPT ![n][Successor] = m.from]
                /\ requests' = [requests EXCEPT ![n] = [i \in ids \ {m.id} |-> @[i]]]
           ELSE UNCHANGED <<best, requests>>
        /\ UNCHANGED <<thread, number>>

\* An answer to a number that is gone, or from another node, is ignored.
processNodeIsActiveRequestReply(m) ==
    LET n == m.to
        ids == DOMAIN requests[n]
    IN  /\ Reads(m, "active")
        /\ network' = network \ {m}
        /\ IF m.id \in ids /\ requests[n][m.id].to = m.from
           THEN /\ best' = checkAndUpdateIfBetter(n, m.from)
                /\ requests' = [requests EXCEPT ![n] = [i \in ids \ {m.id} |-> @[i]]]
           ELSE UNCHANGED <<best, requests>>
        /\ UNCHANGED <<thread, number>>

\* At first a node's successor is the node itself.
processStabilizationRequestTimeout(n) ==
    /\ Running(n)
    /\ Cardinality(InFlight(n)) < MaximumInFlight
    /\ network' = network \cup Reach({Stabilize(n, best[n][Successor])})
    /\ UNCHANGED <<thread, best, number, requests>>

\* Mutant: the node that asks is not checked.
AnswersOnly(m, lost) ==
    LET n == m.to
    IN  /\ Reads(m, "stabilize")
        /\ network' = (network \ {m}) \cup
                          (IF lost THEN {} ELSE Reach({Stabilized(n, m.from, best[n][Predecessor])}))
        /\ UNCHANGED <<thread, best, number, requests>>

\* The answer names the predecessor after the check.
processStabilizationRequest(m, lost) ==
    LET n == m.to
    IN  /\ Reads(m, "stabilize")
        /\ best' = checkAndUpdateIfBetter(n, m.from)
        /\ network' = (network \ {m}) \cup
                          (IF lost THEN {} ELSE Reach({Stabilized(n, m.from, best'[n][Predecessor])}))
        /\ UNCHANGED <<thread, number, requests>>

\* An answer of a node that is not the successor any more is ignored.
processStabilizationRequestReply(m) ==
    LET n == m.to
    IN  /\ Reads(m, "stabilized")
        /\ network' = network \ {m}
        /\ best' = IF m.from = best[n][Successor] THEN checkAndUpdateIfBetter(n, m.predecessor)
                   ELSE best
        /\ UNCHANGED <<thread, number, requests>>

\* What a thread that ends held is freed, and its table is of use to nobody.
Frees(n) ==
    /\ thread' = [thread EXCEPT ![n] = "ended"]
    /\ requests' = [requests EXCEPT ![n] = << >>]
    /\ network' = {m \in network : m.to # n}
    /\ UNCHANGED <<best, number>>

\* An exception ends the thread (a lookup's, for one: FindAddressOwner's GivesUp).
Ends(n) == n \in Mortal /\ Running(n) /\ Frees(n)

\* The node's loop handles an event or a datagram.
Handles(n) ==
    \/ resendNodeIsActiveRequestIfTimedOut(n)
    \/ processStabilizationRequestTimeout(n)
    \/ \E m \in network :
          /\ m.to = n
          /\ \/ processNodeIsActiveRequest(m)
             \/ processNodeIsActiveRequestReply(m)
             \/ \E lost \in BOOLEAN : processStabilizationRequest(m, lost)
             \/ processStabilizationRequestReply(m)

Next == \E n \in Nodes : startNodeIsActiveRequests(n) \/ Handles(n) \/ Ends(n)

\* A node handles its events and the answers to its rounds, and not all of its rounds are
\* lost.  Nobody has to answer whether it is active.
Fairness ==
    /\ WF_vars(\E n \in Nodes : resendNodeIsActiveRequestIfTimedOut(n))
    /\ \A n \in Nodes :
          /\ WF_vars(\/ processStabilizationRequestTimeout(n)
                     \/ \E m \in network : m.to = n /\ processStabilizationRequestReply(m))
          /\ SF_vars(\E m \in network : m.from = n /\ processStabilizationRequest(m, FALSE))

Spec     == Init /\ [][Next]_vars
FairSpec == Spec /\ Fairness

-----------------------------------------------------------------------------
(***************************************************************************)
(* Properties                                                              *)
(***************************************************************************)

\* Every variable has its type; no datagram is of, or names, anything but a node.
TypeOK ==
    /\ thread \in [Nodes -> {"none", "running", "paused", "stuck", "ended"}]
    /\ best \in [Nodes -> [Slots -> Nodes]]
    /\ number \in [Nodes -> Nat]
    /\ requests = [n \in Nodes |-> [id \in DOMAIN requests[n] |-> requests[n][id]]]
    /\ \A n \in Nodes : \A id \in DOMAIN requests[n] :
          /\ id \in 1 .. number[n]
          /\ requests[n][id] \in [to : Nodes \ {n}, resends : 0 .. MaximumResends]
    /\ \A m \in network :
          /\ m.from \in Nodes /\ m.to \in Nodes
          /\ m.kind = "stabilized" => m.predecessor \in Nodes

\* How far a lies behind b on the ring.
Behind(a, b) == IF b <= a THEN a - b ELSE a - b + Modulus

\* Nothing in a group is closer to one of its nodes than what the node holds.
FormedAmong(group) ==
    \A n \in group : \A other \in group \ {n} :
        /\ Behind(best[n][Successor], n) \in 1 .. Behind(other, n)
        /\ Behind(n, best[n][Predecessor]) \in 1 .. Behind(n, other)

\* Every node has its neighbours on the ring.
RingFormed == FormedAmong(Nodes)

\* All nodes but one form a ring, and that one holds a node of it: one that has answered.
OneArrives ==
    \E n \in Nodes : FormedAmong(Nodes \ {n}) /\ best[n][Successor] # n

\* No datagram, however old, breaks the ring once it has formed, nor does a thread's end.
RingStays == [][RingFormed => RingFormed']_vars

\* A ring takes in a node that arrives: whichever node of the ring has answered it, and
\* whether or not anyone else has heard of it, it finds its place and its neighbours find it,
\* if nobody's thread ends; and every request whether a node is active ends, answered or not.
\* Of nodes that arrive together this is not so: four can forget one of them, and five can
\* form a ring that winds twice round the ids, which is as stable as a ring.
RingForms ==
    OneArrives ~> \/ RingFormed /\ \A n \in Nodes : DOMAIN requests[n] = {}
                  \/ \E n \in Nodes : ~Running(n)
=============================================================================
