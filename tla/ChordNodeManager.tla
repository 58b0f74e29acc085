-------------------------- MODULE ChordNodeManager --------------------------
(***************************************************************************)
(* The manager of the Chord prototype's nodes (chordNodeManager): it       *)
(* creates nodes, pauses and resumes all of them, so that their tables can *)
(* be read by another thread, and destroys them.                           *)
(*                                                                         *)
(* A signal is published to the nodes, and each answers on a PUB socket of *)
(* its own; the manager counts answers until there are as many as nodes.   *)
(* All sockets are inproc, so what is sent to a subscriber arrives in      *)
(* order, but a subscription takes its time, and what is published before  *)
(* it has arrived is lost.                                                 *)
(*                                                                         *)
(* The manager is called by one thread, in any order.  The nodes are those *)
(* of ChordStabilization, whose handlers run while their thread does: how  *)
(* a ring looks to who has paused it is a matter of both modules.  Each    *)
(* node has a router of its own (VirtualPortRouter), without which it      *)
(* hangs: in a send, or in the destructors of its wrappers.                *)
(***************************************************************************)
EXTENDS ChordStabilization

CONSTANT MaximumCalls   \* bound: calls of pauseNodes and resumeNodes

ASSUME ChordNodeManagerAssumption == MaximumCalls \in Nat

VARIABLES
    call,      \* what the manager is in, "none" between calls
    received,  \* numberOfAcknowledgementsRecieved
    calls,     \* pauses and resumes so far
    snapshot,  \* the nodes the last pauseNodes has returned for, until the next call
    created,   \* chordRingIDToNode
    timeToShutdownFlag,   \* nodes whose flag is set
    routed,    \* nodes whose router serves them
    hears,     \* nodes whose subscription the manager's PUB socket knows
    heard,     \* nodes whose PUB socket knows the manager's subscription
    signals,   \* node -> signals it has not read yet
    acks       \* node -> its acknowledgements the manager has not read yet

managerVars == <<call, received, calls, snapshot, created>>
socketVars  == <<hears, heard, signals, acks>>
nodeVars    == <<timeToShutdownFlag, routed>>
tableVars   == <<best, number, requests, network>>   \* what the nodes' handlers change
managedVars == <<vars, managerVars, nodeVars, socketVars>>

ManagerInit ==
    /\ Init
    /\ call = "none" /\ received = 0 /\ calls = 0
    /\ snapshot = {}
    /\ created = {}
    /\ timeToShutdownFlag = {}
    /\ routed = Nodes
    /\ hears = {} /\ heard = {}
    /\ signals = [n \in Nodes |-> << >>]
    /\ acks = [n \in Nodes |-> << >>]

-----------------------------------------------------------------------------
(***************************************************************************)
(* The manager                                                             *)
(***************************************************************************)

\* The constructor of a node waits until its thread has made its resources and asked its
\* contacts; if that fails or blocks, at one of them or before, the promise is never kept.
createChordNode(n) ==
    /\ call = "none"
    /\ \/ /\ startNodeIsActiveRequests(n)
          /\ created' = created \cup {n}
          /\ UNCHANGED call
       \/ /\ n \in Mortal
          /\ thread[n] = "none"
          /\ \E status \in {"ended", "stuck"} : thread' = [thread EXCEPT ![n] = status]
          /\ \E k \in 0 .. Len(Contacts[n]) : network' = network \cup FirstRequests(n, k)
          /\ call' = "create"
          /\ UNCHANGED <<created, best, number, requests>>
    /\ UNCHANGED <<received, calls, snapshot, nodeVars, socketVars>>

\* A subscription arrives, of a node's at the manager or of the manager's at a node.
Subscribes(n) ==
    /\ n \in created
    /\ thread[n] # "ended"
    /\ \/ n \notin hears /\ hears' = hears \cup {n} /\ UNCHANGED heard
       \/ n \notin heard /\ heard' = heard \cup {n} /\ UNCHANGED hears
    /\ UNCHANGED <<managerVars, vars, nodeVars, signals, acks>>

\* pauseNodes or resumeNodes: the signal goes to whoever is known to subscribe.
pauseOrResumeNodes(signal) ==
    /\ call = "none"
    /\ calls < MaximumCalls
    /\ calls' = calls + 1
    /\ call' = signal
    /\ received' = 0
    /\ snapshot' = {}
    /\ signals' = [n \in Nodes |-> IF n \in hears /\ thread[n] # "ended"
                                   THEN Append(signals[n], signal) ELSE signals[n]]
    /\ UNCHANGED <<created, vars, nodeVars, hears, heard, acks>>

\* Mutant: acknowledgements are compared with the pause signal always.
ReceivesPauses(n) ==
    /\ call \in {"pause", "resume"}
    /\ received < Cardinality(created)
    /\ acks[n] # << >>
    /\ acks' = [acks EXCEPT ![n] = Tail(@)]
    /\ received' = IF Head(acks[n]) = "pause" THEN received + 1 ELSE received
    /\ UNCHANGED <<call, calls, snapshot, created, vars, nodeVars, hears, heard, signals>>

\* An acknowledgement of the other signal is passed over.
Receives(n) ==
    /\ call \in {"pause", "resume"}
    /\ received < Cardinality(created)
    /\ acks[n] # << >>
    /\ acks' = [acks EXCEPT ![n] = Tail(@)]
    /\ received' = IF Head(acks[n]) = call THEN received + 1 ELSE received
    /\ UNCHANGED <<call, calls, snapshot, created, vars, nodeVars, hears, heard, signals>>

\* Mutant: the count is one short.
ReturnsEarly ==
    /\ call \in {"pause", "resume"}
    /\ received + 1 >= Cardinality(created)
    /\ call' = "none"
    /\ snapshot' = IF call = "pause" THEN created ELSE {}
    /\ UNCHANGED <<received, calls, created, vars, nodeVars, socketVars>>

\* As many acknowledgements have come as there are nodes.
Returns ==
    /\ call \in {"pause", "resume"}
    /\ received >= Cardinality(created)
    /\ call' = "none"
    /\ snapshot' = IF call = "pause" THEN created ELSE {}
    /\ UNCHANGED <<received, calls, created, vars, nodeVars, socketVars>>

\* The destructor destroys the nodes one by one: it sets the flag of one and joins its thread.
Destroys ==
    /\ call = "none"
    /\ call' = "destroy"
    /\ snapshot' = {}
    /\ UNCHANGED <<received, calls, created, vars, nodeVars, socketVars>>

DestroysNode(n) ==
    /\ call = "destroy"
    /\ n \in created \ timeToShutdownFlag
    /\ \A joined \in timeToShutdownFlag : thread[joined] = "ended"
    /\ timeToShutdownFlag' = timeToShutdownFlag \cup {n}
    /\ UNCHANGED <<managerVars, vars, routed, socketVars>>

Destroyed ==
    /\ call = "destroy"
    /\ \A n \in created : n \in timeToShutdownFlag /\ thread[n] = "ended"
    /\ call' = "destroyed"
    /\ UNCHANGED <<received, calls, snapshot, created, vars, nodeVars, socketVars>>

-----------------------------------------------------------------------------
(***************************************************************************)
(* A node's thread                                                         *)
(***************************************************************************)

acknowledgePauseResumeSignal(n, signal) ==
    acks' = IF n \in heard THEN [acks EXCEPT ![n] = Append(@, signal)] ELSE acks

\* A node that runs takes notice of a pause only, a paused one of a resume only; every other
\* signal it reads is gone.
processPauseResumeSignals(n) ==
    /\ thread[n] \in {"running", "paused"}
    /\ signals[n] # << >>
    /\ signals' = [signals EXCEPT ![n] = Tail(@)]
    /\ LET signal == Head(signals[n])
       IN  \/ /\ thread[n] = "running" /\ signal = "pause"
              /\ acknowledgePauseResumeSignal(n, signal)
              /\ thread' = [thread EXCEPT ![n] = "paused"]
           \/ /\ thread[n] = "paused" /\ signal = "resume"
              /\ acknowledgePauseResumeSignal(n, signal)
              /\ thread' = [thread EXCEPT ![n] = "running"]
           \/ /\ <<thread[n], signal>> \in {<<"running", "resume">>, <<"paused", "pause">>}
              /\ UNCHANGED <<thread, acks>>
    /\ UNCHANGED <<managerVars, nodeVars, tableVars, hears, heard>>

\* The router's thread ends, or is blocked for ever on a socket of the node's.
RouterStops(n) ==
    /\ n \in Mortal \cap routed
    /\ thread[n] \in {"running", "paused"}
    /\ routed' = routed \ {n}
    /\ UNCHANGED <<managerVars, vars, timeToShutdownFlag, socketVars>>

\* The resources of a thread that ends, and its sockets, are freed: six wrappers, each of
\* which waits for its router's reply.
Leaves(n) ==
    /\ \/ /\ n \in routed
          /\ Frees(n)
          /\ signals' = [signals EXCEPT ![n] = << >>]
       \/ /\ n \notin routed
          /\ thread' = [thread EXCEPT ![n] = "stuck"]
          /\ UNCHANGED <<tableVars, signals>>
    /\ UNCHANGED <<managerVars, nodeVars, hears, heard, acks>>

\* The flag is looked at when there is no pause to take notice of.
handlePauseResumeAndShutdownSignal(n) ==
    /\ thread[n] = "running"
    /\ signals[n] = << >>
    /\ n \in timeToShutdownFlag
    /\ Leaves(n)

\* A handler throws; a paused node is in recv, which does not.
Fails(n) ==
    /\ n \in Mortal /\ Running(n)
    /\ Leaves(n)

\* A handler sends to a router that is gone, after the check if it does one.
Blocks(n) ==
    /\ Running(n)
    /\ n \notin routed
    /\ thread' = [thread EXCEPT ![n] = "stuck"]
    /\ \/ UNCHANGED best
       \/ \E m \in network : /\ m.to = n /\ m.kind \in {"isActive", "stabilize"}
                             /\ best' = checkAndUpdateIfBetter(n, m.from)
    /\ UNCHANGED <<number, requests, network, managerVars, nodeVars, socketVars>>

\* A round of the node's loop goes on with an event or a datagram; without its router it can
\* only read what has already come.
operateNode(n) ==
    /\ Handles(n)
    /\ n \in routed \/ network' \subseteq network
    /\ UNCHANGED <<managerVars, nodeVars, socketVars>>

ManagerNext ==
    \/ \E n \in Nodes :
          \/ createChordNode(n)
          \/ Subscribes(n)
          \/ Receives(n)
          \/ DestroysNode(n)
          \/ processPauseResumeSignals(n)
          \/ handlePauseResumeAndShutdownSignal(n)
          \/ Fails(n)
          \/ RouterStops(n)
          \/ Blocks(n)
          \/ operateNode(n)
    \/ \E signal \in {"pause", "resume"} : pauseOrResumeNodes(signal)
    \/ Returns
    \/ Destroys
    \/ Destroyed

\* The manager goes on with the call it is in, and a node with its loop, which looks for
\* signals in every round, unless it blocks.
ManagerFairness ==
    /\ WF_managedVars(Returns \/ Destroyed \/ \E n \in Nodes : Receives(n) \/ DestroysNode(n))
    /\ \A n \in Nodes : WF_managedVars(\/ processPauseResumeSignals(n)
                                       \/ handlePauseResumeAndShutdownSignal(n))

ManagerSpec     == ManagerInit /\ [][ManagerNext]_managedVars
FairManagerSpec == ManagerSpec /\ ManagerFairness

-----------------------------------------------------------------------------
(***************************************************************************)
(* Properties                                                              *)
(***************************************************************************)

\* Once pauseNodes has returned, and until the next call, every node it counted is there and
\* stands still, whatever subscription was late, whoever failed, and in whatever order the
\* calls before came.
SnapshotStands == \A n \in snapshot : thread[n] = "paused"

\* So the tables of these nodes may be read one after another from the manager's thread:
\* none of them changes, whatever the nodes were in the middle of and whatever nodes that
\* are created meanwhile send them.
TablesStand == [][\A n \in snapshot \cap snapshot' : best'[n] = best[n]]_managedVars

\* Nodes whose acknowledgement of the call is to come: it is under way, or the node will
\* read the signal and send it.
Owes(n) ==
    \/ \E i \in DOMAIN acks[n] : acks[n][i] = call
    \/ /\ thread[n] = IF call = "pause" THEN "running" ELSE "paused"
       /\ n \in heard
       /\ \E i \in DOMAIN signals[n] : signals[n][i] = call

\* What the manager waits for is to come.
CanReturn ==
    \/ /\ call \in {"pause", "resume"}
       /\ received + Cardinality({n \in created : Owes(n)}) >= Cardinality(created)
    \/ /\ call = "destroy"
       /\ \A n \in created : thread[n] # "paused"

\* A pause or resume that reaches all nodes in turn returns, and so does the destructor when
\* no node is paused, unless a node's thread fails, or hangs without its router.
CallsReturn == CanReturn ~> \/ call \in {"none", "destroyed"}
                            \/ \E n \in Mortal : thread[n] \in {"ended", "stuck"}
=============================================================================
