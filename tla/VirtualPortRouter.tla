------------------------- MODULE VirtualPortRouter -------------------------
(***************************************************************************)
(* The virtual port router of the Chord prototype and the socket wrappers  *)
(* that use it.  The router's thread moves datagrams between one UDP       *)
(* socket and a PAIR socket for each open port, and opens and closes ports *)
(* for requests on a REP socket: each round it polls them all, then serves *)
(* the datagram, the request and the messages that the poll found, in this *)
(* order.  A wrapper asks for its port, connects to the PAIR socket it is  *)
(* told, and gives the port back in its destructor.                        *)
(*                                                                         *)
(* A datagram is the port it is for, a message in a PAIR socket is one of  *)
(* a count; headers are valid (the others are passed over).  A wrapper is  *)
(* used by one thread, which may own others (the thread of a Chord node    *)
(* owns six) and does one thing at a time; a node's thread also pauses.    *)
(* Every request comes from a wrapper, so it is well formed.               *)
(***************************************************************************)
EXTENDS Naturals, Sequences, FiniteSets

CONSTANTS
    Ports,        \* virtual port numbers
    Wrappers,     \* virtualPortPairSocketWrapper objects
    Threads,      \* the threads that use them
    Ownerships,   \* who may own which: functions from Wrappers to Threads
    HighWater,    \* messages a PAIR socket holds in one direction (ZMQ_SNDHWM + ZMQ_RCVHWM)
    MaximumDatagrams,  \* bound: datagrams the UDP socket holds
    None

ASSUME VirtualPortRouterAssumption ==
    /\ Ports \subseteq Nat
    /\ HighWater \in Nat \ {0}
    /\ MaximumDatagrams \in Nat \ {0}
    /\ Ownerships \subseteq [Wrappers -> Threads]
    /\ None \notin Wrappers \cup Ports
    /\ None \notin {"opened", "refused"}

VARIABLES
    thread,       \* where the router's thread is: "start" of the loop, "polling", in a
                  \* "round", or "ended"
    round,        \* what the poll has found and is not served yet: [udp, request, ports]
    timeToShutdownFlag,
    allocated,    \* the keys of portIDToInprocMap
    peer,         \* port -> wrapper connected to its PAIR socket
    toOwner, fromOwner,  \* port -> messages in its PAIR socket, each way
    udp,          \* datagrams in the UDP socket
    requests,     \* in the REP socket: [from, open, port]
    wrapper,      \* how far each wrapper is
    associatedVirtualPort,
    outcome,      \* history: what its bind ended in
    owner,        \* the thread that uses a wrapper
    paused        \* the threads that wait to be resumed

threads     == <<owner, paused>>
portVars    == <<allocated, peer, toOwner, fromOwner>>
wrapperVars == <<wrapper, associatedVirtualPort, outcome, threads>>
vars == <<thread, round, timeToShutdownFlag, portVars, udp, requests, wrapperVars>>

NothingFound == [udp |-> FALSE, request |-> FALSE, ports |-> {}]

Init ==
    /\ thread = "start"
    /\ round = NothingFound
    /\ timeToShutdownFlag = FALSE
    /\ allocated = {}
    /\ peer = [p \in Ports |-> None]
    /\ toOwner = [p \in Ports |-> 0]
    /\ fromOwner = [p \in Ports |-> 0]
    /\ udp = << >>
    /\ requests = << >>
    /\ wrapper = [w \in Wrappers |-> "new"]
    /\ associatedVirtualPort = [w \in Wrappers |-> None]
    /\ outcome = [w \in Wrappers |-> None]
    /\ owner \in Ownerships
    /\ paused = {}

-----------------------------------------------------------------------------
(***************************************************************************)
(* The loop                                                                *)
(***************************************************************************)

\* The thread leaves: its sockets are closed, and requests stay unanswered.
Ends ==
    /\ thread' = "ended"
    /\ round' = NothingFound
    /\ peer' = [p \in Ports |-> None]
    /\ allocated' = {}
    /\ UNCHANGED <<timeToShutdownFlag, toOwner, fromOwner, udp, requests, wrapperVars>>

Stops == thread = "start" /\ timeToShutdownFlag /\ Ends

Starts ==
    /\ thread = "start"
    /\ ~timeToShutdownFlag
    /\ thread' = "polling"
    /\ UNCHANGED <<round, timeToShutdownFlag, portVars, udp, requests, wrapperVars>>

\* Mutant: the poll list is made before the ports that were closed are taken off it.
ReadyOrClosed == [udp     |-> udp # << >>,
                  request |-> requests # << >>,
                  ports   |-> {p \in Ports : fromOwner[p] > 0}]

Ready == [udp     |-> udp # << >>,
          request |-> requests # << >>,
          ports   |-> {p \in allocated : fromOwner[p] > 0}]

Polls ==
    /\ thread = "polling"
    /\ round' = Ready
    /\ thread' = IF Ready = NothingFound THEN "start" ELSE "round"
    /\ UNCHANGED <<timeToShutdownFlag, portVars, udp, requests, wrapperVars>>

\* The thread goes on with what is left of the round, if anything.
Served(rest) ==
    /\ round' = rest
    /\ thread' = IF rest = NothingFound THEN "start" ELSE "round"

\* A datagram for a port that is not open is dropped.  The send waits while nobody is
\* connected, and while the socket is full: the whole router waits.
Accepts(p) == peer[p] # None /\ toOwner[p] < HighWater

processIncomingUDPMessage ==
    /\ thread = "round"
    /\ round.udp
    /\ LET p == Head(udp)
       IN  \/ /\ p \notin allocated
              /\ UNCHANGED toOwner
           \/ /\ p \in allocated
              /\ Accepts(p)
              /\ toOwner' = [toOwner EXCEPT ![p] = @ + 1]
    /\ udp' = Tail(udp)
    /\ Served([round EXCEPT !.udp = FALSE])
    /\ UNCHANGED <<timeToShutdownFlag, allocated, peer, fromOwner, requests, wrapperVars>>

\* Mutant: a port that is open already is given out again.
OpensAgain(m) ==
    /\ allocated' = allocated \cup {m.port}
    /\ peer' = [peer EXCEPT ![m.port] = None]
    /\ toOwner' = [toOwner EXCEPT ![m.port] = 0]
    /\ fromOwner' = [fromOwner EXCEPT ![m.port] = 0]
    /\ wrapper' = [wrapper EXCEPT ![m.from] = "opened"]
    /\ outcome' = [outcome EXCEPT ![m.from] = "opened"]

\* A new PAIR socket is bound for the port, unless it is open already.
allocateVirtualPort(m) ==
    \/ /\ m.port \notin allocated
       /\ allocated' = allocated \cup {m.port}
       /\ toOwner' = [toOwner EXCEPT ![m.port] = 0]
       /\ fromOwner' = [fromOwner EXCEPT ![m.port] = 0]
       /\ wrapper' = [wrapper EXCEPT ![m.from] = "opened"]
       /\ outcome' = [outcome EXCEPT ![m.from] = "opened"]
       /\ UNCHANGED peer
    \/ /\ m.port \in allocated
       /\ wrapper' = [wrapper EXCEPT ![m.from] = "refused"]
       /\ outcome' = [outcome EXCEPT ![m.from] = "refused"]
       /\ UNCHANGED portVars

\* The PAIR socket of the port is destroyed, whoever asks; the asker's own is closed when it
\* has the reply.
removeVirtualPort(m) ==
    /\ allocated' = allocated \ {m.port}
    /\ peer' = [peer EXCEPT ![m.port] = None]
    /\ wrapper' = [wrapper EXCEPT ![m.from] = "gone"]
    /\ UNCHANGED <<toOwner, fromOwner, outcome>>

\* Mutant: the request to close a port that is not open is not answered.
RepliesIfOpen ==
    LET m == Head(requests)
    IN  /\ thread = "round"
        /\ ~round.udp /\ round.request
        /\ requests' = Tail(requests)
        /\ \/ m.open /\ allocateVirtualPort(m)
           \/ ~m.open /\ m.port \in allocated /\ removeVirtualPort(m)
           \/ ~m.open /\ m.port \notin allocated /\ UNCHANGED <<portVars, wrapper, outcome>>
        /\ Served([round EXCEPT !.request = FALSE])
        /\ UNCHANGED <<timeToShutdownFlag, udp, associatedVirtualPort, threads>>

\* The request is served and answered; a close that fails is answered all the same.
processAddOrRemoveVirtualPortMessage ==
    LET m == Head(requests)
    IN  /\ thread = "round"
        /\ ~round.udp /\ round.request
        /\ requests' = Tail(requests)
        /\ \/ m.open /\ allocateVirtualPort(m)
           \/ ~m.open /\ removeVirtualPort(m)
        /\ Served([round EXCEPT !.request = FALSE])
        /\ UNCHANGED <<timeToShutdownFlag, udp, associatedVirtualPort, threads>>

\* The ports are served in their order.
NextPort(p) ==
    /\ thread = "round"
    /\ ~round.udp /\ ~round.request
    /\ p \in round.ports
    /\ \A q \in round.ports : p <= q

processOutgoingUDPMessage(p) ==
    /\ NextPort(p)
    /\ p \in allocated
    /\ fromOwner' = [fromOwner EXCEPT ![p] = @ - 1]
    /\ Served([round EXCEPT !.ports = @ \ {p}])
    /\ UNCHANGED <<timeToShutdownFlag, allocated, peer, toOwner, udp, requests, wrapperVars>>

\* An exception ends the thread: the port has been closed in this round, or sendto has failed.
PortIsGone(p)  == NextPort(p) /\ p \notin allocated /\ Ends
SendToFails(p) == NextPort(p) /\ p \in allocated /\ Ends

Router ==
    \/ Stops \/ Starts \/ Polls
    \/ processIncomingUDPMessage
    \/ processAddOrRemoveVirtualPortMessage
    \/ \E p \in Ports : processOutgoingUDPMessage(p) \/ PortIsGone(p) \/ SendToFails(p)

\* ~virtualPortRouter sets the flag and joins the thread.
ShutDown ==
    /\ ~timeToShutdownFlag
    /\ timeToShutdownFlag' = TRUE
    /\ UNCHANGED <<thread, round, portVars, udp, requests, wrapperVars>>

\* A datagram comes in; one that finds the socket full is lost, and so changes nothing.
Arrives(p) ==
    /\ Len(udp) < MaximumDatagrams
    /\ udp' = Append(udp, p)
    /\ UNCHANGED <<thread, round, timeToShutdownFlag, portVars, requests, wrapperVars>>

-----------------------------------------------------------------------------
(***************************************************************************)
(* The wrappers                                                            *)
(***************************************************************************)

Linked(w) ==
    /\ associatedVirtualPort[w] # None
    /\ peer[associatedVirtualPort[w]] = w

\* A thread is in a call of one of its wrappers until that returns.
InCall(w) == wrapper[w] \in {"opening", "opened", "sending", "closing"}
Free(t)   == t \notin paused /\ \A w \in Wrappers : owner[w] = t => ~InCall(w)

\* The port is noted before it is asked for.
bind(w, p) ==
    /\ wrapper[w] = "new"
    /\ Free(owner[w])
    /\ associatedVirtualPort' = [associatedVirtualPort EXCEPT ![w] = p]
    /\ requests' = Append(requests, [from |-> w, open |-> TRUE, port |-> p])
    /\ wrapper' = [wrapper EXCEPT ![w] = "opening"]
    /\ UNCHANGED <<thread, round, timeToShutdownFlag, portVars, udp, outcome, threads>>

\* Its PAIR socket connects, if the router's is still there to connect to.
Connects(w) ==
    LET p == associatedVirtualPort[w]
    IN  /\ wrapper[w] = "opened"
        /\ wrapper' = [wrapper EXCEPT ![w] = "bound"]
        /\ peer' = [peer EXCEPT ![p] = IF p \in allocated /\ @ = None THEN w ELSE @]
        /\ UNCHANGED <<thread, round, timeToShutdownFlag, allocated, toOwner, fromOwner,
                       udp, requests, associatedVirtualPort, outcome, threads>>

\* The flags that are passed to send are not used: it waits, for ever if the router's socket
\* is gone.
send(w) ==
    /\ wrapper[w] = "bound"
    /\ Free(owner[w])
    /\ wrapper' = [wrapper EXCEPT ![w] = "sending"]
    /\ UNCHANGED <<thread, round, timeToShutdownFlag, portVars, udp, requests,
                   associatedVirtualPort, outcome, threads>>

Sent(w) ==
    LET p == associatedVirtualPort[w]
    IN  /\ wrapper[w] = "sending"
        /\ Linked(w)
        /\ fromOwner[p] < HighWater
        /\ fromOwner' = [fromOwner EXCEPT ![p] = @ + 1]
        /\ wrapper' = [wrapper EXCEPT ![w] = "bound"]
        /\ UNCHANGED <<thread, round, timeToShutdownFlag, allocated, peer, toOwner, udp,
                       requests, associatedVirtualPort, outcome, threads>>

recv(w) ==
    LET p == associatedVirtualPort[w]
    IN  /\ wrapper[w] = "bound"
        /\ Free(owner[w])
        /\ Linked(w)
        /\ toOwner[p] > 0
        /\ toOwner' = [toOwner EXCEPT ![p] = @ - 1]
        /\ UNCHANGED <<thread, round, timeToShutdownFlag, allocated, peer, fromOwner, udp,
                       requests, wrapperVars>>

\* The destructor asks for its port to be closed, also if it was refused, and waits for the
\* reply; a port that was never set may be any.
Destroys(w, p) ==
    /\ wrapper[w] \in {"new", "refused", "bound"}
    /\ Free(owner[w])
    /\ associatedVirtualPort[w] \in {None, p}
    /\ requests' = Append(requests, [from |-> w, open |-> FALSE, port |-> p])
    /\ wrapper' = [wrapper EXCEPT ![w] = "closing"]
    /\ UNCHANGED <<thread, round, timeToShutdownFlag, portVars, udp,
                   associatedVirtualPort, outcome, threads>>

\* A node that is paused waits on its condition variable, between two rounds of its loop.
PausesOrResumes(t) ==
    /\ \/ Free(t) /\ paused' = paused \cup {t}
       \/ t \in paused /\ paused' = paused \ {t}
    /\ UNCHANGED <<thread, round, timeToShutdownFlag, portVars, udp, requests, wrapper,
                   associatedVirtualPort, outcome, owner>>

Next ==
    \/ Router
    \/ ShutDown
    \/ \E p \in Ports : Arrives(p)
    \/ \E w \in Wrappers, p \in Ports : bind(w, p) \/ Destroys(w, p)
    \/ \E w \in Wrappers : Connects(w) \/ send(w) \/ Sent(w) \/ recv(w)
    \/ \E w \in Wrappers : PausesOrResumes(owner[w])

\* Threads run: the router's and the wrappers', whose calls go on once they can.  A thread
\* that is free again and again polls all its wrappers, and reads what is there.
Fairness ==
    /\ WF_vars(Router)
    /\ \A w \in Wrappers : WF_vars(Connects(w)) /\ WF_vars(Sent(w)) /\ SF_vars(recv(w))

Spec     == Init /\ [][Next]_vars
FairSpec == Spec /\ Fairness

-----------------------------------------------------------------------------
(***************************************************************************)
(* Properties                                                              *)
(***************************************************************************)

Waiting(w) == wrapper[w] \in {"opening", "closing"}

\* Every variable has its type.  Who waits has one request in the REP socket, nobody else has
\* one, until the thread ends.
TypeOK ==
    /\ thread \in {"start", "polling", "round", "ended"}
    /\ round \in [udp : BOOLEAN, request : BOOLEAN, ports : SUBSET Ports]
    /\ timeToShutdownFlag \in BOOLEAN
    /\ allocated \subseteq Ports
    /\ peer \in [Ports -> Wrappers \cup {None}]
    /\ \A p \in Ports : peer[p] # None => p \in allocated
    /\ toOwner \in [Ports -> 0 .. HighWater]
    /\ fromOwner \in [Ports -> 0 .. HighWater]
    /\ udp \in Seq(Ports)
    /\ requests \in Seq([from : Wrappers, open : BOOLEAN, port : Ports])
    /\ wrapper \in [Wrappers ->
           {"new", "opening", "opened", "refused", "bound", "sending", "closing", "gone"}]
    /\ associatedVirtualPort \in [Wrappers -> Ports \cup {None}]
    /\ outcome \in [Wrappers -> {None, "opened", "refused"}]
    /\ owner \in [Wrappers -> Threads]
    /\ paused \subseteq Threads

\* From the reply to its bind to its destructor, a wrapper's port is open and leads to nobody
\* else: unless the router's thread has ended, which closes all ports, or a wrapper that
\* never got a port was destroyed, whose destructor closes the port of another all the same.
HoldersKeepTheirPort ==
    \/ thread = "ended"
    \/ \E v \in Wrappers : wrapper[v] = "gone" /\ outcome[v] # "opened"
    \/ \A w \in Wrappers : wrapper[w] \in {"opened", "bound", "sending"} =>
           /\ associatedVirtualPort[w] \in allocated
           /\ peer[associatedVirtualPort[w]] = IF wrapper[w] = "opened" THEN None ELSE w

\* A thread that reads none of its wrappers: it is paused, or in a call of one of them that
\* waits for the router to reply or to make room, or for a socket the router has closed.
Stuck(t) ==
    \/ t \in paused
    \/ \E v \in Wrappers :
          /\ owner[v] = t
          /\ \/ Waiting(v)
             \/ wrapper[v] = "sending"
                /\ (Linked(v) => fromOwner[associatedVirtualPort[v]] = HighWater)

\* The router waits to pass a datagram on to a wrapper whose thread is stuck.
HeldBy(w) ==
    /\ thread = "round" /\ round.udp
    /\ Linked(w)
    /\ Head(udp) = associatedVirtualPort[w]
    /\ toOwner[associatedVirtualPort[w]] = HighWater
    /\ Stuck(owner[w])

\* Every request is answered and the router's destructor returns, unless the thread has ended
\* (in an exception, or because it was told to), or the router and a thread are held by each
\* other for ever: the router by the full socket of one wrapper of a thread that is paused or
\* waits in a call of any of its wrappers.
NobodyWaitsForEver ==
    LET Over == thread = "ended" \/ \E v \in Wrappers : HeldBy(v)
    IN  /\ \A w \in Wrappers : Waiting(w) ~> (~Waiting(w) \/ []Over)
        /\ timeToShutdownFlag ~> (thread = "ended" \/ []Over)

\* A port that the poll has found and that is gone when it is read, which ends the thread, is
\* the one that the request of this very round has closed.
StalePortIsTheOneClosed ==
    /\ Cardinality(round.ports \ allocated) <= 1
    /\ round.udp \/ round.request => round.ports \subseteq allocated
    /\ \A p \in round.ports \ allocated :
           \E w \in Wrappers : wrapper[w] = "gone" /\ associatedVirtualPort[w] \in {p, None}
=============================================================================
