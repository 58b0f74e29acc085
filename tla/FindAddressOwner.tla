------------------------- MODULE FindAddressOwner -------------------------
(***************************************************************************)
(* The lookups of one node of the Chord prototype (chordNode, with         *)
(* findAddressOwnerRequest): who owns an address is found by asking the    *)
(* closest known predecessor, then the one it names, and so on; the nodes  *)
(* on the way are kept on a stack, to fall back on.                        *)
(*                                                                         *)
(* Questions and answers are datagrams: network holds every question ever  *)
(* sent, and its answer may come at any time, more than once, or never;    *)
(* so answers are late, lost, doubled and out of order.  Time is left out: *)
(* the next event may be due at any moment.  All of them have one delay,   *)
(* so they are due in the order in which they were scheduled.              *)
(*                                                                         *)
(* The finger table is FingerTable's, of which only best is kept: by       *)
(* ReferencesCounted the rest follows from it, and contacts play no part.  *)
(***************************************************************************)
EXTENDS Integers, FiniteSets, Sequences

CONSTANTS
    IDBits, FingerTableSize, chordID, Nodes,  \* as in FingerTable
    Knows,              \* node -> nodes its table may hold
    HeardOf,            \* nodes that other messages than answers come from
    Clients,            \* REQ sockets connected to the node
    Addresses,          \* what they look up
    MaximumResends,     \* MAXIMUM_NUMBER_OF_PREDECESSOR_REQUEST_RESENDS
    MaximumBadReferences,  \* MAXIMUM_NUMBER_OF_BAD_REFERENCES
    MaximumLookups      \* bound: lookups the clients ask for

\* The table as it is when its slots hold b.
Table(b) == INSTANCE FingerTable WITH
    best <- b,
    IDReferenceCounts <- [id \in Nodes |-> Cardinality({s \in DOMAIN b : b[s] = id})
                                           + (IF id = chordID THEN 1 ELSE 0)],
    idToContactInfo <- [id \in Nodes |-> 0],
    checked <- {}, resolved <- {}, Contacts <- {0}, SelfContact <- 0, NoContact <- 1

Fingers == 0 .. (FingerTableSize - 1)
Slots   == 0 .. (FingerTableSize + 1)
IDs     == 0 .. (2 ^ IDBits - 1)

\* Unsigned subtraction: how far a lies behind b.
Minus(a, b) == IF b <= a THEN a - b ELSE a - b + 2 ^ IDBits

\* The node's own DEALER socket, by which it looks up the targets of its fingers.
Requesters == Clients \cup {chordID}
NoNumber == 0   \* no internal_request_id: message numbers start at 1
NoOwner  == -1  \* an empty reply: the lookup has failed

ASSUME FindAddressOwnerAssumption ==
    /\ IDBits \in Nat \ {0}
    /\ 2 ^ IDBits \in Nat \ {0}
    /\ FingerTableSize \in 0 .. (IDBits - 1)
    /\ Nodes \subseteq IDs
    /\ chordID \in Nodes
    /\ HeardOf \subseteq Nodes
    /\ Knows \in [Nodes -> SUBSET Nodes]
    /\ Addresses \subseteq IDs
    /\ Clients \cap Nodes = {}
    /\ MaximumResends \in Nat
    /\ MaximumBadReferences \in Nat
    /\ MaximumLookups \in Nat

VARIABLES
    running,       \* the node's thread is in operateNode
    best,          \* nodeFingerTable: slot -> node
    nodeMessageNumberIndex,
    requests,      \* requestIDToAddressOwnerRequest: live ids -> findAddressOwnerRequest
    connectionID,  \* findAddressOwnerRequestIDToConnectionID: ids -> requester
    eventQueue,    \* timeouts of questions, by id
    network,       \* questions sent: [id |-> , to |-> ]
    fingerIndex,   \* requestIDToFingerTableEntryIndex
    fingerTableUpdateHasTakePlace,
    toHandler,     \* requests the ROUTER has not read yet
    toDealer,      \* replies the DEALER has not read yet
    owed,          \* requester -> requests to be read that it has sent less replies it was sent
    lookups,       \* lookups asked for so far
    ignored        \* clients whose request the node could not read

lookupVars == <<requests, connectionID, eventQueue, network, nodeMessageNumberIndex>>
fingerVars == <<fingerIndex, fingerTableUpdateHasTakePlace>>
socketVars == <<toHandler, toDealer, owed, lookups, ignored>>
vars == <<running, best, lookupVars, fingerVars, socketVars>>

-----------------------------------------------------------------------------
(***************************************************************************)
(* The finger table's operations, as functions of its slots                *)
(***************************************************************************)

checkAndUpdateIfBetter(b, id) ==
    [s \in Slots |-> IF s \in Table(b)!Improved(id) THEN id ELSE b[s]]

replaceWithNextBestOption(b, id) ==
    [s \in Slots |-> IF s \in Table(b)!Replaced(id) THEN Table(b)!NextKnown(id) ELSE b[s]]

successorID == best[FingerTableSize]

-----------------------------------------------------------------------------
(***************************************************************************)
(* Maps                                                                    *)
(***************************************************************************)

With(map, id, value) ==
    [other \in DOMAIN map \cup {id} |-> IF other = id THEN value ELSE map[other]]

Without(map, id) == [other \in DOMAIN map \ {id} |-> map[other]]

-----------------------------------------------------------------------------
(***************************************************************************)
(* findAddressOwnerRequest: path is closestKnownPredecessors, its last the *)
(* top of the stack; seen holds the maps that are indexed by a node's id.  *)
(***************************************************************************)

Top(r) == r.path[Len(r.path)]
Pop(r) == [r EXCEPT !.path = SubSeq(@, 1, Len(@) - 1)]

NewEntry(source) == [source |-> source, resends |-> 0, bad |-> 0]

\* The entries of source and of the node it names; those that exist stay as they are.
WithEntries(seen, id, source) ==
    [node \in DOMAIN seen \cup {id, source} |->
        IF node \in DOMAIN seen THEN seen[node] ELSE NewEntry(source)]

\* Mutant: a node that is known already is added again.
AddedAgain(r, id, source) ==
    IF r.path # << >> /\ Top(r) # source THEN r
    ELSE [r EXCEPT !.seen = WithEntries(@, id, source), !.path = Append(@, id)]

\* A node named by source is added if it is new and source is the node last asked.
addClosestKnownPredecessorIfNew(r, id, source) ==
    IF id \in DOMAIN r.seen \/ (r.path # << >> /\ Top(r) # source) THEN r
    ELSE [r EXCEPT !.seen = WithEntries(@, id, source), !.path = Append(@, id)]

NewRequest(address, predecessor, number) ==
    addClosestKnownPredecessorIfNew(
        [target |-> address, number |-> number, path |-> << >>, seen |-> << >>],
        predecessor, chordID)

\* No node seen lies closer behind the address.
checkIfBestSuccessorSeen(r, id) ==
    \A known \in DOMAIN r.seen : ~(Minus(known, r.target) < Minus(id, r.target))

-----------------------------------------------------------------------------
(***************************************************************************)
(* Sending                                                                 *)
(***************************************************************************)

\* Mutant: the question goes out under the number of the one before.
AskAgain(id, r, requester, number, queue) ==
    LET same == IF id \in DOMAIN requests THEN id ELSE number
    IN  /\ nodeMessageNumberIndex' = same
        /\ requests' = With(Without(requests, id), same, r)
        /\ connectionID' = With(Without(connectionID, id), same, requester)
        /\ eventQueue' = Append(queue, same)
        /\ network' = network \cup {[id |-> same, to |-> Top(r)]}

\* Mutant: no timeout is scheduled for a lookup that goes on.
AskOnce(id, r, requester, number, queue) ==
    /\ nodeMessageNumberIndex' = number
    /\ requests' = With(Without(requests, id), number, r)
    /\ connectionID' = With(Without(connectionID, id), number, requester)
    /\ eventQueue' = IF id \in DOMAIN requests THEN queue ELSE Append(queue, number)
    /\ network' = network \cup {[id |-> number, to |-> Top(r)]}

\* The lookup r moves from id to a new number, and its question goes to the top of its
\* path.  queue holds the events that stay.
sendFindPredecessorRequest(id, r, requester, number, queue) ==
    /\ nodeMessageNumberIndex' = number
    /\ requests' = With(Without(requests, id), number, r)
    /\ connectionID' = With(Without(connectionID, id), number, requester)
    /\ eventQueue' = Append(queue, number)
    /\ network' = network \cup {[id |-> number, to |-> Top(r)]}

\* The ROUTER's reply; what a client does with it is its own affair.
Reply(requester, owner, number) ==
    /\ owed' = [owed EXCEPT ![requester] = @ - 1]
    /\ toDealer' = IF requester = chordID
                   THEN Append(toDealer, [owner |-> owner, number |-> number])
                   ELSE toDealer

\* Mutant: the failure is not reported.
EndsSilently(id, owner) ==
    /\ IF owner = NoOwner THEN UNCHANGED <<owed, toDealer>>
       ELSE Reply(connectionID[id], owner, requests[id].number)
    /\ requests' = Without(requests, id)
    /\ connectionID' = Without(connectionID, id)

\* sendNodeAssociatedWithRequestMessageAndCleanupAssociatedData, and the one for a failure,
\* whose reply is empty: no owner and no number.
Ends(id, owner) ==
    /\ Reply(connectionID[id], owner,
             IF owner = NoOwner THEN NoNumber ELSE requests[id].number)
    /\ requests' = Without(requests, id)
    /\ connectionID' = Without(connectionID, id)

-----------------------------------------------------------------------------
(***************************************************************************)
(* Handlers                                                                *)
(***************************************************************************)

Init ==
    /\ running = TRUE
    /\ best = [s \in Slots |-> chordID]
    /\ nodeMessageNumberIndex = 0
    /\ requests = << >> /\ connectionID = << >>
    /\ eventQueue = << >>
    /\ network = {}
    /\ fingerIndex = << >>
    /\ fingerTableUpdateHasTakePlace \in BOOLEAN  \* static: another node may have had it
    /\ toHandler = {} /\ toDealer = << >>
    /\ owed = [r \in Requesters |-> 0]
    /\ lookups = 0 /\ ignored = {}

\* The other handlers check the nodes they hear of.
Hears(id) ==
    /\ running
    /\ best' = checkAndUpdateIfBetter(best, id)
    /\ UNCHANGED <<running, lookupVars, fingerVars, socketVars>>

\* A client sends a request.
Asks(c, address) ==
    /\ lookups < MaximumLookups
    /\ owed[c] = 0 /\ c \notin ignored  \* a REQ socket waits for its reply
    /\ toHandler' = toHandler \cup {[from |-> c, address |-> address, number |-> NoNumber]}
    /\ owed' = [owed EXCEPT ![c] = @ + 1]
    /\ lookups' = lookups + 1
    /\ UNCHANGED <<running, best, lookupVars, fingerVars, toDealer, ignored>>

\* A request with no part to read, that does not parse, or whose address is missing or has a
\* wrong size: the handler returns without a reply, and the client waits for ever.
IgnoresRequest(c) ==
    /\ running
    /\ owed[c] = 0 /\ c \notin ignored
    /\ ignored' = ignored \cup {c}
    /\ UNCHANGED <<running, best, lookupVars, fingerVars, toHandler, toDealer, owed, lookups>>

\* Only the first update of the program is made; the flag is set before the index is looked
\* at, which may be one too high (processEvent compares with >) and then throws.
updateFingerTable(i) ==
    /\ running
    /\ ~fingerTableUpdateHasTakePlace
    /\ fingerTableUpdateHasTakePlace' = TRUE
    /\ LET number == nodeMessageNumberIndex + 1
       IN  /\ nodeMessageNumberIndex' = number
           /\ toHandler' = toHandler \cup
                  {[from |-> chordID, address |-> Table(best)!Target(i), number |-> number]}
           /\ fingerIndex' = With(fingerIndex, number, i)
    /\ owed' = [owed EXCEPT ![chordID] = @ + 1]
    /\ UNCHANGED <<running, best, requests, connectionID, eventQueue, network,
                   toDealer, lookups, ignored>>

\* The lookup starts at the closest known predecessor of the address; if that is this node,
\* its successor is the answer.  The number it is stored under first is never sent.
processFindNodeAssociatedWithAddressRequest(m) ==
    LET predecessor == Table(best)!getClosestPredecessors(m.address, 1)[1]
        id == nodeMessageNumberIndex + 1
    IN  /\ running
        /\ toHandler' = toHandler \ {m}
        /\ \/ /\ predecessor = chordID
              /\ nodeMessageNumberIndex' = id
              /\ Reply(m.from, successorID, m.number)
              /\ UNCHANGED <<requests, connectionID, eventQueue, network>>
           \/ /\ predecessor # chordID
              /\ sendFindPredecessorRequest(id, NewRequest(m.address, predecessor, m.number),
                                            m.from, id + 1, eventQueue)
              /\ UNCHANGED <<toDealer, owed>>
        /\ UNCHANGED <<running, best, fingerVars, lookups, ignored>>

\* The owner found for a finger; a failure carries no owner and is ignored.
processFindAddressOwnerRequestReply ==
    /\ running
    /\ toDealer # << >>
    /\ toDealer' = Tail(toDealer)
    /\ LET m == Head(toDealer)
       IN  IF m.owner # NoOwner /\ m.number \in DOMAIN fingerIndex
           THEN /\ best' = [best EXCEPT ![fingerIndex[m.number]] = m.owner]
                /\ fingerIndex' = Without(fingerIndex, m.number)
           ELSE UNCHANGED <<best, fingerIndex>>
    /\ UNCHANGED <<running, lookupVars, fingerTableUpdateHasTakePlace, toHandler, owed, lookups,
                   ignored>>

\* How a node may answer (processClosestKnownPredecessorRequest), whatever its table holds:
\* with its successor, if that is closer behind the address than the node itself; otherwise
\* with what getClosestPredecessors finds, which is twice the highest node it knows.
Successors(node, address) == {s \in Knows[node] : Minus(s, address) < Minus(node, address)}
Predecessors(node) == {p \in Knows[node] : p > node} \cup {node}

\* An answer with a successor.  One that is not the best seen counts as a bad reference; the
\* lookup then waits for its timeout.
ProcessesSuccessor(m, s) ==
    LET r == requests[m.id]
    IN  /\ running
        /\ m.id \in DOMAIN requests
        /\ s \in Successors(m.to, r.target)
        /\ best' = checkAndUpdateIfBetter(checkAndUpdateIfBetter(best, m.to), s)
        /\ \/ /\ checkIfBestSuccessorSeen(r, s)
              /\ Ends(m.id, s)
           \/ /\ ~checkIfBestSuccessorSeen(r, s)
              /\ requests' = [requests EXCEPT ![m.id].seen[Top(r)].bad = MaximumBadReferences]
              /\ UNCHANGED <<connectionID, toDealer, owed>>
        /\ UNCHANGED <<running, eventQueue, network, nodeMessageNumberIndex, fingerVars,
                       toHandler, lookups, ignored>>

\* An answer with predecessors: the first new one is asked next; if there is none, the node
\* that answered is left for the one before it.
ProcessesPredecessors(m, p) ==
    LET r     == requests[m.id]
        added == addClosestKnownPredecessorIfNew(
                     addClosestKnownPredecessorIfNew(r, p, m.to), p, m.to)
        next  == IF Top(added) = Top(r) THEN Pop(added) ELSE added
    IN  /\ running
        /\ m.id \in DOMAIN requests
        /\ p \in Predecessors(m.to)
        /\ best' = checkAndUpdateIfBetter(checkAndUpdateIfBetter(best, m.to), p)
        /\ \/ /\ next.path = << >>
              /\ Ends(m.id, NoOwner)
              /\ UNCHANGED <<eventQueue, network, nodeMessageNumberIndex>>
           \/ /\ next.path # << >>
              /\ sendFindPredecessorRequest(m.id, next, connectionID[m.id],
                                            nodeMessageNumberIndex + 1, eventQueue)
              /\ UNCHANGED <<toDealer, owed>>
        /\ UNCHANGED <<running, fingerVars, toHandler, lookups, ignored>>

\* An answer whose number is not that of a lookup any more is ignored.
processClosestPredecessorRequestReply(m) ==
    \E node \in Nodes : ProcessesSuccessor(m, node) \/ ProcessesPredecessors(m, node)

-----------------------------------------------------------------------------
(***************************************************************************)
(* Timeouts                                                                *)
(***************************************************************************)

\* The events in the order in which they are due; processEvent passes over those whose
\* question has been answered, up to the i-th.
Due(i) ==
    /\ running
    /\ eventQueue[i] \in DOMAIN requests
    /\ \A j \in 1 .. (i - 1) : eventQueue[j] \notin DOMAIN requests

EventsAfter(i) == SubSeq(eventQueue, i + 1, Len(eventQueue))

ResendsLeft(r) == r.seen[Top(r)].resends < MaximumResends

\* Mutant: the resend is not counted.
SentForEver(r) == r

Resent(r) == [r EXCEPT !.seen[Top(r)].resends = @ + 1]

Resends(i) ==
    LET id == eventQueue[i]
        r  == requests[id]
    IN  /\ Due(i)
        /\ ResendsLeft(r)
        /\ sendFindPredecessorRequest(id, Resent(r), connectionID[id],
                                      nodeMessageNumberIndex + 1, EventsAfter(i))
        /\ UNCHANGED <<running, best, fingerVars, socketVars>>

\* The top of the path is given up, and its source blamed.
Blamed(r) == Pop([r EXCEPT !.seen[r.seen[Top(r)].source].bad = @ + 1])

TooBad(r) == r.seen[Top(r)].bad > MaximumBadReferences

\* The node before the top is asked, or the one before that if it has been blamed too often.
FallsBack(i) ==
    LET id     == eventQueue[i]
        r      == requests[id]
        blamed == Blamed(r)
        next   == IF TooBad(blamed) THEN Pop(blamed) ELSE blamed
        given  == replaceWithNextBestOption(best, Top(r))
    IN  /\ Due(i)
        /\ ~ResendsLeft(r)
        /\ Len(r.path) > 1
        /\ next.path # << >>
        /\ best' = IF TooBad(blamed) THEN replaceWithNextBestOption(given, Top(blamed))
                   ELSE given
        /\ sendFindPredecessorRequest(id, next, connectionID[id], nodeMessageNumberIndex + 1,
                                      EventsAfter(i))
        /\ UNCHANGED <<running, fingerVars, socketVars>>

\* Nobody is left to ask: the failure is sent, and the function goes on with the request
\* that is gone.  With the path emptied first it reads freed memory; with the node below
\* blamed too often it does not; both end in an exception (a second failure for no
\* connection, or a question for no request), which ends the thread, if not in a signal.
GivesUp(i) ==
    LET id     == eventQueue[i]
        r      == requests[id]
        blamed == Blamed(r)
        given  == replaceWithNextBestOption(best, Top(r))
    IN  /\ Due(i)
        /\ ~ResendsLeft(r)
        /\ \/ /\ blamed.path = << >>
              /\ best' = given
           \/ /\ Len(blamed.path) = 1
              /\ TooBad(blamed)
              /\ best' = replaceWithNextBestOption(given, Top(blamed))
        /\ Ends(id, NoOwner)
        /\ running' = FALSE
        /\ eventQueue' = EventsAfter(i)
        /\ UNCHANGED <<network, nodeMessageNumberIndex, fingerVars, toHandler, lookups, ignored>>

processEvent ==
    \E i \in DOMAIN eventQueue : Resends(i) \/ FallsBack(i) \/ GivesUp(i)

Next ==
    \/ \E id \in HeardOf : Hears(id)
    \/ \E c \in Clients, address \in Addresses : Asks(c, address)
    \/ \E c \in Clients : IgnoresRequest(c)
    \/ \E i \in Fingers : updateFingerTable(i)
    \/ \E m \in toHandler : processFindNodeAssociatedWithAddressRequest(m)
    \/ processFindAddressOwnerRequestReply
    \/ \E m \in network : processClosestPredecessorRequestReply(m)
    \/ processEvent

\* The node's thread takes what is in its sockets, and events that are due.  Nobody has to
\* answer.
Fairness ==
    /\ WF_vars(\E m \in toHandler : processFindNodeAssociatedWithAddressRequest(m))
    /\ WF_vars(processFindAddressOwnerRequestReply)
    /\ WF_vars(processEvent)

Spec     == Init /\ [][Next]_vars
FairSpec == Spec /\ Fairness

-----------------------------------------------------------------------------
(***************************************************************************)
(* Properties                                                              *)
(***************************************************************************)

Live == DOMAIN requests

\* The node's state has its type; a lookup's path is never empty, repeats no node, never asks
\* the node itself, and blames each node on the one before it.
TypeOK ==
    /\ running \in BOOLEAN
    /\ best \in [Slots -> Nodes]
    /\ nodeMessageNumberIndex \in Nat
    /\ Live \subseteq 1 .. nodeMessageNumberIndex
    /\ \A id \in Live :
          LET r == requests[id]
          IN  /\ r.path # << >>
              /\ \A i \in DOMAIN r.path : r.path[i] \in DOMAIN r.seen \ {chordID}
              /\ \A i, j \in DOMAIN r.path : r.path[i] = r.path[j] => i = j
              /\ \A i \in DOMAIN r.path :
                    r.seen[r.path[i]].source = IF i = 1 THEN chordID ELSE r.path[i - 1]
              /\ \A node \in DOMAIN r.seen :
                    /\ r.seen[node].source \in DOMAIN r.seen
                    /\ r.seen[node].resends \in 0 .. MaximumResends
    /\ network \subseteq [id : 1 .. nodeMessageNumberIndex, to : Nodes \ {chordID}]

\* Each request the node can read is owed exactly one reply until it is sent, and the node
\* holds a connection for just the lookups it holds: none is answered twice, none forgotten.
OneAnswerEach ==
    /\ DOMAIN connectionID = Live
    /\ \A c \in Requesters :
          owed[c] = Cardinality({id \in Live : connectionID[id] = c})
                    + Cardinality({m \in toHandler : m.from = c})

\* Whatever answer comes, however late or doubled: if its number is that of a live lookup,
\* it comes from the node the lookup is asking now.
AnswersMeetTheirQuestion ==
    \A m \in network : m.id \in Live => m.to = Top(requests[m.id])

\* A lookup that waits has a timeout scheduled under its present number, also after an
\* answer that was not believed.
TimeoutPending == running => \A id \in Live : \E i \in DOMAIN eventQueue : eventQueue[i] = id

\* Every request that can be read gets its answer, even if no other node ever answers, unless
\* the thread has ended.  Its sends to the router are taken to go through.
LookupsEnd == \A c \in Requesters : owed[c] > 0 ~> (owed[c] = 0 \/ ~running)
=============================================================================
