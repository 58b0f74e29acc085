----------------------------- MODULE Endpoints -----------------------------
(***************************************************************************)
(* The objects a program talks through: localStreamPublisher and           *)
(* localReplier, which register a URI and bind a socket in the messaging   *)
(* directory, and localStreamSubscriber and localRequester, which connect  *)
(* to the socket of a name, registered or not.                             *)
(*                                                                         *)
(* A URI is its resource name and the tag its kind adds; the database is   *)
(* what URIRegistry promises (adding may be refused at any time) while no  *)
(* insert of a tag has failed, and a call to it is one step here:          *)
(* LocalURIProxy has the way there and back.                               *)
(* An answer may fail to reach a constructor or destructor, and a removal  *)
(* may fail in the server.                                                 *)
(* Each object is alone in its process, which may be killed at any moment; *)
(* the server lives.  The sockets are libzmq's: bind replaces the file of  *)
(* the path, close removes it, whoever bound it; a socket that connects    *)
(* keeps trying, refuses a peer of the wrong kind, and keeps its           *)
(* connection when the file is replaced.                                   *)
(***************************************************************************)
EXTENDS Naturals, Sequences

CONSTANTS
    Publishers, Repliers,      \* objects that register
    Subscribers, Requesters,   \* objects that connect
    Names,                     \* resource names
    None

Objects == Publishers \cup Repliers
Users   == Subscribers \cup Requesters
Tags    == {"PUBLISHER_TAG", "REPLIER_TAG"}

ASSUME EndpointsAssumption ==
    /\ Publishers \cap Repliers = {}
    /\ Subscribers \cap Requesters = {}
    /\ None \notin Names \cup Objects \cup Users \cup Tags

Tag(o) == IF o \in Publishers THEN "PUBLISHER_TAG" ELSE "REPLIER_TAG"
Sought(u) == IF u \in Subscribers THEN "PUBLISHER_TAG" ELSE "REPLIER_TAG"

VARIABLES
    registered,  \* the server's database: name -> tag, None where there is no URI
    state,       \* how far an object's constructor and destructor are
    name,        \* the resource name of its URI
    file,        \* name -> the object whose socket file the path is
    target,      \* the name a user has connected to
    link,        \* the object its connection leads to
    inbox,       \* the requests a replier has not read yet
    owes,        \* the requester it has to answer next
    phase        \* of a requester: "idle", "queued" in its socket, "delivered", "answered",
                 \* "lost" or "closed"; of a subscriber: "answered" is by a message

objectVars == <<registered, state, name, file>>
userVars   == <<target, link, inbox, owes, phase>>
vars == <<objectVars, userVars>>

Open(o) == state[o] \in {"bound", "removed", "unremoved"}

Init ==
    /\ registered = [n \in Names |-> None]
    /\ state = [o \in Objects |-> "none"]
    /\ name = [o \in Objects |-> None]
    /\ file = [n \in Names |-> None]
    /\ target = [u \in Users |-> None]
    /\ link = [u \in Users |-> None]
    /\ inbox = [o \in Objects |-> << >>]
    /\ owes = [o \in Objects |-> None]
    /\ phase = [u \in Users |-> "idle"]

-----------------------------------------------------------------------------
(***************************************************************************)
(* Constructors                                                            *)
(***************************************************************************)

\* The URI is sent with the tag of its kind and accepted.
Registers(o, n) ==
    /\ state[o] = "none"
    /\ registered[n] = None
    /\ registered' = [registered EXCEPT ![n] = Tag(o)]
    /\ state' = [state EXCEPT ![o] = "registered"]
    /\ name' = [name EXCEPT ![o] = n]
    /\ UNCHANGED <<file, userVars>>

\* Mutant: a constructor that is refused removes the URI, as the destructor would.
RefusedAndRemoved(o, n) ==
    /\ state[o] = "none"
    /\ state' = [state EXCEPT ![o] = "refused"]
    /\ name' = [name EXCEPT ![o] = n]
    /\ registered' = [registered EXCEPT ![n] = None]
    /\ UNCHANGED <<file, userVars>>

\* Mutant: the socket is bound before the URI is sent, and closed when that is refused.
BoundAndRefused(o, n) ==
    /\ state[o] = "none"
    /\ state' = [state EXCEPT ![o] = "refused"]
    /\ name' = [name EXCEPT ![o] = n]
    /\ file' = [file EXCEPT ![n] = None]
    /\ UNCHANGED <<registered, userVars>>

\* The URI is refused: the constructor throws, and no destructor runs.
Refused(o, n) ==
    /\ state[o] = "none"
    /\ state' = [state EXCEPT ![o] = "refused"]
    /\ name' = [name EXCEPT ![o] = n]
    /\ UNCHANGED <<registered, file, userVars>>

Binds(o) ==
    /\ state[o] = "registered"
    /\ state' = [state EXCEPT ![o] = "bound"]
    /\ file' = [file EXCEPT ![name[o]] = o]
    /\ UNCHANGED <<registered, name, userVars>>

\* The constructor throws after it has registered (the answer of the server is lost, or there
\* is no socket); no destructor runs.
BindFails(o) ==
    /\ state[o] = "registered"
    /\ state' = [state EXCEPT ![o] = "failed"]
    /\ UNCHANGED <<registered, name, file, userVars>>

-----------------------------------------------------------------------------
(***************************************************************************)
(* The end of an object                                                    *)
(***************************************************************************)

\* What its users lose with an object: connections, and requests it has not answered.
Disconnected(o) ==
    /\ link' = [u \in Users |-> IF link[u] = o THEN None ELSE link[u]]
    /\ phase' = [u \in Users |-> IF link[u] = o /\ phase[u] = "delivered" THEN "lost" ELSE phase[u]]
    /\ inbox' = [inbox EXCEPT ![o] = << >>]
    /\ owes' = [owes EXCEPT ![o] = None]
    /\ UNCHANGED target

\* Mutant: the destructor leaves the URI to the socket.
RemovesNothing(o) ==
    /\ state[o] = "bound"
    /\ state' = [state EXCEPT ![o] = "removed"]
    /\ UNCHANGED <<registered, name, file, userVars>>

\* The destructor's removal fails or throws: what is printed is all that comes of it.
RemovalFails(o) ==
    /\ state[o] = "bound"
    /\ state' = [state EXCEPT ![o] = "unremoved"]
    /\ UNCHANGED <<registered, name, file, userVars>>

\* The destructor removes the URI of its name, whoever's that is.
Removes(o) ==
    /\ state[o] = "bound"
    /\ registered' = [registered EXCEPT ![name[o]] = None]
    /\ state' = [state EXCEPT ![o] = "removed"]
    /\ UNCHANGED <<name, file, userVars>>

\* The socket is a member: it is closed after the destructor's body.
Closes(o) ==
    /\ state[o] \in {"removed", "unremoved"}
    /\ state' = [state EXCEPT ![o] = IF @ = "removed" THEN "gone" ELSE "left"]
    /\ file' = [file EXCEPT ![name[o]] = None]
    /\ Disconnected(o)
    /\ UNCHANGED <<registered, name>>

\* The process dies: its URI and its file stay.
Killed(o) ==
    /\ state[o] = "registered" \/ Open(o)
    /\ state' = [state EXCEPT ![o] = "killed"]
    /\ Disconnected(o)
    /\ UNCHANGED <<registered, name, file>>

-----------------------------------------------------------------------------
(***************************************************************************)
(* Users                                                                   *)
(***************************************************************************)

Connects(u, n) ==
    /\ target[u] = None
    /\ phase[u] = "idle"
    /\ target' = [target EXCEPT ![u] = n]
    /\ UNCHANGED <<objectVars, link, inbox, owes, phase>>

\* The constructor connects to any name it is given; whether a URI of that name is registered
\* is its caller's affair.
localRequester(u, n) == u \in Requesters /\ Connects(u, n)

\* Each subscription is a user of its own: a subscriber of several names is several.
subscribe(u, n) == u \in Subscribers /\ Connects(u, n)

\* libzmq reaches the socket the path leads to, if it is open and of the right kind.
Links(u) ==
    /\ link[u] = None
    /\ \E o \in Objects :
          /\ target[u] # None
          /\ file[target[u]] = o
          /\ Open(o)
          /\ Tag(o) = Sought(u)
          /\ link' = [link EXCEPT ![u] = o]
    /\ UNCHANGED <<objectVars, target, inbox, owes, phase>>

\* Subscribers that are not connected miss the message.
publish(o) ==
    /\ o \in Publishers
    /\ state[o] = "bound"
    /\ phase' = [u \in Users |-> IF link[u] = o THEN "answered" ELSE phase[u]]
    /\ UNCHANGED <<objectVars, target, link, inbox, owes>>

\* receiveMessage and getReply: the message in the socket is taken.
Receives(u) ==
    /\ phase[u] = "answered"
    /\ phase' = [phase EXCEPT ![u] = "idle"]
    /\ UNCHANGED <<objectVars, target, link, inbox, owes>>

\* The socket holds the request until there is a connection.
sendRequest(u) ==
    /\ u \in Requesters
    /\ target[u] # None
    /\ phase[u] = "idle"
    /\ phase' = [phase EXCEPT ![u] = "queued"]
    /\ UNCHANGED <<objectVars, target, link, inbox, owes>>

Delivers(u) ==
    /\ phase[u] = "queued"
    /\ link[u] # None
    /\ phase' = [phase EXCEPT ![u] = "delivered"]
    /\ inbox' = [inbox EXCEPT ![link[u]] = Append(@, u)]
    /\ UNCHANGED <<objectVars, target, link, owes>>

\* Mutant: the next request is taken before the last is answered.
getNextRequest(o) ==
    /\ state[o] = "bound"
    /\ inbox[o] # << >>
    /\ owes' = [owes EXCEPT ![o] = Head(inbox[o])]
    /\ inbox' = [inbox EXCEPT ![o] = Tail(@)]
    /\ UNCHANGED <<objectVars, target, link, phase>>

getRequest(o) ==
    /\ state[o] = "bound"
    /\ owes[o] = None
    /\ inbox[o] # << >>
    /\ owes' = [owes EXCEPT ![o] = Head(inbox[o])]
    /\ inbox' = [inbox EXCEPT ![o] = Tail(@)]
    /\ UNCHANGED <<objectVars, target, link, phase>>

\* The reply goes to the requester of the last request, unless that is gone.
sendReply(o) ==
    /\ state[o] = "bound"
    /\ owes[o] # None
    /\ owes' = [owes EXCEPT ![o] = None]
    /\ phase' = [phase EXCEPT ![owes[o]] = IF link[owes[o]] = o THEN "answered" ELSE @]
    /\ UNCHANGED <<objectVars, target, link, inbox>>

\* The user's socket is closed; a replier may still hold its request.
Leaves(u) ==
    /\ target[u] # None
    /\ target' = [target EXCEPT ![u] = None]
    /\ link' = [link EXCEPT ![u] = None]
    /\ phase' = [phase EXCEPT ![u] = "closed"]
    /\ UNCHANGED <<objectVars, inbox, owes>>

Next ==
    \/ \E o \in Objects, n \in Names : Registers(o, n) \/ Refused(o, n)
    \/ \E o \in Objects : Binds(o) \/ BindFails(o) \/ Killed(o)
    \/ \E o \in Objects : Removes(o) \/ RemovalFails(o) \/ Closes(o)
    \/ \E u \in Users, n \in Names : localRequester(u, n) \/ subscribe(u, n)
    \/ \E u \in Users : Links(u) \/ Receives(u) \/ sendRequest(u) \/ Delivers(u) \/ Leaves(u)
    \/ \E o \in Objects : publish(o) \/ getRequest(o) \/ sendReply(o)

\* libzmq connects and delivers, a destructor that has begun ends (the server answers), and a
\* program that has a replier serves it.  Nothing has to be sent, published or destroyed.
Fairness ==
    /\ \A u \in Users : WF_vars(Links(u)) /\ WF_vars(Delivers(u))
    /\ \A o \in Objects : /\ WF_vars(Closes(o))
                         /\ WF_vars(getRequest(o))
                         /\ WF_vars(sendReply(o))

Spec     == Init /\ [][Next]_vars
FairSpec == Spec /\ Fairness

-----------------------------------------------------------------------------
(***************************************************************************)
(* Properties                                                              *)
(***************************************************************************)

States == {"none", "refused", "registered", "bound", "failed", "removed", "unremoved", "gone",
           "left", "killed"}
Phases == {"idle", "queued", "delivered", "answered", "lost", "closed"}

\* Every variable has its type; only an open socket has connections, and they are of its kind.
TypeOK ==
    /\ registered \in [Names -> Tags \cup {None}]
    /\ state \in [Objects -> States]
    /\ name \in [Objects -> Names \cup {None}]
    /\ \A o \in Objects : name[o] = None <=> state[o] = "none"
    /\ file \in [Names -> Objects \cup {None}]
    /\ target \in [Users -> Names \cup {None}]
    /\ link \in [Users -> Objects \cup {None}]
    /\ \A u \in Users : link[u] # None => Open(link[u]) /\ Tag(link[u]) = Sought(u)
    /\ inbox \in [Objects -> Seq(Users)]
    /\ owes \in [Objects -> Users \cup {None}]
    /\ phase \in [Users -> Phases]

Holding == {"registered", "bound", "failed", "unremoved", "left"}

\* From the server's answer to the confirmed removal, an object that is not killed has its
\* name to itself and is found under it, even when its constructor or its removal has failed:
\* no refused constructor, no late destructor of an earlier holder takes the URI away.
OwnersRegistered ==
    \A o \in Objects : state[o] \in Holding =>
        /\ registered[name[o]] = Tag(o)
        /\ \A p \in Objects \ {o} : state[p] \in Holding => name[p] # name[o]

\* A URI whose object is gone is one of three: its process was killed, its constructor threw
\* after the registration, or its removal failed.  A destructor whose removal is confirmed
\* leaves none behind, whatever the order in which several ended.
OnlyFailuresLeaveNames ==
    \A n \in Names : registered[n] # None =>
        \E o \in Objects : /\ name[o] = n
                          /\ Tag(o) = registered[n]
                          /\ state[o] \in Holding \cup {"killed"}

Reachable(o) == state[o] = "bound" /\ file[name[o]] = o

\* A bound object loses its file in one way only: an earlier holder of the name, which had
\* given it back before its own socket was closed, closes it now.
ReachLostOnlyToALateClose ==
    [][\A o \in Objects :
          Reachable(o) /\ state'[o] = "bound" /\ ~Reachable(o)' =>
              \E p \in Objects \ {o} :
                  name[p] = name[o] /\ state[p] = "removed" /\ state'[p] = "gone"]_vars

Unanswered(u) == phase[u] \in {"queued", "delivered"}

\* A request is answered, lost with the replier that has read it, or finds no replier at the
\* path, whatever was registered when its sender connected.
RequestsServed ==
    \A u \in Requesters :
        Unanswered(u) ~> \/ ~Unanswered(u)
                         \/ ~\E o \in Repliers : name[o] = target[u] /\ Reachable(o)

\* The database as these objects see it goes through a run of URIRegistry: whatever the order
\* of their constructors and destructors, each call has an outcome the database could give it.
Message(n, tag) == [name |-> n, path |-> n, pid |-> None,
                    attributes |-> [kind \in {"URItags"} |-> <<[key |-> tag, value |-> 0]>>]]
Entry(n, tag) == [name |-> n, path |-> n, pid |-> None,
                  attributes |-> [kind \in {"URItags"} |-> {[key |-> tag, value |-> 0]}]]
uris == {Entry(n, registered[n]) : n \in {m \in Names : registered[m] # None}}
Registry == INSTANCE URIRegistry WITH
    entries <- uris, Kinds <- {"URItags"}, MaxAttributes <- 1, TooLong <- {},
    LocalURIs <- {Message(n, tag) : n \in Names, tag \in Tags}
UsesRegistry == Registry!Spec
=============================================================================
