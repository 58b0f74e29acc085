----------------------------- MODULE URIService -----------------------------
(***************************************************************************)
(* What the server of a messaging directory promises to its clients,       *)
(* without tables, prepared statements or SQL: the registrations of        *)
(* URIRegistry, and clients that ask for them.                             *)
(*                                                                         *)
(* A request that waits gets one answer, and what it does to the           *)
(* registrations it does in the step of that answer, between the question  *)
(* and its reply.  So whatever the requests of many clients look like from *)
(* outside, they happen one after another.  An answer may come while its   *)
(* client dies; registrations stay then.  All of them end with the server. *)
(***************************************************************************)
EXTENDS LocalURIQuery

CONSTANTS Names, TooLong, Pids, NoPid, MaxAttributes, LocalURIs, Queries, None

VARIABLES
    entries,   \* the registrations
    inbox,     \* the request of a client that waits for its answer
    outbox,    \* the answer a client has not received yet
    server,    \* "running" or "exited"
    alive      \* the client processes that run

Registry == INSTANCE URIRegistry

clients == <<inbox, outbox, alive>>

Requests ==
    [kind : {"add"}, uri : LocalURIs] \cup [kind : {"remove"}, name : Names]
    \cup [kind : {"query"}, query : Queries] \cup [kind : {"other", "invalid"}]

Init ==
    /\ Registry!Init
    /\ inbox = [c \in Pids |-> None]
    /\ outbox = [c \in Pids |-> None]
    /\ server = "running"
    /\ alive = Pids

-----------------------------------------------------------------------------
(***************************************************************************)
(* Clients                                                                 *)
(***************************************************************************)

\* A client has one question at a time, and registers under its own pid or under none.
Ask(c, request) ==
    /\ c \in alive /\ inbox[c] = None /\ outbox[c] = None
    /\ request.kind = "add" => request.uri.pid \in {c, NoPid}
    /\ inbox' = [inbox EXCEPT ![c] = request]
    /\ UNCHANGED <<entries, outbox, server, alive>>

Receive(c) ==
    /\ c \in alive /\ outbox[c] # None
    /\ outbox' = [outbox EXCEPT ![c] = None]
    /\ UNCHANGED <<entries, inbox, server, alive>>

Dies(c) ==
    /\ c \in alive
    /\ alive' = alive \ {c}
    /\ outbox' = [outbox EXCEPT ![c] = None]
    /\ UNCHANGED <<entries, inbox, server>>

-----------------------------------------------------------------------------
(***************************************************************************)
(* Answers                                                                 *)
(***************************************************************************)
Answers(c, kind, value, names) ==
    /\ server = "running"
    /\ inbox[c] # None /\ inbox[c].kind = kind
    /\ inbox' = [inbox EXCEPT ![c] = None]
    /\ outbox' = [outbox EXCEPT ![c] =
                     IF c \in alive THEN [value |-> value, names |-> names] ELSE None]
    /\ UNCHANGED alive

\* Adding may be refused at any time; if it is confirmed the registration is there.
Registers(c) ==
    /\ Answers(c, "add", "REQUEST_SUCCEEDED", {})
    /\ Registry!Add(inbox[c].uri)
    /\ UNCHANGED server

Removes(c) ==
    /\ Answers(c, "remove", "REQUEST_SUCCEEDED", {})
    /\ Registry!Remove(inbox[c].name)
    /\ UNCHANGED server

\* What a query says of a registration.
Describes(q, e) ==
    Matches([kind \in Kinds |-> {[uri |-> 1, key |-> a.key, value |-> a.value]
                                    : a \in e.attributes[kind]}], 1, q)

NamesDescribed(q) == {e.name : e \in {registration \in entries : Describes(q, registration)}}

\* A registration that cannot be read back.
Unreadable(e) == \E a \in e.attributes[Double] : a.value = NaN

\* A query whose SQL can run is answered: with nothing it does not describe, if its doubles
\* are whole, and with all it describes, if it is plain and they are not more than it asks for.
\* Nothing that was found is unreadable.
Finds(c) ==
    LET q == inbox[c].query
    IN  \E names \in SUBSET {e.name : e \in entries} :
            /\ Answers(c, "query", "REQUEST_SUCCEEDED", names)
            /\ Usable(q)
            /\ WholeDoubles(q) => names \subseteq NamesDescribed(q)
            /\ Plain(q) /\ Asked(q, NamesDescribed(q)) => NamesDescribed(q) \subseteq names
            /\ \A e \in entries : e.name \in names => ~ Unreadable(e)
            /\ UNCHANGED <<entries, server>>

\* One registration that cannot be read back, and may be one the query describes, is enough
\* for the query to be refused.
Spoiled(q) == \E e \in entries : Unreadable(e) /\ (WholeDoubles(q) => Describes(q, e))

Refuses(c) ==
    /\ \/ \E kind \in {"add", "other"} : Answers(c, kind, "REQUEST_FAILED", {})
       \/ /\ Answers(c, "query", "REQUEST_FAILED", {})
          /\ ~ Usable(inbox[c].query) \/ Spoiled(inbox[c].query)
    /\ UNCHANGED <<entries, server>>

-----------------------------------------------------------------------------
\* All registrations are lost with the server.
Ends ==
    /\ server = "running"
    /\ server' = "exited"
    /\ entries' = {}

\* An invalid request is answered, and is the last one.
Breaks(c) == Answers(c, "invalid", "REQUEST_FAILED", {}) /\ Ends

Next ==
    \/ \E c \in Pids :
          \/ \E request \in Requests : Ask(c, request)
          \/ Receive(c)
          \/ Dies(c)
          \/ Registers(c) \/ Removes(c) \/ Finds(c) \/ Refuses(c) \/ Breaks(c)
    \/ Ends /\ UNCHANGED clients

Spec == Init /\ [][Next]_<<entries, clients, server>>
=============================================================================
