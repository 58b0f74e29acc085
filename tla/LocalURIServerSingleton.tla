---------------------- MODULE LocalURIServerSingleton ----------------------
(***************************************************************************)
(* The server process of a messaging directory: processRequests takes one  *)
(* request at a time from its REP socket, applies it to the database it    *)
(* holds in memory and sends the reply.  A client is the REQ socket of a   *)
(* process (the one its proxy thread holds), so it has one request under   *)
(* way at a time.  Client processes and the server may die at any moment;  *)
(* what a dead client had sent is still served, the reply goes nowhere.    *)
(*                                                                         *)
(* Abstracted: protobuf encoding (a request is a record, or "invalid" when *)
(* a required field is missing), the content of query replies beyond the   *)
(* names they list, multi-part messages.                                   *)
(***************************************************************************)
EXTENDS LocalURIDatabase

CONSTANT None   \* an empty mailbox

\* The requests a client can send.
Requests ==
    [kind : {"add"}, uri : LocalURIs] \cup [kind : {"remove"}, name : Names]
    \cup [kind : {"query"}, query : Queries] \cup [kind : {"other", "invalid"}]

Values == {"REQUEST_SUCCEEDED", "REQUEST_FAILED"}

VARIABLES
    inbox,      \* the request of a client that waits at the server
    outbox,     \* the reply that waits at a client
    server,     \* "running" or "exited"
    alive,      \* the client processes that run
    promised    \* history: the URIs the server said it holds

servervars == <<inbox, outbox, server, alive, promised>>
vars == <<dbvars, servervars>>

Reply == [value : Values, names : SUBSET Names]

ServerInit ==
    /\ Init
    /\ inbox = [c \in Pids |-> None]
    /\ outbox = [c \in Pids |-> None]
    /\ server = "running"
    /\ alive = Pids
    /\ promised = {}

-----------------------------------------------------------------------------
(***************************************************************************)
(* Clients                                                                 *)
(***************************************************************************)
Ask(c, request) ==
    /\ c \in alive
    /\ inbox[c] = None
    /\ outbox[c] = None
    /\ request.kind = "add" => request.uri.pid \in {c, NoPid}
    /\ inbox' = [inbox EXCEPT ![c] = request]
    /\ UNCHANGED <<dbvars, outbox, server, alive, promised>>

Receive(c) ==
    /\ c \in alive
    /\ outbox[c] # None
    /\ outbox' = [outbox EXCEPT ![c] = None]
    /\ UNCHANGED <<dbvars, inbox, server, alive, promised>>

ClientDies(c) ==
    /\ c \in alive
    /\ alive' = alive \ {c}
    /\ outbox' = [outbox EXCEPT ![c] = None]
    /\ UNCHANGED <<dbvars, inbox, server, promised>>

-----------------------------------------------------------------------------
(***************************************************************************)
(* The server                                                              *)
(***************************************************************************)

\* The database is in memory and the socket file is unlinked: nothing is left.
MemoryLost ==
    /\ uris' = [id \in {} |-> {}]
    /\ tables' = [kind \in Kinds |-> {}]
    /\ stepped' = {}
    /\ promised' = {}
    /\ server' = "exited"

\* recv: the request of c is taken; it stays with c as the one being answered.
Takes(c, kind) ==
    /\ server = "running"
    /\ inbox[c] # None
    /\ inbox[c].kind = kind
    /\ inbox' = [inbox EXCEPT ![c] = None]
    /\ UNCHANGED alive

\* send: a reply to a process that is gone is dropped.
Sends(c, value, names) ==
    outbox' = [outbox EXCEPT ![c] = IF c \in alive THEN [value |-> value, names |-> names]
                                                   ELSE None]

sendRequestFailedMessage(c)    == Sends(c, "REQUEST_FAILED", {})
sendRequestSucceededMessage(c) == Sends(c, "REQUEST_SUCCEEDED", {})

ServeAdd(c) ==
    LET u == inbox[c].uri
    IN  /\ Takes(c, "add")
        /\ addURI(u)
        /\ IF AddReturns(u) = 1
           THEN /\ sendRequestSucceededMessage(c)
                /\ promised' = promised \cup {u}
           ELSE /\ sendRequestFailedMessage(c)
                /\ UNCHANGED promised
        /\ UNCHANGED server

ServeRemoval(c) ==
    LET name == inbox[c].name
    IN  /\ Takes(c, "remove")
        /\ removeURI(name)
        /\ sendRequestSucceededMessage(c)
        /\ promised' = {u \in promised : u.name # name}
        /\ UNCHANGED server

\* Mutant: the loop continues after a failed query without a reply.
ServeQuerySilent(c) ==
    LET q == inbox[c].query
    IN  /\ Takes(c, "query")
        /\ IF QuerySucceeds(q)
           THEN Sends(c, "REQUEST_SUCCEEDED", {uris[id].name : id \in Selected(tables, q)})
           ELSE UNCHANGED outbox
        /\ UNCHANGED <<dbvars, server, promised>>

ServeQuery(c) ==
    LET q == inbox[c].query
    IN  /\ Takes(c, "query")
        /\ IF QuerySucceeds(q)
           THEN Sends(c, "REQUEST_SUCCEEDED", {uris[id].name : id \in Selected(tables, q)})
           ELSE sendRequestFailedMessage(c)
        /\ UNCHANGED <<dbvars, server, promised>>

ServeOther(c) ==
    /\ Takes(c, "other")
    /\ sendRequestFailedMessage(c)
    /\ UNCHANGED <<dbvars, server, promised>>

\* Mutant: the second reply is left out, and what could be read of the request is stored.
ServeInvalidAndStore(c) ==
    /\ Takes(c, "invalid")
    /\ sendRequestFailedMessage(c)
    /\ \E u \in LocalURIs : addURI(u)
    /\ UNCHANGED <<server, promised>>

\* The failure is sent, and the request is processed nevertheless: the reply of the
\* branch it takes finds the REP socket waiting for a request (EFSM).  The exception
\* leaves processRequests and the daemon exits.
ServeInvalid(c) ==
    /\ Takes(c, "invalid")
    /\ sendRequestFailedMessage(c)
    /\ MemoryLost

Serve(c) == ServeAdd(c) \/ ServeRemoval(c) \/ ServeQuery(c) \/ ServeOther(c) \/ ServeInvalid(c)

\* The server process is killed.
ServerDies ==
    /\ server = "running"
    /\ MemoryLost
    /\ UNCHANGED <<inbox, outbox, alive>>

ServerNext ==
    \/ \E c \in Pids : \/ \E request \in Requests : Ask(c, request)
                       \/ Receive(c)
                       \/ ClientDies(c)
                       \/ Serve(c)
    \/ ServerDies

\* Only the steps of the server's loop and a client's recv are fair: a process need
\* not ask, and nobody need die.  REP takes requests from its peers in turn.
Fairness == \A c \in Pids : WF_vars(Serve(c)) /\ WF_vars(Receive(c))

ServerSpec == ServerInit /\ [][ServerNext]_vars /\ Fairness

-----------------------------------------------------------------------------
(***************************************************************************)
(* Properties                                                              *)
(***************************************************************************)

\* What the server told its clients is what its database holds: a URI is there
\* exactly if its registration was confirmed and no removal of its name was, so a
\* refused add leaves no trace and a removal takes one URI (processRequests, addURI,
\* removeURI).
PromisesKept ==
    {[name |-> u.name, path |-> u.path, pid |-> u.pid] : u \in promised}
        = {uris[id] : id \in DOMAIN uris}

\* The attributes of a URI as its owner supplied them, as tables.
Supplied(u) ==
    [kind \in Kinds |-> {[uri |-> 1, key |-> u.attributes[kind][i].key,
                          value |-> u.attributes[kind][i].value] : i \in DOMAIN u.attributes[kind]}]

\* A URI within the documented limits: no key twice, none too long, not too many.
WellFormed(u) ==
    \A kind \in Kinds :
        LET keys == [i \in DOMAIN u.attributes[kind] |-> u.attributes[kind][i].key]
        IN  Distinct(keys) /\ Len(keys) <= MaxAttributes /\ Elements(keys) \cap TooLong = {}

HasNaN(u) == \E i \in DOMAIN u.attributes[Double] : u.attributes[Double][i].value = NaN

\* A query is answered with success, and the answer has the URI.
FoundBy(u, q) == QuerySucceeds(q) /\ \E id \in Selected(tables, q) : uris[id].name = u.name

WellFormedURIsAreFound ==
    \A u \in promised : \A q \in Queries :
        /\ WellFormed(u) /\ Matches(Supplied(u), 1, q)
        /\ Plain(q) /\ Usable(q)
        /\ Asked(q, {id \in DOMAIN uris : Matches(tables, id, q)})
        => FoundBy(u, q)

\* As long as no insert has failed, and no client has registered a NaN (which fails the
\* queries of all others that select its URI), a confirmed URI is found by every plain query
\* that the attributes its owner supplied satisfy: nothing is lost between the message, the
\* tables and the query, and no query fails (processRequests, addURI, processQuery).
FoundUntilAnInsertFails ==
    stepped = {} /\ (\A u \in promised : ~ HasNaN(u)) => WellFormedURIsAreFound

\* The model's bound on row ids is reached.
RowIDsExhausted == NewID > MaxURIID

\* A client's request is answered, unless the client dies or the server is gone:
\* no request is skipped, whatever the others send (processRequests).
EveryRequestAnswered ==
    \A c \in Pids : inbox[c] # None
        ~> outbox[c] # None \/ c \notin alive \/ server = "exited" \/ RowIDsExhausted

\* Clients cannot tell the server from the atomic service of URIService: a request has its
\* effect, and what a query finds was so, at one moment between the question and its answer,
\* whoever else asks, dies or is refused meanwhile, and nothing happens to a registration
\* that no answer tells of, but for the end of the server (processRequests).
Service == INSTANCE URIService WITH entries <- registrations
ImplementsService == Service!Spec
=============================================================================
