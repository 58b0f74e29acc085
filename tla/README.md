# Society of Machines: a TLA+ model of the IPC library and of the Chord prototype

The repository holds a C++ library by which the processes of one machine find and talk to
each other over ZeroMQ (`IPCOnlyVersion`), and, under `tests`, prototypes for a
distributed version (a Chord ring over UDP, a virtual port router). This directory models
the logic of both. Of the library: how a URI server comes to exist, how processes reach it,
how it answers, what the database behind it promises, and how publishers, repliers and their
users live on top. Of the prototype: the finger table, the lookups of a node, how nodes form
a ring, how a manager pauses them, and the router of virtual ports. Paths are relative to
`IPCOnlyVersion/src/libraryCode/` unless they say otherwise; `fingerTable.cpp`,
`chordNode.cpp`, `chordNodeManager.cpp`, `virtualPortRouter.cpp`,
`virtualPortPairSocketWrapper.cpp` and `main.cpp` are in
`tests/chord/chordTestFramework/src`.

## The system

```
 process A                          process B                    server process (daemon)
 publisher/replier  caller          caller                       localURIServerSingleton
        \            |                |                           REP socket, one request
         REQ inproc (one per call)   ...                          at a time
          \          |                                                   |
           proxy thread: REP inproc -> REQ ipc  ---------------->  localURIDatabase
           (one request under way)                                 SQLite in memory
 messaging directory: URIDatabaseServer:ProcessID:<pid>[name]   (all that is shared on disk)
```

| Component | Source | State | Operations | What makes it correct |
|---|---|---|---|---|
| URI database | `localURIDatabase.cpp` | four SQLite tables in memory; prepared statements | `addURI`, `removeURI` (name or id), `processQuery` | unique names and paths; attributes belong to a URI that exists and never change; queries answer what they ask; a refused call has no effect |
| Server loop | `localURIServerSingleton.cpp` | the database; a REP socket | `processRequests` | one reply to each request; what was confirmed is held until removed |
| Engine start and election | `localURIEngine.cpp` 17-145, `utilityFunctions.cpp`, constructor of `localURIServerSingleton` | the messaging directory, `/proc` | `startEngine`, the check with clean-up, `becomeDaemon`, bind | a server is found or started; a live server is never cut off; startEngine ends |
| Proxy and calls | `localURIEngine.cpp` 147-643 | two sockets, an exit flag, the pointer to its address | `addURI`, `removeURI`, `getURIs`, the proxy loop, the destructor | each caller gets the reply to its own request; the program can end |
| Publisher, replier | `localStreamPublisher.cpp`, `localReplier.cpp` | a registered URI and a bound socket | constructor, `publish`, `getRequest`, `sendReply`, destructor | a holder's URI is its own; who ends leaves nothing behind, unless its removal fails |
| Subscriber, requester | `localStreamSubscriber.cpp`, `localRequester.cpp` | a connected socket | `subscribe`, `receiveMessage`, `sendRequest`, `getReply` | wrappers of one socket |
| `SOMException`, `SOMScopeGuard` | same names | - | - | error text; clean-up on scope exit |
| Messages | `IPCOnlyVersion/messages/*.proto` | - | - | generated code |
| Chord finger table | `fingerTable.cpp` | best match per finger, successor, predecessor; known ids, their reference counts and contacts | `checkAndUpdateIfBetter`, `updateChordMatch`, `replaceWithNextBestOption`, the closest predecessors and successors of an id | a slot's node can be contacted, and is the closest one heard of; dead nodes leave the table |
| Chord node: lookups | `chordNode.cpp`, `findAddressOwnerRequest.cpp` | pending lookups, event queue, the finger table | find owner, closest predecessor, timeouts | lookups end, each with one answer; a late answer meets no other question |
| Chord nodes: the ring | `chordNode.cpp`, `nodeIsActiveRequest.cpp` | pending requests, successor and predecessor | node-is-active, stabilize | a ring forms and stays |
| Chord node manager | `chordNodeManager.cpp`, the signals in `chordNode.cpp` | its nodes, signals and acknowledgements | create, pause, resume, destroy | tables of paused nodes stand still; calls return |
| Virtual port router | `virtualPortRouter.cpp`, `virtualPortPairSocketWrapper.cpp` | map of ports to PAIR sockets | open, close, route in and out | a port belongs to who was given it; each request is answered |
| Vendored and trial code | `cppzmq-master`, other directories of `tests` | - | - | not part of the library |

How they interact: a call (`addURI`, ...) sends a message to the proxy thread of its
process over a fresh inproc REQ socket; the proxy forwards it to the server process over
one IPC REQ socket and passes the reply back; the server serves one request at a time and
keeps everything in memory. Processes share nothing else but the messaging directory, in
which the server's socket file carries the server's pid, and in which publishers and
repliers bind sockets whose paths *begin with the server's path* (`localURIEngine.cpp:521`
stores it as the messaging directory). The Chord prototype shares nothing with the library: a
node's one thread calls its finger table from the handlers of requests, answers and timeouts;
nodes exchange datagrams; the manager and its nodes exchange signals over PUB sockets; clients
of a node, and of the router, wait for replies on REQ sockets.

What is hard here: several processes start at once with only a directory and `/proc` to agree by;
processes die without running destructors; the proxy's waits time out while the answer is still on
its way; the strict send/receive alternation of REQ and REP sockets turns a skipped reply into an
exception later; prepared statements keep state between calls; row ids are reused; a call of a
destructor fails and nobody is told; a destructor gives a name back before it closes the socket of
that name; distances on a ring wrap around, and a node is held by several slots of one table;
datagrams are late, lost and doubled while questions are repeated under new numbers;
acknowledgements are counted, and a count does not say whose they are; what a poll has found is
stale when it is served; one thread owns several sockets of a router, and reads none of them while
it waits at another. `PROJECT.json` lists each hazard at its line.

## Modules

| Module | Models | Notes |
|---|---|---|
| `LocalURIQuery` | the SQL that `processQuery` builds: tag subquery, key/value subqueries, their intersection | sets of rows and counts, beside `Matches`, the meaning of a query's fields as the messages' comments give it |
| `LocalURIDatabase` | `localURIDatabase` | `uris`, `tables`: the tables; `stepped`: insert statements left un-reset after a failed `sqlite3_step` (later binds of them are misuse). One action per outcome of `addURI`, one per removal |
| `URIRegistry` | nothing in the code: what the database promises | the specification `LocalURIDatabase` implements, and of whose runs `Endpoints` makes one |
| `URIService` | nothing in the code: what the server promises its clients | the registry behind a service that answers each request in one step, or dies; the specification `LocalURIServerSingleton` implements |
| `LocalURIServerSingleton` | `processRequests` over the database, its clients, deaths | EXTENDS `LocalURIDatabase`: each branch of the loop contains the whole database operation and its reply |
| `LocalURIProxy` | the proxy thread, the calls through it, the engine's destructor | requests are `<<thread, number>>`; the server appears as prompt, slow or dead |
| `SingletonElection` | `checkForExistingURISingletonsAndCleanUpSingletonIPCFiles` by starters and daemons, fork, polling, bind, deaths | reading the directory, reading `/proc`, every single removal, closing a socket and leaving `/proc` are separate steps |
| `FingerTable` | `fingerTable` as `chordNode.cpp` calls it | one action per public operation that changes the table; a slot per finger, and one each for successor and predecessor, as all are counted alike |
| `Endpoints` | `localStreamPublisher`, `localReplier`, `localStreamSubscriber`, `localRequester` over the registry and the socket files | registering, binding, giving the name back (or failing to) and closing are separate steps |
| `FindAddressOwner` | the lookups of one node: `chordNode`'s handlers and events for them, `findAddressOwnerRequest` | uses `FingerTable`'s searches through an INSTANCE; the other nodes are the network's answers |
| `ChordStabilization` | several nodes: is-active requests with resends, stabilization rounds, threads that end | one `FingerTable` INSTANCE for each node |
| `ChordNodeManager` | the manager's calls and the signals, around the nodes of the ring | EXTENDS `ChordStabilization`: a step is the manager's, a signal's, or a handler's of a node that runs (`operateNode`); a node without its router hangs |
| `VirtualPortRouter` | the router's thread, the wrappers' constructor, `bind`, `send`, `recv`, destructor | a round serves what its poll has found, in the code's order; a thread owns one or several wrappers |
| `*_proofs` | theorems about the module of that name | `LocalURIDatabase_proofs` also about `LocalURIServerSingleton`, `ChordStabilization_proofs` also about `ChordNodeManager` |
| `MC*` | small instances | |

Correspondence, where it is not one to one:

* **Database.** `addURI` runs inside a transaction that is committed on every path that
  returns 1; on the others nothing was inserted. So one call is one step. The insert loops
  leave at the first failure, hence `Stored` is a prefix. `NewID` is SQLite's rule for an
  `integer primary key` without AUTOINCREMENT. The value returned is `AddReturns`. A double that
  is no number is stored as NULL; the URI that holds it can be added and removed, but a query
  that selects it fails when it is read back (`Readable`). `maximumNumberOfResults` is a field
  of the queries, and as in the code nothing that answers them looks at it.
* **Server.** `Ask` and `Receive` are the proxy of a client process, seen from the server.
  An invalid message gets its failure reply and then a second one, which the REP socket
  refuses (EFSM); the exception ends the daemon, and with it the in-memory database.
  `promised` is a history variable: what clients were told is registered.
* **Proxy.** `current` is the reply the REP socket owes. After a timeout the loop goes to
  its top with a reply still owed; the next `recv` throws, and the thread returns
  (`ListenThrows`). After that `engineInProcAddress` points into a stack frame that is
  gone: `CallsTooLate` allows the outcomes a build can produce. The context's destructor
  wakes callers (ETERM), and waits for unsent messages (`Lingers`).
* **Election.** A file is `<<number, rest of the name>>`: the parser takes the digits after the
  prefix and ignores the rest, and the removal uses the number alone. A publisher's or replier's
  file is the server's with the resource name appended, so that a name which begins with a digit
  changes the number: `Joined` says into which file, that of any process, of nobody, or of one
  too large to be parsed (`None`). A daemon is named by its pid; its double fork and the closing of
  descriptors are part of `Fork` and `Dies`. A server that ends by an exception closes its
  socket (`Exits`) and is still in `/proc` (`closing`) until it dies. `listed` holds what a
  process found and has still to remove; `witnessed` and `misread` are history variables.
* **Finger table.** An operation updates slots one after another, each by adding a reference to
  the new node and then removing one from the old; no slot's test reads another slot, and an
  added node cannot lose its last reference within the call, so `Assign` does them in one
  step. Ids have `IDBits` bits. IP, ports and virtual port of a node are one contact. The flag
  `is_stale` is left out, as no code sets it. `checked` and `resolved` are history variables
  for the properties: the nodes checked, held since and not reported, and the fingers that
  took the result of a lookup (its owner lies behind the target, not below it).
  `chordNode.cpp` calls the three operations with whatever other nodes send it, so `Next`
  allows them in any order.
* **Endpoints.** `Registers`, `Refused`, `Binds` and `BindFails` are the constructor's outcomes,
  `Removes` or `RemovalFails`, and `Closes`, the two halves of the destructor, `Killed` an end
  without it. The destructor goes on when the removal fails or throws, so the URI stays. Users
  connect to any name, whether a URI of it is registered or not. The
  database is what `URIRegistry` promises as long as no insert of a tag has failed (`registered`
  holds for each name the one tag of its URI). libzmq is external: bind replaces the file of a path,
  close unlinks the path whoever bound it, a connection survives the replacement of its file.
* **Lookups.** A request's stack of predecessors is `path`, its map of nodes seen is `seen`. A
  request lives under the number of its present question; sending again, or asking another node,
  gives it a new one. `network` keeps every question ever sent, so that its answer may come late,
  twice or never. A request that cannot be parsed is read and gets no answer (`ignored`). Events
  are due in the order of the queue, and those of answered questions are passed over (`Due`,
  `EventsAfter`). When nobody is left to ask, the failure is sent and the function goes on with
  the request it has just deleted; every way on from there ends the thread (`running`).
* **The ring.** The tables are `FingerTable`'s without fingers, which no handler here reads. A
  round's lost answer stands for the loss of its question too. Numbers of requests and the table
  of one node are as in the lookups.
* **Manager.** A signal that is published before a node's subscription has arrived is lost; so
  is an acknowledgement before the manager's. An acknowledgement of the other signal is passed
  over. A paused node is in `recv`, where it takes notice of nothing but a resume, while the
  datagrams sent to it wait in its socket (`Reach`). A constructor that fails may have asked some
  of its contacts already. Of the ring's specification the manager replaces who creates nodes
  (`createChordNode`) and what is freed with a thread (`Leaves`); the handlers are the same. Each
  node has a router of its own. When that router's thread has ended, or is held by one of the
  node's full sockets (`RouterStops`), the node can read what has already come, but its next send
  blocks (`Blocks`), and so do the six destructors of its wrappers, which wait for the router's
  reply (`Leaves`): its thread is `stuck` and never ends.
* **Router.** `round` is what the poll of this round found and what is still to be served: the
  datagram, then the request, then the ports. A PAIR socket is a count of messages up to its
  high-water mark; a full one blocks who sends. A wrapper belongs to a thread (`owner`), which
  may own several, as the thread of a node owns six: a thread in a call of one of its wrappers
  reads none of them (`Free`), nor does one that is paused (`PausesOrResumes`). `outcome` is a
  history variable: what a wrapper's bind ended in, which its destructor does not look at.

Operators commented "Mutant" are variants of the definition after them, with a bug one
could make there; no specification uses them. They are substituted, one at a time, to see
that each property notices.

## What is checked

Runs that pass:

| Run | Shows | Bounds |
|---|---|---|
| `database` | no orphan attributes; unique names, paths, keys; registrations never change; queries sound and complete where the code claims to be exact; `URIRegistry` is implemented | three names and paths, a text over the limit, eleven URIs with repeated, too long and too many attributes, one double that is no number, at most 3 rows, attribute maximum 2, 71 queries, some of which have more matches than they ask for. Ids are freed and reused in every order; every way an insert can fail occurs for every table |
| `server` | what was confirmed is exactly what is held; queries find confirmed URIs as long as no insert has failed and no NaN was registered; every request is answered while the server lives; to its clients the loop is the atomic `URIService` | two client processes with every kind of request, four URIs (two compete for each of two names, one repeats a tag, one cannot be read back), three queries (one always fails), deaths of clients and server at any time, at most 2 rows |
| `proxy` | replies reach the call they answer; never two requests under way; calls return if the server keeps up; the program ends after main | two threads, two calls each, the server changes between prompt and slow at will and may die, main returns at any time |
| `election` | no clean-up deletes the file of a live server; no daemon joins a server it could see; startEngine returns a server; startEngine ends | two starters, two daemons and another program, two polling rounds, one reuse of a pid (as a stranger or as a new daemon), deaths of daemons and publishers at any point; one starter's resource has a name of letters, the other's begins with a digit, so that beside one daemon its file is that of the other daemon, and beside the other that of the program |
| `endpoints` | a holder of a name keeps its URI and has it alone; URIs are left behind only by who is killed or whose constructor or removal fails; a bound object loses its socket file only to a late close; a request is answered, lost with its replier, or finds none | two repliers and a publisher that contend for one name, two requesters and a subscriber; binds and removals fail and processes are killed at any point. Three holders suffice for one that is late, one that has the name, and one of the wrong kind |
| `fingers` | reference counts are exact; every slot's node can be contacted; successor and fingers are the closest nodes heard of; successor lists are in order and skip none | a ring of 8 ids, own id 6, nodes 1, 3, 6, 7 (on both sides of the wrap-around), two fingers of which one target wraps, two contacts per node; lists one longer than the number of nodes |
| `lookup` | types; each requester gets one answer; an answer meets the question it belongs to; a waiting lookup has its timeout; lookups end | a ring of 8 ids, four nodes, one client and the update of one finger at the same time; one resend and one bad reference, so that every way back is taken: a repeat, another predecessor, blame, giving up; requests that cannot be read |
| `ring` | a ring that has formed stays; a ring takes in a node that arrives, and is-active requests end | four nodes, one more than `main.cpp` creates, and each but the first with one contact (`main.cpp` gives its third node two): a node has then to choose whom it keeps, and what it drops nobody else may know. No resends (they are in `manager`), one round under way for each node; the thread of one may end |
| `manager` | no table changes while the nodes of a snapshot are read; calls whose acknowledgements are to come return | two nodes of a ring, the second with the contact of the first; three calls of pause and resume (paused, resumed, paused again), one node that may fail at any time or while it is created, a round under way for each, one resend, subscriptions that arrive at any time, and a router that may stop under the node that may fail. A third node multiplies the states of the ring by those of the signals; `TablesStand` is proved for any number |
| `router` | a port that is gone when it is read is the one closed in that round; wrappers keep their ports; nobody waits for ever, but for two named cases | two wrappers of one thread, or of two that may pause, two ports, one message in each direction of a PAIR socket, one datagram, so that full queues occur at once |

The bounds suffice for what can go wrong in these components: every hazard listed involves
at most two actors (or two rows) that collide, plus one that comes later, and lists and queues
one longer than their maximum. In the finger table a node is compared with one other at a time;
four nodes give every order around zero, the own id and a target. Names and payloads are only
compared, so more of them add no new case. Polling rounds and resends are alike; their number
only has to allow "found later" and "gave up". `lookup`, `ring` and `manager` use a VIEW: message
numbers are only compared, so states that differ in how high they are, or in what is left under
numbers that are gone, are one. In `ring` and `manager` the view also drops datagrams that can
have no effect any more: an answer whose number is gone, or of a round, when it would change
nothing, and a request that would change nothing and whose number is gone. Tables only
come closer, so none of these ever will.

`RingForms` is about one node that arrives at a ring, and about how late its datagrams and those
of the ring may be. It does not say that nodes that arrive together form a ring, as they need not:
a node that two others contact keeps the closer one, and if its answer to the other is lost, nobody
knows that one and it knows nobody; and five nodes may form a ring that winds twice round the
ids, in which no round changes anything.

The safety properties of the election that need it say `NumbersArePids`: no pid has been given
out twice, and no resource whose name begins with a digit has lain in the directory. Without
either half they fail, as the model shows when it is dropped: a pid that is given out again
between the reading of `/proc` and the removal defeats them, and so does a number that becomes
a server's. On a machine the former takes a wrap of the pid counter within milliseconds for the
removal, but only a reboot for an address of a stranger; the latter takes no more than a name
like `4` and a process with the number that results (below).

Runs that end in a violation state what a comment or document of the repository says and
the code does not do; `PROJECT.json` quotes the lines:

| Run | The code |
|---|---|
| `proxy_EveryCallReturns` | leaves callers waiting for ever after one late reply |
| `election_OnlyOneServer` | allows two servers for one directory |

Disagreements between code and comment met while modelling, with no run of their own. The
models contain what the code does in each case that a model reaches.

Library:

* `addURI` returns 1 for a URI of which only a prefix of the attributes was stored
  (`localURIDatabase.cpp:217-242`, against `:176`), and a URI that names a tag twice is not
  rejected as `localReplier.cpp:5` says; from then on all URIs are stored without tags (`:963`;
  the condition of `FoundUntilAnInsertFails`).
* One duplicate makes the database refuse every later URI, as the statement is not reset
  (`localURIDatabase.cpp:911`).
* Two conditions on one field find nothing (`localURIDatabase.cpp:1203`, against `:343`);
  forbidden tags alone give no valid SQL (`:1141`; `Usable`); `comparisonResultOnNULL` is never
  read; doubles of conditions are bound as integers (`:440`). The side conditions of `QuerySound`
  and `QueryComplete` (`WholeDoubles`, `Plain`) exclude exactly the queries concerned.
* `maximumNumberOfResults` is never read: a query returns every match however few it asks for
  (`localURIDatabase.cpp:336` and `localURIQuery.proto:9` say that the number limits the result).
  `QueryComplete` demands all matches only of queries that ask for at least as many (`Asked`).
* A URI with a double that is not a number is accepted, and every query that selects it fails from
  then on, also for the URIs beside it (`localURIDatabase.cpp:1060`, `:783`; `Readable`).
* A message without its required fields ends the server and with it every registration
  (`localURIServerSingleton.cpp:88`, against `:87`); the interval for purging the URIs of dead
  processes is never read (`:22`, against `:6`).
* The proxy does not outlive a timeout as `localURIEngine.cpp:596` intends, and after it has
  returned `engineInProcAddress` points into its stack (`:520`). Its socket to the server has no
  ZMQ_LINGER (`:479`), so that the context waits for what a dead server has not taken.
* startEngine throws when a stale file is gone before it removes it (`utilityFunctions.cpp:266`,
  against `:215`); a process that happens to have the pid of a dead server is taken for the
  server (`:251`). The number is parsed from all that follows the prefix (`:199`), and a publisher's
  path is the server's path followed by its name (`localStreamPublisher.cpp:36`): a name that
  begins with a digit is read as part of the pid.
* The destructors of publisher and replier only print that a removal has failed
  (`localStreamPublisher.cpp:90`, `localReplier.cpp:114`): the URI of an object that is gone stays.
* The destructors of publisher and replier give the name back before the socket is closed
  (`localStreamPublisher.cpp:86`, `localReplier.cpp:110`): the late close unlinks the file of the
  next holder, which nobody reaches from then on (`ReachLostOnlyToALateClose` says that nothing
  else does). `publish` and the replier compare a bool with the message size
  (`localStreamPublisher.cpp:51`, `localReplier.cpp:86`, `:103`).

Chord prototype:

* The predecessor search answers the highest known id, whatever address is asked for
  (`fingerTable.cpp:116`, against `:81`); a node that did not answer stays in the fingers, as
  the loop compares begin with begin (`:289`, against `:256`).
* Lookups are left without an answer once the node's thread has ended, which the failure of one
  lookup brings about (`chordNode.cpp:837-844`, against `:811`).
* The constructor of a node waits for ever when the thread cannot start: the function returns
  without keeping its promise (`chordNode.cpp:70-80`, against `:38`).
* The destructor of a paused node joins a thread that waits for a resume (`chordNode.cpp:503`);
  pausing twice, resuming without a pause, creating a node while others are paused, or a node
  that has ended leave the manager waiting for acknowledgements that nobody sends: `CallsReturn`
  is about the calls whose acknowledgements are to come. A node whose router has ended or is held
  hangs in its next send (`virtualPortPairSocketWrapper.cpp:136`), or when it ends, in the
  destructors of its wrappers (`:220`), and with it whoever waits for the node: the excuse of
  `CallsReturn` for a node that is `stuck`. `main.cpp:69-77` reads tables without a pause.
* A round of stabilization does not replace a dead successor (`chordNode.cpp:804`), and of nodes
  that arrive together, from four on, one can be forgotten by all others. `RingForms` is stated
  for one node that arrives, and nodes whose threads run.
* A port closed in the round that was to read it ends the router's thread
  (`virtualPortRouter.cpp:246`); a wrapper that never got a port closes the port of another in
  its destructor (`virtualPortPairSocketWrapper.cpp:178`); router and a node's thread can wait for each
  other: the router at the full socket of one wrapper (`virtualPortRouter.cpp:315`), the thread in a
  call of that wrapper or of any other it owns, or paused. `send` ignores its flags
  (`virtualPortPairSocketWrapper.cpp:112`, against `:136`). `NobodyWaitsForEver` excuses exactly that and
  a router's thread that has ended, by an exception or because it was told to;
  `HoldersKeepTheirPort` excuses that end, which closes all ports, and the port that a wrapper
  without one has closed.

### Fairness

* Server: weak fairness of serving each client (REP takes requests of its peers in turn)
  and of a client's `recv`. Nobody is obliged to ask, to die or to stay alive.
* Proxy: its thread and the woken callers run (weak); a prompt server answers (weak, and only
  while prompt); the wait for the server ends (strong: ten seconds of real time pass,
  however the server behaves in between).
* Election: every starter and every daemon that lives takes its next step (weak).
* Endpoints: libzmq connects and delivers, a destructor that has begun ends, a program that has
  a replier takes requests and answers them (weak, each). Nothing has to be sent or destroyed.
* Lookups: the node's thread takes what is in its sockets, and events that are due (weak). No
  other node ever has to answer.
* Ring: a node handles its events and the answers to its rounds (weak), and of its rounds not
  all are lost (strong). Nobody has to answer whether it is active: that is why rounds,
  and not these requests, form the ring.
* Manager: it goes on with the call it is in, and each node with its loop (weak), as long as the
  node's router serves it; nothing makes a node that blocks go on. Nothing is
  assumed of subscriptions: whether they have arrived is in the property's premise.
* Router: its thread, and calls that can go on (weak). A thread that is free again and again reads
  its wrappers (strong); one that is paused, or in a call, reads none, and nobody has to resume it.
* Database and finger table: none; they are passive.

CHECK_DEADLOCK is off wherever all may come to rest: the server exits, programs, managers and
routers end, lookups and polls run out. The database and the finger table never stop: any call
is always possible.

## What is proved

Every safety property that a passing run checks, invariant or action property, is also a
theorem. All theorems are about the specification without fairness (`Spec`, `ServerSpec` of the
server, `ManagerSpec` of the manager), and so hold with it. They are proved with TLAPS for
every value of the constants, from the named assumption of the module alone, which TLC
evaluates in the runs.

`LocalURIDatabase_proofs`, for all names, texts, processes, URIs, queries and bounds, from
`DatabaseAssumption`:

| Theorem | Statement | Argument |
|---|---|---|
| `TypeCorrect` | `[]TypeOK` | inductive as it stands; needs `NewIDIsFresh` (the CHOOSE of `NewID` has a value, from well-foundedness of the naturals) and the shape of new rows |
| `IntegrityHolds` | `[]ReferentialIntegrity` | inductive with `TypeOK`: new rows carry the new id, a removal takes rows with their ids |
| `ConstraintsHold` | `[]SchemaConstraints` | inductive with the two above: a fresh id has no rows yet (this is where integrity is needed), and stored keys of one call differ |
| `RegistrationsNeverChange` | `RegistrationsImmutable` | by integrity, rows of the new id are all new: other registrations read the same |
| `RegistryImplemented` | `ImplementsRegistry` | refinement mapping `registrations`; a stored URI maps to `Add` with the prefix lengths as witnesses (`StoredIsPrefix`), removals to `Remove`, refusals to a stutter |
| `QueriesSound`, `QueriesComplete` | `[]QuerySound`, `[]QueryComplete` | `SelectedExact`: what the SQL selects is what `Matches` describes. A subquery compares a count of rows with the length of a list; as a URI has one row for a key (`ConstraintsHold`), the rows counted and the elements of the list correspond one to one (`TagSubqueryExact`, `ConditionSubqueryExact`) |
| `ServedDatabaseSound` | `ServerSpec => [](ServerTypeOK /\ DatabaseInv)` | each step of the server is a step of the database, leaves it alone, or is the loss of its memory: the three invariants above carry over |
| `ServerKeepsPromises` | `[]PromisesKept` | with it: a confirmed add is an `AddStored`, whose condition keeps names unique, so a removal takes from `promised` exactly what it takes from the tables |
| `ConfirmedURIsAreFound` | `[]FoundUntilAnInsertFails` | invariant `StoredAsSupplied`: until an insert fails, the rows of a well-formed URI are the supplied attributes (`WellFormedIsStored`: no element of its lists can fail), and whatever is held was supplied (`HeldWasSupplied`), so that a row that cannot be read is that of a URI with such a double (`UnreadableRows`); the query then loses none (`SelectedExact`) |
| `ServiceImplemented` | `ServerSpec => ImplementsService` | refinement mapping `registrations`, with the mailboxes of the clients as they are. Each branch of the loop is one answer of the service: `AddRefines` and `RemoveRefines`, from the proof of `RegistryImplemented`, give the step of the registry; `SelectedExact` and the integrity of the tables give that a query's reply holds URIs that are there (`SelectedAreThere`) and match, all of them if the query is plain and asks for as many. A second reply that the REP socket refuses, and a death, are the service's end |

`FingerTable_proofs`, for every ring size, table size, set of nodes and contacts, from
`FingerTableAssumption`:

| Theorem | Statement | Argument |
|---|---|---|
| `TypesHold` | `[]TypeOK` | part of the invariant `References` |
| `CountsExact` | `[]ReferencesCounted` | `AssignKeepsReferences`: the slots that hold a node before and after an assignment are disjoint unions, so adding for the slots taken and removing for what they held keeps the count; `Removed` never meets a count below what is removed, because counts are exact |
| `ContactsAvailable` | `[]ContactsHeld` | by exact counts a slot's node has a count above zero, and an entry has a contact exactly while it has a count |
| `SuccessorNearest` | `[]SuccessorIsClosest` | invariant `Closeness` on top of `References`: a check keeps the minimum of the distances; after a report the next node upwards (`NextIsNearest`, with the wrap-around) is the nearest of the rest |
| `FingersNearest` | `[]FingersAreClosest` | `Closeness`: a finger changes by a check, which keeps the minimum of the wrapped distances, or by a lookup, which takes it out of the claim |
| `SuccessorsListed` | `[]SuccessorsInOrder` | `NextIsNearest` for any id is one round of the list; `SuccessorRounds`: a list of every length exists and its rounds follow each other, as there is no least length for which it does not |

`References` (types, counts, contacts together) is needed because none of the three is
inductive alone: a contact survives only if its count is exact, and the replacement's contact
exists only if the node found by the search is counted.

`FingerTableAssumption` states what the constructor checks (at least one bit more than there
are fingers) and two facts of arithmetic the provers cannot derive for powers with a symbolic
exponent: the modulus is positive and targets lie on the ring. TLC evaluates both.

`FindAddressOwner_proofs`, for every ring, set of nodes and of clients, and every bound on lookups,
resends and bad references, from `FindAddressOwnerAssumption` (which has the same fact about the
modulus):

| Theorem | Statement | Argument |
|---|---|---|
| `TypeCorrect` | `[]TypeOK` | `Typed`: every pending lookup is `Asking`, that is well typed with a path of distinct nodes, each seen, each with the one below as its source (`PathOK`), and not empty. Every way back down the path keeps this (`PopKeepsPath`, `BlamedKeepsPath`), and `addClosestKnownPredecessorIfNew` adds only who was never seen (`AddedKeepsPath`) |
| `AnswersAreOfTheNodeAsked` | `[]AnswersMeetTheirQuestion` | with `Typed`: numbers of questions are at most `nodeMessageNumberIndex`, a question under a fresh one is the only one with it, and a lookup that changes the node it asks takes a fresh one |
| `EveryLookupHasATimeout` | `[]TimeoutPending` | with both: a step drops from the event queue only events of numbers that have no lookup, and the one it serves (`DueEvent`), whose lookup it ends or moves to a fresh number with a fresh event |
| `EachRequestHasOneAnswer` | `[]OneAnswerEach` | `AnswerInv`: on top of the three, by counting: a request is read into one lookup (`ReadingCounts`), a lookup moves from a number to a fresh one (`MoveCounts`), or ends with one reply (`EndCounts`) |

The first three are one inductive invariant, `LookupInv`: that an answer meets its question needs
the bound on numbers, that a timeout is pending needs the shape of the queue and of the path.

`SingletonElection_proofs`, for any number of starters, daemons, files and polls, from
`ElectionAssumption`:

| Theorem | Statement | Argument |
|---|---|---|
| `TypeCorrect` | `[]TypeOK` | with `AddressKnown`: who has found a server has its address |
| `FilesKept` | `[]LiveServerKeepsItsFile` | `Bound` and `Known`: as long as `NumbersArePids`, a number in a file name, in a list or in an address has been a server's and is serving or gone for good. What a process has listed and does not find in `/proc` is gone, and stays gone until the removal, however late that is |
| `NobodyJoins` | `[]NeverJoinsServer` | `WitnessedListed`: the servers a daemon could have seen when it read the directory are on its list until it compares the list with `/proc`; if one of them still serves then, the daemon does not go on |
| `ReturnsAServer` | `ReturnsServer` | by `Known`, the number that is found and that `/proc` shows is the pid of a server that serves, or that has closed its socket and is about to leave `/proc` |

None of these is inductive alone: whether a removal is harmless depends on when the list and
`/proc` were read, so the invariant has to say what every list, in every state of its owner,
may contain.

`LocalURIProxy_proofs`, for any number of threads and calls, from `ProxyAssumption`:

| Theorem | Statement | Argument |
|---|---|---|
| `RepliesMatch` | `[]AnswersMatch` | `QueueInv`, `CurrentInv`, `InboxInv`: the call of a waiting thread is in one place, the queue, the proxy or its own inbox. `WiresInv`: while the proxy awaits a reply, what is on the wires is the request it relays |
| `RequestsAreSerial` | `[]OneRequestUnderWay` | `WiresInv`: a request that has been given up stays the proxy's current one, so no other is taken while its late reply is still to come |

`Endpoints_proofs`, for any objects, users and names, from `EndpointsAssumption`:

| Theorem | Statement | Argument |
|---|---|---|
| `TypeCorrect` | `[]TypeOK` | inductive by itself; a connection leads to an open socket of the kind sought |
| `NamesHaveOneHolder` | `[]OwnersRegistered` | with the types: a constructor registers only where there is no URI, a destructor removes only its own |
| `DestructorsLeaveNothing` | `[]OnlyFailuresLeaveNames` | the two together are inductive: a URI that appears has its object, which keeps it until it is killed or its removal is confirmed, and a confirmed removal is that of the one object that holds the name |
| `OnlyLateClosesUnlink` | `ReachLostOnlyToALateClose` | by `OwnersRegistered`, nobody else binds the path of a bound object; of the steps that unlink it only the close of an earlier holder is left |
| `EndpointsUseTheRegistry` | `Spec => UsesRegistry` | refinement mapping `uris`: a constructor that is not refused maps to `Add` of a URI with one tag (`RegistersAdds`), a destructor's first half to `Remove` (`RemovesRemoves`), everything else to a stutter |

`RegistryImplemented` and `EndpointsUseTheRegistry` meet in `URIRegistry`: the one says that the
tables allow nothing else than it does, the other that publishers and repliers rely on nothing
else. The second allows less than the first, as it stores every tag it is given; that the tables
do so is `ConfirmedURIsAreFound`, as long as no insert has failed. It has no death of the server.

`VirtualPortRouter_proofs`, for any ports, wrappers and bounds, from `VirtualPortRouterAssumption`:

| Theorem | Statement | Argument |
|---|---|---|
| `TypeCorrect` | `[]TypeOK` | with the parts of the invariant below |
| `OnlyTheClosedIsStale` | `[]StalePortIsTheOneClosed` | `RoundInv`: a round serves one request, before its ports; `RequestsInv`: a request is that of a waiting wrapper, for its own port |
| `HoldersKeep` | `[]HoldersKeepTheirPort` | `OutcomeInv`, `HoldersInv`: who got a port holds it alone until its close has been served, as a port is opened only if it is free, and closed only by who holds it, or by a wrapper that never got one, which the property excuses |

`ChordStabilization_proofs`, for any ring, contacts and bounds, from `ChordStabilizationAssumption`:

| Theorem | Statement | Argument |
|---|---|---|
| `TypeCorrect` | `[]TypeOK` | in three parts: tables, requests, datagrams; a request's number is not above its node's |
| `FormedRingStays` | `RingStays` | not about datagrams at all: in a formed ring each slot holds the closest node there is, so no check of any node, at the request of whatever late message, finds a better one |

The same module about `ManagerSpec`, the ring with its manager, from the assumptions of both:

| Theorem | Statement | Argument |
|---|---|---|
| `ManagedTypeCorrect` | `[]TypeOK` | a step is one of the ring's, or changes a thread's status and sends a new node's first requests (`NodesStep`) |
| `PausedNodesStand` | `[]SnapshotStands` | `ManagerInv`: in a call a node has its signal to read, or its acknowledgement under way, or neither (`OneOfEach`), and as many acknowledgements as were counted come from nodes that are done. So a pause that returns has all its nodes paused and nothing under way, and the next call starts with nothing that could be counted for it |
| `PausedTablesStand` | `TablesStand` | a handler changes the table of its own node only, and that node runs (`OwnTable`), while the nodes of a snapshot are paused |
| `ManagedRingStays` | `RingStays` | `RingKept`, which `FormedRingStays` also rests on: only handlers change tables, and none finds a better node in a formed ring, however long its datagram waited for a paused node |

That invariant says why counting without names is enough here: it would not be if a call could
return while a signal or an acknowledgement of it is still to be read.

What TLC alone shows is liveness, which is out of the prover's reach: `EveryRequestAnswered` of the
server, `CallsReturn` and `ProgramEnds` of the proxy, `EveryStarterReturns`, `RequestsServed`,
`LookupsEnd`, `RingForms`, `CallsReturn` of the manager and `NobodyWaitsForEver`; and that
`EveryCallReturns` and `OnlyOneServer` do not hold. No module uses RECURSIVE operators. The one
definition that is recursive, the list of successors, needs no induction over data, as
`SuccessorRounds` shows.

## What is not modelled

* SQLite I/O errors, ZeroMQ failures in mid-operation, memory exhaustion; the text of names,
  SQL and errors; multi-part messages (no caller sends any).
* `SOMException`, `SOMScopeGuard`: error text and clean-up on scope exit; where an exception leads
  is part of the actions that throw.
* The system calls in `becomeDaemon`: their failure is the death of the daemon.
* Sends of a lookup that block: `FindAddressOwner` takes them to go through, as they do while the
  node's router serves it. What becomes of the node when they do not is in `ChordNodeManager`.
* How the lookups of several nodes change each other's tables: `FindAddressOwner` has one node
  whose answers come from nodes with fixed tables, `ChordStabilization` has no lookups. Their
  product is beyond what TLC can explore; the handlers are the same.
* Time: an event may be due at any moment. All events of one kind have one delay, so they are
  due in the order in which they were scheduled.
* Hashing, encryption and number conversion of the prototype; ids of a wrong size.
* Example programs, generated and vendored code, the trial programs under `tests`, the older
  copies of the router and of the node there.

## Plan

1. Done: database, query semantics, registry, server loop, election, proxy, endpoints; finger
   table, lookups, stabilization, node manager, router; proofs about each of them.
2. Done: proofs of every safety property the passing runs check; the refinements of `URIRegistry`
   and `URIService`. Left: endpoints whose server dies under them, and specifications for the
   proxy and the router like that of the service.
3. A lookup that asks nodes whose own tables change, with two nodes of `FindAddressOwner`'s kind
   at a time.
