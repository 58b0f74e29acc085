---------------------------- MODULE LocalURIProxy ----------------------------
(***************************************************************************)
(* The proxy thread of a program (initializeAndRunLocalURIProxy) between   *)
(* the threads that call addURI, removeURI and getURIs and the URI server  *)
(* process.  A caller opens an inproc REQ socket for each call and waits   *)
(* for its reply without a timeout.  The proxy takes one request at a time *)
(* from its inproc REP socket, forwards it over its REQ socket, and waits  *)
(* at most ten seconds for the reply.  When a request has not been         *)
(* answered the REP socket refuses the next recv (EFSM), the exception     *)
(* leaves the loop, and the thread returns without a word to anyone.       *)
(*                                                                         *)
(* A request is <<thread, number of the call>>, a reply the request it     *)
(* answers.  Time is abstract: a wait may end without a result whenever    *)
(* the other side is not prompt.  Left out: multi-part messages (nobody    *)
(* sends any), failures of ZeroMQ calls in mid-loop.                       *)
(***************************************************************************)
EXTENDS Naturals, Sequences

CONSTANTS
    Callers,    \* threads of the program
    None,       \* no request
    MaxCalls    \* bound on the calls of a thread

ASSUME ProxyAssumption == MaxCalls \in Nat /\ None \notin Callers \X Nat

VARIABLES
    caller,     \* "idle" or "waiting" (in recv, for the reply to its last call)
    calls,      \* calls made by a thread
    inbox,      \* the reply that has arrived for a thread
    queue,      \* requests at the proxy's inproc socket
    proxy,      \* where the proxy thread is
    current,    \* the request whose reply the REP socket still owes
    toServer,   \* requests on their way to the server
    fromServer, \* replies on their way back
    server,     \* "prompt", "slow" or "dead"
    exitFlag,   \* serverThreadExitFlag
    program     \* "running", "ending" (in the engine's destructor), "ended", "crashed"

threads == <<caller, calls, inbox>>
wires   == <<toServer, fromServer>>
outer   == <<server, exitFlag, program>>
vars    == <<threads, queue, proxy, current, wires, outer>>

Requests == Callers \X (1 .. MaxCalls)
ProxyStates == {"starting", "failed", "top", "listen", "forward", "await", "exited"}

TypeOK ==
    /\ caller \in [Callers -> {"idle", "waiting"}]
    /\ calls \in [Callers -> 0 .. MaxCalls]
    /\ inbox \in [Callers -> Requests \cup {None}]
    /\ queue \in Seq(Requests)
    /\ proxy \in ProxyStates
    /\ current \in Requests \cup {None}
    /\ toServer \in Seq(Requests)
    /\ fromServer \in Seq(Requests)
    /\ server \in {"prompt", "slow", "dead"}
    /\ exitFlag \in BOOLEAN
    /\ program \in {"running", "ending", "ended", "crashed"}

Init ==
    /\ caller = [t \in Callers |-> "idle"]
    /\ calls = [t \in Callers |-> 0]
    /\ inbox = [t \in Callers |-> None]
    /\ queue = <<>>
    /\ proxy = "starting"
    /\ current = None
    /\ toServer = <<>>
    /\ fromServer = <<>>
    /\ server = "prompt"
    /\ exitFlag = FALSE
    /\ program = "running"

Alive == program \in {"running", "ending"}

-----------------------------------------------------------------------------
(***************************************************************************)
(* Callers: addURI, removeURI, getURIs                                     *)
(***************************************************************************)
StartsCall(t) ==
    /\ Alive
    /\ caller[t] = "idle"
    /\ calls[t] < MaxCalls
    /\ calls' = [calls EXCEPT ![t] = @ + 1]
    /\ UNCHANGED <<inbox, proxy, current, wires, server, exitFlag>>

Waits(t) == caller' = [caller EXCEPT ![t] = "waiting"]

\* engineInProcAddress is NULL: an exception is thrown at once.
CallsTooEarly(t) ==
    /\ StartsCall(t)
    /\ proxy \in {"starting", "failed"}
    /\ UNCHANGED <<caller, queue, program>>

Call(t) ==
    /\ StartsCall(t)
    /\ proxy \notin {"starting", "failed", "exited"}
    /\ Waits(t)
    /\ queue' = Append(queue, <<t, calls[t] + 1>>)
    /\ UNCHANGED program

\* engineInProcAddress points to a string that the proxy thread has destroyed: what is
\* left there is no address (connect throws), or still is that of the socket that is
\* gone (the caller waits), or cannot be read.
CallsTooLate(t) ==
    /\ StartsCall(t)
    /\ proxy = "exited"
    /\ \/ UNCHANGED <<caller, program>>
       \/ Waits(t) /\ UNCHANGED program
       \/ program' = "crashed" /\ UNCHANGED caller
    /\ UNCHANGED queue

Returns(t) ==
    /\ Alive
    /\ inbox[t] # None
    /\ inbox' = [inbox EXCEPT ![t] = None]
    /\ caller' = [caller EXCEPT ![t] = "idle"]
    /\ UNCHANGED <<calls, queue, proxy, current, wires, outer>>

-----------------------------------------------------------------------------
(***************************************************************************)
(* The proxy thread                                                        *)
(***************************************************************************)
Step(from, to) ==
    /\ Alive
    /\ proxy = from
    /\ proxy' = to
    /\ UNCHANGED outer

\* The thread returns and closes its sockets; whoever waits is not told.
Exits(from) ==
    /\ Step(from, "exited")
    /\ queue' = <<>>
    /\ current' = None
    /\ UNCHANGED <<threads, wires>>

\* The promise is set to true, or to an exception that the engine only prints.
Starts      == \E state \in {"top", "failed"} :
                  Step("starting", state) /\ UNCHANGED <<threads, queue, current, wires>>
KeepsOn     == ~ exitFlag /\ Step("top", "listen") /\ UNCHANGED <<threads, queue, current, wires>>
StopsOnFlag == exitFlag /\ Exits("top")

\* recv, within HOW_LONG_TO_BLOCK_FOR_REQUEST.
Takes ==
    /\ Step("listen", "forward")
    /\ current = None
    /\ queue # <<>>
    /\ current' = Head(queue)
    /\ queue' = Tail(queue)
    /\ UNCHANGED <<threads, wires>>

\* Mutant: the loop around recv does not look at the flag.
ListensAgain ==
    /\ Step("listen", "listen")
    /\ queue = <<>>
    /\ UNCHANGED <<threads, queue, current, wires>>

ListenTimesOut ==
    /\ Step("listen", "top")
    /\ current = None
    /\ queue = <<>>
    /\ UNCHANGED <<threads, queue, current, wires>>

\* recv while a reply is owed: EFSM.
ListenThrows == current # None /\ Exits("listen")

\* Mutant: requests are pipelined.
ForwardsWithoutWaiting ==
    /\ Step("forward", "top")
    /\ toServer' = Append(toServer, current)
    /\ current' = None
    /\ UNCHANGED <<threads, queue, fromServer>>

Forwards ==
    /\ Step("forward", "await")
    /\ toServer' = Append(toServer, current)
    /\ UNCHANGED <<threads, queue, current, fromServer>>

ForwardTimesOut ==
    /\ server = "dead"
    /\ Step("forward", "top")
    /\ UNCHANGED <<threads, queue, current, wires>>

\* Mutant: the loop is left before the reply is passed on.
RelaysNothing ==
    /\ Step("await", "top")
    /\ fromServer # <<>>
    /\ fromServer' = Tail(fromServer)
    /\ current' = None
    /\ UNCHANGED <<threads, queue, toServer>>

Relays ==
    /\ Step("await", "top")
    /\ fromServer # <<>>
    /\ fromServer' = Tail(fromServer)
    /\ inbox' = [inbox EXCEPT ![current[1]] = Head(fromServer)]
    /\ current' = None
    /\ UNCHANGED <<caller, calls, queue, toServer>>

\* Mutant: the request is given up and the loop goes on, on sockets that allow it.
GivesUp ==
    /\ server # "prompt"
    /\ Step("await", "top")
    /\ fromServer = <<>>
    /\ current' = None
    /\ UNCHANGED <<threads, queue, wires>>

\* HOW_LONG_TO_WAIT_FOR_DATABASE_SERVER_IN_MILLISECONDS have passed.
AwaitTimesOut ==
    /\ server # "prompt"
    /\ Step("await", "top")
    /\ fromServer = <<>>
    /\ UNCHANGED <<threads, queue, current, wires>>

Proxy == \/ Starts \/ KeepsOn \/ StopsOnFlag
         \/ Takes \/ ListenTimesOut \/ ListenThrows
         \/ Forwards \/ ForwardTimesOut
         \/ Relays \/ AwaitTimesOut

-----------------------------------------------------------------------------
(***************************************************************************)
(* The server process, seen from this program                              *)
(***************************************************************************)
Answers ==
    /\ server # "dead"
    /\ toServer # <<>>
    /\ toServer' = Tail(toServer)
    /\ fromServer' = Append(fromServer, Head(toServer))
    /\ UNCHANGED <<threads, queue, proxy, current, outer>>

ServerChanges ==
    /\ server # "dead"
    /\ server' \in {"prompt", "slow", "dead"} \ {server}
    /\ toServer' = IF server' = "dead" THEN <<>> ELSE toServer
    /\ UNCHANGED <<threads, queue, proxy, current, fromServer, exitFlag, program>>

-----------------------------------------------------------------------------
(***************************************************************************)
(* The end of the program: ~localURIEngine, after main has returned        *)
(***************************************************************************)
MainReturns ==
    /\ program = "running"
    /\ proxy # "starting"
    /\ program' = "ending"
    /\ exitFlag' = TRUE
    /\ UNCHANGED <<threads, queue, proxy, current, wires, server>>

\* A request that was forwarded to a server that is gone stays in the closed socket
\* (ZMQ_LINGER is not set), and the context waits for it.
Lingers == server = "dead" /\ toServer # <<>>

\* The thread is joined and the ZeroMQ context terminated: recv throws in the callers.
Terminates ==
    /\ program = "ending"
    /\ proxy \in {"exited", "failed"}
    /\ ~ Lingers
    /\ program' = "ended"
    /\ caller' = [t \in Callers |-> "idle"]
    /\ inbox' = [t \in Callers |-> None]
    /\ UNCHANGED <<calls, queue, proxy, current, wires, server, exitFlag>>

-----------------------------------------------------------------------------
Next ==
    \/ \E t \in Callers : CallsTooEarly(t) \/ Call(t) \/ CallsTooLate(t) \/ Returns(t)
    \/ Proxy
    \/ Answers
    \/ ServerChanges
    \/ MainReturns
    \/ Terminates

\* Threads that are not blocked run; only a prompt server is sure to answer.  The wait
\* for the server is strong: ten seconds pass, however often the server changes.
Fairness ==
    /\ WF_vars(Proxy)
    /\ SF_vars(Relays \/ AwaitTimesOut)
    /\ WF_vars(server = "prompt" /\ Answers)
    /\ \A t \in Callers : WF_vars(Returns(t))
    /\ WF_vars(Terminates)

Spec == Init /\ [][Next]_vars /\ Fairness

-----------------------------------------------------------------------------
(***************************************************************************)
(* Properties                                                              *)
(***************************************************************************)

\* The reply a thread gets answers the call it is in, whatever timed out before: no
\* late reply of the server reaches another call (the strict REQ and REP sockets).
AnswersMatch == \A t \in Callers : inbox[t] # None => inbox[t] = <<t, calls[t]>>

\* The program never has two requests under way, so those of its threads are applied
\* one after the other.
OneRequestUnderWay == Len(toServer) + Len(fromServer) <= 1

\* With a server that always answers in time every call returns or throws, also when
\* the program ends meanwhile: recv has no timeout of its own.
CallsReturn ==
    [](server = "prompt") =>
        \A t \in Callers : caller[t] = "waiting" ~> caller[t] = "idle" \/ program = "crashed"

\* A program whose main returns ends: the proxy sees the flag, whatever it is waiting
\* for, is joined, and lets go of every caller, unless a request lingers.
ProgramEnds == program = "ending" ~> program = "ended" \/ Lingers \/ program = "crashed"

-----------------------------------------------------------------------------
(***************************************************************************)
(* What the comments say and the code does not keep                        *)
(***************************************************************************)

\* "How long (in milliseconds) the object should wait for the singleton to respond to
\* its request before throwing an exception": no caller waits for ever for a server
\* that is slow but lives.
EveryCallReturns ==
    [](server # "dead") =>
        \A t \in Callers : caller[t] = "waiting" ~> caller[t] = "idle" \/ program = "crashed"
=============================================================================
