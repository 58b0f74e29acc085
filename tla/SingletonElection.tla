------------------------- MODULE SingletonElection -------------------------
(***************************************************************************)
(* How the processes of a machine agree on the URI server of a messaging   *)
(* directory.  There is no lock: the directory and /proc are all they      *)
(* share.  startEngine looks for the socket file of a live server          *)
(* (checkForExistingURISingletonsAndCleanUpSingletonIPCFiles), forks a     *)
(* daemon if it finds none and polls until some server has appeared; the   *)
(* daemon makes the same check once more before it binds its own socket.   *)
(*                                                                         *)
(* A file of the directory is <<number, rest>>: what the parser reads after *)
(* "URIDatabaseServer:ProcessID:", and the characters that follow.  A      *)
(* server's socket is <<its pid, Server>>, nothing follows.  The socket of *)
(* a publisher or replier has the path of its server with the resource     *)
(* name appended (Joined): the number is the server's pid unless the name  *)
(* begins with a digit, and then it is that of another process, of nobody  *)
(* or too large.  Both kinds are taken for server files by the parser.  A  *)
(* daemon is named by its pid, a resource by the starter that makes it.    *)
(* Reading the directory, and reading /proc, is one step each.             *)
(***************************************************************************)
EXTENDS Naturals, FiniteSets

CONSTANTS
    Starters,   \* processes that call startEngine once
    Daemons,    \* pids of the daemons they may fork
    Others,     \* pids of other programs that run all the time
    Joined,     \* the file of a resource beside a server: <<number, rest>>
    Server,     \* the rest that is empty: nothing follows the number
    None,       \* no pid; a number that std::stoll refuses
    MaxPolls,   \* HOW_LONG_TO_WAIT_FOR_DATABASE_SERVER_IN_MILLISECONDS / 100
    MaxReuses   \* bound: how often the pid of a dead daemon is given to a new process

Pids  == Daemons \cup Others
Files == (Pids \cup {None}) \X (Starters \cup {Server})

ASSUME ElectionAssumption ==
    /\ Starters \cap Pids = {}
    /\ Daemons \cap Others = {}
    /\ None \notin Starters \cup Pids
    /\ Joined \in [Daemons \X Starters -> Files]
    /\ Server \notin Starters
    /\ MaxPolls \in Nat \ {0}
    /\ MaxReuses \in Nat

VARIABLES
    pc,         \* where each process is
    listed,     \* the files a process found in the directory and has not removed
    polls,      \* rounds a starter has polled since it forked
    address,    \* the server a starter returned
    forked,     \* the daemon a starter forked
    files,      \* the content of the messaging directory
    witnessed,  \* history: the servers a daemon's check could have seen
    misread,    \* history: a file has been made whose number is not its server's
    reuses      \* pids given out again so far

shared == <<files, witnessed, misread, reuses>>
vars == <<pc, listed, polls, address, forked, shared>>

Procs  == Starters \cup Daemons
Checking == {"readdir", "readproc", "remove"}

StarterStates == Checking \cup {"fork", "done", "failed", "publishing", "closed", "killed"}
DaemonStates  == Checking \cup {"unborn", "bind", "serving", "closing", "gone", "stranger"}

TypeOK ==
    /\ pc \in [Procs -> StarterStates \cup DaemonStates]
    /\ \A s \in Starters : pc[s] \in StarterStates
    /\ \A d \in Daemons : pc[d] \in DaemonStates
    /\ listed \in [Procs -> SUBSET Files]
    /\ polls \in [Starters -> 0 .. MaxPolls]
    /\ address \in [Starters -> Pids \cup {None}]
    /\ forked \in [Starters -> Daemons \cup {None}]
    /\ files \subseteq Files
    /\ witnessed \in [Daemons -> SUBSET Daemons]
    /\ misread \in BOOLEAN
    /\ reuses \in 0 .. MaxReuses

Init ==
    /\ pc = [p \in Procs |-> IF p \in Starters THEN "readdir" ELSE "unborn"]
    /\ listed = [p \in Procs |-> {}]
    /\ polls = [s \in Starters |-> 0]
    /\ address = [s \in Starters |-> None]
    /\ forked = [s \in Starters |-> None]
    /\ files = {}
    /\ witnessed = [d \in Daemons |-> {}]
    /\ misread = FALSE
    /\ reuses = 0

\* The pids that getActiveProcessIDSet finds in /proc.
Active  == Others \cup {d \in Daemons : pc[d] \notin {"unborn", "gone"}}
Servers == {d \in Daemons : pc[d] = "serving"}

Goto(p, state) == pc' = [pc EXCEPT ![p] = state]

-----------------------------------------------------------------------------
(***************************************************************************)
(* checkForExistingURISingletonsAndCleanUpSingletonIPCFiles, by a starter  *)
(* or by a daemon                                                          *)
(***************************************************************************)

\* getListOfSingletonProcessIDs: every file with a number std::stoll accepts.
ReadDirectory(p) ==
    /\ pc[p] = "readdir"
    /\ listed' = [listed EXCEPT ![p] = {file \in files : file[1] # None}]
    /\ witnessed' = IF p \in Daemons THEN [witnessed EXCEPT ![p] = Servers] ELSE witnessed
    /\ Goto(p, "readproc")
    /\ UNCHANGED <<polls, address, forked, files, misread, reuses>>

\* Mutant: the pids are not compared with the active ones.
FoundAnyFile(p) == {file[1] : file \in listed[p]}

\* The listed pids that are active; the caller gets the first in directory order.
Found(p) == {file[1] : file \in listed[p]} \cap Active

\* Mutant: the constructor goes on although another singleton exists.
FindsServerAndBinds(p, d) ==
    IF p \in Starters THEN Goto(p, "done") /\ address' = [address EXCEPT ![p] = d]
                      ELSE Goto(p, "bind") /\ UNCHANGED address

\* A starter returns the address of the server; a daemon throws and exits.
FindsServer(p, d) ==
    IF p \in Starters THEN Goto(p, "done") /\ address' = [address EXCEPT ![p] = d]
                      ELSE Goto(p, "gone") /\ UNCHANGED address

\* getActiveProcessIDSet and the comparison.
ReadProcesses(p) ==
    /\ pc[p] = "readproc"
    /\ \/ /\ Found(p) = {}
          /\ Goto(p, "remove")
          /\ UNCHANGED <<listed, address>>
       \/ \E d \in Found(p) :
          /\ FindsServer(p, d)
          /\ listed' = [listed EXCEPT ![p] = {}]
    /\ UNCHANGED <<polls, forked, shared>>

\* Mutant: the directory is read again for the removal.
ListedAgain(p) == files

ToRemove(p) == listed[p]

\* The next entry of the list: the path removed is made of its number alone.
Remove(p) ==
    /\ pc[p] = "remove"
    /\ \E file \in ToRemove(p) :
          IF <<file[1], Server>> \in files
          THEN /\ files' = files \ {<<file[1], Server>>}
               /\ listed' = [listed EXCEPT ![p] = @ \ {file}]
               /\ UNCHANGED pc
          ELSE \* remove() fails and the exception leaves startEngine, or ends the daemon
               /\ Goto(p, IF p \in Starters THEN "failed" ELSE "gone")
               /\ listed' = [listed EXCEPT ![p] = {}]
               /\ UNCHANGED files
    /\ UNCHANGED <<polls, address, forked, witnessed, misread, reuses>>

\* The list is worked off: false is returned.
CheckEnds(p) == pc[p] = "remove" /\ ToRemove(p) = {}

-----------------------------------------------------------------------------
(***************************************************************************)
(* ensureDirectoryURIServerSingletonIsRunningAndGetAddress                 *)
(***************************************************************************)
NothingFound(s) ==
    /\ CheckEnds(s)
    /\ forked[s] = None
    /\ Goto(s, "fork")
    /\ UNCHANGED <<listed, polls, address, forked, shared>>

Fork(s) ==
    /\ pc[s] = "fork"
    /\ \E d \in Daemons :
          /\ pc[d] = "unborn"
          /\ pc' = [pc EXCEPT ![s] = "readdir", ![d] = "readdir"]
          /\ forked' = [forked EXCEPT ![s] = d]
    /\ UNCHANGED <<listed, polls, address, shared>>

ForkFails(s) ==
    /\ pc[s] = "fork"
    /\ Goto(s, "failed")
    /\ UNCHANGED <<listed, polls, address, forked, shared>>

\* Mutant: the rounds are not counted.
PollForever(s) ==
    /\ CheckEnds(s)
    /\ forked[s] # None
    /\ Goto(s, "readdir")
    /\ UNCHANGED <<listed, polls, address, forked, shared>>

\* usleep, and the next round unless it was the last.
Poll(s) ==
    /\ CheckEnds(s)
    /\ forked[s] # None
    /\ polls' = [polls EXCEPT ![s] = @ + 1]
    /\ Goto(s, IF polls[s] + 1 = MaxPolls THEN "failed" ELSE "readdir")
    /\ UNCHANGED <<listed, address, forked, shared>>

-----------------------------------------------------------------------------
(***************************************************************************)
(* The daemon                                                              *)
(***************************************************************************)

\* becomeDaemon fails, or the daemon is killed; the kernel leaves its files.  A daemon
\* that has closed its socket ends with _exit.
Dies(d) ==
    /\ pc[d] \in Checking \cup {"bind", "serving", "closing", "stranger"}
    /\ Goto(d, "gone")
    /\ listed' = [listed EXCEPT ![d] = {}]
    /\ UNCHANGED <<polls, address, forked, shared>>

NoOtherServer(d) ==
    /\ CheckEnds(d)
    /\ Goto(d, "bind")
    /\ UNCHANGED <<listed, polls, address, forked, shared>>

\* bind unlinks a file of that name first.
Bind(d) ==
    /\ pc[d] = "bind"
    /\ files' = files \cup {<<d, Server>>}
    /\ Goto(d, "serving")
    /\ UNCHANGED <<listed, polls, address, forked, witnessed, misread, reuses>>

\* processRequests throws: the socket is closed and its file unlinked while the process
\* is still in /proc.
Exits(d) ==
    /\ pc[d] = "serving"
    /\ files' = files \ {<<d, Server>>}
    /\ Goto(d, "closing")
    /\ UNCHANGED <<listed, polls, address, forked, witnessed, misread, reuses>>

\* The pid of a dead daemon is given out again: to a process that has nothing to do
\* with the library, or to a daemon that is forked later.
PidReused(d) ==
    /\ pc[d] = "gone"
    /\ reuses < MaxReuses
    /\ reuses' = reuses + 1
    /\ \E state \in {"stranger", "unborn"} : Goto(d, state)
    /\ witnessed' = [witnessed EXCEPT ![d] = {}]
    /\ UNCHANGED <<listed, polls, address, forked, files, misread>>

-----------------------------------------------------------------------------
(***************************************************************************)
(* What a process does with the address: its publishers and repliers bind  *)
(* sockets beside the server's, once a server has taken their URI          *)
(***************************************************************************)
OwnFile(s) == Joined[<<address[s], s>>]

Publish(s) ==
    /\ pc[s] = "done"
    /\ address[s] \in Daemons
    /\ files' = files \cup {OwnFile(s)}
    /\ misread' = (misread \/ OwnFile(s) # <<address[s], s>>)
    /\ Goto(s, "publishing")
    /\ UNCHANGED <<listed, polls, address, forked, witnessed, reuses>>

Close(s) ==
    /\ pc[s] = "publishing"
    /\ files' = files \ {OwnFile(s)}
    /\ Goto(s, "closed")
    /\ UNCHANGED <<listed, polls, address, forked, witnessed, misread, reuses>>

Killed(s) ==
    /\ pc[s] = "publishing"
    /\ Goto(s, "killed")
    /\ UNCHANGED <<listed, polls, address, forked, shared>>

-----------------------------------------------------------------------------
Check(p)   == ReadDirectory(p) \/ ReadProcesses(p) \/ Remove(p)
Starting(s) == Check(s) \/ NothingFound(s) \/ Fork(s) \/ ForkFails(s) \/ Poll(s)
Running(d) == Check(d) \/ NoOtherServer(d) \/ Bind(d)

Next ==
    \/ \E s \in Starters : Starting(s) \/ Publish(s) \/ Close(s) \/ Killed(s)
    \/ \E d \in Daemons : Running(d) \/ Dies(d) \/ Exits(d) \/ PidReused(d)

\* A process that is neither blocked nor dead takes its next step.
Fairness == (\A s \in Starters : WF_vars(Starting(s))) /\ (\A d \in Daemons : WF_vars(Running(d)))

Spec == Init /\ [][Next]_vars /\ Fairness

-----------------------------------------------------------------------------
(***************************************************************************)
(* Properties                                                              *)
(***************************************************************************)

\* Every number in the directory is the pid of the process that made the file, or whose
\* path the file's begins with: no pid has been given out twice, and no resource whose
\* name begins with a digit has lain there.  The code relies on it throughout.
NumbersArePids == reuses = 0 /\ ~misread

\* No check, however it interleaves with starts and crashes, deletes the socket file of
\* a server that lives: it would be unreachable and unknown for ever (the removal loop).
\* Without NumbersArePids it fails: a pid may come back, or a number may become that of
\* a new server, between the reading of /proc and the removal.
LiveServerKeepsItsFile == NumbersArePids => \A d \in Servers : <<d, Server>> \in files

\* A daemon does not become a second server beside one that was serving when it read
\* the directory (the constructor's check).  Two daemons that both read it before either
\* binds are OnlyOneServer's.
NeverJoinsServer == NumbersArePids => \A d \in Servers : witnessed[d] \cap Servers = {}

\* The address startEngine returns is that of a server: one that serves at that moment,
\* or that has closed its socket and is about to leave /proc (the comparison with /proc).
\* It is never that of a server that died before the check, of a daemon that has not
\* bound yet, or of another program.  Without NumbersArePids it fails: a process that got
\* the pid of a dead server is taken for it, and so is any process that runs under the
\* number of a file left over by a resource whose name begins with a digit.
ReturnsServer ==
    [][\A s \in Starters :
          NumbersArePids /\ pc[s] # "done" /\ pc'[s] = "done" =>
              address'[s] \in Servers \cup {d \in Daemons : pc[d] = "closing"}]_vars

\* startEngine returns or throws, whatever becomes of the daemons and of their pids (the
\* bounded polling).  That it gives up although a server lives, or throws because another
\* check has removed the file first, is allowed.
EveryStarterReturns == \A s \in Starters : pc[s] = "readdir" ~> pc[s] \in {"done", "failed"}

-----------------------------------------------------------------------------
(***************************************************************************)
(* What the comments say and the code does not keep                        *)
(***************************************************************************)

\* "Only one process with this object should be permitted for a given URI folder ...
\* This is enforced by the database IPC file incorporating the process ID".
OnlyOneServer == Cardinality(Servers) <= 1
=============================================================================
