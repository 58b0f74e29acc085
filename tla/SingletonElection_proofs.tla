----------------------- MODULE SingletonElection_proofs -----------------------
(***************************************************************************)
(* The safety of the election, for any number of processes: no check       *)
(* deletes the file of a live server, no daemon joins a server that its    *)
(* check could have seen, and startEngine returns the address of a server. *)
(*                                                                         *)
(* All three rest on one observation: as long as the numbers in file names *)
(* are pids (no pid has been given out twice, and no resource whose name   *)
(* begins with a digit has lain beside a server), a number that appears in *)
(* the directory, and so in any listing and in any address, is the pid of  *)
(* a daemon that has bound, which serves, is closing or is gone for good.  *)
(* So what /proc does not show when it is compared with a listing will     *)
(* never be shown again, and what is removed later belongs to the dead.    *)
(***************************************************************************)
EXTENDS SingletonElection, TLAPS

-----------------------------------------------------------------------------
(***************************************************************************)
(* Types                                                                   *)
(***************************************************************************)

\* A starter that has found a server knows its address, and one that has polled often
\* enough has failed.
AddressKnown ==
    \A s \in Starters : /\ pc[s] = "done" => address[s] \in Pids
                        /\ pc[s] = "publishing" => address[s] \in Daemons
                        /\ polls[s] = MaxPolls => pc[s] = "failed"

Typed == TypeOK /\ AddressKnown

LEMMA InitTyped == Init => Typed
<1> SUFFICES ASSUME Init PROVE Typed
  OBVIOUS
<1> USE ElectionAssumption DEF Init, Procs, Pids
<1>1. \A d \in Daemons : d \notin Starters
  OBVIOUS
<1>2. pc \in [Procs -> StarterStates \cup DaemonStates]
  BY DEF StarterStates, DaemonStates, Checking
<1>3. /\ \A s \in Starters : pc[s] \in StarterStates
      /\ \A d \in Daemons : pc[d] \in DaemonStates
  BY <1>1 DEF StarterStates, DaemonStates, Checking
<1>4. polls \in [Starters -> 0 .. MaxPolls] /\ reuses \in 0 .. MaxReuses
  OBVIOUS
<1>5. \A s \in Starters : pc[s] = "readdir" /\ polls[s] # MaxPolls
  OBVIOUS
<1>6. /\ listed \in [Procs -> SUBSET Files]
      /\ files \subseteq Files
      /\ witnessed \in [Daemons -> SUBSET Daemons]
  OBVIOUS
<1>7. /\ address \in [Starters -> Pids \cup {None}]
      /\ forked \in [Starters -> Daemons \cup {None}]
      /\ misread \in BOOLEAN
  OBVIOUS
<1> QED BY <1>2, <1>3, <1>4, <1>5, <1>6, <1>7 DEF Typed, TypeOK, AddressKnown

LEMMA TypedStep ==
  ASSUME Typed, [Next]_vars
  PROVE  Typed'
<1> USE ElectionAssumption DEF Typed, TypeOK, AddressKnown, Procs, StarterStates,
                               DaemonStates, Checking, Goto, shared, Pids
<1>1. ASSUME NEW p \in Procs, ReadDirectory(p) PROVE Typed'
  BY <1>1 DEF ReadDirectory, Servers, Files
<1>2. ASSUME NEW p \in Procs, ReadProcesses(p) PROVE Typed'
  <2>1. Found(p) \subseteq Pids
    BY DEF Found, Active
  <2>2. CASE p \in Starters
    BY <1>2, <2>1, <2>2 DEF ReadProcesses, FindsServer
  <2>3. CASE p \in Daemons
    BY <1>2, <2>1, <2>3 DEF ReadProcesses, FindsServer
  <2> QED BY <2>2, <2>3
<1>3. ASSUME NEW p \in Procs, Remove(p) PROVE Typed'
  <2>1. UNCHANGED <<polls, address, forked, witnessed, misread, reuses>> /\ files' \subseteq files
    BY <1>3 DEF Remove
  <2>2. PICK left \in SUBSET Files : listed' = [listed EXCEPT ![p] = left]
    <3>1. PICK file \in listed[p] : \/ listed' = [listed EXCEPT ![p] = @ \ {file}]
                                   \/ listed' = [listed EXCEPT ![p] = {}]
      BY <1>3 DEF Remove, ToRemove
    <3>2. listed[p] \ {file} \in SUBSET Files
      BY <3>1
    <3>3. listed' = [listed EXCEPT ![p] = listed[p] \ {file}] \/ listed' = [listed EXCEPT ![p] = {}]
      BY <3>1
    <3> QED BY <3>2, <3>3
  <2>3. listed' \in [Procs -> SUBSET Files]
    BY <2>2
  <2>4. \/ pc' = pc
        \/ p \in Starters /\ pc' = [pc EXCEPT ![p] = "failed"]
        \/ p \in Daemons /\ pc' = [pc EXCEPT ![p] = "gone"]
    BY <1>3 DEF Remove
  <2>5. /\ pc' \in [Procs -> StarterStates \cup DaemonStates]
        /\ \A s \in Starters : pc'[s] \in StarterStates
        /\ \A d \in Daemons : pc'[d] \in DaemonStates
    BY <2>4
  <2>6. AddressKnown'
    BY <2>1, <2>4
  <2> QED BY <2>1, <2>3, <2>5, <2>6
<1>4. ASSUME NEW s \in Starters, NothingFound(s) \/ ForkFails(s) \/ Killed(s) PROVE Typed'
  <2>1. UNCHANGED <<listed, polls, address, forked, shared>>
    BY <1>4 DEF NothingFound, ForkFails, Killed
  <2>2. PICK state \in {"fork", "failed", "killed"} : pc' = [pc EXCEPT ![s] = state]
    BY <1>4 DEF NothingFound, ForkFails, Killed
  <2>3. pc[s] \in {"remove", "fork", "publishing"}
    BY <1>4 DEF NothingFound, ForkFails, Killed, CheckEnds
  <2>4. /\ pc' \in [Procs -> StarterStates \cup DaemonStates]
        /\ \A t \in Starters : pc'[t] \in StarterStates
        /\ \A d \in Daemons : pc'[d] \in DaemonStates
    BY <2>2
  <2>5. AddressKnown'
    BY <2>1, <2>2, <2>3
  <2> QED BY <2>1, <2>4, <2>5
<1>5. ASSUME NEW s \in Starters, Fork(s) PROVE Typed'
  BY <1>5 DEF Fork
<1>6. ASSUME NEW s \in Starters, Poll(s) PROVE Typed'
  <2>1. polls[s] + 1 \in 0 .. MaxPolls
    <3>1. polls[s] \in 0 .. MaxPolls /\ polls[s] # MaxPolls /\ MaxPolls \in Nat
      BY <1>6 DEF Poll, CheckEnds
    <3> HIDE ElectionAssumption DEF Typed, TypeOK, AddressKnown
    <3> QED BY <3>1
  <2> QED BY <1>6, <2>1 DEF Poll
<1>7. ASSUME NEW s \in Starters, Publish(s) \/ Close(s) PROVE Typed'
  <2>1. files' \subseteq Files /\ misread' \in BOOLEAN
    <3>1. CASE Publish(s)
      <4>1. <<address[s], s>> \in Daemons \X Starters
        BY <3>1 DEF Publish
      <4> QED BY <3>1, <4>1 DEF Publish, OwnFile
    <3>2. CASE Close(s)
      BY <3>2 DEF Close
    <3> QED BY <1>7, <3>1, <3>2
  <2> QED BY <1>7, <2>1 DEF Publish, Close
<1>8. ASSUME NEW d \in Daemons, NoOtherServer(d) \/ Bind(d) \/ Dies(d) \/ Exits(d) PROVE Typed'
  BY <1>8 DEF NoOtherServer, Bind, Dies, Exits, Files
<1>9. ASSUME NEW d \in Daemons, PidReused(d) PROVE Typed'
  BY <1>9 DEF PidReused
<1>10. CASE UNCHANGED vars
  BY <1>10 DEF vars
<1> QED BY <1>1, <1>2, <1>3, <1>4, <1>5, <1>6, <1>7, <1>8, <1>9, <1>10
        DEF Next, Starting, Running, Check

\* Every variable has its type, for any number of processes and pids (the states of
\* startEngine and of the daemon).
THEOREM TypeCorrect == Spec => []TypeOK
<1>1. Init => Typed
  BY InitTyped
<1>2. Typed /\ [Next]_vars => Typed'
  BY TypedStep
<1>3. Typed => TypeOK
  BY DEF Typed
<1> QED BY <1>1, <1>2, <1>3, PTL DEF Spec

-----------------------------------------------------------------------------
(***************************************************************************)
(* The inductive invariant                                                 *)
(***************************************************************************)

Bound(d) == d \in Daemons /\ pc[d] \in {"serving", "closing", "gone"}

\* Whose number is known by a file has bound; what is listed for removal is gone.
Known ==
    /\ \A file \in files : Bound(file[1])
    /\ \A p \in Procs : \A file \in listed[p] :
          /\ Bound(file[1])
          /\ pc[p] = "remove" => pc[file[1]] = "gone"
    /\ \A s \in Starters : address[s] # None => Bound(address[s])

\* The files of resources that are open are where they were made.
OwnFilesInPlace == \A s \in Starters : pc[s] = "publishing" => OwnFile(s) = <<address[s], s>>

ServersHaveFiles == \A d \in Servers : <<d, Server>> \in files

\* Of the servers that a daemon could have seen, those that still serve are on its list until
\* it has compared the list with /proc, and after that none serves.
WitnessedListed ==
    \A d \in Daemons : \A w \in witnessed[d] :
        /\ pc[d] = "readproc" => \/ pc[w] \in {"closing", "gone"}
                                 \/ pc[w] = "serving" /\ <<w, Server>> \in listed[d]
        /\ pc[d] \in {"remove", "bind", "serving"} => pc[w] \in {"closing", "gone"}

IInv == NumbersArePids => Known /\ OwnFilesInPlace /\ ServersHaveFiles /\ WitnessedListed

\* A step that changes nothing but where starters are, and takes none to a removal, keeps it.
LEMMA StarterMoves ==
  ASSUME Typed, IInv, NEW s \in Starters, NEW state \in StarterStates \ {"remove", "publishing"},
         Goto(s, state), UNCHANGED <<listed, address, shared>>
  PROVE  IInv'
<1> USE ElectionAssumption DEF Pids, Typed, TypeOK, Procs, Goto, shared
<1> SUFFICES ASSUME NumbersArePids, Known, OwnFilesInPlace, ServersHaveFiles, WitnessedListed
             PROVE  Known' /\ OwnFilesInPlace' /\ ServersHaveFiles' /\ WitnessedListed'
  BY DEF IInv, NumbersArePids
<1>1. \A d \in Daemons : pc'[d] = pc[d]
  OBVIOUS
<1>2. Known'
  BY <1>1 DEF Known, Bound
<1>3. ServersHaveFiles'
  BY <1>1 DEF ServersHaveFiles, Servers
<1>4. WitnessedListed'
  BY <1>1 DEF WitnessedListed
<1>5. OwnFilesInPlace'
  BY DEF OwnFilesInPlace, OwnFile
<1> QED BY <1>2, <1>3, <1>4, <1>5

LEMMA ReadDirectoryKeeps ==
  ASSUME Typed, IInv, NEW p \in Procs, ReadDirectory(p)
  PROVE  IInv'
<1> USE ElectionAssumption DEF Pids, Typed, TypeOK, Procs, Goto, shared
<1> SUFFICES ASSUME NumbersArePids, Known, OwnFilesInPlace, ServersHaveFiles, WitnessedListed
             PROVE  Known' /\ OwnFilesInPlace' /\ ServersHaveFiles' /\ WitnessedListed'
  BY DEF IInv, NumbersArePids, ReadDirectory
<1>1. \A d \in Daemons : /\ pc'[d] \in {"serving", "closing", "gone"} <=> pc[d] \in {"serving", "closing", "gone"}
                         /\ pc'[d] \in {"closing", "gone"} <=> pc[d] \in {"closing", "gone"}
                         /\ pc'[d] = "serving" <=> pc[d] = "serving"
                         /\ pc'[d] = "gone" <=> pc[d] = "gone"
  BY DEF ReadDirectory
<1>2. Known'
  BY <1>1 DEF Known, Bound, ReadDirectory
<1>3. ServersHaveFiles'
  BY <1>1 DEF ServersHaveFiles, Servers, ReadDirectory
<1>4. WitnessedListed'
  <2>1. SUFFICES ASSUME NEW d \in Daemons, NEW w \in witnessed'[d]
                 PROVE  /\ pc'[d] = "readproc" => \/ pc'[w] \in {"closing", "gone"}
                                                  \/ pc'[w] = "serving" /\ <<w, Server>> \in listed'[d]
                        /\ pc'[d] \in {"remove", "bind", "serving"} => pc'[w] \in {"closing", "gone"}
    BY DEF WitnessedListed
  <2>2. CASE d = p
    BY <1>1, <2>2 DEF ServersHaveFiles, Servers, ReadDirectory
  <2>3. CASE d # p
    <3>1. w \in witnessed[d] /\ w \in Daemons
      BY <2>3 DEF ReadDirectory
    <3> QED BY <1>1, <2>3, <3>1 DEF WitnessedListed, ReadDirectory
  <2> QED BY <2>2, <2>3
<1>5. OwnFilesInPlace'
  BY DEF OwnFilesInPlace, OwnFile, ReadDirectory
<1> QED BY <1>2, <1>3, <1>4, <1>5

LEMMA ReadProcessesKeeps ==
  ASSUME Typed, IInv, NEW p \in Procs, ReadProcesses(p)
  PROVE  IInv'
<1> USE ElectionAssumption DEF Pids, Typed, TypeOK, Procs, Goto, shared
<1> SUFFICES ASSUME NumbersArePids, Known, OwnFilesInPlace, ServersHaveFiles, WitnessedListed
             PROVE  Known' /\ OwnFilesInPlace' /\ ServersHaveFiles' /\ WitnessedListed'
  BY DEF IInv, NumbersArePids, ReadProcesses
<1>0. UNCHANGED shared /\ pc[p] = "readproc"
  BY DEF ReadProcesses
<1>1. CASE Found(p) = {} /\ Goto(p, "remove") /\ UNCHANGED <<listed, address>>
  <2>1. \A file \in listed[p] : file[1] \in Daemons /\ pc[file[1]] = "gone"
    BY <1>1 DEF Found, Active, Known, Bound
  <2>2. \A d \in Daemons : d # p => pc'[d] = pc[d]
    BY <1>1
  <2>3. \A d \in Daemons : pc[d] \in {"serving", "closing", "gone"} => pc'[d] = pc[d]
    BY <1>0, <2>2
  <2>4. Known'
    BY <1>0, <1>1, <2>1, <2>3 DEF Known, Bound
  <2>5. ServersHaveFiles'
    BY <1>0, <1>1, <2>2 DEF ServersHaveFiles, Servers
  <2>6. WitnessedListed'
    <3>1. SUFFICES ASSUME NEW d \in Daemons, NEW w \in witnessed[d]
                   PROVE  /\ pc'[d] = "readproc" => \/ pc'[w] \in {"closing", "gone"}
                                                    \/ pc'[w] = "serving" /\ <<w, Server>> \in listed[d]
                          /\ pc'[d] \in {"remove", "bind", "serving"} => pc'[w] \in {"closing", "gone"}
      BY <1>0, <1>1 DEF WitnessedListed
    <3>2. CASE d = p
      <4>1. pc[w] \in {"closing", "gone"} \/ <<w, Server>> \in listed[p]
        BY <1>0, <3>2 DEF WitnessedListed
      <4>2. pc[w] \in {"closing", "gone"}
        BY <2>1, <4>1
      <4> QED BY <1>0, <2>3, <4>2
    <3>3. CASE d # p
      BY <2>2, <2>3, <3>3 DEF WitnessedListed
    <3> QED BY <3>2, <3>3
  <2>7. OwnFilesInPlace'
    BY <1>1 DEF OwnFilesInPlace, OwnFile
  <2> QED BY <2>4, <2>5, <2>6, <2>7
<1>2. ASSUME NEW f \in Found(p), FindsServer(p, f), listed' = [listed EXCEPT ![p] = {}]
      PROVE  Known' /\ OwnFilesInPlace' /\ ServersHaveFiles' /\ WitnessedListed'
  <2>1. Bound(f)
    BY DEF Found, Active, Known
  <2>2. /\ \A q \in Procs : q # p => pc'[q] = pc[q] /\ listed'[q] = listed[q]
        /\ listed'[p] = {} /\ pc'[p] \in {"done", "gone"}
    BY <1>2 DEF FindsServer
  <2>3. \A d \in Daemons : pc[d] \in {"serving", "closing", "gone"} => pc'[d] = pc[d]
    BY <1>0, <2>2
  <2>4. \A s \in Starters : address'[s] = address[s] \/ address'[s] = f
    BY <1>2, <2>1 DEF FindsServer
  <2>5. Known'
    BY <1>0, <2>1, <2>2, <2>3, <2>4 DEF Known, Bound
  <2>6. ServersHaveFiles'
    BY <1>0, <2>2 DEF ServersHaveFiles, Servers
  <2>7. WitnessedListed'
    BY <1>0, <2>2, <2>3 DEF WitnessedListed
  <2>8. OwnFilesInPlace'
    <3>1. \A s \in Starters : pc'[s] = "publishing" => pc[s] = "publishing" /\ address'[s] = address[s]
      BY <1>0, <1>2, <2>2 DEF FindsServer
    <3> QED BY <3>1 DEF OwnFilesInPlace, OwnFile
  <2> QED BY <2>5, <2>6, <2>7, <2>8
<1> QED BY <1>1, <1>2 DEF ReadProcesses

LEMMA RemoveKeeps ==
  ASSUME Typed, IInv, NEW p \in Procs, Remove(p)
  PROVE  IInv'
<1> USE ElectionAssumption DEF Pids, Typed, TypeOK, Procs, Goto, shared
<1> SUFFICES ASSUME NumbersArePids, Known, OwnFilesInPlace, ServersHaveFiles, WitnessedListed
             PROVE  Known' /\ OwnFilesInPlace' /\ ServersHaveFiles' /\ WitnessedListed'
  BY DEF IInv, NumbersArePids, Remove
<1>1. /\ pc[p] = "remove" /\ UNCHANGED <<address, witnessed>>
      /\ \A q \in Procs : q # p => pc'[q] = pc[q] /\ listed'[q] = listed[q]
      /\ listed'[p] \subseteq listed[p]
      /\ pc'[p] \in {"remove", "failed", "gone"}
  BY DEF Remove
<1>2. PICK file \in listed[p] : files' = files \/ files' = files \ {<<file[1], Server>>}
  BY DEF Remove, ToRemove
<1>3. \A d \in Daemons : pc[d] \in {"serving", "closing", "gone"} => pc'[d] = pc[d]
  BY <1>1
<1>4. Known'
  BY <1>1, <1>2, <1>3 DEF Known, Bound
<1>5. ServersHaveFiles'
  <2>1. file[1] \in Daemons /\ pc[file[1]] = "gone"
    BY <1>1 DEF Known, Bound
  <2> QED BY <1>1, <1>2, <2>1 DEF ServersHaveFiles, Servers
<1>6. WitnessedListed'
  BY <1>1, <1>3 DEF WitnessedListed
<1>7. OwnFilesInPlace'
  BY <1>1 DEF OwnFilesInPlace, OwnFile
<1> QED BY <1>4, <1>5, <1>6, <1>7

LEMMA ForkKeeps ==
  ASSUME Typed, IInv, NEW s \in Starters, Fork(s)
  PROVE  IInv'
<1> USE ElectionAssumption DEF Pids, Typed, TypeOK, Procs, Goto, shared
<1> SUFFICES ASSUME NumbersArePids, Known, OwnFilesInPlace, ServersHaveFiles, WitnessedListed
             PROVE  Known' /\ OwnFilesInPlace' /\ ServersHaveFiles' /\ WitnessedListed'
  BY DEF IInv, NumbersArePids, Fork
<1>1. PICK d \in Daemons : pc[d] = "unborn" /\ pc' = [pc EXCEPT ![s] = "readdir", ![d] = "readdir"]
  BY DEF Fork
<1>2. /\ \A q \in Procs : q \notin {s, d} => pc'[q] = pc[q]
      /\ pc'[s] = "readdir" /\ pc'[d] = "readdir"
      /\ UNCHANGED <<listed, address, files, witnessed>>
  BY <1>1 DEF Fork
<1>3. \A e \in Daemons : pc[e] \in {"serving", "closing", "gone"} => pc'[e] = pc[e]
  BY <1>1, <1>2
<1>4. Known'
  BY <1>2, <1>3 DEF Known, Bound
<1>5. ServersHaveFiles'
  BY <1>2 DEF ServersHaveFiles, Servers
<1>6. WitnessedListed'
  BY <1>2, <1>3 DEF WitnessedListed
<1>7. OwnFilesInPlace'
  BY <1>2 DEF OwnFilesInPlace, OwnFile
<1> QED BY <1>4, <1>5, <1>6, <1>7

LEMMA DaemonKeeps ==
  ASSUME Typed, IInv, NEW d \in Daemons, NoOtherServer(d) \/ Bind(d) \/ Dies(d) \/ Exits(d)
  PROVE  IInv'
<1> USE ElectionAssumption DEF Pids, Typed, TypeOK, Procs, Goto, shared
<1> SUFFICES ASSUME NumbersArePids, Known, OwnFilesInPlace, ServersHaveFiles, WitnessedListed
             PROVE  Known' /\ OwnFilesInPlace' /\ ServersHaveFiles' /\ WitnessedListed'
  BY DEF IInv, NumbersArePids, NoOtherServer, Bind, Dies, Exits
<1>1. /\ \A q \in Procs : q # d => pc'[q] = pc[q] /\ listed'[q] = listed[q]
      /\ listed'[d] \subseteq listed[d]
      /\ UNCHANGED <<address, witnessed>>
  BY DEF NoOtherServer, Bind, Dies, Exits
<1>0. OwnFilesInPlace'
  BY <1>1 DEF OwnFilesInPlace, OwnFile
<1>2. CASE NoOtherServer(d)
  <2>1. pc[d] = "remove" /\ pc'[d] = "bind" /\ UNCHANGED files
    BY <1>2 DEF NoOtherServer, CheckEnds
  <2>2. Known' /\ ServersHaveFiles'
    <3>1. Known'
      <4>1. \A e \in Daemons : pc[e] \in {"serving", "closing", "gone"} => pc'[e] = pc[e]
        BY <1>1, <2>1
      <4>2. \A q \in Procs : pc'[q] = "remove" => pc[q] = "remove"
        BY <1>1, <2>1
      <4> QED BY <1>1, <2>1, <4>1, <4>2 DEF Known, Bound
    <3>2. ServersHaveFiles'
      BY <1>1, <2>1 DEF ServersHaveFiles, Servers
    <3> QED BY <3>1, <3>2
  <2>3. WitnessedListed'
    BY <1>1, <2>1 DEF WitnessedListed
  <2> QED BY <1>0, <2>2, <2>3
<1>3. CASE Bind(d)
  <2>1. pc[d] = "bind" /\ pc'[d] = "serving" /\ files' = files \cup {<<d, Server>>}
    BY <1>3 DEF Bind
  <2>2. Known' /\ ServersHaveFiles'
    BY <1>1, <2>1 DEF Known, Bound, ServersHaveFiles, Servers
  <2>3. WitnessedListed'
    <3>1. SUFFICES ASSUME NEW e \in Daemons, NEW w \in witnessed[e]
                   PROVE  /\ pc'[e] = "readproc" => \/ pc'[w] \in {"closing", "gone"}
                                                    \/ pc'[w] = "serving" /\ <<w, Server>> \in listed'[e]
                          /\ pc'[e] \in {"remove", "bind", "serving"} => pc'[w] \in {"closing", "gone"}
      BY <1>1 DEF WitnessedListed
    <3>2. CASE e = d
      BY <1>1, <2>1, <3>2 DEF WitnessedListed
    <3>3. CASE e # d
      BY <1>1, <2>1, <3>3 DEF WitnessedListed
    <3> QED BY <3>2, <3>3
  <2> QED BY <1>0, <2>2, <2>3
<1>4. CASE Dies(d) \/ Exits(d)
  <2>1. pc'[d] \in {"closing", "gone"} /\ (files' = files \/ files' = files \ {<<d, Server>>})
    BY <1>4 DEF Dies, Exits
  <2>2. Known'
    <3>1. \A e \in Daemons : Bound(e) => pc'[e] \in {"serving", "closing", "gone"}
      BY <1>1, <2>1 DEF Bound
    <3>2. \A e \in Daemons : pc[e] = "gone" => pc'[e] = "gone"
      BY <1>1, <2>1, <1>4 DEF Dies, Exits
    <3>3. \A q \in Procs : pc'[q] = "remove" => pc[q] = "remove"
      BY <1>1, <2>1
    <3>4. files' \subseteq files
      BY <2>1
    <3> QED BY <1>1, <3>1, <3>2, <3>3, <3>4 DEF Known, Bound
  <2>3. ServersHaveFiles'
    BY <1>1, <2>1 DEF ServersHaveFiles, Servers
  <2>4. WitnessedListed'
    BY <1>1, <2>1 DEF WitnessedListed
  <2> QED BY <1>0, <2>2, <2>3, <2>4
<1> QED BY <1>0, <1>2, <1>3, <1>4

\* The sockets of a starter's own lie beside those of the servers.
LEMMA OwnSocketKeeps ==
  ASSUME Typed, IInv, NEW s \in Starters, Publish(s) \/ Close(s)
  PROVE  IInv'
<1> USE ElectionAssumption DEF Pids, Typed, TypeOK, Procs, Goto, shared
<1> SUFFICES ASSUME NumbersArePids, ~misread', Known, OwnFilesInPlace, ServersHaveFiles, WitnessedListed
             PROVE  Known' /\ OwnFilesInPlace' /\ ServersHaveFiles' /\ WitnessedListed'
  BY DEF IInv, NumbersArePids, Publish, Close
<1>1. /\ \A q \in Procs : q # s => pc'[q] = pc[q]
      /\ pc'[s] \in {"publishing", "closed"}
      /\ UNCHANGED <<listed, address, witnessed>>
  BY DEF Publish, Close
<1>2. Bound(address[s])
  BY DEF AddressKnown, Publish, Close, Known, Bound
<1>3. /\ OwnFile(s) = <<address[s], s>>
      /\ files' = files \cup {<<address[s], s>>} \/ files' = files \ {<<address[s], s>>}
  BY DEF Publish, Close, OwnFilesInPlace
<1>4. Known'
  BY <1>1, <1>2, <1>3 DEF Known, Bound
<1>5. ServersHaveFiles'
  BY <1>1, <1>2, <1>3 DEF ServersHaveFiles, Servers
<1>6. WitnessedListed'
  BY <1>1 DEF WitnessedListed
<1>7. OwnFilesInPlace'
  BY <1>1, <1>3 DEF OwnFilesInPlace, OwnFile
<1> QED BY <1>4, <1>5, <1>6, <1>7

LEMMA IInvStep ==
  ASSUME Typed, IInv, [Next]_vars
  PROVE  IInv'
<1>1. ASSUME NEW s \in Starters, NothingFound(s) \/ ForkFails(s) \/ Killed(s) \/ Poll(s)
      PROVE  IInv'
  <2>1. \E state \in {"fork", "failed", "killed", "readdir"} : Goto(s, state)
    BY <1>1 DEF NothingFound, ForkFails, Killed, Poll
  <2> QED BY <1>1, <2>1, StarterMoves
          DEF NothingFound, ForkFails, Killed, Poll, StarterStates, Checking
<1>2. ASSUME NEW d \in Daemons, PidReused(d) PROVE IInv'
  BY <1>2 DEF IInv, NumbersArePids, PidReused, Typed, TypeOK
<1>3. CASE UNCHANGED vars
  BY <1>3 DEF vars, shared, IInv, NumbersArePids, Known, Bound, OwnFilesInPlace, OwnFile,
                   ServersHaveFiles, WitnessedListed, Servers
<1> QED BY <1>1, <1>2, <1>3, ReadDirectoryKeeps, ReadProcessesKeeps, RemoveKeeps, ForkKeeps,
           DaemonKeeps, OwnSocketKeeps
        DEF Next, Starting, Running, Check, Procs

THEOREM Invariance == Spec => [](Typed /\ IInv)
<1>1. ASSUME Init PROVE Typed /\ IInv
  <2>1. \A p \in Procs : listed[p] = {}
    BY <1>1 DEF Init
  <2>2. \A q \in Starters : address[q] = None /\ pc[q] = "readdir"
    BY <1>1 DEF Init, Procs
  <2>3. \A d \in Daemons : pc[d] = "unborn" /\ witnessed[d] = {}
    BY <1>1, ElectionAssumption DEF Init, Procs, Pids
  <2>4. files = {}
    BY <1>1 DEF Init
  <2> QED BY <1>1, <2>1, <2>2, <2>3, <2>4, InitTyped
          DEF IInv, Known, OwnFilesInPlace, ServersHaveFiles, WitnessedListed, Servers
<1>2. Typed /\ IInv /\ [Next]_vars => (Typed /\ IInv)'
  BY TypedStep, IInvStep
<1> QED BY <1>1, <1>2, PTL DEF Spec

-----------------------------------------------------------------------------
(***************************************************************************)
(* The properties                                                          *)
(***************************************************************************)

\* No check deletes the file of a live server, for any number of processes and any
\* interleaving (the removal loop of checkForExistingURISingletonsAndCleanUpSingletonIPCFiles).
THEOREM FilesKept == Spec => []LiveServerKeepsItsFile
<1>1. IInv => LiveServerKeepsItsFile
  BY DEF IInv, ServersHaveFiles, LiveServerKeepsItsFile
<1> QED BY <1>1, Invariance, PTL

\* No daemon becomes a second server beside one that it could have seen, for any number of
\* processes (the constructor's check).
THEOREM NobodyJoins == Spec => []NeverJoinsServer
<1>1. Typed /\ IInv => NeverJoinsServer
  BY DEF IInv, WitnessedListed, NeverJoinsServer, Servers
<1> QED BY <1>1, Invariance, PTL

\* While numbers are pids, startEngine returns the address of a process that serves or is
\* closing, for any number of processes and any interleaving (the comparison with /proc).
THEOREM ReturnsAServer == Spec => ReturnsServer
<1>1. ASSUME Typed, IInv, [Next]_vars, NEW s \in Starters,
             NumbersArePids, pc[s] # "done", pc'[s] = "done"
      PROVE  address'[s] \in Servers \cup {d \in Daemons : pc[d] = "closing"}
  <2> USE ElectionAssumption DEF Pids, Typed, TypeOK, Procs, Goto
  <2>1. ReadProcesses(s)
    <3>1. ASSUME NEW q \in Procs, Check(q), q # s PROVE FALSE
      BY <1>1, <3>1 DEF Check, ReadDirectory, ReadProcesses, FindsServer, Remove
    <3>2. ASSUME ReadDirectory(s) \/ Remove(s) PROVE FALSE
      BY <1>1, <3>2 DEF ReadDirectory, Remove
    <3>3. ASSUME NEW q \in Starters,
                 \/ NothingFound(q) \/ ForkFails(q) \/ Poll(q)
                 \/ Publish(q) \/ Close(q) \/ Killed(q)
          PROVE  FALSE
      BY <1>1, <3>3 DEF NothingFound, ForkFails, Poll, Publish, Close, Killed
    <3>4. ASSUME NEW q \in Starters, Fork(q) PROVE FALSE
      BY <1>1, <3>4 DEF Fork
    <3>5. ASSUME NEW d \in Daemons,
                 NoOtherServer(d) \/ Bind(d) \/ Dies(d) \/ Exits(d) \/ PidReused(d)
          PROVE  FALSE
      BY <1>1, <3>5 DEF NoOtherServer, Bind, Dies, Exits, PidReused
    <3>6. CASE UNCHANGED vars
      BY <1>1, <3>6 DEF vars
    <3> QED BY <1>1, <3>1, <3>2, <3>3, <3>4, <3>5, <3>6 DEF Next, Starting, Running, Check
  <2>2. PICK d \in Found(s) : FindsServer(s, d)
    BY <1>1, <2>1 DEF ReadProcesses
  <2>3. address'[s] = d
    BY <1>1, <2>2 DEF FindsServer
  <2>4. Bound(d)
    BY <1>1, <2>2 DEF Found, IInv, Known
  <2>5. pc[d] # "gone"
    BY <2>2, <2>4 DEF Found, Active, Bound
  <2> QED BY <2>3, <2>4, <2>5 DEF Servers, Bound
<1>2. Typed /\ IInv /\ [Next]_vars =>
          [\A s \in Starters :
              NumbersArePids /\ pc[s] # "done" /\ pc'[s] = "done" =>
                  address'[s] \in Servers \cup {d \in Daemons : pc[d] = "closing"}]_vars
  BY <1>1
<1> QED BY <1>2, Invariance, PTL DEF Spec, ReturnsServer
=============================================================================
