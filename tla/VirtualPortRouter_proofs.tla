----------------------- MODULE VirtualPortRouter_proofs -----------------------
(***************************************************************************)
(* The safety of the router, for any number of ports, wrappers and         *)
(* messages: a port that is gone when the thread reads it is the one that  *)
(* this round has closed, and a wrapper keeps the port it was given.       *)
(*                                                                         *)
(* A wrapper waits for the reply to its request, so it has one request at  *)
(* most, whose port is its own; a round serves one request, and serves it  *)
(* before the ports.                                                       *)
(***************************************************************************)
EXTENDS VirtualPortRouter, FiniteSetTheorems, TLAPS

-----------------------------------------------------------------------------
(***************************************************************************)
(* The inductive invariant                                                 *)
(***************************************************************************)

\* What is left of a round.
Stale == round.ports \ allocated

RoundInv ==
    /\ thread # "round" => round = NothingFound
    /\ round.udp => udp # << >>
    /\ round.request => requests # << >>
    /\ round.udp \/ round.request => Stale = {}
    /\ \A p \in round.ports \cap allocated : fromOwner[p] > 0
    /\ \A p \in Stale :
          /\ \E w \in Wrappers : wrapper[w] = "gone" /\ associatedVirtualPort[w] \in {p, None}
          /\ \A q \in Stale : p = q

RequestInv(i) ==
    LET m == requests[i]
    IN  /\ wrapper[m.from] = IF m.open THEN "opening" ELSE "closing"
        /\ associatedVirtualPort[m.from] = m.port
              \/ (~m.open /\ associatedVirtualPort[m.from] = None)
        /\ \A j \in 1 .. Len(requests) : requests[j].from = m.from => i = j

RequestsInv == \A i \in 1 .. Len(requests) : RequestInv(i)

OutcomeInv ==
    \A w \in Wrappers :
        /\ wrapper[w] \in {"opened", "bound", "sending"} => outcome[w] = "opened"
        /\ outcome[w] = "opened" => associatedVirtualPort[w] \in Ports
        /\ wrapper[w] \in {"new", "opening"} => outcome[w] = None
        /\ wrapper[w] = "refused" => outcome[w] = "refused"
        /\ wrapper[w] = "new" => associatedVirtualPort[w] = None

\* A wrapper holds its port until the close is served.
Holds(w) == \/ wrapper[w] \in {"opened", "bound", "sending"}
            \/ wrapper[w] = "closing" /\ outcome[w] = "opened"

Excused == \/ thread = "ended"
           \/ \E v \in Wrappers : wrapper[v] = "gone" /\ outcome[v] # "opened"

HoldsAlone(w) ==
    /\ associatedVirtualPort[w] \in allocated
    /\ \A v \in Wrappers : Holds(v) /\ associatedVirtualPort[v] = associatedVirtualPort[w] => v = w
    /\ peer[associatedVirtualPort[w]] = IF wrapper[w] = "opened" THEN None ELSE w

HoldersInv == Excused \/ \A w \in Wrappers : Holds(w) => HoldsAlone(w)

IInv == TypeOK /\ RoundInv /\ RequestsInv /\ OutcomeInv /\ HoldersInv

Request == [from : Wrappers, open : BOOLEAN, port : Ports]

\* The types one by one, for use.
LEMMA Types ==
  ASSUME TypeOK
  PROVE  /\ thread \in {"start", "polling", "round", "ended"}
         /\ round \in [udp : BOOLEAN, request : BOOLEAN, ports : SUBSET Ports]
         /\ timeToShutdownFlag \in BOOLEAN
         /\ allocated \subseteq Ports
         /\ peer \in [Ports -> Wrappers \cup {None}]
         /\ \A p \in Ports : peer[p] # None => p \in allocated
         /\ toOwner \in [Ports -> 0 .. HighWater]
         /\ fromOwner \in [Ports -> 0 .. HighWater]
         /\ udp \in Seq(Ports)
         /\ requests \in Seq(Request)
         /\ wrapper \in [Wrappers ->
                {"new", "opening", "opened", "refused", "bound", "sending", "closing", "gone"}]
         /\ associatedVirtualPort \in [Wrappers -> Ports \cup {None}]
         /\ outcome \in [Wrappers -> {None, "opened", "refused"}]
         /\ owner \in [Wrappers -> Threads] /\ paused \subseteq Threads
         /\ HighWater \in Nat \ {0} /\ None \notin Wrappers \cup Ports
  BY VirtualPortRouterAssumption DEF TypeOK, Request

LEMMA HeadAndTail ==
  ASSUME NEW S, NEW s \in Seq(S), s # << >>
  PROVE  /\ Len(s) \in Nat /\ 1 \in 1 .. Len(s) /\ Head(s) = s[1] /\ Head(s) \in S
         /\ Tail(s) \in Seq(S) /\ Len(Tail(s)) = Len(s) - 1
         /\ \A i \in 1 .. Len(Tail(s)) : /\ i + 1 \in 1 .. Len(s) /\ i + 1 # 1
                                        /\ Tail(s)[i] = s[i + 1] /\ s[i + 1] \in S
  OBVIOUS

-----------------------------------------------------------------------------
(***************************************************************************)
(* The router                                                              *)
(***************************************************************************)

LEMMA EndsKeeps ==
  ASSUME IInv, Ends
  PROVE  IInv'
<1> USE DEF portVars, wrapperVars, threads
<1>1. TypeOK'
  BY Types DEF IInv, TypeOK, Ends, NothingFound
<1>2. RoundInv'
  BY DEF Ends, RoundInv, NothingFound, Stale
<1>3. RequestsInv' /\ OutcomeInv'
  BY DEF IInv, Ends, RequestsInv, RequestInv, OutcomeInv
<1>4. HoldersInv'
  BY DEF Ends, HoldersInv, Excused
<1> QED BY <1>1, <1>2, <1>3, <1>4 DEF IInv

LEMMA StartsKeeps ==
  ASSUME IInv, Starts \/ Polls
  PROVE  IInv'
<1> USE DEF portVars, wrapperVars, threads
<1>1. /\ thread \in {"start", "polling"} /\ thread' \in {"start", "polling", "round"}
      /\ UNCHANGED <<timeToShutdownFlag, portVars, udp, requests, wrapperVars>>
  BY DEF Starts, Polls
<1>2. /\ round' \in [udp : BOOLEAN, request : BOOLEAN, ports : SUBSET Ports]
      /\ round'.ports \subseteq allocated
      /\ \A p \in round'.ports : fromOwner[p] > 0
      /\ round'.udp => udp # << >>
      /\ round'.request => requests # << >>
      /\ thread' # "round" => round' = NothingFound
  <2>1. CASE Starts
    BY <1>1, <2>1, Types DEF IInv, RoundInv, Starts, NothingFound
  <2>2. CASE Polls
    BY <1>1, <2>2, Types DEF IInv, Polls, Ready, NothingFound
  <2> QED BY <2>1, <2>2
<1>3. TypeOK'
  BY <1>1, <1>2, Types DEF IInv, TypeOK
<1>4. RoundInv'
  BY <1>1, <1>2, Types DEF IInv, RoundInv, Stale
<1>5. RequestsInv' /\ OutcomeInv' /\ HoldersInv'
  BY <1>1 DEF IInv, RequestsInv, RequestInv, OutcomeInv, HoldersInv, Excused, Holds, HoldsAlone
<1> QED BY <1>3, <1>4, <1>5 DEF IInv
LEMMA IncomingKeeps ==
  ASSUME IInv, processIncomingUDPMessage
  PROVE  IInv'
<1> USE DEF portVars, wrapperVars, threads
<1>1. /\ thread = "round" /\ round.udp
      /\ round' = [round EXCEPT !.udp = FALSE]
      /\ thread' = IF round' = NothingFound THEN "start" ELSE "round"
      /\ udp' = Tail(udp)
      /\ UNCHANGED <<timeToShutdownFlag, allocated, peer, fromOwner, requests, wrapperVars>>
  BY DEF processIncomingUDPMessage, Served
<1>2. toOwner' \in [Ports -> 0 .. HighWater]
  <2>1. ASSUME NEW p, p \in allocated, Accepts(p), toOwner' = [toOwner EXCEPT ![p] = @ + 1]
        PROVE  toOwner' \in [Ports -> 0 .. HighWater]
    BY <2>1, Types DEF IInv, Accepts
  <2> QED BY <2>1, Types DEF IInv, processIncomingUDPMessage
<1>3. udp' \in Seq(Ports)
  BY <1>1, Types DEF IInv, RoundInv
<1>4. /\ round' \in [udp : BOOLEAN, request : BOOLEAN, ports : SUBSET Ports]
      /\ ~round'.udp /\ round'.request = round.request /\ round'.ports = round.ports
  BY <1>1, Types DEF IInv
<1>5. TypeOK'
  BY <1>1, <1>2, <1>3, <1>4, Types DEF IInv, TypeOK
<1>6. RoundInv'
  <2>1. Stale' = {} /\ Stale = {}
    BY <1>1, <1>4 DEF IInv, RoundInv, Stale
  <2> QED BY <1>1, <1>4, <2>1 DEF IInv, RoundInv
<1>7. RequestsInv' /\ OutcomeInv' /\ HoldersInv'
  BY <1>1 DEF IInv, RequestsInv, RequestInv, OutcomeInv, HoldersInv, Excused, Holds, HoldsAlone
<1> QED BY <1>5, <1>6, <1>7 DEF IInv

LEMMA OutgoingKeeps ==
  ASSUME IInv, NEW p \in Ports, processOutgoingUDPMessage(p)
  PROVE  IInv'
<1> USE DEF portVars, wrapperVars, threads
<1>1. /\ thread = "round" /\ ~round.udp /\ ~round.request /\ p \in round.ports /\ p \in allocated
      /\ round' = [round EXCEPT !.ports = @ \ {p}]
      /\ thread' = IF round' = NothingFound THEN "start" ELSE "round"
      /\ fromOwner' = [fromOwner EXCEPT ![p] = @ - 1]
      /\ UNCHANGED <<timeToShutdownFlag, allocated, peer, toOwner, udp, requests, wrapperVars>>
  BY DEF processOutgoingUDPMessage, NextPort, Served
<1>2. fromOwner' \in [Ports -> 0 .. HighWater]
  BY <1>1, Types DEF IInv, RoundInv
<1>3. /\ round' \in [udp : BOOLEAN, request : BOOLEAN, ports : SUBSET Ports]
      /\ round'.ports = round.ports \ {p} /\ ~round'.udp /\ ~round'.request
  BY <1>1, Types DEF IInv
<1>4. TypeOK'
  BY <1>1, <1>2, <1>3, Types DEF IInv, TypeOK
<1>5. RoundInv'
  <2>1. Stale' = Stale
    BY <1>1, <1>3 DEF Stale
  <2>2. \A q \in round'.ports \cap allocated' : fromOwner'[q] > 0
    BY <1>1, <1>3, Types DEF IInv, RoundInv
  <2> QED BY <1>1, <1>3, <2>1, <2>2 DEF IInv, RoundInv
<1>6. RequestsInv' /\ OutcomeInv' /\ HoldersInv'
  BY <1>1 DEF IInv, RequestsInv, RequestInv, OutcomeInv, HoldersInv, Excused, Holds, HoldsAlone
<1> QED BY <1>4, <1>5, <1>6 DEF IInv

\* What every request brings about: its wrapper is answered, and no other waits for it.
LEMMA RequestFacts ==
  ASSUME IInv, processAddOrRemoveVirtualPortMessage,
         NEW m, m = Head(requests)
  PROVE  /\ m \in Request
         /\ wrapper[m.from] = IF m.open THEN "opening" ELSE "closing"
         /\ associatedVirtualPort[m.from] = m.port
               \/ (~m.open /\ associatedVirtualPort[m.from] = None)
         /\ requests' = Tail(requests)
         /\ \A i \in 1 .. Len(requests') :
               /\ i + 1 \in 1 .. Len(requests) /\ requests'[i] = requests[i + 1]
               /\ requests'[i].from \in Wrappers \ {m.from}
         /\ requests' \in Seq(Request)
<1>0. requests \in Seq(Request)
  BY Types DEF IInv
<1>1. requests # << >> /\ requests' = Tail(requests)
  BY DEF processAddOrRemoveVirtualPortMessage, IInv, RoundInv
<1>2. 1 \in 1 .. Len(requests) /\ m = requests[1]
  BY <1>0, <1>1, HeadAndTail
<1>3. m \in Request
  BY <1>0, <1>1, HeadAndTail
<1>4. RequestInv(1)
  BY <1>2 DEF IInv, RequestsInv
<1>5. /\ Len(requests') = Len(requests) - 1
      /\ \A i \in 1 .. Len(requests') : /\ i + 1 \in 1 .. Len(requests)
                                        /\ requests'[i] = requests[i + 1]
                                        /\ requests[i + 1].from \in Wrappers /\ i + 1 # 1
  <2>1. \A i \in 1 .. Len(requests') : /\ i + 1 \in 1 .. Len(requests) /\ i + 1 # 1
                                        /\ requests'[i] = requests[i + 1]
                                        /\ requests[i + 1] \in Request
    BY <1>0, <1>1, HeadAndTail
  <2>2. Len(requests') = Len(requests) - 1
    BY <1>0, <1>1, HeadAndTail
  <2>3. \A q \in Request : q.from \in Wrappers
    BY DEF Request
  <2> QED BY <2>1, <2>2, <2>3
<1>6. \A j \in 1 .. Len(requests) : requests[j].from = m.from => j = 1
  BY <1>2, <1>4 DEF RequestInv
<1>7. \A i \in 1 .. Len(requests') : requests'[i].from \in Wrappers \ {m.from}
  BY <1>5, <1>6
<1>8. requests' \in Seq(Request)
  BY <1>0, <1>1, HeadAndTail
<1>9. /\ wrapper[m.from] = IF m.open THEN "opening" ELSE "closing"
      /\ associatedVirtualPort[m.from] = m.port
            \/ (~m.open /\ associatedVirtualPort[m.from] = None)
  BY <1>2, <1>4 DEF RequestInv
<1> QED BY <1>1, <1>3, <1>5, <1>7, <1>8, <1>9

LEMMA RequestKeeps ==
  ASSUME IInv, processAddOrRemoveVirtualPortMessage
  PROVE  IInv'
<1> USE DEF portVars, threads
<1>1. PICK m : m = Head(requests)
  OBVIOUS
<1>2. /\ m \in Request
      /\ wrapper[m.from] = IF m.open THEN "opening" ELSE "closing"
      /\ associatedVirtualPort[m.from] = m.port
            \/ (~m.open /\ associatedVirtualPort[m.from] = None)
      /\ \A i \in 1 .. Len(requests') :
            /\ i + 1 \in 1 .. Len(requests) /\ requests'[i] = requests[i + 1]
            /\ requests'[i].from \in Wrappers \ {m.from}
      /\ requests' \in Seq(Request)
  BY <1>1, RequestFacts
<1>3. /\ thread = "round" /\ ~round.udp /\ round.request
      /\ round' = [round EXCEPT !.request = FALSE]
      /\ thread' = IF round' = NothingFound THEN "start" ELSE "round"
      /\ UNCHANGED <<timeToShutdownFlag, udp, associatedVirtualPort, threads>>
      /\ \/ m.open /\ allocateVirtualPort(m)
         \/ ~m.open /\ removeVirtualPort(m)
  BY <1>1 DEF processAddOrRemoveVirtualPortMessage, Served
<1>4. /\ round' \in [udp : BOOLEAN, request : BOOLEAN, ports : SUBSET Ports]
      /\ ~round'.udp /\ ~round'.request /\ round'.ports = round.ports
      /\ thread' # "ended"
  BY <1>3, Types DEF IInv
<1>5. /\ m.from \in Wrappers /\ m.port \in Ports /\ m.open \in BOOLEAN
      /\ \A w \in Wrappers \ {m.from} : wrapper'[w] = wrapper[w] /\ outcome'[w] = outcome[w]
      /\ wrapper'[m.from] = IF ~m.open THEN "gone"
                            ELSE IF m.port \in allocated THEN "refused" ELSE "opened"
      /\ outcome'[m.from] = IF ~m.open THEN outcome[m.from]
                            ELSE IF m.port \in allocated THEN "refused" ELSE "opened"
  BY <1>2, <1>3, Types DEF IInv, Request, allocateVirtualPort, removeVirtualPort
<1>6. TypeOK'
  <2>1. /\ wrapper' \in [Wrappers ->
               {"new", "opening", "opened", "refused", "bound", "sending", "closing", "gone"}]
        /\ outcome' \in [Wrappers -> {None, "opened", "refused"}]
    <3>1. \/ wrapper' = [wrapper EXCEPT ![m.from] = "gone"] /\ outcome' = outcome
          \/ /\ wrapper' = [wrapper EXCEPT ![m.from] = "opened"]
             /\ outcome' = [outcome EXCEPT ![m.from] = "opened"]
          \/ /\ wrapper' = [wrapper EXCEPT ![m.from] = "refused"]
             /\ outcome' = [outcome EXCEPT ![m.from] = "refused"]
      BY <1>3 DEF allocateVirtualPort, removeVirtualPort
    <3> QED BY <1>5, <3>1, Types DEF IInv
  <2>2. /\ allocated' \subseteq Ports
        /\ peer' \in [Ports -> Wrappers \cup {None}]
        /\ \A p \in Ports : peer'[p] # None => p \in allocated'
        /\ toOwner' \in [Ports -> 0 .. HighWater] /\ fromOwner' \in [Ports -> 0 .. HighWater]
    <3>0. HighWater \in Nat /\ 0 \in 0 .. HighWater
      BY Types DEF IInv
    <3>1. CASE UNCHANGED portVars
      BY <3>1, Types DEF IInv
    <3>2. CASE /\ allocated' = allocated \cup {m.port} /\ peer' = peer
               /\ toOwner' = [toOwner EXCEPT ![m.port] = 0]
               /\ fromOwner' = [fromOwner EXCEPT ![m.port] = 0]
      BY <1>5, <3>0, <3>2, Types DEF IInv
    <3>3. CASE /\ allocated' = allocated \ {m.port} /\ peer' = [peer EXCEPT ![m.port] = None]
               /\ UNCHANGED <<toOwner, fromOwner>>
      BY <1>5, <3>3, Types DEF IInv
    <3> QED BY <1>3, <3>1, <3>2, <3>3 DEF allocateVirtualPort, removeVirtualPort
  <2> QED BY <1>2, <1>3, <1>4, <2>1, <2>2, Types DEF IInv, TypeOK, Request
<1>7. RoundInv'
  <2>1. round.ports \subseteq allocated
    BY <1>3 DEF IInv, RoundInv, Stale
  <2>2. Stale' \subseteq (IF m.open THEN {} ELSE {m.port})
    BY <1>3, <1>4, <2>1 DEF Stale, allocateVirtualPort, removeVirtualPort
  <2>3. \A p \in round'.ports \cap allocated' : fromOwner'[p] > 0
    <3>1. \A p \in round.ports : p \in Ports /\ fromOwner[p] > 0 /\ fromOwner'[p] = fromOwner[p]
      BY <1>3, <2>1, Types DEF IInv, RoundInv, allocateVirtualPort, removeVirtualPort
    <3> QED BY <1>4, <3>1
  <2>4. ~m.open => /\ wrapper'[m.from] = "gone"
                   /\ associatedVirtualPort'[m.from] \in {m.port, None}
    BY <1>2, <1>3, <1>5
  <2>5. thread' # "round" => round' = NothingFound
    BY <1>3
  <2> QED BY <1>4, <1>5, <2>2, <2>3, <2>4, <2>5 DEF RoundInv
<1>8. RequestsInv'
  <2>1. ASSUME NEW i \in 1 .. Len(requests') PROVE RequestInv(i)'
    <3>1. RequestInv(i + 1) /\ i + 1 \in 1 .. Len(requests)
      BY <1>2 DEF IInv, RequestsInv
    <3>2. \A j \in 1 .. Len(requests') :
              requests'[j].from = requests'[i].from => i + 1 = j + 1
      BY <1>2, <3>1 DEF RequestInv
    <3>3. i \in Int /\ \A j \in 1 .. Len(requests') : j \in Int /\ (i + 1 = j + 1 => i = j)
      OBVIOUS
    <3> QED BY <1>2, <1>3, <1>5, <3>1, <3>2, <3>3 DEF RequestInv
  <2> QED BY <2>1 DEF RequestsInv
<1>9. OutcomeInv'
  BY <1>2, <1>3, <1>5 DEF IInv, OutcomeInv
<1>10. HoldersInv'
  <2> SUFFICES ASSUME ~Excused', NEW w \in Wrappers, Holds(w)' PROVE HoldsAlone(w)'
    BY DEF HoldersInv
  <2>1. ~Excused
    BY <1>2, <1>3, <1>4, <1>5 DEF Excused
  <2>2. \A v \in Wrappers \ {m.from} : Holds(v)' => Holds(v) /\ HoldsAlone(v)
    BY <1>5, <2>1 DEF IInv, HoldersInv, Holds
  <2>3. CASE m.open /\ m.port \notin allocated
    <3>1. /\ allocated' = allocated \cup {m.port} /\ peer' = peer /\ peer[m.port] = None
          /\ associatedVirtualPort[m.from] = m.port
      BY <1>2, <1>3, <1>5, <2>3, Types DEF IInv, allocateVirtualPort
    <3>2. \A v \in Wrappers \ {m.from} : Holds(v)' => associatedVirtualPort[v] # m.port
      BY <2>2, <2>3 DEF HoldsAlone
    <3>3. CASE w = m.from
      BY <1>3, <1>5, <2>3, <3>1, <3>2, <3>3 DEF HoldsAlone
    <3>4. CASE w # m.from
      BY <1>3, <1>5, <2>2, <3>1, <3>2, <3>4 DEF HoldsAlone
    <3> QED BY <3>3, <3>4
  <2>4. CASE m.open /\ m.port \in allocated
    <3>1. UNCHANGED <<allocated, peer>> /\ w # m.from /\ ~Holds(m.from)'
      BY <1>3, <1>5, <2>4 DEF allocateVirtualPort, Holds
    <3> QED BY <1>3, <1>5, <2>2, <3>1 DEF HoldsAlone
  <2>5. CASE ~m.open
    <3>1. /\ allocated' = allocated \ {m.port} /\ peer' = [peer EXCEPT ![m.port] = None]
          /\ w # m.from /\ ~Holds(m.from)'
      BY <1>3, <1>5, <2>5 DEF removeVirtualPort, Holds
    <3>2. outcome[m.from] = "opened" /\ Holds(m.from) /\ associatedVirtualPort[m.from] = m.port
      BY <1>2, <1>5, <2>5, Types DEF IInv, Excused, Holds, OutcomeInv
    <3>3. associatedVirtualPort[w] # m.port /\ associatedVirtualPort[w] \in Ports
      <4>1. Holds(w) /\ HoldsAlone(w)
        BY <2>2, <3>1
      <4>2. associatedVirtualPort[w] \in allocated
        BY <4>1 DEF HoldsAlone
      <4>3. associatedVirtualPort[w] \in Ports
        BY <4>2, Types DEF IInv
      <4>4. associatedVirtualPort[w] # m.port
        BY <1>5, <3>1, <3>2, <4>1 DEF HoldsAlone
      <4> QED BY <4>3, <4>4
    <3> QED BY <1>3, <1>5, <2>2, <3>1, <3>3, Types DEF IInv, HoldsAlone
  <2> QED BY <1>5, <2>3, <2>4, <2>5
<1> QED BY <1>6, <1>7, <1>8, <1>9, <1>10 DEF IInv
-----------------------------------------------------------------------------
(***************************************************************************)
(* The wrappers, and what comes from outside                               *)
(***************************************************************************)

\* The steps that leave ports and wrappers alone.
LEMMA OutsideKeeps ==
  ASSUME IInv, ShutDown \/ \E p \in Ports : Arrives(p)
  PROVE  IInv'
<1> USE DEF portVars, wrapperVars, threads
<1>1. /\ UNCHANGED <<thread, round, portVars, requests, wrapperVars>>
      /\ udp' = udp \/ \E p \in Ports : udp' = Append(udp, p)
      /\ timeToShutdownFlag' \in BOOLEAN
  BY Types DEF IInv, ShutDown, Arrives
<1>2. udp' \in Seq(Ports) /\ (udp # << >> => udp' # << >>)
  <2>1. udp \in Seq(Ports)
    BY Types DEF IInv
  <2>2. ASSUME NEW p \in Ports PROVE Append(udp, p) \in Seq(Ports) /\ Append(udp, p) # << >>
    BY <2>1
  <2> QED BY <1>1, <2>1, <2>2
<1>3. TypeOK' /\ RoundInv'
  BY <1>1, <1>2, Types DEF IInv, TypeOK, RoundInv, Stale
<1>4. RequestsInv' /\ OutcomeInv' /\ HoldersInv'
  BY <1>1 DEF IInv, RequestsInv, RequestInv, OutcomeInv, HoldersInv, Excused, Holds, HoldsAlone
<1> QED BY <1>3, <1>4 DEF IInv

\* A wrapper that does not wait has no request in the socket.
LEMMA NoRequest ==
  ASSUME IInv, NEW w \in Wrappers, wrapper[w] \notin {"opening", "closing"}
  PROVE  \A i \in 1 .. Len(requests) : requests[i].from \in Wrappers \ {w}
<1>1. ASSUME NEW i \in 1 .. Len(requests) PROVE requests[i] \in Request /\ RequestInv(i)
  <2>1. requests \in Seq(Request)
    BY Types DEF IInv
  <2> QED BY <2>1 DEF IInv, RequestsInv
<1>2. \A m \in Request : m.open \in BOOLEAN /\ m.from \in Wrappers
  BY DEF Request
<1> QED BY <1>1, <1>2 DEF RequestInv

\* bind and the destructor: a request is added.
LEMMA AsksKeeps ==
  ASSUME IInv, NEW w \in Wrappers, NEW p \in Ports, bind(w, p) \/ Destroys(w, p)
  PROVE  IInv'
<1> USE DEF portVars, threads
<1>1. PICK m \in Request :
         /\ m.from = w /\ m.port = p /\ requests' = Append(requests, m)
         /\ wrapper' = [wrapper EXCEPT ![w] = IF m.open THEN "opening" ELSE "closing"]
         /\ \/ /\ m.open /\ wrapper[w] = "new"
               /\ associatedVirtualPort' = [associatedVirtualPort EXCEPT ![w] = p]
            \/ /\ ~m.open /\ wrapper[w] \in {"new", "refused", "bound"}
               /\ associatedVirtualPort[w] \in {None, p}
               /\ UNCHANGED associatedVirtualPort
  <2>1. CASE bind(w, p)
    <3> DEFINE m == [from |-> w, open |-> TRUE, port |-> p]
    <3>1. m \in Request /\ m.from = w /\ m.port = p /\ m.open
      BY DEF Request
    <3> HIDE DEF m
    <3>2. /\ wrapper' = [wrapper EXCEPT ![w] = "opening"] /\ requests' = Append(requests, m)
          /\ wrapper[w] = "new"
          /\ associatedVirtualPort' = [associatedVirtualPort EXCEPT ![w] = p]
      BY <2>1 DEF bind, m
    <3> QED BY <3>1, <3>2
  <2>2. CASE Destroys(w, p)
    <3> DEFINE m == [from |-> w, open |-> FALSE, port |-> p]
    <3>1. m \in Request /\ m.from = w /\ m.port = p /\ ~m.open
      BY DEF Request
    <3> HIDE DEF m
    <3>2. /\ wrapper' = [wrapper EXCEPT ![w] = "closing"] /\ requests' = Append(requests, m)
          /\ wrapper[w] \in {"new", "refused", "bound"}
          /\ associatedVirtualPort[w] \in {None, p} /\ UNCHANGED associatedVirtualPort
      BY <2>2 DEF Destroys, m
    <3> QED BY <3>1, <3>2
  <2> QED BY <2>1, <2>2
<1>2. UNCHANGED <<thread, round, timeToShutdownFlag, portVars, udp, outcome, threads>>
  BY DEF bind, Destroys
<1>3. /\ \A v \in Wrappers \ {w} : /\ wrapper'[v] = wrapper[v]
                                   /\ associatedVirtualPort'[v] = associatedVirtualPort[v]
      /\ wrapper'[w] = IF m.open THEN "opening" ELSE "closing"
      /\ associatedVirtualPort' \in [Wrappers -> Ports \cup {None}]
      /\ wrapper' \in [Wrappers ->
             {"new", "opening", "opened", "refused", "bound", "sending", "closing", "gone"}]
      /\ m.open => associatedVirtualPort'[w] = p
      /\ ~m.open => associatedVirtualPort'[w] = associatedVirtualPort[w]
  BY <1>1, Types DEF IInv
<1>4. /\ requests' \in Seq(Request) /\ requests' # << >>
      /\ Len(requests) \in Nat /\ Len(requests') = Len(requests) + 1
      /\ requests'[Len(requests) + 1] = m
      /\ \A i \in 1 .. Len(requests) : requests'[i] = requests[i]
  <2>1. requests \in Seq(Request)
    BY Types DEF IInv
  <2> QED BY <1>1, <2>1
<1>5. TypeOK'
  BY <1>2, <1>3, <1>4, Types DEF IInv, TypeOK, Request
<1>6. RoundInv'
  <2>1. \A v \in Wrappers : wrapper[v] = "gone" => v # w
    BY <1>1
  <2> QED BY <1>2, <1>3, <1>4, <2>1 DEF IInv, RoundInv, Stale
<1>7. RequestsInv'
  <2>1. \A i \in 1 .. Len(requests) : requests[i].from \in Wrappers \ {w}
    BY <1>1, NoRequest
  <2>2. \A i \in 1 .. Len(requests') : i \in 1 .. Len(requests) \/ i = Len(requests) + 1
    BY <1>4
  <2>3. ASSUME NEW i \in 1 .. Len(requests') PROVE RequestInv(i)'
    <3>1. CASE i = Len(requests) + 1
      <4>1. requests'[i] = m /\ \A j \in 1 .. Len(requests') : requests'[j].from = w => j = i
        BY <1>4, <2>1, <2>2, <3>1
      <4> QED BY <1>1, <1>3, <4>1 DEF RequestInv
    <3>2. CASE i \in 1 .. Len(requests)
      <4>1. RequestInv(i) /\ requests'[i] = requests[i]
        BY <1>4, <3>2 DEF IInv, RequestsInv
      <4>2. \A j \in 1 .. Len(requests') : requests'[j].from = requests'[i].from => i = j
        BY <1>1, <1>4, <2>1, <2>2, <3>2, <4>1 DEF RequestInv
      <4> QED BY <1>3, <2>1, <3>2, <4>1, <4>2 DEF RequestInv
    <3> QED BY <2>2, <3>1, <3>2
  <2> QED BY <2>3 DEF RequestsInv
<1>8. OutcomeInv'
  BY <1>1, <1>2, <1>3 DEF IInv, OutcomeInv
<1>9. HoldersInv'
  <2> SUFFICES ASSUME ~Excused', NEW v \in Wrappers, Holds(v)' PROVE HoldsAlone(v)'
    BY DEF HoldersInv
  <2>1. ~Excused
    BY <1>1, <1>2, <1>3 DEF Excused
  <2>2. outcome[w] # "opened" => ~Holds(w)'
    BY <1>2, <1>3 DEF Holds
  <2>3. outcome[w] = "opened" => wrapper[w] = "bound" /\ ~m.open
    <3>1. wrapper[w] = "new" => outcome[w] # "opened"
      BY VirtualPortRouterAssumption DEF IInv, OutcomeInv
    <3>2. wrapper[w] = "refused" => outcome[w] # "opened"
      BY DEF IInv, OutcomeInv
    <3> QED BY <1>1, <3>1, <3>2
  <2>4. \A u \in Wrappers : Holds(u)' => Holds(u) /\ HoldsAlone(u)
                                         /\ associatedVirtualPort'[u] = associatedVirtualPort[u]
    BY <1>2, <1>3, <2>1, <2>2, <2>3 DEF IInv, HoldersInv, Holds
  <2>5. wrapper'[v] = "opened" <=> wrapper[v] = "opened"
    BY <1>1, <1>3
  <2> QED BY <1>2, <2>4, <2>5 DEF HoldsAlone
<1> QED BY <1>5, <1>6, <1>7, <1>8, <1>9 DEF IInv

\* A wrapper that waits for nothing of the router goes on with its port.
LEMMA WrapperKeeps ==
  ASSUME IInv, NEW w \in Wrappers, Connects(w) \/ send(w) \/ Sent(w) \/ recv(w)
  PROVE  IInv'
<1> USE DEF portVars, wrapperVars, threads
<1> DEFINE p == associatedVirtualPort[w]
<1>1. /\ wrapper[w] \in {"opened", "bound", "sending"}
      /\ \A v \in Wrappers \ {w} : wrapper'[v] = wrapper[v]
      /\ wrapper'[w] \in {"bound", "sending"}
      /\ UNCHANGED <<thread, round, timeToShutdownFlag, allocated, udp, requests,
                     associatedVirtualPort, outcome, threads>>
  BY Types DEF IInv, Connects, send, Sent, recv
<1>2. p \in Ports
  BY <1>1 DEF IInv, OutcomeInv
<1>3. peer' = [peer EXCEPT ![p] = IF wrapper[w] = "opened" /\ p \in allocated /\ @ = None
                                  THEN w ELSE @]
  BY <1>1, <1>2, Types DEF IInv, Connects, send, Sent, recv
<1>4. /\ toOwner' \in [Ports -> 0 .. HighWater] /\ fromOwner' \in [Ports -> 0 .. HighWater]
      /\ \A q \in Ports : fromOwner[q] > 0 => fromOwner'[q] > 0
  <2>1. CASE Connects(w) \/ send(w)
    BY <2>1, Types DEF IInv, Connects, send
  <2>2. CASE Sent(w)
    BY <1>2, <2>2, Types DEF IInv, Sent
  <2>3. CASE recv(w)
    BY <1>2, <2>3, Types DEF IInv, recv
  <2> QED BY <2>1, <2>2, <2>3
<1> HIDE DEF p
<1>5. TypeOK'
  <2>1. wrapper' \in [Wrappers ->
            {"new", "opening", "opened", "refused", "bound", "sending", "closing", "gone"}]
    BY <1>1, Types DEF IInv, Connects, send, Sent, recv
  <2>2. peer' \in [Ports -> Wrappers \cup {None}] /\ \A q \in Ports : peer'[q] # None => q \in allocated
    BY <1>2, <1>3, Types DEF IInv
  <2> QED BY <1>1, <1>4, <2>1, <2>2, Types DEF IInv, TypeOK, Request
<1>6. RoundInv'
  <2>1. \A v \in Wrappers : wrapper[v] = "gone" => wrapper'[v] = "gone"
    BY <1>1
  <2>2. round.ports \subseteq Ports
    BY Types DEF IInv
  <2> QED BY <1>1, <1>4, <2>1, <2>2 DEF IInv, RoundInv, Stale
<1>7. RequestsInv'
  <2>1. \A i \in 1 .. Len(requests) : requests[i].from \in Wrappers \ {w}
    BY <1>1, NoRequest
  <2> QED BY <1>1, <2>1 DEF IInv, RequestsInv, RequestInv
<1>8. OutcomeInv'
  BY <1>1 DEF IInv, OutcomeInv
<1>9. HoldersInv'
  <2> SUFFICES ASSUME ~Excused', NEW v \in Wrappers, Holds(v)' PROVE HoldsAlone(v)'
    BY DEF HoldersInv
  <2>1. ~Excused
    BY <1>1 DEF Excused
  <2>2. \A u \in Wrappers : Holds(u)' => Holds(u) /\ HoldsAlone(u)
    BY <1>1, <2>1 DEF IInv, HoldersInv, Holds
  <2>3. Holds(w) /\ HoldsAlone(w)
    BY <1>1, <2>1 DEF IInv, HoldersInv, Holds
  <2>4. peer'[p] = w /\ p \in allocated
    BY <1>2, <1>3, <2>3, Types DEF IInv, HoldsAlone, p
  <2>5. CASE v = w
    BY <1>1, <2>2, <2>3, <2>4, <2>5 DEF HoldsAlone, p
  <2>6. CASE v # w
    <3>1. associatedVirtualPort[v] # p /\ associatedVirtualPort[v] \in Ports
      BY <2>2, <2>3, <2>6, Types DEF IInv, HoldsAlone, p
    <3>2. peer'[associatedVirtualPort[v]] = peer[associatedVirtualPort[v]]
      BY <1>3, <3>1, Types DEF IInv
    <3> QED BY <1>1, <2>2, <2>6, <3>2 DEF HoldsAlone
  <2> QED BY <2>5, <2>6
<1> QED BY <1>5, <1>6, <1>7, <1>8, <1>9 DEF IInv

\* A thread that pauses or goes on changes nothing else.
LEMMA PausesKeep ==
  ASSUME IInv, NEW w \in Wrappers, PausesOrResumes(owner[w])
  PROVE  IInv'
<1> USE DEF portVars
<1>1. /\ UNCHANGED <<thread, round, timeToShutdownFlag, portVars, udp, requests, wrapper,
                     associatedVirtualPort, outcome, owner>>
      /\ paused' \subseteq Threads
  BY Types DEF IInv, PausesOrResumes
<1>2. TypeOK'
  BY <1>1, Types DEF IInv, TypeOK, Request
<1>3. RoundInv' /\ RequestsInv' /\ OutcomeInv' /\ HoldersInv'
  BY <1>1 DEF IInv, RoundInv, Stale, RequestsInv, RequestInv, OutcomeInv, HoldersInv, Excused,
              Holds, HoldsAlone
<1> QED BY <1>2, <1>3 DEF IInv

THEOREM Invariance == Spec => []IInv
<1>1. ASSUME Init PROVE IInv
  <2>1. << >> \in Seq(Ports) /\ << >> \in Seq(Request) /\ Len(<< >>) = 0 /\ 1 .. 0 = {}
    OBVIOUS
  <2>2. TypeOK
    <3>1. HighWater \in Nat /\ 0 \in 0 .. HighWater /\ Ownerships \subseteq [Wrappers -> Threads]
      BY VirtualPortRouterAssumption
    <3> QED BY <1>1, <2>1, <3>1 DEF Init, TypeOK, NothingFound, Request
  <2>3. RoundInv
    BY <1>1 DEF Init, RoundInv, NothingFound, Stale
  <2>4. RequestsInv /\ OutcomeInv /\ HoldersInv
    BY <1>1, <2>1, VirtualPortRouterAssumption
       DEF Init, RequestsInv, OutcomeInv, HoldersInv, Holds
  <2> QED BY <2>2, <2>3, <2>4 DEF IInv
<1>2. ASSUME IInv, [Next]_vars PROVE IInv'
  <2>1. CASE Router
    BY <1>2, <2>1, EndsKeeps, StartsKeeps, IncomingKeeps, RequestKeeps, OutgoingKeeps
       DEF Router, Stops, PortIsGone, SendToFails
  <2>2. CASE UNCHANGED vars
    BY <1>2, <2>2 DEF vars, portVars, wrapperVars, threads, IInv, TypeOK, RoundInv, Stale, RequestsInv,
       RequestInv, OutcomeInv, HoldersInv, Excused, Holds, HoldsAlone
  <2> QED BY <1>2, <2>1, <2>2, OutsideKeeps, AsksKeeps, WrapperKeeps, PausesKeep DEF Next
<1> QED BY <1>1, <1>2, PTL DEF Spec

-----------------------------------------------------------------------------
(***************************************************************************)
(* The properties                                                          *)
(***************************************************************************)

\* Every variable has its type, for any ports, wrappers and bounds (the router's loop and
\* virtualPortPairSocketWrapper).
THEOREM TypeCorrect == Spec => []TypeOK
<1>1. IInv => TypeOK
  BY DEF IInv
<1> QED BY <1>1, Invariance, PTL

\* For any number of ports, the port whose reading ends the thread is the one that a request
\* of this round has closed (runRouter, the order of a round).
THEOREM OnlyTheClosedIsStale == Spec => []StalePortIsTheOneClosed
<1>1. ASSUME IInv PROVE StalePortIsTheOneClosed
  <2>1. Cardinality(Stale) <= 1
    <3>1. CASE Stale = {}
      BY <3>1, FS_EmptySet
    <3>2. CASE Stale # {}
      <4>1. PICK p : Stale = {p}
        BY <1>1, <3>2 DEF IInv, RoundInv
      <4> QED BY <4>1, FS_Singleton
    <3> QED BY <3>1, <3>2
  <2>2. round.udp \/ round.request => round.ports \subseteq allocated
    BY <1>1 DEF IInv, RoundInv, Stale
  <2>3. \A p \in Stale : \E w \in Wrappers : wrapper[w] = "gone" /\ associatedVirtualPort[w] \in {p, None}
    BY <1>1 DEF IInv, RoundInv
  <2> QED BY <2>1, <2>2, <2>3 DEF StalePortIsTheOneClosed, Stale
<1> QED BY <1>1, Invariance, PTL

\* For any number of wrappers, each keeps its port, and has it for itself, from the reply to
\* its bind to its destructor, with the exceptions that the property names.
THEOREM HoldersKeep == Spec => []HoldersKeepTheirPort
<1>1. IInv => HoldersKeepTheirPort
  BY DEF IInv, HoldersInv, Excused, Holds, HoldsAlone, HoldersKeepTheirPort
<1> QED BY <1>1, Invariance, PTL
=============================================================================
