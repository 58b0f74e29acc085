------------------------- MODULE LocalURIProxy_proofs -------------------------
(***************************************************************************)
(* No reply reaches another call than the one it answers, and no program   *)
(* has two requests under way, for any number of threads and calls.        *)
(*                                                                         *)
(* Every call of a waiting thread is in one place at most: in the queue,   *)
(* with the proxy, or answered in the thread's inbox.  A request that has  *)
(* been given up stays the proxy's current one, and so no other is taken   *)
(* while its late reply is still to come.                                  *)
(***************************************************************************)
EXTENDS LocalURIProxy, TLAPS

\* The call that a thread makes and whose reply has not arrived.
Outstanding(r) == /\ caller[r[1]] = "waiting"
                  /\ r[2] = calls[r[1]]
                  /\ inbox[r[1]] = None

QueueInv ==
    \A i \in 1 .. Len(queue) :
        /\ Outstanding(queue[i])
        /\ current # None => queue[i][1] # current[1]
        /\ \A j \in 1 .. Len(queue) : queue[j][1] = queue[i][1] => i = j

CurrentInv ==
    /\ current # None => Outstanding(current)
    /\ proxy \in {"forward", "await"} => current # None
    /\ proxy \in {"starting", "failed", "exited"} => current = None /\ queue = << >>

InboxInv ==
    \A t \in Callers : inbox[t] # None => caller[t] = "waiting" /\ inbox[t] = <<t, calls[t]>>

\* The proxy takes no request while one is on the wires.
WiresInv ==
    /\ Len(toServer) + Len(fromServer) <= 1
    /\ proxy \in {"starting", "forward"} \/ (proxy \in {"top", "listen"} /\ current = None)
          => toServer = << >> /\ fromServer = << >>
    /\ proxy = "await" => /\ \A i \in 1 .. Len(toServer) : toServer[i] = current
                          /\ \A i \in 1 .. Len(fromServer) : fromServer[i] = current

IInv == TypeOK /\ QueueInv /\ CurrentInv /\ InboxInv /\ WiresInv

LEMMA NoLength ==
  ASSUME NEW S, NEW s \in Seq(S), Len(s) = 0
  PROVE  s = << >>
  OBVIOUS

LEMMA Lengths ==
  ASSUME NEW m \in Nat, NEW n \in Nat, m + n <= 1, m # 0
  PROVE  m = 1 /\ n = 0
  OBVIOUS

LEMMA AllInOne ==
  ASSUME NEW S, NEW s \in Seq(S), NEW t \in Seq(S), Len(s) + Len(t) <= 1, s # << >>
  PROVE  Len(s) = 1 /\ t = << >>
<1>1. Len(s) # 0
  BY NoLength
<1>2. Len(s) = 1 /\ Len(t) = 0
  <2>1. Len(s) \in Nat /\ Len(t) \in Nat
    OBVIOUS
  <2> QED BY <1>1, <2>1, Lengths
<1> QED BY <1>2, NoLength

LEMMA OneElement ==
  ASSUME NEW S, NEW s \in Seq(S), Len(s) = 1
  PROVE  Head(s) = s[1] /\ s[1] \in S /\ Tail(s) = << >>
<1>1. Tail(s) \in Seq(S) /\ Len(Tail(s)) = 0
  OBVIOUS
<1>2. Tail(s) = << >>
  BY <1>1, NoLength
<1> QED BY <1>2

\* The threads of queued requests wait, and their inboxes are empty.
LEMMA QueuedRequests ==
  ASSUME IInv, NEW i \in 1 .. Len(queue)
  PROVE  /\ queue[i] \in Requests /\ queue[i][1] \in Callers
         /\ caller[queue[i][1]] = "waiting" /\ inbox[queue[i][1]] = None
<1>1. queue \in Seq(Requests) /\ QueueInv
  BY DEF IInv, TypeOK
<1>2. queue[i] \in Requests
  BY <1>1
<1>3. queue[i][1] \in Callers
  BY <1>2 DEF Requests
<1> QED BY <1>1, <1>2, <1>3 DEF QueueInv, Outstanding

-----------------------------------------------------------------------------
(***************************************************************************)
(* The threads                                                             *)
(***************************************************************************)
LEMMA CallKeeps ==
  ASSUME IInv, NEW t \in Callers, Call(t) \/ CallsTooEarly(t) \/ CallsTooLate(t)
  PROVE  IInv'
<1> USE ProxyAssumption DEF threads, wires, outer
<1>0. /\ TypeOK /\ QueueInv /\ CurrentInv /\ InboxInv /\ WiresInv
      /\ caller \in [Callers -> {"idle", "waiting"}] /\ calls \in [Callers -> 0 .. MaxCalls]
      /\ queue \in Seq(Requests) /\ current \in Requests \cup {None}
  BY DEF IInv, TypeOK
<1>1. /\ caller[t] = "idle" /\ calls[t] < MaxCalls /\ inbox[t] = None
      /\ calls' = [calls EXCEPT ![t] = @ + 1]
      /\ UNCHANGED <<inbox, proxy, current, toServer, fromServer, server, exitFlag>>
  BY <1>0 DEF Call, CallsTooEarly, CallsTooLate, StartsCall, InboxInv
<1>2. PICK r : r = <<t, calls[t] + 1>>
  OBVIOUS
<1>3. /\ caller' = caller \/ caller' = [caller EXCEPT ![t] = "waiting"]
      /\ queue' = queue \/ queue' = Append(queue, r)
      /\ program' = program \/ program' = "crashed"
  BY <1>2 DEF Call, CallsTooEarly, CallsTooLate, Waits
<1>4. queue' # queue => /\ caller' = [caller EXCEPT ![t] = "waiting"]
                        /\ proxy \notin {"starting", "failed", "exited"}
  BY DEF Call, CallsTooEarly, CallsTooLate, Waits
<1>5. /\ caller' \in [Callers -> {"idle", "waiting"}]
      /\ calls' \in [Callers -> 0 .. MaxCalls] /\ calls'[t] = calls[t] + 1
      /\ \A other \in Callers \ {t} : caller'[other] = caller[other] /\ calls'[other] = calls[other]
  BY <1>0, <1>1, <1>3
<1>6. r \in Requests /\ r[1] = t /\ r[2] = calls'[t]
  BY <1>0, <1>1, <1>2, <1>5 DEF Requests
<1>7. TypeOK'
  <2>1. queue' \in Seq(Requests)
    <3>1. Append(queue, r) \in Seq(Requests)
      BY <1>0, <1>6
    <3> QED BY <1>0, <1>3, <3>1
  <2>2. Requests' = Requests
    BY DEF Requests
  <2> QED BY <1>0, <1>1, <1>3, <1>5, <2>1, <2>2 DEF TypeOK
<1>8. \A i \in 1 .. Len(queue) : queue[i] \in Requests /\ queue[i][1] \in Callers \ {t}
  BY <1>0, <1>1, QueuedRequests
<1>9. current # None => current[1] \in Callers \ {t}
  BY <1>0, <1>1 DEF CurrentInv, Outstanding, Requests
<1>10. QueueInv'
  <2> DEFINE waits(q) == caller'[q[1]] = "waiting" /\ q[2] = calls'[q[1]] /\ inbox'[q[1]] = None
  <2>1. \A i \in 1 .. Len(queue) :
            /\ waits(queue[i]) /\ queue[i][1] # t
            /\ current # None => queue[i][1] # current[1]
            /\ \A j \in 1 .. Len(queue) : queue[j][1] = queue[i][1] => i = j
    BY <1>0, <1>1, <1>5, <1>8 DEF QueueInv, Outstanding
  <2>2. CASE queue' = queue
    BY <1>1, <2>1, <2>2 DEF QueueInv, Outstanding
  <2>3. CASE queue' = Append(queue, r) /\ queue' # queue
    <3>1. /\ Len(queue) \in Nat /\ Len(queue') = Len(queue) + 1 /\ queue'[Len(queue) + 1] = r
          /\ \A i \in 1 .. Len(queue) : queue'[i] = queue[i]
      BY <1>0, <2>3
    <3>2. waits(r)
      BY <1>0, <1>1, <1>4, <1>6, <2>3
    <3>3. \A i \in 1 .. Len(queue') : i \in 1 .. Len(queue) \/ i = Len(queue) + 1
      BY <3>1
    <3>4. ASSUME NEW i \in 1 .. Len(queue')
          PROVE  /\ waits(queue'[i])
                 /\ current # None => queue'[i][1] # current[1]
                 /\ \A j \in 1 .. Len(queue') : queue'[j][1] = queue'[i][1] => i = j
      <4> HIDE DEF waits
      <4>1. CASE i = Len(queue) + 1
        BY <1>6, <1>9, <2>1, <3>1, <3>2, <3>3, <4>1
      <4>2. CASE i \in 1 .. Len(queue)
        BY <1>6, <2>1, <3>1, <3>3, <4>2
      <4> QED BY <3>3, <4>1, <4>2
    <3> QED BY <1>1, <3>4 DEF QueueInv, Outstanding
  <2> QED BY <1>3, <2>2, <2>3
<1>11. CurrentInv'
  <2>1. proxy' \in {"starting", "failed", "exited"} => queue' = queue
    BY <1>1, <1>4
  <2>2. current # None => Outstanding(current)'
    BY <1>0, <1>1, <1>5, <1>9 DEF CurrentInv, Outstanding
  <2> QED BY <1>0, <1>1, <2>1, <2>2 DEF CurrentInv
<1>12. InboxInv'
  BY <1>0, <1>1, <1>5 DEF InboxInv
<1>13. WiresInv'
  BY <1>0, <1>1 DEF WiresInv
<1> QED BY <1>7, <1>10, <1>11, <1>12, <1>13 DEF IInv

LEMMA ReturnsKeeps ==
  ASSUME IInv, NEW t \in Callers, Returns(t)
  PROVE  IInv'
<1> USE ProxyAssumption DEF IInv, TypeOK, Requests, ProxyStates, threads, wires, outer
<1>1. /\ inbox[t] # None
      /\ inbox' = [inbox EXCEPT ![t] = None]
      /\ caller' = [caller EXCEPT ![t] = "idle"]
      /\ UNCHANGED <<calls, queue, proxy, current, wires, outer>>
  BY DEF Returns
<1>2. TypeOK'
  BY <1>1
<1>3. \A i \in 1 .. Len(queue) : queue[i] \in Requests /\ queue[i][1] \in Callers \ {t}
  BY <1>1, QueuedRequests
<1>4. current # None => current[1] \in Callers \ {t}
  BY <1>1 DEF CurrentInv, Outstanding
<1>5. QueueInv'
  BY <1>1, <1>3 DEF QueueInv, Outstanding
<1>6. CurrentInv'
  BY <1>1, <1>4 DEF CurrentInv, Outstanding
<1>7. InboxInv'
  BY <1>1 DEF InboxInv
<1>8. WiresInv'
  BY <1>1 DEF WiresInv
<1> QED BY <1>2, <1>5, <1>6, <1>7, <1>8

-----------------------------------------------------------------------------
(***************************************************************************)
(* The proxy                                                               *)
(***************************************************************************)
LEMMA TakesKeeps ==
  ASSUME IInv, Takes
  PROVE  IInv'
<1> USE ProxyAssumption DEF IInv, TypeOK, Requests, ProxyStates, threads, wires, outer
<1>1. /\ proxy = "listen" /\ proxy' = "forward" /\ current = None /\ queue # << >>
      /\ current' = Head(queue) /\ queue' = Tail(queue)
      /\ UNCHANGED <<threads, wires, outer>>
  BY DEF Takes, Step
<1>2. /\ Len(queue) \in Nat \ {0} /\ current' = queue[1] /\ queue[1] \in Requests
      /\ queue' \in Seq(Requests) /\ Len(queue') = Len(queue) - 1
      /\ \A i \in 1 .. Len(queue') : queue'[i] = queue[i + 1] /\ i + 1 \in 1 .. Len(queue)
  BY <1>1
<1>3. TypeOK'
  BY <1>1, <1>2
<1>4. \A i \in 1 .. Len(queue) : Outstanding(queue[i])
                                 /\ \A j \in 1 .. Len(queue) : queue[j][1] = queue[i][1] => i = j
  BY DEF QueueInv
<1>5. Outstanding(queue[1])
  BY <1>2, <1>4
<1>6. CurrentInv'
  BY <1>1, <1>2, <1>5 DEF CurrentInv, Outstanding
<1>7. QueueInv'
  BY <1>1, <1>2, <1>4 DEF QueueInv, Outstanding
<1>8. InboxInv' /\ WiresInv'
  BY <1>1 DEF InboxInv, WiresInv
<1> QED BY <1>3, <1>6, <1>7, <1>8

LEMMA ExitsKeeps ==
  ASSUME IInv, NEW from \in {"top", "listen"}, Exits(from)
  PROVE  IInv'
<1> USE ProxyAssumption DEF IInv, TypeOK, Requests, ProxyStates, threads, wires, outer
<1> QED BY DEF Exits, Step, QueueInv, CurrentInv, InboxInv, WiresInv, Outstanding

LEMMA RelaysKeeps ==
  ASSUME IInv, Relays
  PROVE  IInv'
<1> USE ProxyAssumption DEF threads, wires, outer
<1>0. /\ TypeOK /\ QueueInv /\ CurrentInv /\ InboxInv /\ WiresInv
      /\ inbox \in [Callers -> Requests \cup {None}]
      /\ toServer \in Seq(Requests) /\ fromServer \in Seq(Requests)
      /\ queue \in Seq(Requests) /\ current \in Requests \cup {None}
  BY DEF IInv, TypeOK
<1>1. /\ proxy = "await" /\ proxy' = "top" /\ fromServer # << >>
      /\ fromServer' = Tail(fromServer)
      /\ inbox' = [inbox EXCEPT ![current[1]] = Head(fromServer)]
      /\ current' = None
      /\ UNCHANGED <<caller, calls, queue, toServer, outer>>
  BY DEF Relays, Step
<1>2. /\ current # None /\ current \in Requests
      /\ caller[current[1]] = "waiting" /\ current[2] = calls[current[1]]
  BY <1>0, <1>1 DEF CurrentInv, Outstanding
<1>3. /\ Head(fromServer) = current
      /\ fromServer' = << >> /\ toServer' = << >>
  <2>1. Len(fromServer) + Len(toServer) <= 1
    BY <1>0 DEF WiresInv
  <2>2. Len(fromServer) = 1 /\ toServer = << >>
    BY <1>0, <1>1, <2>1, AllInOne
  <2>3. fromServer[1] = current
    BY <1>0, <1>1, <2>2 DEF WiresInv
  <2> QED BY <1>0, <1>1, <2>2, <2>3, OneElement
<1>4. /\ inbox' = [inbox EXCEPT ![current[1]] = current] /\ current[1] \in Callers
      /\ current = <<current[1], calls[current[1]]>>
  <2>1. current[1] \in Callers /\ current = <<current[1], current[2]>>
    BY <1>2 DEF Requests
  <2> QED BY <1>1, <1>2, <1>3, <2>1
<1>5. TypeOK'
  <2>1. /\ inbox' \in [Callers -> Requests \cup {None}]
        /\ toServer' \in Seq(Requests) /\ fromServer' \in Seq(Requests)
    BY <1>0, <1>1, <1>2, <1>3, <1>4
  <2> QED BY <1>0, <1>1, <2>1 DEF TypeOK, Requests, ProxyStates
<1>6. \A i \in 1 .. Len(queue) : queue[i] \in Requests /\ queue[i][1] \in Callers \ {current[1]}
  BY <1>0, <1>2 DEF QueueInv, Requests
<1>7. QueueInv'
  BY <1>0, <1>1, <1>4, <1>6 DEF QueueInv, Outstanding
<1>8. CurrentInv' /\ WiresInv'
  <2>1. Len(<< >>) = 0 /\ 0 + 0 <= 1
    OBVIOUS
  <2>2. CurrentInv'
    BY <1>1 DEF CurrentInv
  <2>3. Len(toServer') + Len(fromServer') <= 1
    BY <1>3, <2>1
  <2> QED BY <1>1, <1>3, <2>2, <2>3 DEF WiresInv
<1>9. InboxInv'
  BY <1>0, <1>1, <1>2, <1>4 DEF InboxInv
<1> QED BY <1>5, <1>7, <1>8, <1>9 DEF IInv

LEMMA ForwardsKeeps ==
  ASSUME IInv, Forwards
  PROVE  IInv'
<1> USE ProxyAssumption DEF IInv, TypeOK, Requests, ProxyStates, threads, wires, outer
<1>1. /\ proxy = "forward" /\ proxy' = "await"
      /\ toServer' = Append(toServer, current)
      /\ UNCHANGED <<threads, queue, current, fromServer, outer>>
  BY DEF Forwards, Step
<1>2. toServer = << >> /\ fromServer = << >> /\ current \in Requests
  BY <1>1 DEF WiresInv, CurrentInv
<1>3. TypeOK' /\ WiresInv'
  BY <1>1, <1>2 DEF WiresInv
<1>4. QueueInv' /\ CurrentInv' /\ InboxInv'
  BY <1>1 DEF QueueInv, CurrentInv, InboxInv, Outstanding
<1> QED BY <1>3, <1>4

\* The other steps of the proxy change nothing but where it is.
LEMMA StepKeeps ==
  ASSUME IInv, Starts \/ KeepsOn \/ ListenTimesOut \/ ForwardTimesOut \/ AwaitTimesOut
  PROVE  IInv'
<1> USE ProxyAssumption DEF IInv, TypeOK, Requests, ProxyStates, threads, wires, outer
<1>1. /\ UNCHANGED <<threads, queue, current, wires, outer>>
      /\ <<proxy, proxy'>> \in {<<"starting", "top">>, <<"starting", "failed">>, <<"top", "listen">>,
                                <<"listen", "top">>, <<"forward", "top">>, <<"await", "top">>}
  BY DEF Starts, KeepsOn, ListenTimesOut, ForwardTimesOut, AwaitTimesOut, Step
<1>2. TypeOK' /\ QueueInv' /\ InboxInv'
  BY <1>1 DEF QueueInv, InboxInv, Outstanding
<1>3. CurrentInv' /\ WiresInv'
  BY <1>1 DEF CurrentInv, WiresInv, Outstanding
<1> QED BY <1>2, <1>3

-----------------------------------------------------------------------------
(***************************************************************************)
(* The server and the end                                                  *)
(***************************************************************************)
LEMMA ServerKeeps ==
  ASSUME IInv, Answers \/ ServerChanges
  PROVE  IInv'
<1> USE DEF threads, wires, outer
<1>0. /\ TypeOK /\ QueueInv /\ CurrentInv /\ InboxInv /\ WiresInv
      /\ toServer \in Seq(Requests) /\ fromServer \in Seq(Requests)
      /\ << >> \in Seq(Requests) /\ Len(<< >>) = 0
  BY DEF IInv, TypeOK
<1>1. QueueInv' /\ CurrentInv' /\ InboxInv'
  BY <1>0 DEF Answers, ServerChanges, QueueInv, CurrentInv, InboxInv, Outstanding
<1>2. CASE Answers
  <2>1. /\ toServer # << >> /\ toServer' = Tail(toServer)
        /\ fromServer' = Append(fromServer, Head(toServer))
        /\ UNCHANGED <<proxy, current, caller, calls, inbox, queue, server, exitFlag, program>>
    BY <1>2 DEF Answers
  <2>2. Len(toServer) + Len(fromServer) <= 1
    BY <1>0 DEF WiresInv
  <2>3. Len(toServer) = 1 /\ fromServer = << >>
    BY <1>0, <2>1, <2>2, AllInOne
  <2>4. /\ Head(toServer) = toServer[1] /\ toServer[1] \in Requests
        /\ toServer' = << >>
    BY <1>0, <2>1, <2>3, OneElement
  <2>5. PICK r \in Requests : r = toServer[1]
    BY <2>4
  <2>6. /\ fromServer' = Append(<< >>, r) /\ Append(<< >>, r) = << r >>
        /\ << r >> \in Seq(Requests) /\ Len(<< r >>) = 1 /\ << r >>[1] = r
    BY <2>1, <2>3, <2>4, <2>5
  <2>7. TypeOK'
    BY <1>0, <2>1, <2>4, <2>6 DEF TypeOK, Requests, ProxyStates
  <2>8. proxy \notin {"starting", "forward"} /\ ~(proxy \in {"top", "listen"} /\ current = None)
    BY <1>0, <2>1 DEF WiresInv
  <2>9. proxy = "await" => r = current
    BY <1>0, <2>3, <2>5 DEF WiresInv
  <2>10. WiresInv'
    BY <1>0, <2>1, <2>4, <2>6, <2>8, <2>9 DEF WiresInv
  <2> QED BY <1>1, <2>7, <2>10 DEF IInv
<1>3. CASE ServerChanges
  <2>1. toServer' = toServer \/ toServer' = << >>
    BY <1>3 DEF ServerChanges
  <2>2. TypeOK'
    BY <1>0, <1>3 DEF ServerChanges, TypeOK, Requests, ProxyStates
  <2>3. Len(toServer') + Len(fromServer') <= 1
    BY <1>0, <1>3, <2>1 DEF ServerChanges, WiresInv
  <2>4. WiresInv'
    BY <1>0, <1>3, <2>1, <2>3 DEF ServerChanges, WiresInv
  <2> QED BY <1>1, <2>2, <2>4 DEF IInv
<1> QED BY <1>2, <1>3

LEMMA EndKeeps ==
  ASSUME IInv, MainReturns \/ Terminates
  PROVE  IInv'
<1> USE ProxyAssumption DEF IInv, TypeOK, Requests, ProxyStates, threads, wires, outer
<1>1. CASE MainReturns
  BY <1>1 DEF MainReturns, QueueInv, CurrentInv, InboxInv, WiresInv, Outstanding
<1>2. CASE Terminates
  <2>1. queue = << >> /\ current = None
    BY <1>2 DEF Terminates, CurrentInv
  <2> QED BY <1>2, <2>1 DEF Terminates, QueueInv, CurrentInv, InboxInv, WiresInv
<1> QED BY <1>1, <1>2

THEOREM Invariance == Spec => []IInv
<1>1. ASSUME Init PROVE IInv
  <2>1. TypeOK
    <3>1. << >> \in Seq(Requests) /\ 0 \in 0 .. MaxCalls
      BY ProxyAssumption
    <3> QED BY <1>1, <3>1 DEF Init, TypeOK, ProxyStates
  <2>2. Len(<< >>) = 0
    OBVIOUS
  <2> QED BY <1>1, <2>1, <2>2 DEF Init, IInv, QueueInv, CurrentInv, InboxInv, WiresInv
<1>2. ASSUME IInv, [Next]_vars PROVE IInv'
  <2>1. CASE UNCHANGED vars
    BY <1>2, <2>1 DEF IInv, vars, threads, wires, outer, TypeOK, QueueInv, CurrentInv, InboxInv,
                      WiresInv, Outstanding
  <2>2. CASE Proxy
    BY <1>2, <2>2, TakesKeeps, ExitsKeeps, RelaysKeeps, ForwardsKeeps, StepKeeps
       DEF Proxy, StopsOnFlag, ListenThrows
  <2> QED BY <1>2, <2>1, <2>2, CallKeeps, ReturnsKeeps, ServerKeeps, EndKeeps DEF Next
<1> QED BY <1>1, <1>2, PTL DEF Spec

-----------------------------------------------------------------------------
(***************************************************************************)
(* The properties                                                          *)
(***************************************************************************)

\* A thread gets the reply to the call it is in and to no other, for any number of threads
\* and calls, whatever timed out before (the proxy's REP and REQ sockets).
THEOREM RepliesMatch == Spec => []AnswersMatch
<1>1. IInv => AnswersMatch
  BY DEF IInv, InboxInv, AnswersMatch
<1> QED BY <1>1, Invariance, PTL

\* The requests of all threads of a program are with the server one at a time, for any number
\* of threads (the proxy's loop).
THEOREM RequestsAreSerial == Spec => []OneRequestUnderWay
<1>1. IInv => OneRequestUnderWay
  BY DEF IInv, WiresInv, OneRequestUnderWay
<1> QED BY <1>1, Invariance, PTL
=============================================================================
