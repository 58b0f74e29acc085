-------------------------- MODULE Endpoints_proofs --------------------------
(***************************************************************************)
(* Proofs about the endpoints, for any objects, users and names: who holds *)
(* a name is registered under it, only failures leave URIs behind, and a   *)
(* bound object loses its socket file only to a late close.                *)
(***************************************************************************)
EXTENDS Endpoints, TLAPS

USE EndpointsAssumption DEF Objects, Users

LEMMA InitHolds == Init => TypeOK /\ OwnersRegistered /\ OnlyFailuresLeaveNames
  BY DEF Init, TypeOK, States, Phases, Tags, Open, Holding, OwnersRegistered, OnlyFailuresLeaveNames

\* The steps of users leave what belongs to the objects alone.
UserStep ==
    \/ \E u \in Users, n \in Names : localRequester(u, n) \/ subscribe(u, n)
    \/ \E u \in Users : Links(u) \/ Receives(u) \/ sendRequest(u) \/ Delivers(u) \/ Leaves(u)
    \/ \E o \in Objects : publish(o) \/ getRequest(o) \/ sendReply(o)

LEMMA UsersLeaveObjects == UserStep => UNCHANGED objectVars
  BY DEF UserStep, localRequester, subscribe, Connects, Links, Receives, sendRequest,
         Delivers, Leaves, publish, getRequest, sendReply

\* What a disconnection does to the types of the users' variables.
LEMMA DisconnectedTyped ==
  ASSUME TypeOK, NEW o \in Objects, Disconnected(o)
  PROVE  /\ target' \in [Users -> Names \cup {None}]
         /\ link' \in [Users -> Objects \cup {None}]
         /\ inbox' \in [Objects -> Seq(Users)]
         /\ owes' \in [Objects -> Users \cup {None}]
         /\ phase' \in [Users -> Phases]
         /\ \A u \in Users : link'[u] # None => link'[u] = link[u] /\ link[u] # o
  BY DEF TypeOK, Disconnected, Phases

-----------------------------------------------------------------------------
\* The type invariant is inductive by itself.
LEMMA ObjectStepTyped ==
  ASSUME TypeOK, NEW o \in Objects,
         \/ \E n \in Names : Registers(o, n) \/ Refused(o, n)
         \/ Binds(o) \/ BindFails(o) \/ Removes(o) \/ RemovalFails(o) \/ Closes(o) \/ Killed(o)
  PROVE  TypeOK'
<1> USE DEF Open, States
<1>1. ASSUME NEW n \in Names, Registers(o, n)
      PROVE  TypeOK'
  <2>1. Tag(o) \in Tags
    BY DEF Tag, Tags
  <2>. QED
    BY <1>1, <2>1 DEF TypeOK, Registers, userVars
<1>2. ASSUME NEW n \in Names, Refused(o, n)
      PROVE  TypeOK'
  BY <1>2 DEF TypeOK, Refused, userVars
<1>3. ASSUME Binds(o)
      PROVE  TypeOK'
  BY <1>3 DEF TypeOK, Binds, userVars
<1>4. ASSUME BindFails(o)
      PROVE  TypeOK'
  BY <1>4 DEF TypeOK, BindFails, userVars
<1>5. ASSUME Removes(o)
      PROVE  TypeOK'
  BY <1>5 DEF TypeOK, Removes, userVars
<1>8. ASSUME RemovalFails(o)
      PROVE  TypeOK'
  BY <1>8 DEF TypeOK, RemovalFails, userVars
<1>6. ASSUME Closes(o)
      PROVE  TypeOK'
  <2>1. Disconnected(o)
    BY <1>6 DEF Closes
  <2>2. \A u \in Users : link'[u] # None => link'[u] = link[u] /\ link[u] # o
    BY <2>1, DisconnectedTyped
  <2>3. \A u \in Users : link'[u] # None => /\ state'[link'[u]] \in {"bound", "removed", "unremoved"}
                                            /\ Tag(link'[u]) = Sought(u)
    BY <1>6, <2>2 DEF TypeOK, Closes
  <2>4. /\ state' \in [Objects -> States]
        /\ file' \in [Names -> Objects \cup {None}]
        /\ \A p \in Objects : name'[p] = None <=> state'[p] = "none"
        /\ UNCHANGED <<registered, name>>
    BY <1>6 DEF TypeOK, Closes
  <2>5. /\ target' \in [Users -> Names \cup {None}]
        /\ link' \in [Users -> Objects \cup {None}]
        /\ inbox' \in [Objects -> Seq(Users)]
        /\ owes' \in [Objects -> Users \cup {None}]
        /\ phase' \in [Users -> Phases]
    BY <2>1, DisconnectedTyped
  <2>. QED
    BY <2>3, <2>4, <2>5 DEF TypeOK, Tag, Sought
<1>7. ASSUME Killed(o)
      PROVE  TypeOK'
  <2>1. Disconnected(o)
    BY <1>7 DEF Killed
  <2>2. \A u \in Users : link'[u] # None => link'[u] = link[u] /\ link[u] # o
    BY <2>1, DisconnectedTyped
  <2>3. \A u \in Users : link'[u] # None => /\ state'[link'[u]] \in {"bound", "removed", "unremoved"}
                                            /\ Tag(link'[u]) = Sought(u)
    BY <1>7, <2>2 DEF TypeOK, Killed
  <2>4. /\ state' \in [Objects -> States]
        /\ file' \in [Names -> Objects \cup {None}]
        /\ \A p \in Objects : name'[p] = None <=> state'[p] = "none"
        /\ UNCHANGED <<registered, name>>
    BY <1>7 DEF TypeOK, Killed
  <2>5. /\ target' \in [Users -> Names \cup {None}]
        /\ link' \in [Users -> Objects \cup {None}]
        /\ inbox' \in [Objects -> Seq(Users)]
        /\ owes' \in [Objects -> Users \cup {None}]
        /\ phase' \in [Users -> Phases]
    BY <2>1, DisconnectedTyped
  <2>. QED
    BY <2>3, <2>4, <2>5 DEF TypeOK, Tag, Sought
<1>. QED
  BY <1>1, <1>2, <1>3, <1>4, <1>5, <1>6, <1>7, <1>8

LEMMA UserStepTyped == ASSUME TypeOK, UserStep PROVE TypeOK'
<1> USE DEF TypeOK, objectVars, Phases
<1>1. ASSUME NEW u \in Users, NEW n \in Names, localRequester(u, n) \/ subscribe(u, n)
      PROVE  TypeOK'
  <2>1. /\ target' = [target EXCEPT ![u] = n]
        /\ UNCHANGED <<registered, state, name, file, link, inbox, owes, phase>>
    BY <1>1 DEF localRequester, subscribe, Connects
  <2>2. target' \in [Users -> Names \cup {None}]
    BY <2>1
  <2> QED BY <2>1, <2>2 DEF Open
<1>2. ASSUME NEW u \in Users, Links(u)
      PROVE  TypeOK'
  BY <1>2 DEF Links, Open
<1>3. ASSUME NEW u \in Users, Receives(u) \/ sendRequest(u)
      PROVE  TypeOK'
  BY <1>3 DEF Receives, sendRequest, Open
<1>4. ASSUME NEW u \in Users, Delivers(u)
      PROVE  TypeOK'
  BY <1>4 DEF Delivers, Open
<1>5. ASSUME NEW u \in Users, Leaves(u)
      PROVE  TypeOK'
  BY <1>5 DEF Leaves, Open
<1>6. ASSUME NEW o \in Objects, publish(o)
      PROVE  TypeOK'
  BY <1>6 DEF publish, Open
<1>7. ASSUME NEW o \in Objects, getRequest(o)
      PROVE  TypeOK'
  BY <1>7 DEF getRequest, Open
<1>8. ASSUME NEW o \in Objects, sendReply(o)
      PROVE  TypeOK'
  BY <1>8 DEF sendReply, Open
<1>. QED
  BY <1>1, <1>2, <1>3, <1>4, <1>5, <1>6, <1>7, <1>8 DEF UserStep

LEMMA NextSplit ==
  ASSUME Next
  PROVE  \/ UserStep
         \/ \E o \in Objects :
               \/ \E n \in Names : Registers(o, n) \/ Refused(o, n)
               \/ Binds(o) \/ BindFails(o) \/ Removes(o) \/ RemovalFails(o) \/ Closes(o) \/ Killed(o)
  BY DEF Next, UserStep

\* The variables have their types, and only open sockets have connections, in every state.
THEOREM TypeCorrect == Spec => []TypeOK
<1>1. Init => TypeOK
  BY InitHolds
<1>2. ASSUME TypeOK, [Next]_vars
      PROVE  TypeOK'
  <2>1. CASE UNCHANGED vars
    BY <1>2, <2>1 DEF TypeOK, vars, objectVars, userVars, Open
  <2>2. CASE Next
    BY <1>2, <2>2, NextSplit, ObjectStepTyped, UserStepTyped
  <2>. QED
    BY <1>2, <2>1, <2>2
<1>. QED
  BY <1>1, <1>2, PTL DEF Spec

-----------------------------------------------------------------------------
\* The invariant: a name's URI is that of its holder, and has one.
IInv == TypeOK /\ OwnersRegistered /\ OnlyFailuresLeaveNames

LEMMA ObjectStepPreserves ==
  ASSUME IInv, NEW o \in Objects,
         \/ \E n \in Names : Registers(o, n) \/ Refused(o, n)
         \/ Binds(o) \/ BindFails(o) \/ Removes(o) \/ RemovalFails(o) \/ Closes(o) \/ Killed(o)
  PROVE  OwnersRegistered' /\ OnlyFailuresLeaveNames'
<1> USE DEF IInv, TypeOK, Open, Holding, OwnersRegistered, OnlyFailuresLeaveNames
<1>1. ASSUME NEW n \in Names, Registers(o, n)
      PROVE  OwnersRegistered' /\ OnlyFailuresLeaveNames'
  <2>1. \A p \in Objects : Tag(p) # None => (state[p] \in Holding => name[p] # n)
    BY <1>1 DEF Registers
  <2>2. \A p \in Objects : Tag(p) # None
    BY DEF Tag, Tags
  <2>. QED
    BY <1>1, <2>1, <2>2 DEF Registers
<1>2. ASSUME NEW n \in Names, Refused(o, n)
      PROVE  OwnersRegistered' /\ OnlyFailuresLeaveNames'
  BY <1>2 DEF Refused
<1>3. ASSUME Binds(o)
      PROVE  OwnersRegistered' /\ OnlyFailuresLeaveNames'
  BY <1>3 DEF Binds
<1>4. ASSUME BindFails(o)
      PROVE  OwnersRegistered' /\ OnlyFailuresLeaveNames'
  BY <1>4 DEF BindFails
<1>5. ASSUME Removes(o)
      PROVE  OwnersRegistered' /\ OnlyFailuresLeaveNames'
  \* Only its own name: nobody else holds it.
  <2>1. \A p \in Objects \ {o} : state[p] \in Holding => name[p] # name[o]
    BY <1>5 DEF Removes
  <2>. QED
    BY <1>5, <2>1 DEF Removes
<1>8. ASSUME RemovalFails(o)
      PROVE  OwnersRegistered' /\ OnlyFailuresLeaveNames'
  BY <1>8 DEF RemovalFails
<1>6. ASSUME Closes(o)
      PROVE  OwnersRegistered' /\ OnlyFailuresLeaveNames'
  BY <1>6 DEF Closes
<1>7. ASSUME Killed(o)
      PROVE  OwnersRegistered' /\ OnlyFailuresLeaveNames'
  BY <1>7 DEF Killed
<1>. QED
  BY <1>1, <1>2, <1>3, <1>4, <1>5, <1>6, <1>7, <1>8

LEMMA Inductive == ASSUME IInv, [Next]_vars PROVE IInv'
<1>1. CASE UNCHANGED vars
  BY <1>1 DEF IInv, TypeOK, vars, objectVars, userVars, Open, OwnersRegistered,
              Holding, OnlyFailuresLeaveNames
<1>2. CASE UserStep
  <2>1. UNCHANGED objectVars
    BY <1>2, UsersLeaveObjects
  <2>. QED
    BY <1>2, <2>1, UserStepTyped DEF IInv, objectVars, OwnersRegistered, OnlyFailuresLeaveNames
<1>3. ASSUME NEW o \in Objects,
             \/ \E n \in Names : Registers(o, n) \/ Refused(o, n)
             \/ Binds(o) \/ BindFails(o) \/ Removes(o) \/ RemovalFails(o) \/ Closes(o) \/ Killed(o)
      PROVE  IInv'
  BY <1>3, ObjectStepTyped, ObjectStepPreserves DEF IInv
<1>. QED
  BY <1>1, <1>2, <1>3, NextSplit

LEMMA Invariant == Spec => []IInv
<1>1. Init => IInv
  BY InitHolds DEF IInv
<1>. QED
  BY <1>1, Inductive, PTL DEF Spec

\* An object has its name to itself, and is registered under it, until its removal is
\* confirmed or its process dies.
THEOREM NamesHaveOneHolder == Spec => []OwnersRegistered
<1>1. IInv => OwnersRegistered
  BY DEF IInv
<1>. QED
  BY <1>1, Invariant, PTL

\* A URI in the database belongs to an object that has not removed it: one that lives, whose
\* process was killed, whose constructor threw after the registration, or whose removal failed.
THEOREM DestructorsLeaveNothing == Spec => []OnlyFailuresLeaveNames
<1>1. IInv => OnlyFailuresLeaveNames
  BY DEF IInv
<1>. QED
  BY <1>1, Invariant, PTL

\* Only the late close of an earlier holder takes the socket file of a bound object away.
THEOREM OnlyLateClosesUnlink == Spec => ReachLostOnlyToALateClose
<1> DEFINE Step == \A o \in Objects :
                      Reachable(o) /\ state'[o] = "bound" /\ ~Reachable(o)' =>
                          \E p \in Objects \ {o} :
                              name[p] = name[o] /\ state[p] = "removed" /\ state'[p] = "gone"
<1>1. ASSUME IInv, [Next]_vars
      PROVE  [Step]_vars
  <2> SUFFICES ASSUME NEW o \in Objects,
                      Reachable(o), state'[o] = "bound", ~Reachable(o)'
               PROVE  \E p \in Objects \ {o} :
                         name[p] = name[o] /\ state[p] = "removed" /\ state'[p] = "gone"
    OBVIOUS
  <2> USE DEF IInv, TypeOK, Reachable
  <2>1. CASE UNCHANGED vars \/ UserStep
    BY <1>1, <2>1, UsersLeaveObjects DEF vars, objectVars
  <2>2. ASSUME NEW q \in Objects, NEW n \in Names, Registers(q, n) \/ Refused(q, n)
        PROVE  FALSE
    BY <1>1, <2>2 DEF Registers, Refused
  <2>3. ASSUME NEW q \in Objects, Binds(q)
        PROVE  FALSE
    BY <1>1, <2>3 DEF Binds, OwnersRegistered, Holding
  <2>4. ASSUME NEW q \in Objects, BindFails(q) \/ Removes(q) \/ RemovalFails(q) \/ Killed(q)
        PROVE  FALSE
    BY <1>1, <2>4 DEF BindFails, Removes, RemovalFails, Killed
  <2>5. ASSUME NEW q \in Objects, Closes(q)
        PROVE  name[q] = name[o] /\ state[q] = "removed" /\ state'[q] = "gone" /\ q # o
    BY <1>1, <2>5 DEF Closes, OwnersRegistered, Holding
  <2>. QED
    BY <1>1, <2>1, <2>2, <2>3, <2>4, <2>5, NextSplit
<1>. QED
  BY <1>1, Invariant, PTL DEF Spec, ReachLostOnlyToALateClose

-----------------------------------------------------------------------------
LEMMA EntriesOfNames == \A n, tag : Entry(n, tag).name = n /\ Entry(n, tag).path = n
BY DEF Entry

\* A registration that is accepted is Add of the registry, with its one tag.
LEMMA RegistersAdds ==
  ASSUME TypeOK, NEW o \in Objects, NEW n \in Names, Registers(o, n)
  PROVE  Registry!Add(Message(n, Tag(o)))
<1> DEFINE u == Message(n, Tag(o))
           stored == [kind \in {"URItags"} |-> 1]
<1>1. /\ registered[n] = None /\ Tag(o) # None
      /\ registered' = [registered EXCEPT ![n] = Tag(o)]
      /\ registered \in [Names -> Tags \cup {None}]
  BY DEF Registers, TypeOK, Tag, Tags
<1>2. uris' = uris \cup {Entry(n, Tag(o))}
  <2>1. uris' = {Entry(m, registered'[m]) : m \in {k \in Names : registered'[k] # None}}
    BY Zenon DEF uris, Entry
  <2>2. {k \in Names : registered'[k] # None} = {k \in Names : registered[k] # None} \cup {n}
    BY <1>1
  <2>3. /\ registered'[n] = Tag(o)
        /\ \A m \in {k \in Names : registered[k] # None} : registered'[m] = registered[m]
    BY <1>1
  <2> QED BY <2>1, <2>2, <2>3 DEF uris
<1>3. \A e \in uris : e.name # n /\ e.path # n
  BY <1>1, EntriesOfNames DEF uris
<1>4. u.name = n /\ u.path = n /\ u.pid = None /\ u.attributes["URItags"] = <<[key |-> Tag(o), value |-> 0]>>
  BY DEF Message
<1>5. /\ stored \in [{"URItags"} -> 0 .. 1] /\ stored["URItags"] = 1
      /\ Registry!Storable(u.attributes["URItags"], 1)
  BY <1>4 DEF Registry!Storable
<1>6. Entry(n, Tag(o)) = [name |-> u.name, path |-> u.path, pid |-> u.pid,
                         attributes |-> [kind \in {"URItags"} |->
                            {u.attributes[kind][i] : i \in 1 .. stored[kind]}]]
  <2>1. {u.attributes["URItags"][i] : i \in 1 .. stored["URItags"]} = {[key |-> Tag(o), value |-> 0]}
    BY <1>4, <1>5
  <2> HIDE DEF u, stored
  <2>2. [kind \in {"URItags"} |-> {u.attributes[kind][i] : i \in 1 .. stored[kind]}]
           = [kind \in {"URItags"} |-> {[key |-> Tag(o), value |-> 0]}]
    BY <2>1
  <2> QED BY <1>4, <2>2 DEF Entry
<1>7. \E k \in [{"URItags"} -> 0 .. 1] :
         /\ \A kind \in {"URItags"} : Registry!Storable(u.attributes[kind], k[kind])
         /\ uris' = uris \cup {[name |-> u.name, path |-> u.path, pid |-> u.pid,
                                attributes |-> [kind \in {"URItags"} |->
                                   {u.attributes[kind][i] : i \in 1 .. k[kind]}]]}
  <2> HIDE DEF u, stored
  <2> QED BY <1>2, <1>5, <1>6
<1>8. Registry!Add(u)
  <2> HIDE DEF u
  <2> QED BY <1>3, <1>4, <1>7 DEF Registry!Add
<1> QED BY <1>8

\* A destructor's removal is Remove of the registry.
LEMMA RemovesRemoves ==
  ASSUME TypeOK, NEW n \in Names, registered' = [registered EXCEPT ![n] = None]
  PROVE  Registry!Remove(n)
<1>1. registered \in [Names -> Tags \cup {None}]
  BY DEF TypeOK
<1>2. uris' = {Entry(m, registered'[m]) : m \in {k \in Names : registered'[k] # None}}
  BY Zenon DEF uris, Entry
<1>3. {k \in Names : registered'[k] # None} = {k \in Names : registered[k] # None} \ {n}
  BY <1>1
<1>4. \A m \in {k \in Names : registered'[k] # None} : registered'[m] = registered[m]
  BY <1>1
<1> QED BY <1>2, <1>3, <1>4, EntriesOfNames DEF Registry!Remove, uris

\* Whatever the order of constructors, destructors and deaths, what the objects do to the
\* database and are told by it is a run of URIRegistry, which the database implements
\* (localStreamPublisher, localReplier).
THEOREM EndpointsUseTheRegistry == Spec => UsesRegistry
<1>1. Init => Registry!Init
  BY DEF Init, Registry!Init, uris
<1>2. TypeOK /\ [Next]_vars => [Registry!Next]_uris
  <2> SUFFICES ASSUME TypeOK, [Next]_vars PROVE [Registry!Next]_uris
    OBVIOUS
  <2>1. ASSUME NEW o \in Objects, NEW n \in Names, Registers(o, n) PROVE Registry!Next
    <3>1. Tag(o) \in Tags
      BY DEF Tag, Tags
    <3> QED BY <2>1, <3>1, RegistersAdds DEF Registry!Next
  <2>2. ASSUME NEW o \in Objects, Removes(o) PROVE Registry!Next
    <3>1. /\ name[o] \in Names
          /\ registered' = [registered EXCEPT ![name[o]] = None]
      BY <2>2 DEF Removes, TypeOK
    <3>2. Registry!Remove(name[o])
      BY <3>1, RemovesRemoves
    <3> QED BY <3>1, <3>2 DEF Registry!Next
  <2>3. ASSUME UNCHANGED registered PROVE uris' = uris
    BY <2>3, Zenon DEF uris, Entry
  <2>4. CASE \/ \E o \in Objects : \/ \E n \in Names : Refused(o, n)
                                   \/ Binds(o) \/ BindFails(o) \/ RemovalFails(o)
                                   \/ Closes(o) \/ Killed(o)
             \/ UNCHANGED vars
    BY <2>3, <2>4 DEF Refused, Binds, BindFails, RemovalFails, Closes, Killed, vars, objectVars
  <2>5. CASE UserStep
    BY <2>3, <2>5, UsersLeaveObjects DEF objectVars
  <2> QED BY <2>1, <2>2, <2>4, <2>5 DEF Next, UserStep
<1> QED BY <1>1, <1>2, TypeCorrect, PTL DEF Spec, UsesRegistry, Registry!Spec
=============================================================================
