------------------------- MODULE FingerTable_proofs -------------------------
(***************************************************************************)
(* Theorems about FingerTable, for every width of ids, every number of     *)
(* fingers and every set of nodes and contacts, from FingerTableAssumption *)
(* alone: types, reference counts, contacts, and the closeness of the      *)
(* successor and of the fingers.                                           *)
(***************************************************************************)
EXTENDS FingerTable, TLAPS, WellFoundedInduction, FiniteSetTheorems

-----------------------------------------------------------------------------
(***************************************************************************)
(* Lemmas                                                                  *)
(***************************************************************************)

\* A non-empty set of naturals has a least element: the intervals up to its members
\* are ordered by inclusion, which is well-founded on finite sets.
LEMMA LeastElement ==
  ASSUME NEW T \in SUBSET Nat, T # {}
  PROVE  \E n \in T : \A m \in T : n <= m
<1>1. PICK k \in T : TRUE
  OBVIOUS
<1> DEFINE S == 1 .. k
           F == {1 .. n : n \in {x \in T : x <= k}}
<1>2. F # {} /\ F \subseteq FiniteSubsetsOf(S)
  <2>1. \A n \in Nat : IsFiniteSet(1 .. n)
    BY FS_Interval
  <2> QED BY <2>1, <1>1 DEF FiniteSubsetsOf
<1>3. PICK X \in F : \A Y \in F : ~ (<<Y, X>> \in StrictSubsetOrdering(S))
  <2> HIDE DEF F, S
  <2> QED BY <1>2, FS_StrictSubsetOrderingWellFounded, WFMin, Zenon
<1>4. PICK n \in T : n <= k /\ X = 1 .. n
  BY <1>3
<1>5. SUFFICES ASSUME NEW m \in T, m < n PROVE FALSE
  BY <1>4
<1>6. 1 .. m \in F
  BY <1>4, <1>5
<1>7. 1 .. m \subseteq 1 .. n /\ n \in 1 .. n /\ n \notin 1 .. m /\ 1 .. n \subseteq S
  BY <1>4, <1>5
<1> QED BY <1>3, <1>4, <1>6, <1>7, Zenon DEF StrictSubsetOrdering

\* Nodes are numbers below the modulus; the slots are finitely many.
LEMMA Ring ==
  /\ Modulus \in Nat \ {0}
  /\ IDs = 0 .. (Modulus - 1) /\ IDs \subseteq Nat
  /\ Nodes \subseteq IDs /\ chordID \in Nodes
  /\ Fingers \subseteq Slots /\ Successor \in Slots /\ Predecessor \in Slots
  /\ Successor \notin Fingers /\ Predecessor \notin Fingers /\ Successor # Predecessor
  /\ IsFiniteSet(Slots)
<1>1. FingerTableSize \in Nat
  BY FingerTableAssumption
<1>2. IsFiniteSet(Slots)
  BY <1>1, FS_Interval DEF Slots, Predecessor
<1>3. IDs = 0 .. (Modulus - 1) /\ IDs \subseteq Nat
  BY FingerTableAssumption DEF IDs
<1> QED BY <1>1, <1>2, <1>3, FingerTableAssumption
        DEF Fingers, Slots, Successor, Predecessor

\* An id is a number below the modulus.
LEMMA IDRange ==
  ASSUME NEW id \in IDs
  PROVE  id \in Int /\ 0 <= id /\ id < Modulus /\ Modulus \in Int
BY Ring

\* Any set of slots has a cardinality.
LEMMA SlotsCounted ==
  ASSUME NEW taken \in SUBSET Slots
  PROVE  IsFiniteSet(taken) /\ Cardinality(taken) \in Nat
BY Ring, FS_Subset, FS_CardinalityType

\* What is left of a count is a count, and nothing is left of nothing.
LEMMA RemovedCount ==
  ASSUME NEW count \in Nat, NEW n \in Nat
  PROVE  Removed(count, n) \in Nat /\ (count = 0 => Removed(count, n) = 0)
BY DEF Removed

\* The cardinality of a disjoint union.
LEMMA DisjointUnion ==
  ASSUME NEW S, NEW T, IsFiniteSet(S), IsFiniteSet(T), S \cap T = {}
  PROVE  Cardinality(S \cup T) = Cardinality(S) + Cardinality(T)
<1>1. Cardinality(S \cup T) = Cardinality(S) + Cardinality(T) - Cardinality(S \cap T)
  BY FS_Union
<1>2. Cardinality(S) \in Nat /\ Cardinality(T) \in Nat /\ Cardinality(S \cap T) = 0
  BY FS_CardinalityType, FS_EmptySet
<1> QED BY <1>1, <1>2

\* A non-empty set of naturals has a least element, and Least is it.
LEMMA LeastExists ==
  ASSUME NEW S \in SUBSET Nat, S # {}
  PROVE  Least(S) \in S /\ \A y \in S : Least(S) <= y
BY LeastElement DEF Least

\* The first round of getClosestSuccessors.
LEMMA FirstSuccessor ==
  ASSUME NEW id
  PROVE  getClosestSuccessors(id, 1)[1] = NextKnown(id)
<1> DEFINE Rounds(f) == [i \in 1 .. 1 |-> NextKnown(IF i = 1 THEN id ELSE f[i - 1])]
           found == [i \in 1 .. 1 |-> NextKnown(id)]
<1> HIDE DEF Rounds
<1>1. found = Rounds(found)
  BY DEF Rounds
<1>2. ASSUME NEW f, f = Rounds(f) PROVE f[1] = NextKnown(id)
  BY <1>2 DEF Rounds
<1>3. (CHOOSE f : f = Rounds(f))[1] = NextKnown(id)
  BY <1>1, <1>2
<1> QED BY <1>3 DEF getClosestSuccessors, Rounds

\* The next known node is a known one, wherever the search starts.
LEMMA NextIsKnown ==
  ASSUME NEW id, knownIDs # {}
  PROVE  NextKnown(id) \in knownIDs
<1> DEFINE above == {known \in knownIDs : known > id}
<1>1. knownIDs \in SUBSET Nat /\ above \in SUBSET Nat
  <2>1. knownIDs \subseteq Nodes
    BY DEF knownIDs
  <2> QED BY <2>1, Ring
<1>2. NextKnown(id) = IF above = {} THEN Least(knownIDs) ELSE Least(above)
  BY DEF NextKnown
<1>3. above # {} => Least(above) \in knownIDs
  <2>1. above \subseteq knownIDs
    OBVIOUS
  <2> HIDE DEF above
  <2> QED BY <1>1, <2>1, LeastExists
<1> HIDE DEF above
<1> QED BY <1>1, <1>2, <1>3, LeastExists

\* The next known node is the first one met clockwise, around the ring if need be.
LEMMA NextIsNearest ==
  ASSUME NEW id \in IDs, knownIDs # {}
  PROVE  /\ NextKnown(id) \in knownIDs
         /\ \A known \in knownIDs : After(id, NextKnown(id)) <= After(id, known)
<1> DEFINE above == {known \in knownIDs : known > id}
<1>1. knownIDs \subseteq IDs /\ IDs \subseteq Nat /\ id \in IDs /\ Modulus \in Nat \ {0}
  <2>1. knownIDs \subseteq Nodes
    BY DEF knownIDs
  <2> QED BY <2>1, Ring
<1>2. CASE above = {}
  <2>1. NextKnown(id) = Least(knownIDs)
    BY <1>2 DEF NextKnown
  <2>2. NextKnown(id) \in knownIDs /\ \A known \in knownIDs : NextKnown(id) <= known
    BY <1>1, <2>1, LeastExists
  <2>3. \A known \in knownIDs : ~ (known > id)
    BY <1>2
  <2>4. ASSUME NEW known \in knownIDs PROVE After(id, NextKnown(id)) <= After(id, known)
    <3>1. NextKnown(id) \in Int /\ known \in Int /\ id \in Int /\ Modulus \in Int
      BY <1>1, <2>2, IDRange
    <3>2. NextKnown(id) <= known /\ ~ (NextKnown(id) > id) /\ ~ (known > id)
      BY <2>2, <2>3
    <3> HIDE DEF above
    <3> QED BY <3>1, <3>2 DEF After
  <2> QED BY <2>2, <2>4
<1>3. CASE above # {}
  <2>1. NextKnown(id) = Least(above)
    BY <1>3 DEF NextKnown
  <2>2. above \in SUBSET Nat
    BY <1>1
  <2>3. NextKnown(id) \in above /\ \A known \in above : NextKnown(id) <= known
    BY <1>3, <2>1, <2>2, LeastExists
  <2>4. ASSUME NEW known \in knownIDs PROVE After(id, NextKnown(id)) <= After(id, known)
    <3>1. /\ NextKnown(id) \in Int /\ known \in Int /\ id \in Int
          /\ NextKnown(id) < Modulus /\ 0 <= known /\ Modulus \in Int
      BY <1>1, <2>3, IDRange
    <3>2. NextKnown(id) > id
      BY <2>3
    <3>3. known > id => NextKnown(id) <= known
      BY <2>3
    <3> HIDE DEF above
    <3> QED BY <3>1, <3>2, <3>3 DEF After
  <2> QED BY <2>3, <2>4
<1> QED BY <1>2, <1>3

-----------------------------------------------------------------------------
(***************************************************************************)
(* References                                                              *)
(***************************************************************************)

\* An entry of idToContactInfo exists exactly while its node is counted.
ContactsFollowCounts ==
    \A id \in Nodes : idToContactInfo[id] = NoContact <=> IDReferenceCounts[id] = 0

\* The invariant about references: each part needs the ones before it.
References == TypeOK /\ ReferencesCounted /\ ContactsFollowCounts

\* The own node and every node in a slot are known.
LEMMA HeldAreKnown ==
  ASSUME References
  PROVE  /\ chordID \in knownIDs
         /\ \A s \in Slots : best[s] \in knownIDs
<1>1. ASSUME NEW id \in Nodes PROVE Cardinality(Holding(Slots, id)) \in Nat
  BY SlotsCounted DEF Holding
<1>2. chordID \in knownIDs
  BY <1>1, Ring DEF References, ReferencesCounted, knownIDs
<1>3. ASSUME NEW s \in Slots PROVE best[s] \in knownIDs
  <2>1. best[s] \in Nodes /\ s \in Holding(Slots, best[s])
    BY DEF References, TypeOK, Holding
  <2>2. Cardinality(Holding(Slots, best[s])) # 0
    BY <2>1, SlotsCounted, FS_EmptySet DEF Holding
  <2> QED BY <1>1, <2>1, <2>2 DEF References, ReferencesCounted, knownIDs
<1> QED BY <1>2, <1>3

\* Replacing the node of some slots keeps types, counts and contacts right.
LEMMA AssignKeepsReferences ==
  ASSUME References, NEW taken \in SUBSET Slots, NEW id \in Nodes, NEW contact \in Contacts,
         Assign(taken, id, contact),
         checked' \subseteq Nodes, resolved' \subseteq Fingers
  PROVE  References'
<1> DEFINE added(other) == IF other = id THEN Added(id, IDReferenceCounts[id], Cardinality(taken))
                                         ELSE IDReferenceCounts[other]
           count(other) == Removed(added(other), Cardinality(Holding(taken, other)))
<1>1. /\ best' = [s \in Slots |-> IF s \in taken THEN id ELSE best[s]]
      /\ IDReferenceCounts' = [other \in Nodes |-> count(other)]
      /\ idToContactInfo' = [other \in Nodes |->
                                 IF count(other) = 0 THEN NoContact
                                 ELSE IF other = id /\ taken # {} THEN contact
                                 ELSE idToContactInfo[other]]
  BY DEF Assign
<1>2. Cardinality(taken) \in Nat /\ IsFiniteSet(taken)
  BY SlotsCounted
<1>3. ASSUME NEW other \in Nodes
      PROVE  /\ Cardinality(Holding(Slots, other)) \in Nat
             /\ Cardinality(Holding(taken, other)) \in Nat
             /\ Cardinality(Holding(taken, other)) <= Cardinality(Holding(Slots, other))
             /\ Cardinality(Holding(Slots, other) \ taken) \in Nat
             /\ IsFiniteSet(Holding(Slots, other) \ taken)
             /\ Cardinality(Holding(Slots, other) \ taken) =
                    Cardinality(Holding(Slots, other)) - Cardinality(Holding(taken, other))
  <2> DEFINE all == Holding(Slots, other)
             mine == Holding(taken, other)
             rest == Holding(Slots, other) \ taken
  <2>1. all \in SUBSET Slots /\ mine \in SUBSET all /\ rest \in SUBSET all
    BY DEF Holding
  <2>2. all = mine \cup rest /\ mine \cap rest = {}
    BY DEF Holding
  <2>3. /\ IsFiniteSet(all) /\ Cardinality(all) \in Nat
        /\ IsFiniteSet(mine) /\ Cardinality(mine) \in Nat
        /\ IsFiniteSet(rest) /\ Cardinality(rest) \in Nat
    BY <2>1, SlotsCounted
  <2>4. Cardinality(all) = Cardinality(mine) + Cardinality(rest)
    BY <2>2, <2>3, DisjointUnion
  <2> HIDE DEF all, mine, rest
  <2>5. Cardinality(mine) <= Cardinality(all) /\ Cardinality(rest) = Cardinality(all) - Cardinality(mine)
    BY <2>3, <2>4
  <2> QED BY <2>3, <2>5 DEF all, mine, rest
<1>4. ASSUME NEW other \in Nodes
      PROVE  added(other) \in Nat /\ count(other) \in Nat
  <2>1. IDReferenceCounts[other] \in Nat /\ IDReferenceCounts[id] \in Nat
    BY DEF References, TypeOK
  <2>2. added(other) \in Nat
    BY <1>2, <2>1 DEF Added
  <2>3. Cardinality(Holding(taken, other)) \in Nat
    BY <1>3
  <2> HIDE DEF added
  <2> QED BY <2>2, <2>3, RemovedCount
<1>5. TypeOK'
  <2>1. best' \in [Slots -> Nodes]
    BY <1>1 DEF References, TypeOK
  <2>2. IDReferenceCounts' \in [Nodes -> Nat]
    BY <1>1, <1>4
  <2>3. idToContactInfo' \in [Nodes -> Contacts \cup {NoContact}]
    BY <1>1 DEF References, TypeOK
  <2>4. \A i \in Fingers : Target(i) \in IDs
    BY FingerTableAssumption
  <2> QED BY <2>1, <2>2, <2>3, <2>4 DEF TypeOK, Target, Modulus, IDs
<1>6. ReferencesCounted'
  <2>1. SUFFICES ASSUME NEW other \in Nodes
                 PROVE  count(other) = Cardinality({s \in Slots : best'[s] = other})
                                         + (IF other = chordID THEN 1 ELSE 0)
    BY <1>1 DEF ReferencesCounted, Holding
  <2>2. IDReferenceCounts[other] =
            Cardinality(Holding(Slots, other)) + (IF other = chordID THEN 1 ELSE 0)
    BY DEF References, ReferencesCounted
  <2>3. CASE other = id
    <3>1. {s \in Slots : best'[s] = other} = (Holding(Slots, other) \ taken) \cup taken
      BY <1>1, <2>3 DEF Holding
    <3>2. (Holding(Slots, other) \ taken) \cap taken = {}
      OBVIOUS
    <3>3. Cardinality({s \in Slots : best'[s] = other}) =
              Cardinality(Holding(Slots, other) \ taken) + Cardinality(taken)
      BY <1>2, <1>3, <3>1, <3>2, DisjointUnion
    <3> HIDE DEF count
    <3>4. count(other) = Removed(IDReferenceCounts[other] + Cardinality(taken),
                                 Cardinality(Holding(taken, other)))
      BY <2>3 DEF count, Added
    <3> QED BY <1>2, <1>3, <2>2, <3>3, <3>4 DEF Removed
  <2>4. CASE other # id
    <3>1. {s \in Slots : best'[s] = other} = Holding(Slots, other) \ taken
      BY <1>1, <2>4 DEF Holding
    <3> HIDE DEF count
    <3>2. count(other) = Removed(IDReferenceCounts[other], Cardinality(Holding(taken, other)))
      BY <2>4 DEF count
    <3> QED BY <1>3, <2>2, <3>1, <3>2 DEF Removed
  <2> QED BY <2>3, <2>4
<1>7. ContactsFollowCounts'
  <2>1. SUFFICES ASSUME NEW other \in Nodes
                 PROVE  idToContactInfo'[other] = NoContact <=> count(other) = 0
    BY <1>1 DEF ContactsFollowCounts
  <2>2. contact # NoContact
    BY FingerTableAssumption
  <2>3. ASSUME ~ (other = id /\ taken # {}), count(other) # 0
        PROVE  IDReferenceCounts[other] # 0
    <3>1. IDReferenceCounts[other] \in Nat
      BY DEF References, TypeOK
    <3>2. added(other) = IDReferenceCounts[other]
      <4>1. CASE other = id
        <5>1. Cardinality(taken) = 0
          BY <2>3, <4>1, FS_EmptySet
        <5> QED BY <3>1, <4>1, <5>1 DEF Added
      <4>2. CASE other # id
        BY <4>2
      <4> QED BY <4>1, <4>2
    <3>3. Removed(IDReferenceCounts[other], Cardinality(Holding(taken, other))) # 0
      BY <2>3, <3>2
    <3>4. Cardinality(Holding(taken, other)) \in Nat
      BY <1>3
    <3> HIDE DEF added, count
    <3> QED BY <3>1, <3>3, <3>4, RemovedCount
  <2>4. IDReferenceCounts[other] # 0 => idToContactInfo[other] # NoContact
    BY DEF References, ContactsFollowCounts
  <2> HIDE DEF count
  <2> QED BY <1>1, <2>2, <2>3, <2>4
<1> QED BY <1>5, <1>6, <1>7 DEF References

\* What replaceWithNextBestOption puts in a slot is a known node, with its contact.
LEMMA NextHasContact ==
  ASSUME References, NEW id \in Nodes
  PROVE  /\ NextKnown(id) \in knownIDs /\ NextKnown(id) \in Nodes
         /\ idToContactInfo[NextKnown(id)] \in Contacts
<1>1. NextKnown(id) \in knownIDs
  BY HeldAreKnown, NextIsKnown
<1>2. NextKnown(id) \in Nodes /\ IDReferenceCounts[NextKnown(id)] # 0
  BY <1>1 DEF knownIDs, References, TypeOK
<1> QED BY <1>1, <1>2 DEF References, TypeOK, ContactsFollowCounts

LEMMA ReferencesInitially == Init => References
<1> SUFFICES ASSUME Init PROVE References
  OBVIOUS
<1>1. Cardinality(Slots) = FingerTableSize + 2
  BY FS_Interval, FingerTableAssumption DEF Slots, Predecessor
<1>2. TypeOK
  BY Ring, FingerTableAssumption DEF Init, TypeOK
<1>3. ReferencesCounted
  <2>1. ASSUME NEW id \in Nodes, id = chordID
        PROVE  Holding(Slots, id) = Slots /\ IDReferenceCounts[id] = FingerTableSize + 3
    BY <2>1 DEF Init, Holding
  <2>2. ASSUME NEW id \in Nodes, id # chordID
        PROVE  Cardinality(Holding(Slots, id)) = 0 /\ IDReferenceCounts[id] = 0
    <3>1. Holding(Slots, id) = {}
      BY <2>2 DEF Init, Holding
    <3> QED BY <2>2, <3>1, FS_EmptySet DEF Init
  <2> QED BY <1>1, <2>1, <2>2, FingerTableAssumption DEF ReferencesCounted
<1>4. ContactsFollowCounts
  BY FingerTableAssumption DEF Init, ContactsFollowCounts
<1> QED BY <1>2, <1>3, <1>4 DEF References

LEMMA ReferencesKept == References /\ [Next]_vars => References'
<1> SUFFICES ASSUME References, [Next]_vars PROVE References'
  OBVIOUS
<1>1. CASE UNCHANGED vars
  BY <1>1 DEF vars, References, TypeOK, ReferencesCounted, ContactsFollowCounts, Holding,
              Target, Modulus, IDs
<1>2. ASSUME NEW id \in Nodes, NEW contact \in Contacts, checkAndUpdateIfBetter(id, contact)
      PROVE  References'
  <2>1. Improved(id) \in SUBSET Slots
    BY Ring DEF Improved
  <2>2. checked' \subseteq Nodes /\ resolved' \subseteq Fingers
    BY <1>2 DEF checkAndUpdateIfBetter, References, TypeOK
  <2> QED BY <1>2, <2>1, <2>2, AssignKeepsReferences DEF checkAndUpdateIfBetter
<1>3. ASSUME NEW i \in Fingers, NEW id \in Nodes, NEW contact \in Contacts,
             updateChordMatch(i, id, contact)
      PROVE  References'
  <2>1. {i} \in SUBSET Slots
    BY Ring
  <2>2. checked' \subseteq Nodes /\ resolved' \subseteq Fingers
    BY <1>3 DEF updateChordMatch, References, TypeOK
  <2> QED BY <1>3, <2>1, <2>2, AssignKeepsReferences DEF updateChordMatch
<1>4. ASSUME NEW id \in Nodes, replaceWithNextBestOption(id) PROVE References'
  <2>1. Replaced(id) \in SUBSET Slots
    BY Ring DEF Replaced, Holding
  <2>2. checked' \subseteq Nodes /\ resolved' \subseteq Fingers
    BY <1>4 DEF replaceWithNextBestOption, References, TypeOK
  <2>3. Assign(Replaced(id), NextKnown(id), idToContactInfo[NextKnown(id)])
    BY <1>4, FirstSuccessor DEF replaceWithNextBestOption
  <2> QED BY <2>1, <2>2, <2>3, NextHasContact, AssignKeepsReferences
<1> QED BY <1>1, <1>2, <1>3, <1>4 DEF Next

\* All three parts of References hold throughout.
LEMMA ReferencesHold == Spec => []References
BY ReferencesInitially, ReferencesKept, PTL DEF Spec

\* Every reachable state has its type.
THEOREM TypesHold == Spec => []TypeOK
<1>1. References => TypeOK
  BY DEF References
<1> QED BY <1>1, ReferencesHold, PTL

\* Reference counts are exact after any sequence of updates and replacements, for tables
\* of every size: addQueryNodeInfo and removeQueryNodeInfo leak nothing and free nothing early.
THEOREM CountsExact == Spec => []ReferencesCounted
<1>1. References => ReferencesCounted
  BY DEF References
<1> QED BY <1>1, ReferencesHold, PTL

\* What any slot holds can be contacted: the lookups of contact infos never throw.
THEOREM ContactsAvailable == Spec => []ContactsHeld
<1>1. References => ContactsHeld
  <2> SUFFICES ASSUME References PROVE ContactsHeld
    OBVIOUS
  <2>1. ASSUME NEW id \in knownIDs PROVE idToContactInfo[id] # NoContact
    BY DEF knownIDs, References, TypeOK, ContactsFollowCounts
  <2> QED BY <2>1, HeldAreKnown DEF ContactsHeld
<1> QED BY <1>1, ReferencesHold, PTL

-----------------------------------------------------------------------------
(***************************************************************************)
(* Closeness                                                               *)
(***************************************************************************)

\* If the nearest node after c is a, the nearest one after a is the nearest of the others
\* after c.
LEMMA NearestOfTheRest ==
  ASSUME NEW c \in IDs, NEW a \in IDs, NEW next \in IDs, NEW other \in IDs,
         other # a,
         After(c, a) <= After(c, other), After(a, next) <= After(a, other)
  PROVE  After(c, next) <= After(c, other)
<1>1. /\ c \in Int /\ a \in Int /\ next \in Int /\ other \in Int /\ Modulus \in Int
      /\ 0 <= c /\ 0 <= a /\ 0 <= next /\ 0 <= other
      /\ c < Modulus /\ a < Modulus /\ next < Modulus /\ other < Modulus
  BY IDRange
<1> QED BY <1>1 DEF After

\* Among checked nodes the successor is the nearest one after the own node, and a finger
\* the nearest one below its target.
Closeness ==
    /\ References
    /\ checked \subseteq knownIDs
    /\ SuccessorIsClosest
    /\ FingersAreClosest

LEMMA CheckKeepsSuccessor ==
  ASSUME NEW id \in IDs, NEW other \in IDs, best[Successor] \in IDs,
         After(chordID, best[Successor]) <= After(chordID, other) \/ other = id
  PROVE  IF BetterSuccessor(id)
         THEN After(chordID, id) <= After(chordID, other)
         ELSE After(chordID, best[Successor]) <= After(chordID, other)
<1>1. /\ chordID \in Int /\ id \in Int /\ other \in Int /\ best[Successor] \in Int
      /\ 0 <= chordID /\ 0 <= id /\ 0 <= other /\ 0 <= best[Successor]
      /\ chordID < Modulus /\ id < Modulus /\ other < Modulus /\ best[Successor] < Modulus
      /\ Modulus \in Int
  BY IDRange, Ring
<1> QED BY <1>1 DEF After, Minus, BetterSuccessor

LEMMA CheckKeepsFinger ==
  ASSUME NEW i \in Fingers, NEW id \in IDs, NEW other \in IDs, best[i] \in IDs,
         Minus(Target(i), best[i]) <= Minus(Target(i), other) \/ other = id
  PROVE  IF BetterFinger(i, id)
         THEN Minus(Target(i), id) <= Minus(Target(i), other)
         ELSE Minus(Target(i), best[i]) <= Minus(Target(i), other)
<1>1. Target(i) \in IDs
  BY FingerTableAssumption
<1>2. ASSUME NEW x \in IDs PROVE Minus(Target(i), x) \in Int
  <2>1. x \in Int /\ Target(i) \in Int /\ Modulus \in Int
    BY <1>1, IDRange
  <2> QED BY <2>1 DEF Minus
<1>3. /\ Minus(Target(i), best[i]) \in Int /\ Minus(Target(i), id) \in Int
      /\ Minus(Target(i), other) \in Int
  BY <1>2
<1> QED BY <1>3 DEF BetterFinger

LEMMA ClosenessInitially == Init => Closeness
<1> SUFFICES ASSUME Init PROVE Closeness
  OBVIOUS
<1>1. References
  BY ReferencesInitially
<1>2. checked \subseteq knownIDs
  BY <1>1, HeldAreKnown DEF Init
<1>3. SuccessorIsClosest
  <2>1. best[Successor] = chordID /\ checked = {chordID}
    BY Ring DEF Init
  <2>2. After(chordID, chordID) <= After(chordID, chordID)
    BY Ring, IDRange DEF After
  <2> QED BY <2>1, <2>2 DEF SuccessorIsClosest
<1>4. FingersAreClosest
  <2>1. ASSUME NEW i \in Fingers
        PROVE  best[i] = chordID /\ Minus(Target(i), chordID) <= Minus(Target(i), chordID)
    <3>1. best[i] = chordID
      BY Ring DEF Init
    <3>2. Target(i) \in Int /\ chordID \in Int /\ Modulus \in Int
      BY Ring, IDRange, FingerTableAssumption
    <3> QED BY <3>1, <3>2 DEF Minus
  <2> QED BY <2>1 DEF Init, FingersAreClosest
<1> QED BY <1>1, <1>2, <1>3, <1>4 DEF Closeness

LEMMA ClosenessKept == Closeness /\ [Next]_vars => Closeness'
<1> SUFFICES ASSUME Closeness, [Next]_vars PROVE Closeness'
  OBVIOUS
<1>1. References /\ References' /\ TypeOK
  BY ReferencesKept DEF Closeness, References
<1>2. /\ \A s \in Slots : best[s] \in IDs
      /\ \A id \in checked : id \in IDs
      /\ chordID \in IDs
  BY <1>1, Ring DEF TypeOK
<1>3. CASE UNCHANGED vars
  <2>1. UNCHANGED <<best, IDReferenceCounts, checked, resolved>>
    BY <1>3 DEF vars
  <2>2. (checked \subseteq knownIDs)'
    BY <2>1 DEF Closeness, knownIDs
  <2>3. SuccessorIsClosest' /\ FingersAreClosest'
    BY <2>1 DEF Closeness, SuccessorIsClosest, FingersAreClosest, After, Minus, Target, Modulus
  <2> QED BY <1>1, <2>2, <2>3 DEF Closeness
<1>4. ASSUME NEW id \in Nodes, NEW contact \in Contacts, checkAndUpdateIfBetter(id, contact)
      PROVE  Closeness'
  <2>1. /\ best' = [s \in Slots |-> IF s \in Improved(id) THEN id ELSE best[s]]
        /\ checked' \subseteq checked \cup {id}
        /\ resolved' = resolved
        /\ id \in IDs
    BY <1>4, Ring DEF checkAndUpdateIfBetter, Assign
  <2>2. (checked \subseteq knownIDs)'
    BY <1>1, <1>4 DEF checkAndUpdateIfBetter, knownIDs, TypeOK
  <2>3. best'[Successor] = IF BetterSuccessor(id) THEN id ELSE best[Successor]
    BY <2>1, Ring DEF Improved
  <2>4. ASSUME NEW i \in Fingers
        PROVE  best'[i] = IF BetterFinger(i, id) THEN id ELSE best[i]
    BY <2>1, Ring DEF Improved
  <2>5. ASSUME NEW other \in checked'
        PROVE  After(chordID, best'[Successor]) <= After(chordID, other)
    <3>1. other \in IDs /\ best[Successor] \in IDs
      BY <1>2, <2>1, Ring
    <3>2. After(chordID, best[Successor]) <= After(chordID, other) \/ other = id
      BY <2>1 DEF Closeness, SuccessorIsClosest
    <3> QED BY <2>1, <2>3, <3>1, <3>2, CheckKeepsSuccessor
  <2>6. ASSUME NEW i \in Fingers \ resolved', NEW other \in checked'
        PROVE  Minus(Target(i), best'[i]) <= Minus(Target(i), other)
    <3>1. other \in IDs /\ best[i] \in IDs
      BY <1>2, <2>1, Ring
    <3>2. Minus(Target(i), best[i]) <= Minus(Target(i), other) \/ other = id
      BY <2>1 DEF Closeness, FingersAreClosest
    <3> QED BY <2>1, <2>4, <3>1, <3>2, CheckKeepsFinger
  <2>7. SuccessorIsClosest' /\ FingersAreClosest'
    BY <2>5, <2>6 DEF SuccessorIsClosest, FingersAreClosest, After, Minus, Target, Modulus
  <2> QED BY <1>1, <2>2, <2>7 DEF Closeness
<1>5. ASSUME NEW i \in Fingers, NEW id \in Nodes, NEW contact \in Contacts,
             updateChordMatch(i, id, contact)
      PROVE  Closeness'
  <2>1. /\ best' = [s \in Slots |-> IF s \in {i} THEN id ELSE best[s]]
        /\ checked' \subseteq checked
        /\ resolved' = resolved \cup {i}
    BY <1>5 DEF updateChordMatch, Assign
  <2>2. (checked \subseteq knownIDs)'
    BY <1>1, <1>5 DEF updateChordMatch, knownIDs, TypeOK
  <2>3. best'[Successor] = best[Successor]
    BY <2>1, Ring
  <2>4. ASSUME NEW j \in Fingers \ resolved' PROVE best'[j] = best[j] /\ j \notin resolved
    BY <2>1, Ring
  <2>5. SuccessorIsClosest' /\ FingersAreClosest'
    BY <2>1, <2>3, <2>4
       DEF Closeness, SuccessorIsClosest, FingersAreClosest, After, Minus, Target, Modulus
  <2> QED BY <1>1, <2>2, <2>5 DEF Closeness
<1>6. ASSUME NEW id \in Nodes, replaceWithNextBestOption(id) PROVE Closeness'
  <2> DEFINE next == NextKnown(id)
  <2>1. /\ best' = [s \in Slots |-> IF s \in Replaced(id) THEN next ELSE best[s]]
        /\ checked' \subseteq checked \ {id}
        /\ resolved' = resolved
        /\ id # chordID
    BY <1>6, FirstSuccessor DEF replaceWithNextBestOption, Assign
  <2>2. (checked \subseteq knownIDs)'
    BY <1>1, <1>6 DEF replaceWithNextBestOption, knownIDs, TypeOK
  <2>3. next \in IDs /\ id \in IDs /\ knownIDs # {}
    BY <1>1, NextHasContact, Ring
  <2>4. best'[Successor] = IF best[Successor] = id THEN next ELSE best[Successor]
    BY <2>1, Ring DEF Replaced, Holding
  <2>5. ASSUME NEW other \in checked'
        PROVE  After(chordID, best'[Successor]) <= After(chordID, other)
    <3>1. After(chordID, best[Successor]) <= After(chordID, other)
      BY <2>1 DEF Closeness, SuccessorIsClosest
    <3>2. CASE best[Successor] = id
      <4>1. After(id, next) <= After(id, other)
        BY <2>1, <2>3, NextIsNearest DEF Closeness
      <4>2. other \in IDs /\ other # id
        BY <1>2, <2>1
      <4> QED BY <1>2, <2>1, <2>3, <2>4, <3>1, <3>2, <4>1, <4>2, NearestOfTheRest
    <3>3. CASE best[Successor] # id
      BY <2>4, <3>1, <3>3
    <3> QED BY <3>2, <3>3
  <2>6. ASSUME NEW i \in Fingers PROVE best'[i] = best[i]
    BY <2>1, Ring DEF Replaced, Holding
  <2>7. SuccessorIsClosest' /\ FingersAreClosest'
    BY <2>1, <2>5, <2>6
       DEF Closeness, SuccessorIsClosest, FingersAreClosest, After, Minus, Target, Modulus
  <2> QED BY <1>1, <2>2, <2>7 DEF Closeness
<1> QED BY <1>3, <1>4, <1>5, <1>6 DEF Next

LEMMA ClosenessHolds == Spec => []Closeness
BY ClosenessInitially, ClosenessKept, PTL DEF Spec

\* The successor is the nearest node after this one among those checked, held and not
\* reported, on rings of every size and through every sequence of reports.
THEOREM SuccessorNearest == Spec => []SuccessorIsClosest
<1>1. Closeness => SuccessorIsClosest
  BY DEF Closeness
<1> QED BY <1>1, ClosenessHolds, PTL

\* A finger no lookup has set is the best match for its target among those nodes.
THEOREM FingersNearest == Spec => []FingersAreClosest
<1>1. Closeness => FingersAreClosest
  BY DEF Closeness
<1> QED BY <1>1, ClosenessHolds, PTL

-----------------------------------------------------------------------------
(***************************************************************************)
(* Lists of successors                                                     *)
(***************************************************************************)

\* The list of any length exists, and each of its rounds starts at the last result.  By the
\* least length for which there were none.
LEMMA SuccessorRounds ==
  ASSUME NEW id, NEW n \in Nat
  PROVE  LET found == getClosestSuccessors(id, n)
         IN  /\ DOMAIN found = 1 .. n
             /\ \A i \in 1 .. n : found[i] = NextKnown(IF i = 1 THEN id ELSE found[i - 1])
<1> DEFINE Rounds(k, f) == [i \in 1 .. k |-> NextKnown(IF i = 1 THEN id ELSE f[i - 1])]
           Missing == {k \in Nat : ~ \E f : f = Rounds(k, f)}
<1>1. Missing = {}
  <2>1. SUFFICES ASSUME Missing # {} PROVE FALSE
    OBVIOUS
  <2>2. Missing \in SUBSET Nat
    OBVIOUS
  <2>3. PICK k \in Missing : \A other \in Missing : k <= other
    <3> HIDE DEF Missing
    <3> QED BY <2>1, <2>2, LeastElement
  <2>4. k \in Nat
    OBVIOUS
  <2>5. CASE k = 0
    <3>1. [i \in 1 .. 0 |-> id] = Rounds(0, [i \in 1 .. 0 |-> id])
      OBVIOUS
    <3>2. \E f : f = Rounds(k, f)
      BY <2>5, <3>1
    <3> QED BY <3>2
  <2>6. CASE k # 0
    <3>1. k - 1 \in Nat /\ ~ (k <= k - 1)
      BY <2>4, <2>6
    <3>2. PICK f : f = Rounds(k - 1, f)
      BY <2>3, <3>1
    <3> DEFINE last == NextKnown(IF k = 1 THEN id ELSE f[k - 1])
               g == [i \in 1 .. k |-> IF i = k THEN last ELSE f[i]]
    <3>3. ASSUME NEW i \in 1 .. k PROVE g[i] = NextKnown(IF i = 1 THEN id ELSE g[i - 1])
      <4>1. i # 1 => g[i - 1] = f[i - 1]
        BY <2>4
      <4>2. i # k => i \in 1 .. (k - 1)
        BY <2>4
      <4>3. i # k => f[i] = NextKnown(IF i = 1 THEN id ELSE f[i - 1])
        BY <3>2, <4>2
      <4>4. CASE i = k
        <5>1. g[i] = last
          BY <4>4
        <5> HIDE DEF g
        <5> QED BY <4>1, <4>4, <5>1
      <4>5. CASE i # k
        <5>1. g[i] = f[i]
          BY <4>5
        <5> HIDE DEF g
        <5> QED BY <4>1, <4>3, <4>5, <5>1
      <4> QED BY <4>4, <4>5
    <3>4. g = [i \in 1 .. k |-> g[i]]
      OBVIOUS
    <3> HIDE DEF g
    <3>5. g = Rounds(k, g)
      BY <3>3, <3>4
    <3> QED BY <3>5
  <2> QED BY <2>5, <2>6
<1>2. \E f : f = Rounds(n, f)
  BY <1>1
<1> DEFINE found == CHOOSE f : f = Rounds(n, f)
<1>3. found = Rounds(n, found)
  <2> HIDE DEF Rounds
  <2> QED BY <1>2
<1>4. getClosestSuccessors(id, n) = found
  BY DEF getClosestSuccessors
<1> HIDE DEF found
<1>5. DOMAIN found = 1 .. n /\ \A i \in 1 .. n : found[i] = NextKnown(IF i = 1 THEN id ELSE found[i - 1])
  BY <1>3
<1> QED BY <1>4, <1>5

\* A list of successors holds known nodes, each the nearest after the one before it, around
\* the ring as often as the list is long.
THEOREM SuccessorsListed == Spec => []SuccessorsInOrder
<1>1. ASSUME References PROVE SuccessorsInOrder
  <2> DEFINE n == Cardinality(Nodes) + 1
  <2>1. n \in Nat
    <3>1. IsFiniteSet(0 .. (Modulus - 1)) /\ Nodes \subseteq 0 .. (Modulus - 1)
      BY Ring, FS_Interval
    <3>2. Cardinality(Nodes) \in Nat
      BY <3>1, FS_Subset, FS_CardinalityType
    <3> QED BY <3>2
  <2>2. knownIDs # {} /\ knownIDs \subseteq IDs
    <3>1. knownIDs \subseteq Nodes
      BY DEF knownIDs
    <3> QED BY <1>1, <3>1, HeldAreKnown, Ring
  <2> HIDE DEF n
  <2>3. ASSUME NEW id \in IDs
        PROVE  LET found == getClosestSuccessors(id, n)
                   from(i) == IF i = 1 THEN id ELSE found[i - 1]
               IN  \A i \in DOMAIN found :
                       /\ found[i] \in knownIDs
                       /\ \A known \in knownIDs : After(from(i), found[i]) <= After(from(i), known)
    <3> DEFINE found == getClosestSuccessors(id, n)
               from(i) == IF i = 1 THEN id ELSE found[i - 1]
    <3>1. /\ DOMAIN found = 1 .. n
          /\ \A i \in 1 .. n : found[i] = NextKnown(IF i = 1 THEN id ELSE found[i - 1])
      BY <2>1, SuccessorRounds
    <3> HIDE DEF found
    <3>2. \A i \in 1 .. n : found[i] \in knownIDs
      BY <2>2, <3>1, NextIsKnown
    <3>3. \A i \in 1 .. n : from(i) \in IDs
      <4>1. \A i \in 1 .. n : i # 1 => i - 1 \in 1 .. n
        BY <2>1
      <4> QED BY <2>2, <3>2, <4>1
    <3>4. \A i \in 1 .. n : found[i] = NextKnown(from(i))
      BY <3>1
    <3> HIDE DEF from
    <3>5. ASSUME NEW i \in DOMAIN found
          PROVE  /\ found[i] \in knownIDs
                 /\ \A known \in knownIDs : After(from(i), found[i]) <= After(from(i), known)
      BY <2>2, <3>1, <3>2, <3>3, <3>4, NextIsNearest
    <3> QED BY <3>5 DEF found, from
  <2> QED BY <2>3 DEF SuccessorsInOrder, n
<1> QED BY <1>1, ReferencesHold, PTL
=============================================================================
