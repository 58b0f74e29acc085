---------------------- MODULE FindAddressOwner_proofs ----------------------
(***************************************************************************)
(* Theorems about FindAddressOwner, for every set of nodes, clients and    *)
(* addresses, whatever the nodes know of each other and however late, lost *)
(* or doubled their answers are: the types with the shape of the paths,    *)
(* that each request is owed one answer, that an answer meets the question *)
(* it belongs to, and that a waiting lookup has its timeout.               *)
(***************************************************************************)
EXTENDS FindAddressOwner, TLAPS, WellFoundedInduction, FiniteSetTheorems

-----------------------------------------------------------------------------
(***************************************************************************)
(* Types                                                                   *)
(***************************************************************************)
Targets == Addresses
           \cup {(chordID + 2 ^ (IDBits - FingerTableSize + i)) % (2 ^ IDBits) : i \in Fingers}

Entry == [source : Nodes, resends : 0 .. MaximumResends, bad : Nat]

Entries == UNION {[S -> Entry] : S \in SUBSET Nodes}

Lookup == [target : Targets, number : Nat, path : Seq(Nodes \ {chordID}), seen : Entries]

\* What TypeOK says of the path of a lookup.
PathOK(r) ==
  /\ \A i \in DOMAIN r.path : r.path[i] \in DOMAIN r.seen
  /\ \A i, j \in DOMAIN r.path : r.path[i] = r.path[j] => i = j
  /\ \A i \in DOMAIN r.path :
        r.seen[r.path[i]].source = IF i = 1 THEN chordID ELSE r.path[i - 1]
  /\ \A node \in DOMAIN r.seen : r.seen[node].source \in DOMAIN r.seen

Asking(r) == r \in Lookup /\ PathOK(r) /\ r.path # << >>

\* The thread, its table and its sockets; a request of the node itself has a number.
TypedNode ==
  /\ running \in BOOLEAN
  /\ best \in [Slots -> Nodes]
  /\ toHandler \subseteq [from : Requesters, address : Targets, number : 0 .. nodeMessageNumberIndex]
  /\ toDealer \in Seq([owner : Nodes \cup {NoOwner}, number : Nat])
  /\ owed \in [Requesters -> Int]

\* The lookups, what was sent for them, and their timeouts.
TypedLookups ==
  /\ nodeMessageNumberIndex \in Nat
  /\ Live \subseteq 1 .. nodeMessageNumberIndex
  /\ \A id \in Live : Asking(requests[id])
  /\ network \subseteq [id : 1 .. nodeMessageNumberIndex, to : Nodes \ {chordID}]
  /\ DOMAIN connectionID = Live
  /\ \A id \in Live : connectionID[id] \in Requesters
  /\ eventQueue \in Seq(Nat)

Typed == TypedNode /\ TypedLookups

LEMMA Constants ==
  /\ IDs \subseteq Nat /\ Nodes \subseteq IDs /\ chordID \in Nodes
  /\ FingerTableSize \in Slots /\ IsFiniteSet(Slots)
  /\ MaximumResends \in Nat /\ MaximumBadReferences \in Nat
  /\ chordID \in Requesters /\ Clients \subseteq Requesters
  /\ Addresses \subseteq Targets /\ HeardOf \subseteq Nodes
  /\ \A node \in Nodes : Knows[node] \subseteq Nodes
<1>1. FingerTableSize \in Nat
  BY FindAddressOwnerAssumption
<1>2. FingerTableSize \in Slots /\ IsFiniteSet(Slots)
  BY <1>1, FS_Interval DEF Slots
<1> QED BY <1>2, FindAddressOwnerAssumption DEF IDs, Requesters, Targets

\* A non-empty set of naturals has a least element: the intervals up to its members
\* are ordered by inclusion, which is well-founded on finite sets.
LEMMA LeastElement ==
  ASSUME NEW T \in SUBSET Nat, T # {}
  PROVE  \E n \in T : \A m \in T : n <= m
<1>1. PICK k \in T : TRUE
  OBVIOUS
<1> DEFINE S == 1 .. k
           F == {1 .. n : n \in {x \in T : x <= k}}
<1>2. F # {} /\ F \subseteq FiniteSubsetsOf(S)
  <2>1. \A n \in Nat : IsFiniteSet(1 .. n)
    BY FS_Interval
  <2> QED BY <2>1, <1>1 DEF FiniteSubsetsOf
<1>3. PICK X \in F : \A Y \in F : ~ (<<Y, X>> \in StrictSubsetOrdering(S))
  <2> HIDE DEF F, S
  <2> QED BY <1>2, FS_StrictSubsetOrderingWellFounded, WFMin, Zenon
<1>4. PICK n \in T : n <= k /\ X = 1 .. n
  BY <1>3
<1>5. SUFFICES ASSUME NEW m \in T, m < n PROVE FALSE
  BY <1>4
<1>6. 1 .. m \in F
  BY <1>4, <1>5
<1>7. 1 .. m \subseteq 1 .. n /\ n \in 1 .. n /\ n \notin 1 .. m /\ 1 .. n \subseteq S
  BY <1>4, <1>5
<1> QED BY <1>3, <1>4, <1>6, <1>7, Zenon DEF StrictSubsetOrdering

\* Least and Greatest are members of the sets they are asked of.
LEMMA ExtremesExist ==
  ASSUME NEW S \in SUBSET IDs, S # {}, NEW b
  PROVE  Table(b)!Least(S) \in S /\ Table(b)!Greatest(S) \in S
<1>1. \E n \in S : \A m \in S : n <= m
  BY LeastElement, Constants
<1>2. \E n \in S : \A m \in S : m <= n
  <2> DEFINE Above == {n \in Nat : \A m \in S : m <= n}
  <2>1. 2 ^ IDBits - 1 \in Above
    BY FindAddressOwnerAssumption DEF IDs
  <2>2. PICK n \in Above : \A other \in Above : n <= other
    BY <2>1, LeastElement
  <2>3. SUFFICES ASSUME n \notin S PROVE FALSE
    BY <2>2
  <2>4. \A m \in S : m \in Nat /\ m <= n /\ m # n
    BY <2>2, <2>3, Constants
  <2>5. n # 0
    BY <2>4
  <2>6. n - 1 \in Above
    BY <2>2, <2>4, <2>5
  <2> QED BY <2>2, <2>6
<1>3. Table(b)!Least(S) \in S
  BY <1>1 DEF Table!Least
<1>4. Table(b)!Greatest(S) \in S
  BY <1>2 DEF Table!Greatest
<1> QED BY <1>3, <1>4

\* The table knows nodes only, and its own node always.
LEMMA KnownNodes ==
  ASSUME NEW b \in [Slots -> Nodes]
  PROVE  Table(b)!knownIDs \in SUBSET IDs /\ Table(b)!knownIDs \subseteq Nodes /\ chordID \in Table(b)!knownIDs
<1> DEFINE held(id) == Cardinality({s \in DOMAIN b : b[s] = id})
<1>1. Table(b)!knownIDs =
        {id \in Nodes : [n \in Nodes |-> held(n) + (IF n = chordID THEN 1 ELSE 0)][id] > 0}
  BY DEF Table!knownIDs
<1>2. held(chordID) \in Nat
  BY Constants, FS_Subset, FS_CardinalityType
<1> QED BY <1>1, <1>2, Constants

\* One round of a search among the known nodes finds a node.
LEMMA NextIsANode ==
  ASSUME NEW b \in [Slots -> Nodes], NEW id
  PROVE  Table(b)!NextKnown(id) \in Nodes
<1> DEFINE K == Table(b)!knownIDs
           above == {known \in K : known > id}
<1>1. K \in SUBSET IDs /\ K \subseteq Nodes /\ K # {}
  BY KnownNodes
<1>2. Table(b)!NextKnown(id) = IF above = {} THEN Table(b)!Least(K) ELSE Table(b)!Least(above)
  BY DEF Table!NextKnown
<1>3. Table(b)!Least(K) \in Nodes
  BY <1>1, ExtremesExist
<1>4. above # {} => Table(b)!Least(above) \in Nodes
  <2>1. above \in SUBSET IDs /\ above \subseteq Nodes
    BY <1>1
  <2> HIDE DEF above, K
  <2> QED BY <2>1, ExtremesExist
<1> QED BY <1>2, <1>3, <1>4

LEMMA PreviousIsANode ==
  ASSUME NEW b \in [Slots -> Nodes], NEW id
  PROVE  Table(b)!PreviousKnown(id) \in Nodes
<1> DEFINE K == Table(b)!knownIDs
           notBelow == {known \in K : known >= id}
<1>1. K \in SUBSET IDs /\ K \subseteq Nodes /\ K # {}
  BY KnownNodes
<1>2. Table(b)!PreviousKnown(id) =
        IF notBelow = {} \/ id <= Table(b)!Least(notBelow) THEN Table(b)!Greatest(K)
                                                          ELSE Table(b)!Least(notBelow)
  BY DEF Table!PreviousKnown
<1>3. Table(b)!Greatest(K) \in Nodes
  BY <1>1, ExtremesExist
<1>4. notBelow # {} => Table(b)!Least(notBelow) \in Nodes
  <2>1. notBelow \in SUBSET IDs /\ notBelow \subseteq Nodes
    BY <1>1
  <2> HIDE DEF notBelow, K
  <2> QED BY <2>1, ExtremesExist
<1> QED BY <1>2, <1>3, <1>4

\* The first predecessor that is found.
LEMMA PredecessorIsANode ==
  ASSUME NEW b \in [Slots -> Nodes], NEW id
  PROVE  Table(b)!getClosestPredecessors(id, 1)[1] \in Nodes
<1> DEFINE Previous(x) == Table(b)!PreviousKnown(x)
           Rounds(f) == [i \in 1 .. 1 |-> Previous(IF i = 1 THEN id ELSE f[i - 1])]
           found == [i \in 1 .. 1 |-> Previous(id)]
<1>a. Previous(id) \in Nodes
  BY PreviousIsANode
<1>b. Table(b)!getClosestPredecessors(id, 1) = CHOOSE f : f = Rounds(f)
  BY DEF Table!getClosestPredecessors
<1> HIDE DEF Previous
<1>1. found = Rounds(found)
  OBVIOUS
<1>2. ASSUME NEW f, f = Rounds(f) PROVE f[1] = Previous(id)
  BY <1>2
<1> HIDE DEF Rounds
<1>3. (CHOOSE f : f = Rounds(f))[1] = Previous(id)
  BY <1>1, <1>2
<1> QED BY <1>3, <1>a, <1>b

\* The slots hold nodes whatever becomes of them.
LEMMA BestStaysTyped ==
  ASSUME NEW b \in [Slots -> Nodes], NEW id \in Nodes
  PROVE  /\ checkAndUpdateIfBetter(b, id) \in [Slots -> Nodes]
         /\ replaceWithNextBestOption(b, id) \in [Slots -> Nodes]
BY NextIsANode DEF checkAndUpdateIfBetter, replaceWithNextBestOption

-----------------------------------------------------------------------------
(***************************************************************************)
(* What is done to a lookup                                                *)
(***************************************************************************)

\* The maps of a lookup hold entries of nodes.
LEMMA EntriesDef ==
  ASSUME NEW seen
  PROVE  seen \in Entries <=> /\ DOMAIN seen \subseteq Nodes
                              /\ seen \in [DOMAIN seen -> Entry]
BY DEF Entries

\* The top of a path is one of the nodes seen, and not the node itself.
LEMMA TopSeen ==
  ASSUME NEW r, Asking(r)
  PROVE  /\ Len(r.path) \in DOMAIN r.path /\ Len(r.path) \in Nat /\ Len(r.path) # 0
         /\ DOMAIN r.path = 1 .. Len(r.path)
         /\ Top(r) \in Nodes \ {chordID} /\ Top(r) \in DOMAIN r.seen
         /\ r.seen[Top(r)] \in Entry
         /\ r.seen[Top(r)].source \in DOMAIN r.seen
         /\ r.seen \in Entries
<1>1. r.path \in Seq(Nodes \ {chordID}) /\ r.path # << >> /\ r.seen \in Entries
  BY DEF Asking, Lookup
<1>2. Len(r.path) \in Nat /\ DOMAIN r.path = 1 .. Len(r.path) /\ Len(r.path) # 0
  BY <1>1
<1>3. Len(r.path) \in DOMAIN r.path
  BY <1>2
<1>4. Top(r) \in Nodes \ {chordID}
  BY <1>1, <1>2, <1>3 DEF Top
<1>5. Top(r) \in DOMAIN r.seen
  BY <1>3 DEF Top, Asking, PathOK
<1>6. r.seen[Top(r)] \in Entry /\ r.seen[Top(r)].source \in DOMAIN r.seen
  BY <1>1, <1>5, EntriesDef DEF Asking, PathOK
<1> QED BY <1>1, <1>2, <1>3, <1>4, <1>5, <1>6

\* Without its top, a path is still one.
LEMMA PopKeepsPath ==
  ASSUME NEW r, Asking(r)
  PROVE  /\ Pop(r) \in Lookup /\ PathOK(Pop(r))
         /\ Len(Pop(r).path) = Len(r.path) - 1
         /\ Pop(r).path # << >> => Asking(Pop(r))
<1> DEFINE n == Len(r.path) - 1
           p == SubSeq(r.path, 1, n)
<1>1. r \in Lookup /\ r.path \in Seq(Nodes \ {chordID}) /\ n \in Nat
  BY TopSeen DEF Asking, Lookup
<1>2. p \in Seq(Nodes \ {chordID}) /\ Len(p) = n /\ \A i \in 1 .. n : p[i] = r.path[i]
  BY <1>1
<1>3. DOMAIN p = 1 .. n /\ 1 .. n \subseteq DOMAIN r.path
  BY <1>1, <1>2
<1>4. Pop(r) = [r EXCEPT !.path = p]
  BY DEF Pop
<1> HIDE DEF p, n
<1>5. Pop(r) \in Lookup /\ Pop(r).path = p /\ Pop(r).seen = r.seen
  BY <1>1, <1>2, <1>4 DEF Lookup
<1>6. PathOK(Pop(r))
  <2>1. PathOK(r) /\ n \in Nat
    BY <1>1 DEF Asking
  <2>2. \A i \in DOMAIN p : i # 1 => i - 1 \in DOMAIN p
    BY <1>3, <2>1
  <2> QED BY <1>2, <1>3, <1>5, <2>1, <2>2 DEF PathOK
<1> QED BY <1>2, <1>5, <1>6 DEF Asking, n

\* A change of counts in the maps does not touch the path.
LEMMA CountsKeepPath ==
  ASSUME NEW r, Asking(r), NEW seen \in Entries, DOMAIN seen = DOMAIN r.seen,
         \A node \in DOMAIN seen : seen[node].source = r.seen[node].source
  PROVE  /\ Asking([r EXCEPT !.seen = seen])
         /\ Top([r EXCEPT !.seen = seen]) = Top(r)
         /\ [r EXCEPT !.seen = seen].path = r.path
         /\ [r EXCEPT !.seen = seen].seen = seen
<1> DEFINE changed == [r EXCEPT !.seen = seen]
<1>1. changed \in Lookup /\ changed.path = r.path /\ changed.seen = seen
  BY DEF Asking, Lookup
<1> HIDE DEF changed
<1>2. PathOK(changed)
  BY <1>1 DEF Asking, PathOK
<1> QED BY <1>1, <1>2 DEF Asking, Top, changed

\* One entry is changed.
LEMMA OneEntry ==
  ASSUME NEW seen \in Entries, NEW node \in DOMAIN seen, NEW entry \in Entry,
         entry.source = seen[node].source
  PROVE  /\ [seen EXCEPT ![node] = entry] \in Entries
         /\ DOMAIN [seen EXCEPT ![node] = entry] = DOMAIN seen
         /\ \A other \in DOMAIN seen :
               [seen EXCEPT ![node] = entry][other].source = seen[other].source
BY EntriesDef

\* A resend is counted.
LEMMA ResentKeepsPath ==
  ASSUME NEW r, Asking(r), ResendsLeft(r)
  PROVE  Asking(Resent(r)) /\ Top(Resent(r)) = Top(r)
<1> DEFINE entry == [r.seen[Top(r)] EXCEPT !.resends = @ + 1]
           seen == [r.seen EXCEPT ![Top(r)] = entry]
<1>1. Top(r) \in DOMAIN r.seen /\ r.seen[Top(r)] \in Entry /\ r.seen \in Entries
  BY TopSeen
<1>2. entry \in Entry /\ entry.source = r.seen[Top(r)].source
  BY <1>1, Constants DEF ResendsLeft, Entry
<1>3. Resent(r) = [r EXCEPT !.seen = seen]
  BY DEF Resent
<1> HIDE DEF entry
<1>4. /\ seen \in Entries /\ DOMAIN seen = DOMAIN r.seen
      /\ \A node \in DOMAIN seen : seen[node].source = r.seen[node].source
  BY <1>1, <1>2, OneEntry
<1> HIDE DEF seen
<1> QED BY <1>3, <1>4, CountsKeepPath

\* A bad reference is counted, whatever the count becomes.
LEMMA BadKeepsPath ==
  ASSUME NEW r, Asking(r), NEW node \in DOMAIN r.seen, NEW n \in Nat
  PROVE  LET seen == [r.seen EXCEPT ![node] = [r.seen[node] EXCEPT !.bad = n]]
         IN  /\ Asking([r EXCEPT !.seen = seen])
             /\ Top([r EXCEPT !.seen = seen]) = Top(r)
             /\ [r EXCEPT !.seen = seen].path = r.path
<1> DEFINE entry == [r.seen[node] EXCEPT !.bad = n]
           seen == [r.seen EXCEPT ![node] = entry]
<1>1. r.seen[node] \in Entry /\ r.seen \in Entries
  BY TopSeen, EntriesDef
<1>2. entry \in Entry /\ entry.source = r.seen[node].source
  BY <1>1 DEF Entry
<1> HIDE DEF entry
<1>3. /\ seen \in Entries /\ DOMAIN seen = DOMAIN r.seen
      /\ \A other \in DOMAIN seen : seen[other].source = r.seen[other].source
  BY <1>1, <1>2, OneEntry
<1> HIDE DEF seen
<1>4. /\ Asking([r EXCEPT !.seen = seen])
      /\ Top([r EXCEPT !.seen = seen]) = Top(r)
      /\ [r EXCEPT !.seen = seen].path = r.path
  BY <1>3, CountsKeepPath
<1> QED BY <1>4 DEF seen, entry

\* The top of a path is given up and its source blamed.
LEMMA BlamedKeepsPath ==
  ASSUME NEW r, Asking(r)
  PROVE  /\ Blamed(r) \in Lookup /\ PathOK(Blamed(r))
         /\ Len(Blamed(r).path) = Len(r.path) - 1
         /\ Blamed(r).path # << >> => Asking(Blamed(r))
<1> DEFINE source == r.seen[Top(r)].source
           n == r.seen[source].bad + 1
           counted == [r EXCEPT !.seen = [r.seen EXCEPT ![source] = [r.seen[source] EXCEPT !.bad = n]]]
<1>1. source \in DOMAIN r.seen /\ r.seen \in Entries
  BY TopSeen
<1>2. n \in Nat
  BY <1>1, EntriesDef DEF Entry
<1>3. Blamed(r) = Pop(counted)
  BY DEF Blamed
<1> HIDE DEF n, source
<1>4. Asking(counted) /\ counted.path = r.path
  BY <1>1, <1>2, BadKeepsPath
<1> HIDE DEF counted
<1> QED BY <1>3, <1>4, PopKeepsPath

\* A node that is added is new, and its source is the node asked last, or the node itself
\* when nobody has been asked yet.
LEMMA AddedKeepsPath ==
  ASSUME NEW r \in Lookup, PathOK(r), NEW id \in Nodes, NEW source \in Nodes,
         r.path = << >> => source = chordID /\ id # chordID /\ DOMAIN r.seen = {}
  PROVE  LET added == addClosestKnownPredecessorIfNew(r, id, source)
         IN  /\ Asking(added)
             /\ added = r \/ (Top(added) = id /\ id \notin DOMAIN r.seen)
<1> DEFINE added == addClosestKnownPredecessorIfNew(r, id, source)
           seen == WithEntries(r.seen, id, source)
           path == Append(r.path, id)
<1> SUFFICES /\ Asking(added)
             /\ added = r \/ (Top(added) = id /\ id \notin DOMAIN r.seen)
  OBVIOUS
<1>1. CASE id \in DOMAIN r.seen \/ (r.path # << >> /\ Top(r) # source)
  <2>1. added = r
    BY <1>1 DEF addClosestKnownPredecessorIfNew
  <2>2. r.path # << >>
    BY <1>1
  <2> HIDE DEF added
  <2> QED BY <2>1, <2>2 DEF Asking
<1>2. CASE id \notin DOMAIN r.seen /\ (r.path = << >> \/ Top(r) = source)
  <2>1. added = [r EXCEPT !.seen = seen, !.path = path]
    BY <1>2 DEF addClosestKnownPredecessorIfNew
  <2>2. /\ r.path \in Seq(Nodes \ {chordID}) /\ r.seen \in Entries
        /\ DOMAIN r.seen \subseteq Nodes /\ r.seen \in [DOMAIN r.seen -> Entry]
    BY EntriesDef DEF Lookup
  <2>3. id # chordID
    <3>1. SUFFICES ASSUME r.path # << >> PROVE chordID \in DOMAIN r.seen
      BY <1>2
    <3>2. 1 \in DOMAIN r.path
      BY <2>2, <3>1
    <3> QED BY <3>2 DEF PathOK
  <2>4. /\ DOMAIN seen = DOMAIN r.seen \cup {id, source}
        /\ seen \in Entries
        /\ \A node \in DOMAIN r.seen : seen[node] = r.seen[node]
        /\ seen[id].source = source
        /\ \A node \in DOMAIN seen : seen[node].source \in DOMAIN seen
    <3>1. /\ DOMAIN seen = DOMAIN r.seen \cup {id, source}
          /\ \A node \in DOMAIN seen : seen[node] = IF node \in DOMAIN r.seen THEN r.seen[node]
                                                    ELSE NewEntry(source)
          /\ seen = [node \in DOMAIN seen |-> seen[node]]
      BY DEF WithEntries
    <3>2. NewEntry(source) \in Entry /\ NewEntry(source).source = source
      BY Constants DEF NewEntry, Entry
    <3> HIDE DEF seen
    <3>3. seen \in Entries
      BY <2>2, <3>1, <3>2, EntriesDef
    <3> QED BY <1>2, <3>1, <3>2, <3>3 DEF PathOK
  <2>5. /\ path \in Seq(Nodes \ {chordID}) /\ Len(path) = Len(r.path) + 1
        /\ path # << >>
        /\ DOMAIN path = DOMAIN r.path \cup {Len(path)} /\ Len(path) \notin DOMAIN r.path
        /\ \A i \in DOMAIN r.path : path[i] = r.path[i]
        /\ path[Len(path)] = id
        /\ DOMAIN r.path = 1 .. Len(r.path) /\ Len(r.path) \in Nat
    BY <2>2, <2>3
  <2> HIDE DEF seen, path
  <2>6. added \in Lookup /\ added.seen = seen /\ added.path = path
    BY <2>1, <2>4, <2>5 DEF Lookup
  <2> HIDE DEF added
  <2>7. PathOK(added)
    <3>1. \A i \in DOMAIN path : path[i] \in DOMAIN seen
      BY <2>4, <2>5 DEF PathOK
    <3>2. ASSUME NEW i \in DOMAIN path, NEW j \in DOMAIN path, path[i] = path[j] PROVE i = j
      BY <1>2, <2>5, <3>2 DEF PathOK
    <3>3. ASSUME NEW i \in DOMAIN r.path
          PROVE  seen[path[i]].source = IF i = 1 THEN chordID ELSE path[i - 1]
      <4>1. i # 1 => i - 1 \in DOMAIN r.path
        BY <2>5
      <4> QED BY <2>4, <2>5, <4>1 DEF PathOK
    <3>4. seen[path[Len(path)]].source = IF Len(path) = 1 THEN chordID ELSE path[Len(path) - 1]
      <4>1. CASE r.path = << >>
        BY <2>4, <2>5, <4>1
      <4>2. CASE r.path # << >>
        <5>1. Len(r.path) # 0 /\ Len(r.path) \in DOMAIN r.path /\ Len(path) # 1
          BY <2>2, <2>5, <4>2
        <5>2. Len(path) - 1 = Len(r.path)
          BY <2>5
        <5> QED BY <1>2, <2>4, <2>5, <4>2, <5>1, <5>2 DEF Top
      <4> QED BY <4>1, <4>2
    <3> QED BY <2>4, <2>5, <2>6, <3>1, <3>2, <3>3, <3>4 DEF PathOK
  <2> QED BY <1>2, <2>5, <2>6, <2>7 DEF Asking, Top
<1> QED BY <1>1, <1>2

\* A lookup starts with its first node on the path.
LEMMA NewIsAsking ==
  ASSUME NEW address \in Targets, NEW predecessor \in Nodes \ {chordID}, NEW number \in Nat
  PROVE  Asking(NewRequest(address, predecessor, number))
<1> DEFINE r == [target |-> address, number |-> number, path |-> << >>, seen |-> << >>]
<1>1. << >> \in Entries /\ DOMAIN << >> = {}
  <2>1. DOMAIN << >> = {}
    OBVIOUS
  <2>2. << >> \in [{} -> Entry]
    <3>1. << >> \in Seq(Entry) /\ Len(<< >>) = 0
      OBVIOUS
    <3>2. << >> \in [1 .. 0 -> Entry]
      BY <3>1
    <3> QED BY <3>2
  <2> QED BY <2>1, <2>2, EntriesDef
<1>2. r \in Lookup /\ PathOK(r)
  BY <1>1 DEF Lookup, PathOK
<1>3. NewRequest(address, predecessor, number) = addClosestKnownPredecessorIfNew(r, predecessor, chordID)
  BY DEF NewRequest
<1>4. r.path = << >> /\ DOMAIN r.seen = {}
  BY <1>1
<1> HIDE DEF r
<1> QED BY <1>2, <1>3, <1>4, Constants, AddedKeepsPath

-----------------------------------------------------------------------------
(***************************************************************************)
(* What the steps do to the lookups                                        *)
(***************************************************************************)

\* A lookup that moves to a new number keeps the lookups' types, and its question is the
\* only one under that number.
LEMMA SendKeepsLookups ==
  ASSUME TypedLookups, AnswersMeetTheirQuestion,
         NEW id, NEW r, Asking(r), NEW requester \in Requesters,
         NEW number \in Nat, number > nodeMessageNumberIndex, NEW queue \in Seq(Nat),
         sendFindPredecessorRequest(id, r, requester, number, queue)
  PROVE  /\ TypedLookups' /\ AnswersMeetTheirQuestion'
         /\ Live' = (Live \ {id}) \cup {number} /\ number \notin Live
         /\ connectionID'[number] = requester
         /\ \A other \in Live \ {id} : connectionID'[other] = connectionID[other]
         /\ eventQueue' = Append(queue, number)
<1>1. /\ nodeMessageNumberIndex' = number
      /\ requests' = With(Without(requests, id), number, r)
      /\ connectionID' = With(Without(connectionID, id), number, requester)
      /\ eventQueue' = Append(queue, number)
      /\ network' = network \cup {[id |-> number, to |-> Top(r)]}
  BY DEF sendFindPredecessorRequest
<1>2. /\ nodeMessageNumberIndex \in Nat /\ Live \subseteq 1 .. nodeMessageNumberIndex
      /\ DOMAIN connectionID = Live
  BY DEF TypedLookups
<1>3. /\ Live' = (Live \ {id}) \cup {number}
      /\ requests'[number] = r
      /\ \A other \in Live \ {id} : number # other => requests'[other] = requests[other]
  BY <1>1 DEF Live, With, Without
<1>4. /\ DOMAIN connectionID' = (Live \ {id}) \cup {number}
      /\ connectionID'[number] = requester
      /\ \A other \in Live \ {id} : number # other => connectionID'[other] = connectionID[other]
  BY <1>1, <1>2 DEF With, Without
<1>5. number \notin Live /\ Live' \subseteq 1 .. number /\ 1 .. nodeMessageNumberIndex \subseteq 1 .. number
      /\ number \in 1 .. number
  <2>1. nodeMessageNumberIndex \in Int /\ number \in Int /\ 0 <= nodeMessageNumberIndex
    BY <1>2
  <2>2. number \notin 1 .. nodeMessageNumberIndex /\ number \in 1 .. number
    BY <2>1
  <2>3. 1 .. nodeMessageNumberIndex \subseteq 1 .. number
    BY <2>1
  <2> QED BY <1>2, <1>3, <2>2, <2>3
<1>6. Top(r) \in Nodes \ {chordID}
  BY TopSeen
<1>7. \A n \in Live' : Asking(requests'[n])
  BY <1>3, <1>5 DEF TypedLookups
<1>8. network' \subseteq [id : 1 .. number, to : Nodes \ {chordID}]
  <2>1. network \subseteq [id : 1 .. nodeMessageNumberIndex, to : Nodes \ {chordID}]
    BY DEF TypedLookups
  <2> QED BY <1>1, <1>5, <1>6, <2>1
<1>9. \A n \in Live' : connectionID'[n] \in Requesters
  BY <1>3, <1>4, <1>5 DEF TypedLookups
<1>10. eventQueue' \in Seq(Nat)
  BY <1>1
<1>11. TypedLookups'
  BY <1>1, <1>3, <1>4, <1>5, <1>7, <1>8, <1>9, <1>10 DEF TypedLookups
<1>12. ASSUME NEW m \in network', m.id \in Live' PROVE m.to = Top(requests'[m.id])
  <2>1. CASE m \in network
    <3>1. m.id # number
      BY <1>2, <1>5, <2>1 DEF TypedLookups
    <3> QED BY <1>3, <1>12, <2>1, <3>1 DEF AnswersMeetTheirQuestion
  <2>2. CASE m = [id |-> number, to |-> Top(r)]
    BY <1>3, <2>2
  <2> QED BY <1>1, <1>12, <2>1, <2>2
<1>13. AnswersMeetTheirQuestion'
  BY <1>12 DEF AnswersMeetTheirQuestion
<1> QED BY <1>1, <1>3, <1>4, <1>5, <1>11, <1>13

\* A lookup that ends leaves the others as they are.
LEMMA EndKeepsLookups ==
  ASSUME TypedLookups, AnswersMeetTheirQuestion, NEW id, NEW owner, Ends(id, owner),
         UNCHANGED <<network, nodeMessageNumberIndex>>, eventQueue' \in Seq(Nat)
  PROVE  /\ TypedLookups' /\ AnswersMeetTheirQuestion'
         /\ Live' = Live \ {id}
         /\ \A other \in Live' : connectionID'[other] = connectionID[other]
<1>1. requests' = Without(requests, id) /\ connectionID' = Without(connectionID, id)
  BY DEF Ends
<1>2. /\ Live' = Live \ {id} /\ DOMAIN connectionID' = Live'
      /\ \A other \in Live' : requests'[other] = requests[other] /\ connectionID'[other] = connectionID[other]
  BY <1>1 DEF Without, Live, TypedLookups
<1>3. TypedLookups'
  BY <1>2 DEF TypedLookups
<1>4. AnswersMeetTheirQuestion'
  BY <1>2 DEF AnswersMeetTheirQuestion
<1> QED BY <1>2, <1>3, <1>4

\* A number that is used up changes no lookup.
LEMMA NumberKeepsLookups ==
  ASSUME TypedLookups, AnswersMeetTheirQuestion,
         UNCHANGED <<requests, connectionID, eventQueue, network>>,
         nodeMessageNumberIndex' \in Nat, nodeMessageNumberIndex' >= nodeMessageNumberIndex
  PROVE  TypedLookups' /\ AnswersMeetTheirQuestion'
<1>1. Live' = Live
  BY DEF Live
<1>2. nodeMessageNumberIndex \in Nat
  BY DEF TypedLookups
<1>3. 1 .. nodeMessageNumberIndex \subseteq 1 .. nodeMessageNumberIndex'
  BY <1>2
<1>4. /\ Live' \subseteq 1 .. nodeMessageNumberIndex'
      /\ network' \subseteq [id : 1 .. nodeMessageNumberIndex', to : Nodes \ {chordID}]
  BY <1>1, <1>3 DEF TypedLookups
<1>5. TypedLookups'
  BY <1>1, <1>4 DEF TypedLookups
<1> QED BY <1>1, <1>5 DEF AnswersMeetTheirQuestion

\* What follows the i-th element of a sequence.
LEMMA Suffix ==
  ASSUME NEW s \in Seq(Nat), NEW i \in 1 .. Len(s)
  PROVE  LET later == SubSeq(s, i + 1, Len(s))
         IN  /\ later \in Seq(Nat) /\ Len(later) = Len(s) - i
             /\ \A j \in 1 .. Len(later) : later[j] = s[i + j]
OBVIOUS

\* An event that is due is that of a live lookup, and the events after it are a queue that
\* holds those of all other live lookups.
LEMMA DueEvent ==
  ASSUME TypedLookups, TimeoutPending, NEW i \in DOMAIN eventQueue, Due(i)
  PROVE  /\ eventQueue[i] \in Live
         /\ EventsAfter(i) \in Seq(Nat)
         /\ \A id \in Live \ {eventQueue[i]} :
               \E j \in DOMAIN EventsAfter(i) : EventsAfter(i)[j] = id
<1>1. eventQueue \in Seq(Nat) /\ Len(eventQueue) \in Nat /\ i \in 1 .. Len(eventQueue)
  BY DEF TypedLookups
<1> DEFINE later == EventsAfter(i)
<1>2. /\ later \in Seq(Nat) /\ Len(later) = Len(eventQueue) - i
      /\ \A j \in 1 .. Len(later) : later[j] = eventQueue[i + j]
  <2>1. i \in 1 .. Len(eventQueue) /\ eventQueue \in Seq(Nat)
    BY <1>1
  <2> QED BY <2>1, Suffix DEF EventsAfter
<1>3. ASSUME NEW id \in Live, id # eventQueue[i]
      PROVE  \E j \in DOMAIN later : later[j] = id
  <2>1. PICK k \in DOMAIN eventQueue : eventQueue[k] = id
    BY DEF TimeoutPending, Due
  <2>2. k \in 1 .. Len(eventQueue) /\ ~ (k < i) /\ k # i
    BY <1>1, <1>3, <2>1 DEF Due, Live
  <2>3. k - i \in 1 .. Len(later) /\ i + (k - i) = k
    <3>1. Len(eventQueue) \in Nat /\ i \in Nat /\ k \in Nat
      BY <1>1, <2>2
    <3>2. i < k /\ k <= Len(eventQueue) /\ Len(later) = Len(eventQueue) - i
      BY <1>1, <1>2, <2>2
    <3> HIDE DEF later
    <3> QED BY <3>1, <3>2
  <2>4. later[k - i] = id /\ k - i \in DOMAIN later
    BY <1>2, <2>1, <2>3
  <2> QED BY <2>4
<1> QED BY <1>2, <1>3 DEF Due, Live

\* A queue that holds the events of the other live lookups, and now that of the one that
\* has moved.
LEMMA SendKeepsTimeouts ==
  ASSUME NEW queue \in Seq(Nat), NEW number \in Nat, NEW id,
         \A other \in Live \ {id} : \E j \in DOMAIN queue : queue[j] = other,
         Live' = (Live \ {id}) \cup {number}, eventQueue' = Append(queue, number)
  PROVE  TimeoutPending'
<1>1. /\ Len(queue) + 1 \in DOMAIN eventQueue' /\ eventQueue'[Len(queue) + 1] = number
      /\ \A j \in DOMAIN queue : j \in DOMAIN eventQueue' /\ eventQueue'[j] = queue[j]
  OBVIOUS
<1>2. ASSUME NEW other \in Live' PROVE \E j \in DOMAIN eventQueue' : eventQueue'[j] = other
  BY <1>1
<1> QED BY <1>2 DEF TimeoutPending

\* What the ROUTER has not read yet has numbers that were given out before.
LEMMA HandlerKeepsTypes ==
  ASSUME TypedNode, nodeMessageNumberIndex \in Nat, nodeMessageNumberIndex' \in Nat,
         nodeMessageNumberIndex' >= nodeMessageNumberIndex, toHandler' \subseteq toHandler
  PROVE  toHandler' \subseteq
             [from : Requesters, address : Targets, number : 0 .. nodeMessageNumberIndex']
<1>1. 0 .. nodeMessageNumberIndex \subseteq 0 .. nodeMessageNumberIndex'
  OBVIOUS
<1> QED BY <1>1 DEF TypedNode

\* A reply goes to a requester, and is one less that it is owed.
LEMMA ReplyKeepsTypes ==
  ASSUME TypedNode, NEW requester \in Requesters, NEW owner \in Nodes \cup {NoOwner},
         NEW number \in Nat, Reply(requester, owner, number)
  PROVE  /\ toDealer' \in Seq([owner : Nodes \cup {NoOwner}, number : Nat])
         /\ owed' \in [Requesters -> Int]
<1> DEFINE Message == [owner : Nodes \cup {NoOwner}, number : Nat]
           m == [owner |-> owner, number |-> number]
<1>1. m \in Message /\ toDealer \in Seq(Message)
  BY DEF TypedNode
<1>2. toDealer' \in Seq(Message)
  <2>1. toDealer' = IF requester = chordID THEN Append(toDealer, m) ELSE toDealer
    BY DEF Reply
  <2> HIDE DEF Message, m
  <2> QED BY <1>1, <2>1
<1> QED BY <1>2 DEF Reply, TypedNode

LEMMA EndKeepsTypes ==
  ASSUME Typed, NEW id \in Live, NEW owner \in Nodes \cup {NoOwner}, Ends(id, owner)
  PROVE  /\ toDealer' \in Seq([owner : Nodes \cup {NoOwner}, number : Nat])
         /\ owed' \in [Requesters -> Int]
<1>1. connectionID[id] \in Requesters /\ requests[id].number \in Nat /\ NoNumber \in Nat
  BY DEF Typed, TypedLookups, Asking, Lookup, NoNumber
<1>2. Reply(connectionID[id], owner, IF owner = NoOwner THEN NoNumber ELSE requests[id].number)
  BY DEF Ends
<1> QED BY <1>1, <1>2, ReplyKeepsTypes DEF Typed

-----------------------------------------------------------------------------
(***************************************************************************)
(* The invariant of the lookups                                            *)
(***************************************************************************)

LookupInv == Typed /\ AnswersMeetTheirQuestion /\ TimeoutPending

LEMMA InitLookupInv == Init => LookupInv
<1> SUFFICES ASSUME Init PROVE LookupInv
  OBVIOUS
<1>1. TypedNode
  BY Constants DEF Init, TypedNode
<1>2. Live = {} /\ DOMAIN connectionID = {} /\ network = {} /\ eventQueue = << >>
  BY DEF Init, Live
<1>3. TypedLookups
  BY <1>2 DEF Init, TypedLookups
<1> QED BY <1>1, <1>2, <1>3 DEF LookupInv, Typed, AnswersMeetTheirQuestion, TimeoutPending

\* Where nothing of a lookup changes, only the node's own state is left to look at.
LEMMA OtherStepsKeepLookups ==
  ASSUME LookupInv, UNCHANGED <<running, requests, connectionID, eventQueue, network>>,
         nodeMessageNumberIndex' \in Nat, nodeMessageNumberIndex' >= nodeMessageNumberIndex,
         TypedNode'
  PROVE  LookupInv'
<1>1. TypedLookups' /\ AnswersMeetTheirQuestion'
  BY NumberKeepsLookups DEF LookupInv, Typed
<1>2. TimeoutPending'
  BY DEF LookupInv, TimeoutPending, Live
<1> QED BY <1>1, <1>2 DEF LookupInv, Typed

LEMMA HearsStep ==
  ASSUME LookupInv, NEW id \in HeardOf, Hears(id)
  PROVE  LookupInv'
<1>1. best \in [Slots -> Nodes] /\ id \in Nodes /\ nodeMessageNumberIndex \in Nat
  BY Constants DEF LookupInv, Typed, TypedNode, TypedLookups
<1>2. best' \in [Slots -> Nodes]
  BY <1>1, BestStaysTyped DEF Hears
<1>3. /\ UNCHANGED <<running, requests, connectionID, eventQueue, network, toHandler, toDealer, owed>>
      /\ nodeMessageNumberIndex' = nodeMessageNumberIndex
  BY DEF Hears, lookupVars, socketVars
<1>4. TypedNode'
  BY <1>2, <1>3 DEF LookupInv, Typed, TypedNode
<1> QED BY <1>1, <1>3, <1>4, OtherStepsKeepLookups

LEMMA AsksStep ==
  ASSUME LookupInv, NEW c \in Clients, NEW address \in Addresses, Asks(c, address)
  PROVE  LookupInv'
<1>1. /\ UNCHANGED <<running, best, requests, connectionID, eventQueue, network, toDealer>>
      /\ nodeMessageNumberIndex' = nodeMessageNumberIndex /\ nodeMessageNumberIndex \in Nat
  BY DEF Asks, lookupVars, LookupInv, Typed, TypedLookups
<1>2. [from |-> c, address |-> address, number |-> NoNumber]
         \in [from : Requesters, address : Targets, number : 0 .. nodeMessageNumberIndex]
  BY <1>1, Constants DEF NoNumber
<1>3. toHandler' \subseteq [from : Requesters, address : Targets, number : 0 .. nodeMessageNumberIndex']
  BY <1>1, <1>2 DEF Asks, LookupInv, Typed, TypedNode
<1>4. owed' \in [Requesters -> Int]
  BY Constants DEF Asks, LookupInv, Typed, TypedNode
<1>5. TypedNode'
  BY <1>1, <1>3, <1>4 DEF LookupInv, Typed, TypedNode
<1> QED BY <1>1, <1>5, OtherStepsKeepLookups

LEMMA UpdateStep ==
  ASSUME LookupInv, NEW i \in Fingers, updateFingerTable(i)
  PROVE  LookupInv'
<1> DEFINE number == nodeMessageNumberIndex + 1
           m == [from |-> chordID, address |-> Table(best)!Target(i), number |-> number]
<1>1. /\ UNCHANGED <<running, best, requests, connectionID, eventQueue, network, toDealer>>
      /\ nodeMessageNumberIndex' = number /\ nodeMessageNumberIndex \in Nat
      /\ toHandler' = toHandler \cup {m}
  BY DEF updateFingerTable, LookupInv, Typed, TypedLookups
<1>2. Table(best)!Target(i) \in Targets
  BY DEF Targets, Table!Target, Table!Modulus
<1>3. m \in [from : Requesters, address : Targets, number : 0 .. number]
  BY <1>1, <1>2, Constants
<1>4. 0 .. nodeMessageNumberIndex \subseteq 0 .. number
  BY <1>1
<1>5. toHandler' \subseteq [from : Requesters, address : Targets, number : 0 .. nodeMessageNumberIndex']
  <2>1. toHandler \subseteq [from : Requesters, address : Targets, number : 0 .. nodeMessageNumberIndex]
    BY DEF LookupInv, Typed, TypedNode
  <2> HIDE DEF m, number
  <2> QED BY <1>1, <1>3, <1>4, <2>1
<1>6. owed' \in [Requesters -> Int]
  BY Constants DEF updateFingerTable, LookupInv, Typed, TypedNode
<1>7. TypedNode'
  BY <1>1, <1>5, <1>6 DEF LookupInv, Typed, TypedNode
<1>8. nodeMessageNumberIndex' \in Nat /\ nodeMessageNumberIndex' >= nodeMessageNumberIndex
  BY <1>1
<1> QED BY <1>1, <1>7, <1>8, OtherStepsKeepLookups

LEMMA ReplyStep ==
  ASSUME LookupInv, processFindAddressOwnerRequestReply
  PROVE  LookupInv'
<1> DEFINE m == Head(toDealer)
           Message == [owner : Nodes \cup {NoOwner}, number : Nat]
<1>1. /\ UNCHANGED <<running, requests, connectionID, eventQueue, network, toHandler, owed>>
      /\ nodeMessageNumberIndex' = nodeMessageNumberIndex /\ nodeMessageNumberIndex \in Nat
  BY DEF processFindAddressOwnerRequestReply, lookupVars, LookupInv, Typed, TypedLookups
<1>2. toDealer \in Seq(Message) /\ toDealer # << >> /\ toDealer' = Tail(toDealer)
  BY DEF processFindAddressOwnerRequestReply, LookupInv, Typed, TypedNode
<1>3. m \in Message /\ toDealer' \in Seq(Message)
  <2> HIDE DEF Message
  <2> QED BY <1>2
<1>4. best' \in [Slots -> Nodes]
  <2>1. best \in [Slots -> Nodes]
    BY DEF LookupInv, Typed, TypedNode
  <2>2. \/ m.owner # NoOwner /\ best' = [best EXCEPT ![fingerIndex[m.number]] = m.owner]
        \/ best' = best
    BY DEF processFindAddressOwnerRequestReply
  <2>3. m.owner \in Nodes \cup {NoOwner}
    BY <1>3
  <2> HIDE DEF m
  <2> QED BY <2>1, <2>2, <2>3
<1>5. TypedNode'
  BY <1>1, <1>3, <1>4 DEF LookupInv, Typed, TypedNode
<1> QED BY <1>1, <1>5, OtherStepsKeepLookups

LEMMA FindStep ==
  ASSUME LookupInv, NEW m \in toHandler, processFindNodeAssociatedWithAddressRequest(m)
  PROVE  LookupInv'
<1> DEFINE predecessor == Table(best)!getClosestPredecessors(m.address, 1)[1]
           id == nodeMessageNumberIndex + 1
<1>1. /\ UNCHANGED <<running, best>> /\ toHandler' \subseteq toHandler
      /\ nodeMessageNumberIndex \in Nat
      /\ m.from \in Requesters /\ m.address \in Targets /\ m.number \in Nat
      /\ best \in [Slots -> Nodes]
  BY DEF processFindNodeAssociatedWithAddressRequest, LookupInv, Typed, TypedNode, TypedLookups
<1>2. predecessor \in Nodes
  BY <1>1, PredecessorIsANode
<1>3. CASE /\ nodeMessageNumberIndex' = id
           /\ Reply(m.from, successorID, m.number)
           /\ UNCHANGED <<requests, connectionID, eventQueue, network>>
  <2>1. successorID \in Nodes
    BY <1>1, Constants DEF successorID
  <2>2. /\ toDealer' \in Seq([owner : Nodes \cup {NoOwner}, number : Nat])
        /\ owed' \in [Requesters -> Int]
    BY <1>1, <1>3, <2>1, ReplyKeepsTypes DEF LookupInv, Typed
  <2>3. nodeMessageNumberIndex' \in Nat /\ nodeMessageNumberIndex' >= nodeMessageNumberIndex
    BY <1>1, <1>3
  <2>4. toHandler' \subseteq [from : Requesters, address : Targets, number : 0 .. nodeMessageNumberIndex']
    BY <1>1, <2>3, HandlerKeepsTypes DEF LookupInv, Typed
  <2>5. TypedNode'
    BY <1>1, <2>2, <2>4 DEF LookupInv, Typed, TypedNode
  <2> QED BY <1>1, <1>3, <2>3, <2>5, OtherStepsKeepLookups
<1>4. CASE /\ predecessor # chordID
           /\ sendFindPredecessorRequest(id, NewRequest(m.address, predecessor, m.number),
                                         m.from, id + 1, eventQueue)
           /\ UNCHANGED <<toDealer, owed>>
  <2> DEFINE r == NewRequest(m.address, predecessor, m.number)
  <2>1. Asking(r)
    BY <1>1, <1>2, <1>4, NewIsAsking
  <2>2. id + 1 \in Nat /\ id + 1 > nodeMessageNumberIndex /\ eventQueue \in Seq(Nat)
    BY <1>1 DEF LookupInv, Typed, TypedLookups
  <2>3. nodeMessageNumberIndex' = id + 1
    BY <1>4 DEF sendFindPredecessorRequest
  <2>4. \A other \in Live : \E j \in DOMAIN eventQueue : eventQueue[j] = other
    <3>1. running
      BY DEF processFindNodeAssociatedWithAddressRequest
    <3> QED BY <3>1 DEF LookupInv, TimeoutPending
  <2> DEFINE sent == sendFindPredecessorRequest(id, r, m.from, id + 1, eventQueue)
  <2>5. sent
    BY <1>4
  <2> HIDE DEF r, id
  <2>6. /\ TypedLookups' /\ AnswersMeetTheirQuestion'
        /\ Live' = (Live \ {id}) \cup {id + 1}
        /\ eventQueue' = Append(eventQueue, id + 1)
    BY <1>1, <2>1, <2>2, <2>5, SendKeepsLookups DEF LookupInv, Typed
  <2>7. TimeoutPending'
    BY <2>2, <2>4, <2>6, SendKeepsTimeouts
  <2>8. toHandler' \subseteq [from : Requesters, address : Targets, number : 0 .. nodeMessageNumberIndex']
    BY <1>1, <2>2, <2>3, HandlerKeepsTypes DEF LookupInv, Typed
  <2>9. TypedNode'
    BY <1>1, <1>4, <2>8 DEF LookupInv, Typed, TypedNode
  <2> QED BY <2>6, <2>7, <2>9 DEF LookupInv, Typed
<1> QED BY <1>3, <1>4 DEF processFindNodeAssociatedWithAddressRequest

\* A lookup that ends by an answer, or by none.
LEMMA EndStep ==
  ASSUME LookupInv, NEW id \in Live, NEW owner \in Nodes \cup {NoOwner}, Ends(id, owner),
         UNCHANGED <<network, nodeMessageNumberIndex, toHandler>>,
         running' \in BOOLEAN, best' \in [Slots -> Nodes], eventQueue' \in Seq(Nat),
         running' => UNCHANGED <<running, eventQueue>>
  PROVE  LookupInv'
<1>1. /\ TypedLookups' /\ AnswersMeetTheirQuestion' /\ Live' = Live \ {id}
  BY EndKeepsLookups DEF LookupInv, Typed
<1>2. /\ toDealer' \in Seq([owner : Nodes \cup {NoOwner}, number : Nat])
      /\ owed' \in [Requesters -> Int]
  BY EndKeepsTypes DEF LookupInv
<1>3. TypedNode'
  BY <1>2 DEF LookupInv, Typed, TypedNode
<1>4. TimeoutPending'
  BY <1>1 DEF LookupInv, TimeoutPending
<1> QED BY <1>1, <1>3, <1>4 DEF LookupInv, Typed

\* A lookup that goes on to its next question.
LEMMA SendStep ==
  ASSUME LookupInv, NEW id \in Live, NEW r, Asking(r), NEW queue \in Seq(Nat),
         sendFindPredecessorRequest(id, r, connectionID[id], nodeMessageNumberIndex + 1, queue),
         \A other \in Live \ {id} : \E j \in DOMAIN queue : queue[j] = other,
         UNCHANGED <<running, toHandler, toDealer, owed>>, best' \in [Slots -> Nodes]
  PROVE  LookupInv'
<1> DEFINE number == nodeMessageNumberIndex + 1
<1>1. /\ number \in Nat /\ number > nodeMessageNumberIndex /\ nodeMessageNumberIndex \in Nat
      /\ connectionID[id] \in Requesters
  BY DEF LookupInv, Typed, TypedLookups
<1>2. nodeMessageNumberIndex' = number
  BY DEF sendFindPredecessorRequest
<1> HIDE DEF number
<1>3. /\ TypedLookups' /\ AnswersMeetTheirQuestion'
      /\ Live' = (Live \ {id}) \cup {number}
      /\ eventQueue' = Append(queue, number)
  BY <1>1, SendKeepsLookups DEF LookupInv, Typed, number
<1>4. TimeoutPending'
  BY <1>1, <1>3, SendKeepsTimeouts
<1>5. toHandler' \subseteq [from : Requesters, address : Targets, number : 0 .. nodeMessageNumberIndex']
  BY <1>1, <1>2, HandlerKeepsTypes DEF LookupInv, Typed
<1>6. TypedNode'
  BY <1>5 DEF LookupInv, Typed, TypedNode
<1> QED BY <1>3, <1>4, <1>6 DEF LookupInv, Typed

LEMMA SuccessorStep ==
  ASSUME LookupInv, NEW m \in network, NEW owner \in Nodes, ProcessesSuccessor(m, owner)
  PROVE  LookupInv'
<1> DEFINE r == requests[m.id]
<1>1. /\ running /\ m.id \in Live /\ m.to \in Nodes
      /\ best \in [Slots -> Nodes] /\ Asking(r)
      /\ UNCHANGED <<running, eventQueue, network, nodeMessageNumberIndex, toHandler>>
      /\ eventQueue \in Seq(Nat)
  BY DEF ProcessesSuccessor, LookupInv, Typed, TypedNode, TypedLookups, Live
<1>2. best' \in [Slots -> Nodes]
  <2>1. best' = checkAndUpdateIfBetter(checkAndUpdateIfBetter(best, m.to), owner)
    BY DEF ProcessesSuccessor
  <2> QED BY <1>1, <2>1, BestStaysTyped
<1>3. CASE Ends(m.id, owner)
  <2>1. running' \in BOOLEAN /\ eventQueue' \in Seq(Nat)
    BY <1>1
  <2> QED BY <1>1, <1>2, <1>3, <2>1, EndStep
<1>4. CASE /\ requests' = [requests EXCEPT ![m.id].seen[Top(r)].bad = MaximumBadReferences]
           /\ UNCHANGED <<connectionID, toDealer, owed>>
  <2> DEFINE seen == [r.seen EXCEPT ![Top(r)] = [r.seen[Top(r)] EXCEPT !.bad = MaximumBadReferences]]
             changed == [r EXCEPT !.seen = seen]
  <2>1. requests' = [requests EXCEPT ![m.id] = changed]
    BY <1>4
  <2>2. Asking(changed) /\ Top(changed) = Top(r)
    BY <1>1, TopSeen, Constants, BadKeepsPath
  <2> HIDE DEF changed
  <2>3. /\ Live' = Live /\ requests'[m.id] = changed
        /\ \A other \in Live : other # m.id => requests'[other] = requests[other]
    BY <1>1, <2>1 DEF Live
  <2>4. TypedLookups'
    BY <1>1, <1>4, <2>2, <2>3 DEF LookupInv, Typed, TypedLookups
  <2>5. ASSUME NEW n \in network', n.id \in Live' PROVE n.to = Top(requests'[n.id])
    BY <1>1, <2>2, <2>3, <2>5 DEF LookupInv, AnswersMeetTheirQuestion
  <2>6. TimeoutPending'
    BY <1>1, <2>3 DEF LookupInv, TimeoutPending
  <2>7. TypedNode'
    BY <1>1, <1>2, <1>4 DEF LookupInv, Typed, TypedNode
  <2> QED BY <2>4, <2>5, <2>6, <2>7 DEF LookupInv, Typed, AnswersMeetTheirQuestion
<1> QED BY <1>3, <1>4 DEF ProcessesSuccessor

LEMMA PredecessorsStep ==
  ASSUME LookupInv, NEW m \in network, NEW p \in Nodes, ProcessesPredecessors(m, p)
  PROVE  LookupInv'
<1> DEFINE r     == requests[m.id]
           first == addClosestKnownPredecessorIfNew(r, p, m.to)
           added == addClosestKnownPredecessorIfNew(first, p, m.to)
           next  == IF Top(added) = Top(r) THEN Pop(added) ELSE added
<1>1. /\ running /\ m.id \in Live /\ m.to \in Nodes
      /\ best \in [Slots -> Nodes] /\ Asking(r)
      /\ UNCHANGED <<running, toHandler>>
      /\ eventQueue \in Seq(Nat)
  BY DEF ProcessesPredecessors, LookupInv, Typed, TypedNode, TypedLookups, Live
<1>2. best' \in [Slots -> Nodes]
  <2>1. best' = checkAndUpdateIfBetter(checkAndUpdateIfBetter(best, m.to), p)
    BY DEF ProcessesPredecessors
  <2> QED BY <1>1, <2>1, BestStaysTyped
<1> HIDE DEF r
<1>3. Asking(first)
  BY <1>1, AddedKeepsPath DEF Asking
<1> HIDE DEF first
<1>4. Asking(added)
  BY <1>1, <1>3, AddedKeepsPath DEF Asking
<1> HIDE DEF added
<1>5. next.path # << >> => Asking(next)
  BY <1>4, PopKeepsPath
<1>6. CASE /\ Ends(m.id, NoOwner)
           /\ UNCHANGED <<eventQueue, network, nodeMessageNumberIndex>>
  <2>1. running' \in BOOLEAN /\ eventQueue' \in Seq(Nat) /\ NoOwner \in Nodes \cup {NoOwner}
    BY <1>1, <1>6
  <2> QED BY <1>1, <1>2, <1>6, <2>1, EndStep
<1>7. CASE /\ next.path # << >>
           /\ sendFindPredecessorRequest(m.id, next, connectionID[m.id],
                                         nodeMessageNumberIndex + 1, eventQueue)
           /\ UNCHANGED <<toDealer, owed>>
  <2>1. \A other \in Live : \E j \in DOMAIN eventQueue : eventQueue[j] = other
    BY <1>1 DEF LookupInv, TimeoutPending
  <2> HIDE DEF next
  <2> QED BY <1>1, <1>2, <1>5, <1>7, <2>1, SendStep
<1> QED BY <1>6, <1>7 DEF ProcessesPredecessors, r, first, added

LEMMA ResendStep ==
  ASSUME LookupInv, NEW i \in DOMAIN eventQueue, Resends(i)
  PROVE  LookupInv'
<1> DEFINE id == eventQueue[i]
           r  == requests[id]
<1>1. /\ id \in Live /\ EventsAfter(i) \in Seq(Nat)
      /\ \A other \in Live \ {id} : \E j \in DOMAIN EventsAfter(i) : EventsAfter(i)[j] = other
  BY DueEvent DEF Resends, LookupInv, Typed
<1>2. Asking(Resent(r))
  <2>1. Asking(r) /\ ResendsLeft(r)
    BY <1>1 DEF Resends, LookupInv, Typed, TypedLookups
  <2> QED BY <2>1, ResentKeepsPath
<1>3. /\ sendFindPredecessorRequest(id, Resent(r), connectionID[id],
                                    nodeMessageNumberIndex + 1, EventsAfter(i))
      /\ UNCHANGED <<running, best, toHandler, toDealer, owed>>
  BY DEF Resends, socketVars
<1>4. best' \in [Slots -> Nodes]
  BY <1>3 DEF LookupInv, Typed, TypedNode
<1> HIDE DEF id, r
<1> QED BY <1>1, <1>2, <1>3, <1>4, SendStep

LEMMA FallBackStep ==
  ASSUME LookupInv, NEW i \in DOMAIN eventQueue, FallsBack(i)
  PROVE  LookupInv'
<1> DEFINE id     == eventQueue[i]
           r      == requests[id]
           blamed == Blamed(r)
           next   == IF TooBad(blamed) THEN Pop(blamed) ELSE blamed
           given  == replaceWithNextBestOption(best, Top(r))
<1>1. /\ id \in Live /\ EventsAfter(i) \in Seq(Nat)
      /\ \A other \in Live \ {id} : \E j \in DOMAIN EventsAfter(i) : EventsAfter(i)[j] = other
  BY DueEvent DEF FallsBack, LookupInv, Typed
<1>2. /\ sendFindPredecessorRequest(id, next, connectionID[id],
                                    nodeMessageNumberIndex + 1, EventsAfter(i))
      /\ UNCHANGED <<running, toHandler, toDealer, owed>>
      /\ next.path # << >> /\ Len(r.path) > 1
      /\ best' = IF TooBad(blamed) THEN replaceWithNextBestOption(given, Top(blamed)) ELSE given
  BY DEF FallsBack, socketVars
<1>3. Asking(r) /\ best \in [Slots -> Nodes]
  BY <1>1 DEF LookupInv, Typed, TypedNode, TypedLookups
<1>4. Asking(blamed)
  <2>1. Len(blamed.path) = Len(r.path) - 1 /\ Len(r.path) \in Nat
    BY <1>3, BlamedKeepsPath, TopSeen
  <2>2. \A n \in Nat : n > 1 => n - 1 # 0
    OBVIOUS
  <2>3. Len(blamed.path) # Len(<< >>)
    <3>1. Len(<< >>) = 0 /\ Len(r.path) > 1
      BY <1>2
    <3> QED BY <2>1, <2>2, <3>1, Zenon
  <2>4. blamed.path # << >>
    BY <2>3, Zenon
  <2> QED BY <1>3, <2>4, BlamedKeepsPath, Zenon
<1> HIDE DEF id, r, blamed
<1>5. Asking(next)
  BY <1>2, <1>4, PopKeepsPath
<1>6. best' \in [Slots -> Nodes]
  BY <1>2, <1>3, <1>4, TopSeen, BestStaysTyped
<1> HIDE DEF next
<1> QED BY <1>1, <1>2, <1>5, <1>6, SendStep

LEMMA GiveUpStep ==
  ASSUME LookupInv, NEW i \in DOMAIN eventQueue, GivesUp(i)
  PROVE  LookupInv'
<1> DEFINE id     == eventQueue[i]
           r      == requests[id]
           blamed == Blamed(r)
           given  == replaceWithNextBestOption(best, Top(r))
<1>1. id \in Live /\ EventsAfter(i) \in Seq(Nat)
  BY DueEvent DEF GivesUp, LookupInv, Typed
<1>2. /\ Ends(id, NoOwner) /\ running' = FALSE /\ eventQueue' = EventsAfter(i)
      /\ UNCHANGED <<network, nodeMessageNumberIndex, toHandler>>
  BY DEF GivesUp
<1>3. \/ best' = given
      \/ Len(blamed.path) = 1 /\ best' = replaceWithNextBestOption(given, Top(blamed))
  BY DEF GivesUp
<1>4. Asking(r) /\ best \in [Slots -> Nodes]
  BY <1>1 DEF LookupInv, Typed, TypedNode, TypedLookups
<1>5. Len(blamed.path) = 1 => Asking(blamed)
  <2>1. Len(<< >>) = 0
    OBVIOUS
  <2>2. Len(blamed.path) = 1 => blamed.path # << >>
    <3>1. SUFFICES ASSUME blamed.path = << >> PROVE Len(blamed.path) # 1
      OBVIOUS
    <3>2. Len(blamed.path) = 0
      BY <2>1, <3>1, Zenon
    <3> HIDE DEF blamed
    <3> QED BY <3>2
  <2> QED BY <1>4, <2>2, BlamedKeepsPath, Zenon
<1> HIDE DEF r, blamed
<1>6. best' \in [Slots -> Nodes]
  <2>1. given \in [Slots -> Nodes]
    BY <1>4, TopSeen, BestStaysTyped
  <2> HIDE DEF given
  <2>2. Len(blamed.path) = 1 => replaceWithNextBestOption(given, Top(blamed)) \in [Slots -> Nodes]
    BY <1>5, <2>1, TopSeen, BestStaysTyped
  <2> QED BY <1>3, <2>1, <2>2, Zenon
<1>7. running' \in BOOLEAN /\ eventQueue' \in Seq(Nat) /\ NoOwner \in Nodes \cup {NoOwner}
  BY <1>1, <1>2
<1> HIDE DEF id
<1> QED BY <1>1, <1>2, <1>6, <1>7, EndStep

LEMMA NextLookupInv == LookupInv /\ [Next]_vars => LookupInv'
<1> SUFFICES ASSUME LookupInv, [Next]_vars PROVE LookupInv'
  OBVIOUS
<1>1. ASSUME NEW id \in HeardOf, Hears(id) PROVE LookupInv'
  BY <1>1, HearsStep
<1>2. ASSUME NEW c \in Clients, NEW address \in Addresses, Asks(c, address) PROVE LookupInv'
  BY <1>2, AsksStep
<1>3. ASSUME NEW i \in Fingers, updateFingerTable(i) PROVE LookupInv'
  BY <1>3, UpdateStep
<1>4. ASSUME NEW m \in toHandler, processFindNodeAssociatedWithAddressRequest(m) PROVE LookupInv'
  BY <1>4, FindStep
<1>5. CASE processFindAddressOwnerRequestReply
  BY <1>5, ReplyStep
<1>6. ASSUME NEW m \in network, processClosestPredecessorRequestReply(m) PROVE LookupInv'
  BY <1>6, SuccessorStep, PredecessorsStep DEF processClosestPredecessorRequestReply
<1>7. CASE processEvent
  BY <1>7, ResendStep, FallBackStep, GiveUpStep DEF processEvent
<1>8. ASSUME NEW c \in Clients, IgnoresRequest(c) PROVE LookupInv'
  <2>1. /\ UNCHANGED <<running, best, requests, connectionID, eventQueue, network, toHandler,
                       toDealer, owed>>
        /\ nodeMessageNumberIndex' = nodeMessageNumberIndex
    BY <1>8 DEF IgnoresRequest, lookupVars
  <2>2. TypedNode' /\ nodeMessageNumberIndex \in Nat
    BY <2>1 DEF LookupInv, Typed, TypedNode, TypedLookups
  <2> QED BY <2>1, <2>2, OtherStepsKeepLookups
<1>9. CASE UNCHANGED vars
  <2>1. UNCHANGED <<running, best, requests, connectionID, eventQueue, network,
                    nodeMessageNumberIndex, toHandler, toDealer, owed>>
    BY <1>9 DEF vars, lookupVars, socketVars
  <2>2. Live' = Live
    BY <2>1 DEF Live
  <2>3. TypedNode' /\ TypedLookups'
    BY <2>1, <2>2 DEF LookupInv, Typed, TypedNode, TypedLookups
  <2> QED BY <2>1, <2>2, <2>3 DEF LookupInv, Typed, AnswersMeetTheirQuestion, TimeoutPending
<1> QED BY <1>1, <1>2, <1>3, <1>4, <1>5, <1>6, <1>7, <1>8, <1>9 DEF Next

\* The invariant says all that TypeOK does.
LEMMA TypedImpliesTypeOK == Typed => TypeOK
<1> SUFFICES ASSUME Typed PROVE TypeOK
  OBVIOUS
<1>1. ASSUME NEW id \in Live
      PROVE  LET r == requests[id]
             IN  /\ r.path # << >>
                 /\ \A i \in DOMAIN r.path : r.path[i] \in DOMAIN r.seen \ {chordID}
                 /\ \A i, j \in DOMAIN r.path : r.path[i] = r.path[j] => i = j
                 /\ \A i \in DOMAIN r.path :
                       r.seen[r.path[i]].source = IF i = 1 THEN chordID ELSE r.path[i - 1]
                 /\ \A node \in DOMAIN r.seen :
                       /\ r.seen[node].source \in DOMAIN r.seen
                       /\ r.seen[node].resends \in 0 .. MaximumResends
  <2> DEFINE r == requests[id]
  <2>1. Asking(r)
    BY DEF Typed, TypedLookups
  <2> HIDE DEF r
  <2>2. PathOK(r) /\ r.path # << >> /\ r.path \in Seq(Nodes \ {chordID}) /\ r.seen \in Entries
    BY <2>1 DEF Asking, Lookup
  <2>3. \A i \in DOMAIN r.path : r.path[i] \in DOMAIN r.seen \ {chordID}
    BY <2>2 DEF PathOK
  <2>4. \A node \in DOMAIN r.seen : r.seen[node].resends \in 0 .. MaximumResends
    BY <2>2, EntriesDef DEF Entry
  <2>5. /\ r.path # << >>
        /\ \A i \in DOMAIN r.path : r.path[i] \in DOMAIN r.seen \ {chordID}
        /\ \A i, j \in DOMAIN r.path : r.path[i] = r.path[j] => i = j
        /\ \A i \in DOMAIN r.path :
              r.seen[r.path[i]].source = IF i = 1 THEN chordID ELSE r.path[i - 1]
        /\ \A node \in DOMAIN r.seen :
              /\ r.seen[node].source \in DOMAIN r.seen
              /\ r.seen[node].resends \in 0 .. MaximumResends
    BY <2>2, <2>3, <2>4 DEF PathOK
  <2> QED BY <2>5 DEF r
<1> QED BY <1>1 DEF Typed, TypedNode, TypedLookups, TypeOK

\* Types, and the shape of the paths: a lookup always has somebody to ask, who is not the
\* node itself nor asked for the second time, and each node on the path is blamed on the
\* one before it.
THEOREM TypeCorrect == Spec => []TypeOK
<1>1. LookupInv => TypeOK
  BY TypedImpliesTypeOK DEF LookupInv
<1> QED BY <1>1, InitLookupInv, NextLookupInv, PTL DEF Spec

\* An answer whose number is that of a live lookup comes from the node the lookup is asking
\* now: every question has a number of its own, and a lookup moves to it with the question.
THEOREM AnswersAreOfTheNodeAsked == Spec => []AnswersMeetTheirQuestion
<1>1. LookupInv => AnswersMeetTheirQuestion
  BY DEF LookupInv
<1> QED BY <1>1, InitLookupInv, NextLookupInv, PTL DEF Spec

\* As long as the thread runs, every live lookup has a timeout in the queue: events that are
\* passed over, answers that end others or are not believed, never take the last one.
THEOREM EveryLookupHasATimeout == Spec => []TimeoutPending
<1>1. LookupInv => TimeoutPending
  BY DEF LookupInv
<1> QED BY <1>1, InitLookupInv, NextLookupInv, PTL DEF Spec

-----------------------------------------------------------------------------
(***************************************************************************)
(* One answer for each request                                             *)
(***************************************************************************)

\* The lookups and the unread requests of a requester.
Served(c) == {id \in Live : connectionID[id] = c}
Unread(c) == {m \in toHandler : m.from = c}

AnswerInv == LookupInv /\ IsFiniteSet(toHandler) /\ OneAnswerEach

\* What is owed, in these terms.
LEMMA Owed ==
  ASSUME OneAnswerEach, NEW c \in Requesters
  PROVE  owed[c] = Cardinality(Served(c)) + Cardinality(Unread(c))
BY DEF OneAnswerEach, Served, Unread

LEMMA OwedNext ==
  ASSUME DOMAIN connectionID' = Live',
         \A c \in Requesters :
             owed'[c] = Cardinality(Served(c)') + Cardinality(Unread(c)')
  PROVE  OneAnswerEach'
BY DEF OneAnswerEach, Served, Unread, Live

\* Both sets are finite.
LEMMA AnswersCounted ==
  ASSUME AnswerInv, NEW c
  PROVE  /\ IsFiniteSet(Served(c)) /\ Cardinality(Served(c)) \in Nat
         /\ IsFiniteSet(Unread(c)) /\ Cardinality(Unread(c)) \in Nat
<1>1. IsFiniteSet(Live)
  <2>1. nodeMessageNumberIndex \in Nat /\ Live \subseteq 1 .. nodeMessageNumberIndex
    BY DEF AnswerInv, LookupInv, Typed, TypedLookups
  <2>2. IsFiniteSet(1 .. nodeMessageNumberIndex)
    BY <2>1, FS_Interval
  <2> QED BY <2>1, <2>2, FS_Subset
<1>2. IsFiniteSet(Served(c))
  BY <1>1, FS_Subset DEF Served
<1>3. IsFiniteSet(Unread(c))
  BY FS_Subset DEF Unread, AnswerInv
<1> QED BY <1>2, <1>3, FS_CardinalityType

\* A request that was not there yet is one more that is owed an answer.
LEMMA RequestCounts ==
  ASSUME AnswerInv, NEW m, m \notin toHandler, m.from \in Requesters,
         toHandler' = toHandler \cup {m}, owed' = [owed EXCEPT ![m.from] = @ + 1],
         UNCHANGED <<requests, connectionID>>
  PROVE  IsFiniteSet(toHandler') /\ OneAnswerEach'
<1>1. IsFiniteSet(toHandler')
  BY FS_AddElement DEF AnswerInv
<1>2. DOMAIN connectionID' = Live' /\ owed \in [Requesters -> Int] /\ OneAnswerEach
  BY DEF AnswerInv, LookupInv, Typed, TypedLookups, TypedNode, Live
<1>3. ASSUME NEW c \in Requesters
      PROVE  owed'[c] = Cardinality(Served(c)') + Cardinality(Unread(c)')
  <2>1. Served(c)' = Served(c)
    BY DEF Served, Live
  <2>2. owed[c] = Cardinality(Served(c)) + Cardinality(Unread(c))
    BY <1>2, Owed
  <2>3. CASE c = m.from
    <3>1. Unread(c)' = Unread(c) \cup {m} /\ m \notin Unread(c)
      BY <2>3 DEF Unread
    <3>2. Cardinality(Unread(c)') = Cardinality(Unread(c)) + 1
      BY <3>1, AnswersCounted, FS_AddElement
    <3>3. owed'[c] = owed[c] + 1
      BY <1>2, <2>3
    <3> QED BY <2>1, <2>2, <3>2, <3>3, AnswersCounted
  <2>4. CASE c # m.from
    <3>1. Unread(c)' = Unread(c)
      BY <2>4 DEF Unread
    <3>2. owed'[c] = owed[c]
      BY <1>2, <2>4
    <3> QED BY <2>1, <2>2, <3>1, <3>2
  <2> QED BY <2>3, <2>4
<1> QED BY <1>1, <1>2, <1>3, OwedNext

\* A request that is read is answered at once, or becomes a lookup under a new number.
LEMMA ReadingCounts ==
  ASSUME AnswerInv, NEW m \in toHandler, toHandler' = toHandler \ {m},
         \/ /\ owed' = [owed EXCEPT ![m.from] = @ - 1]
            /\ UNCHANGED <<requests, connectionID>>
         \/ /\ UNCHANGED owed
            /\ DOMAIN connectionID' = Live'
            /\ \E number : /\ number \notin Live /\ Live' = Live \cup {number}
                           /\ connectionID'[number] = m.from
                           /\ \A id \in Live : connectionID'[id] = connectionID[id]
  PROVE  IsFiniteSet(toHandler') /\ OneAnswerEach'
<1>1. IsFiniteSet(toHandler')
  BY FS_RemoveElement DEF AnswerInv
<1>2. /\ owed \in [Requesters -> Int] /\ OneAnswerEach
      /\ DOMAIN connectionID = Live /\ m.from \in Requesters
  BY DEF AnswerInv, LookupInv, Typed, TypedLookups, TypedNode
<1>3. DOMAIN connectionID' = Live'
  BY <1>2 DEF Live
<1>4. ASSUME NEW c \in Requesters
      PROVE  owed'[c] = Cardinality(Served(c)') + Cardinality(Unread(c)')
  <2>1. owed[c] = Cardinality(Served(c)) + Cardinality(Unread(c))
    BY <1>2, Owed
  <2>2. CASE c = m.from
    <3>1. Unread(c)' = Unread(c) \ {m} /\ m \in Unread(c)
      BY <2>2 DEF Unread
    <3>2. Cardinality(Unread(c)') = Cardinality(Unread(c)) - 1
      BY <3>1, AnswersCounted, FS_RemoveElement
    <3>3. CASE /\ owed' = [owed EXCEPT ![m.from] = @ - 1]
               /\ UNCHANGED <<requests, connectionID>>
      <4>1. Served(c)' = Served(c)
        BY <3>3 DEF Served, Live
      <4>2. owed'[c] = owed[c] - 1
        BY <1>2, <2>2, <3>3
      <4> QED BY <2>1, <3>2, <4>1, <4>2, AnswersCounted
    <3>4. ASSUME UNCHANGED owed, NEW number, number \notin Live, Live' = Live \cup {number},
                 connectionID'[number] = m.from,
                 \A id \in Live : connectionID'[id] = connectionID[id]
          PROVE  owed'[c] = Cardinality(Served(c)') + Cardinality(Unread(c)')
      <4>1. Served(c)' = Served(c) \cup {number} /\ number \notin Served(c)
        BY <2>2, <3>4 DEF Served
      <4>2. Cardinality(Served(c)') = Cardinality(Served(c)) + 1
        BY <4>1, AnswersCounted, FS_AddElement
      <4> QED BY <2>1, <3>2, <3>4, <4>2, AnswersCounted
    <3> QED BY <3>3, <3>4
  <2>3. CASE c # m.from
    <3>1. Unread(c)' = Unread(c)
      BY <2>3 DEF Unread
    <3>2. owed'[c] = owed[c]
      BY <1>2, <2>3
    <3>3. Served(c)' = Served(c)
      BY <2>3 DEF Served, Live
    <3> QED BY <2>1, <3>1, <3>2, <3>3
  <2> QED BY <2>2, <2>3
<1> QED BY <1>1, <1>3, <1>4, OwedNext

\* A lookup that ends is answered, once.
LEMMA EndCounts ==
  ASSUME AnswerInv, NEW id \in Live, NEW owner, Ends(id, owner), UNCHANGED toHandler
  PROVE  IsFiniteSet(toHandler') /\ OneAnswerEach'
<1>1. /\ owed \in [Requesters -> Int] /\ OneAnswerEach
      /\ DOMAIN connectionID = Live /\ connectionID[id] \in Requesters
  BY DEF AnswerInv, LookupInv, Typed, TypedLookups, TypedNode
<1>2. /\ owed' = [owed EXCEPT ![connectionID[id]] = @ - 1]
      /\ Live' = Live \ {id} /\ DOMAIN connectionID' = Live'
      /\ \A other \in Live' : connectionID'[other] = connectionID[other]
  BY <1>1 DEF Ends, Reply, Without, Live
<1>3. ASSUME NEW c \in Requesters
      PROVE  owed'[c] = Cardinality(Served(c)') + Cardinality(Unread(c)')
  <2>1. Unread(c)' = Unread(c)
    BY DEF Unread
  <2>2. owed[c] = Cardinality(Served(c)) + Cardinality(Unread(c))
    BY <1>1, Owed
  <2>3. CASE c = connectionID[id]
    <3>1. Served(c)' = Served(c) \ {id} /\ id \in Served(c)
      BY <1>2, <2>3 DEF Served
    <3>2. Cardinality(Served(c)') = Cardinality(Served(c)) - 1
      BY <3>1, AnswersCounted, FS_RemoveElement
    <3>3. owed'[c] = owed[c] - 1
      BY <1>1, <1>2, <2>3
    <3> QED BY <2>1, <2>2, <3>2, <3>3, AnswersCounted
  <2>4. CASE c # connectionID[id]
    <3>1. Served(c)' = Served(c)
      BY <1>2, <2>4 DEF Served
    <3>2. owed'[c] = owed[c]
      BY <1>1, <1>2, <2>4
    <3> QED BY <2>1, <2>2, <3>1, <3>2
  <2> QED BY <2>3, <2>4
<1> QED BY <1>2, <1>3, OwedNext DEF AnswerInv

\* A lookup that moves to a new number keeps its requester.
LEMMA MoveCounts ==
  ASSUME AnswerInv, UNCHANGED <<owed, toHandler>>,
         NEW id \in Live, NEW number, number \notin Live,
         Live' = (Live \ {id}) \cup {number}, DOMAIN connectionID' = Live',
         connectionID'[number] = connectionID[id],
         \A other \in Live \ {id} : connectionID'[other] = connectionID[other]
  PROVE  IsFiniteSet(toHandler') /\ OneAnswerEach'
<1>1. OneAnswerEach /\ IsFiniteSet(toHandler')
  BY DEF AnswerInv
<1>2. ASSUME NEW c \in Requesters
      PROVE  owed'[c] = Cardinality(Served(c)') + Cardinality(Unread(c)')
  <2>1. Unread(c)' = Unread(c)
    BY DEF Unread
  <2>2. owed[c] = Cardinality(Served(c)) + Cardinality(Unread(c))
    BY <1>1, Owed
  <2>3. CASE c = connectionID[id]
    <3> DEFINE others == Served(c) \ {id}
    <3>1. Served(c)' = others \cup {number} /\ number \notin others /\ id \in Served(c)
      BY <2>3 DEF Served
    <3>2. IsFiniteSet(others) /\ Cardinality(others) = Cardinality(Served(c)) - 1
      BY <3>1, AnswersCounted, FS_RemoveElement
    <3> HIDE DEF others
    <3>3. Cardinality(Served(c)') = Cardinality(others) + 1
      BY <3>1, <3>2, FS_AddElement
    <3> QED BY <2>1, <2>2, <3>2, <3>3, AnswersCounted
  <2>4. CASE c # connectionID[id]
    <3>1. Served(c)' = Served(c)
      BY <2>4 DEF Served
    <3> QED BY <2>1, <2>2, <3>1
  <2> QED BY <2>3, <2>4
<1> QED BY <1>1, <1>2, OwedNext

\* What a send does to the maps, whatever is asked.
LEMMA SendMoves ==
  ASSUME Typed, NEW id, NEW r, NEW requester, NEW number, number \notin Live, NEW queue,
         sendFindPredecessorRequest(id, r, requester, number, queue)
  PROVE  /\ Live' = (Live \ {id}) \cup {number} /\ DOMAIN connectionID' = Live'
         /\ connectionID'[number] = requester
         /\ \A other \in Live \ {id} : connectionID'[other] = connectionID[other]
<1>1. /\ requests' = With(Without(requests, id), number, r)
      /\ connectionID' = With(Without(connectionID, id), number, requester)
  BY DEF sendFindPredecessorRequest
<1>2. DOMAIN connectionID = Live
  BY DEF Typed, TypedLookups
<1> QED BY <1>1, <1>2 DEF With, Without, Live

\* Numbers above the index are not in use.
LEMMA FreshNumbers ==
  ASSUME Typed
  PROVE  /\ nodeMessageNumberIndex + 1 \notin Live
         /\ nodeMessageNumberIndex + 1 + 1 \notin Live
         /\ \A m \in toHandler : m.number # nodeMessageNumberIndex + 1
<1>1. nodeMessageNumberIndex \in Nat /\ Live \subseteq 1 .. nodeMessageNumberIndex
  BY DEF Typed, TypedLookups
<1>2. /\ nodeMessageNumberIndex + 1 \notin 1 .. nodeMessageNumberIndex
      /\ nodeMessageNumberIndex + 1 + 1 \notin 1 .. nodeMessageNumberIndex
      /\ nodeMessageNumberIndex + 1 \notin 0 .. nodeMessageNumberIndex
  BY <1>1
<1>3. \A m \in toHandler : m.number \in 0 .. nodeMessageNumberIndex
  BY DEF Typed, TypedNode
<1> QED BY <1>1, <1>2, <1>3

LEMMA SendCounts ==
  ASSUME AnswerInv, NEW id \in Live, NEW r, NEW queue, UNCHANGED <<owed, toHandler>>,
         sendFindPredecessorRequest(id, r, connectionID[id], nodeMessageNumberIndex + 1, queue)
  PROVE  IsFiniteSet(toHandler') /\ OneAnswerEach'
<1>1. Typed /\ nodeMessageNumberIndex + 1 \notin Live
  BY FreshNumbers DEF AnswerInv, LookupInv
<1> QED BY <1>1, SendMoves, MoveCounts

\* Where no lookup, no request and no reply is touched, nothing is owed anew.
LEMMA OtherCounts ==
  ASSUME AnswerInv, UNCHANGED <<connectionID, toHandler, owed>>, Live' = Live
  PROVE  IsFiniteSet(toHandler') /\ OneAnswerEach'
BY DEF AnswerInv, OneAnswerEach, Live

LEMMA AsksCounts ==
  ASSUME AnswerInv, NEW c \in Clients, NEW address \in Addresses, Asks(c, address)
  PROVE  IsFiniteSet(toHandler') /\ OneAnswerEach'
<1> DEFINE m == [from |-> c, address |-> address, number |-> NoNumber]
<1>1. /\ owed[c] = 0 /\ c \in Requesters /\ m.from = c
      /\ toHandler' = toHandler \cup {m} /\ owed' = [owed EXCEPT ![m.from] = @ + 1]
      /\ UNCHANGED <<requests, connectionID>>
  BY Constants DEF Asks, lookupVars
<1>2. m \notin toHandler
  <2>1. Cardinality(Unread(c)) = 0
    BY <1>1, Owed, AnswersCounted DEF AnswerInv
  <2>2. Unread(c) = {}
    BY <2>1, AnswersCounted, FS_EmptySet
  <2> QED BY <1>1, <2>2 DEF Unread
<1> HIDE DEF m
<1> QED BY <1>1, <1>2, RequestCounts

LEMMA UpdateCounts ==
  ASSUME AnswerInv, NEW i \in Fingers, updateFingerTable(i)
  PROVE  IsFiniteSet(toHandler') /\ OneAnswerEach'
<1> DEFINE m == [from |-> chordID, address |-> Table(best)!Target(i),
                 number |-> nodeMessageNumberIndex + 1]
<1>1. /\ m.from = chordID /\ chordID \in Requesters /\ m.number = nodeMessageNumberIndex + 1
      /\ toHandler' = toHandler \cup {m} /\ owed' = [owed EXCEPT ![m.from] = @ + 1]
      /\ UNCHANGED <<requests, connectionID>>
  BY Constants DEF updateFingerTable
<1>2. m \notin toHandler
  BY <1>1, FreshNumbers DEF AnswerInv, LookupInv
<1> HIDE DEF m
<1> QED BY <1>1, <1>2, RequestCounts

LEMMA FindCounts ==
  ASSUME AnswerInv, NEW m \in toHandler, processFindNodeAssociatedWithAddressRequest(m)
  PROVE  IsFiniteSet(toHandler') /\ OneAnswerEach'
<1> DEFINE predecessor == Table(best)!getClosestPredecessors(m.address, 1)[1]
           id == nodeMessageNumberIndex + 1
           r  == NewRequest(m.address, predecessor, m.number)
<1>1. toHandler' = toHandler \ {m}
  BY DEF processFindNodeAssociatedWithAddressRequest
<1>2. CASE /\ Reply(m.from, successorID, m.number)
           /\ UNCHANGED <<requests, connectionID, eventQueue, network>>
  BY <1>1, <1>2, ReadingCounts DEF Reply
<1>3. CASE /\ sendFindPredecessorRequest(id, r, m.from, id + 1, eventQueue)
           /\ UNCHANGED <<toDealer, owed>>
  <2>1. id \notin Live /\ id + 1 \notin Live /\ Typed
    BY FreshNumbers DEF AnswerInv, LookupInv
  <2> HIDE DEF id, r
  <2>2. /\ Live' = Live \cup {id + 1} /\ DOMAIN connectionID' = Live'
        /\ connectionID'[id + 1] = m.from
        /\ \A other \in Live : connectionID'[other] = connectionID[other]
    BY <1>3, <2>1, SendMoves
  <2> QED BY <1>1, <1>3, <2>1, <2>2, ReadingCounts
<1> QED BY <1>2, <1>3 DEF processFindNodeAssociatedWithAddressRequest

LEMMA SuccessorCounts ==
  ASSUME AnswerInv, NEW m \in network, NEW owner \in Nodes, ProcessesSuccessor(m, owner)
  PROVE  IsFiniteSet(toHandler') /\ OneAnswerEach'
<1>1. m.id \in Live /\ UNCHANGED toHandler
  BY DEF ProcessesSuccessor, Live
<1>2. CASE Ends(m.id, owner)
  BY <1>1, <1>2, EndCounts
<1>3. CASE /\ requests' = [requests EXCEPT ![m.id].seen[Top(requests[m.id])].bad = MaximumBadReferences]
           /\ UNCHANGED <<connectionID, toDealer, owed>>
  <2>1. Live' = Live
    BY <1>3 DEF Live
  <2> QED BY <1>1, <1>3, <2>1, OtherCounts
<1> QED BY <1>2, <1>3 DEF ProcessesSuccessor

LEMMA PredecessorsCounts ==
  ASSUME AnswerInv, NEW m \in network, NEW p \in Nodes, ProcessesPredecessors(m, p)
  PROVE  IsFiniteSet(toHandler') /\ OneAnswerEach'
<1>1. m.id \in Live /\ UNCHANGED toHandler
  BY DEF ProcessesPredecessors, Live
<1>2. \/ Ends(m.id, NoOwner)
      \/ \E r : /\ sendFindPredecessorRequest(m.id, r, connectionID[m.id],
                                              nodeMessageNumberIndex + 1, eventQueue)
                /\ UNCHANGED <<toDealer, owed>>
  BY DEF ProcessesPredecessors
<1> QED BY <1>1, <1>2, EndCounts, SendCounts

LEMMA EventCounts ==
  ASSUME AnswerInv, processEvent
  PROVE  IsFiniteSet(toHandler') /\ OneAnswerEach'
<1>1. PICK i \in DOMAIN eventQueue : Resends(i) \/ FallsBack(i) \/ GivesUp(i)
  BY DEF processEvent
<1> DEFINE id == eventQueue[i]
<1>2. id \in Live
  BY <1>1 DEF Resends, FallsBack, GivesUp, Due, Live
<1>3. CASE Resends(i)
  <2>1. /\ sendFindPredecessorRequest(id, Resent(requests[id]), connectionID[id],
                                      nodeMessageNumberIndex + 1, EventsAfter(i))
        /\ UNCHANGED <<owed, toHandler>>
    BY <1>3 DEF Resends, socketVars
  <2> QED BY <1>2, <2>1, SendCounts
<1>4. CASE FallsBack(i)
  <2>1. \E r : sendFindPredecessorRequest(id, r, connectionID[id],
                                          nodeMessageNumberIndex + 1, EventsAfter(i))
    BY <1>4 DEF FallsBack
  <2>2. UNCHANGED <<owed, toHandler>>
    BY <1>4 DEF FallsBack, socketVars
  <2> QED BY <1>2, <2>1, <2>2, SendCounts
<1>5. CASE GivesUp(i)
  BY <1>2, <1>5, EndCounts DEF GivesUp
<1> QED BY <1>1, <1>3, <1>4, <1>5

LEMMA InitAnswerInv == Init => AnswerInv
<1> SUFFICES ASSUME Init PROVE AnswerInv
  OBVIOUS
<1>1. /\ toHandler = {} /\ Live = {} /\ DOMAIN connectionID = Live
      /\ \A c \in Requesters : owed[c] = 0
  BY DEF Init, Live
<1>2. IsFiniteSet(toHandler)
  BY <1>1, FS_EmptySet
<1>3. ASSUME NEW c \in Requesters
      PROVE  owed[c] = Cardinality({id \in Live : connectionID[id] = c})
                       + Cardinality({m \in toHandler : m.from = c})
  <2>1. {id \in Live : connectionID[id] = c} = {} /\ {m \in toHandler : m.from = c} = {}
    BY <1>1
  <2> QED BY <1>1, <2>1, FS_EmptySet
<1> QED BY <1>1, <1>2, <1>3, InitLookupInv DEF AnswerInv, OneAnswerEach

LEMMA NextAnswerInv == AnswerInv /\ [Next]_vars => AnswerInv'
<1> SUFFICES ASSUME AnswerInv, [Next]_vars PROVE IsFiniteSet(toHandler') /\ OneAnswerEach'
  BY NextLookupInv DEF AnswerInv
<1>1. ASSUME NEW id \in HeardOf, Hears(id) PROVE IsFiniteSet(toHandler') /\ OneAnswerEach'
  BY <1>1, OtherCounts DEF Hears, lookupVars, socketVars, Live
<1>2. ASSUME NEW c \in Clients, NEW address \in Addresses, Asks(c, address)
      PROVE  IsFiniteSet(toHandler') /\ OneAnswerEach'
  BY <1>2, AsksCounts
<1>3. ASSUME NEW i \in Fingers, updateFingerTable(i)
      PROVE  IsFiniteSet(toHandler') /\ OneAnswerEach'
  BY <1>3, UpdateCounts
<1>4. ASSUME NEW m \in toHandler, processFindNodeAssociatedWithAddressRequest(m)
      PROVE  IsFiniteSet(toHandler') /\ OneAnswerEach'
  BY <1>4, FindCounts
<1>5. CASE processFindAddressOwnerRequestReply
  BY <1>5, OtherCounts DEF processFindAddressOwnerRequestReply, lookupVars, Live
<1>6. ASSUME NEW m \in network, processClosestPredecessorRequestReply(m)
      PROVE  IsFiniteSet(toHandler') /\ OneAnswerEach'
  BY <1>6, SuccessorCounts, PredecessorsCounts DEF processClosestPredecessorRequestReply
<1>7. CASE processEvent
  BY <1>7, EventCounts
<1>9. CASE UNCHANGED vars
  BY <1>9, OtherCounts DEF vars, lookupVars, socketVars, Live
<1>8. ASSUME NEW c \in Clients, IgnoresRequest(c) PROVE IsFiniteSet(toHandler') /\ OneAnswerEach'
  BY <1>8, OtherCounts DEF IgnoresRequest, lookupVars, Live
<1> QED BY <1>1, <1>2, <1>3, <1>4, <1>5, <1>6, <1>7, <1>8, <1>9 DEF Next

\* Every request is answered at most once, and is owed its answer until then: what a
\* requester is owed is just its lookups and what it sent that is not read yet.
THEOREM EachRequestHasOneAnswer == Spec => []OneAnswerEach
<1>1. AnswerInv => OneAnswerEach
  BY DEF AnswerInv
<1> QED BY <1>1, InitAnswerInv, NextAnswerInv, PTL DEF Spec
=============================================================================
