---------------------------- MODULE FingerTable ----------------------------
(***************************************************************************)
(* The finger table of a node of the Chord prototype (fingerTable): the    *)
(* best known node for each finger, the successor and the predecessor,     *)
(* and the structures queries are answered from, which hold a node for as  *)
(* long as its reference count is above zero.                              *)
(*                                                                         *)
(* An id is an unsigned integer of IDBits bits (512 in the code), its      *)
(* subtraction wraps around.  What is known of a node besides its id is    *)
(* one value, its contact.  The flag is_stale of a contact is left out: no *)
(* code sets it, so both flags checkAndUpdateIfBetter reads are false.  So *)
(* are ids of a wrong size, which every operation ignores.                 *)
(***************************************************************************)
EXTENDS Integers, FiniteSets

CONSTANTS
    IDBits,           \* width of an id
    FingerTableSize,  \* FINGER_TABLE_SIZE
    chordID,          \* the id of the table's own node
    Nodes,            \* ids of nodes the table may hear of, its own one included
    Contacts,         \* ip, port and virtual port, as one value
    SelfContact,      \* the contact the node knows for itself at the start
    NoContact         \* no entry in idToContactInfo

Modulus == 2 ^ IDBits
IDs     == 0 .. (Modulus - 1)
Fingers == 0 .. (FingerTableSize - 1)
Successor   == FingerTableSize       \* successorID and predecessorID are counted
Predecessor == FingerTableSize + 1   \* like fingers: one index more for each
Slots == 0 .. Predecessor

\* targetChordAddresses: the upper halves of the ring, each half of the one before.
Target(i) == (chordID + 2 ^ (IDBits - FingerTableSize + i)) % Modulus

ASSUME FingerTableAssumption ==
    /\ IDBits \in Nat \ {0}
    /\ Modulus \in Nat \ {0}
    /\ FingerTableSize \in 0 .. (IDBits - 1)
    /\ Nodes \subseteq IDs
    /\ chordID \in Nodes
    /\ SelfContact \in Contacts
    /\ NoContact \notin Contacts
    /\ \A i \in Fingers : Target(i) \in IDs

VARIABLES
    best,               \* slot -> id: bestChordAddressMatchIDs, successorID, predecessorID
    IDReferenceCounts,  \* id -> count; 0 when the map has no entry
    idToContactInfo,    \* id -> contact
    checked,            \* history: nodes checked, held since, and not reported since
    resolved            \* history: fingers that took the result of a lookup

vars == <<best, IDReferenceCounts, idToContactInfo, checked, resolved>>

\* knownIDs: inserted and erased together with the counts.
knownIDs == {id \in Nodes : IDReferenceCounts[id] > 0}

-----------------------------------------------------------------------------
(***************************************************************************)
(* Distances and searches                                                  *)
(***************************************************************************)

\* Unsigned subtraction.
Minus(a, b) == IF b <= a THEN a - b ELSE a - b + Modulus

Least(S)    == CHOOSE x \in S : \A y \in S : x <= y
Greatest(S) == CHOOSE x \in S : \A y \in S : y <= x

\* Mutant: lower_bound in place of upper_bound.
NextFromHere(id) ==
    LET above == {known \in knownIDs : known >= id}
    IN  IF above = {} THEN Least(knownIDs) ELSE Least(above)

\* One round of getClosestSuccessors: upper_bound, or the lowest id when there is none.
NextKnown(id) ==
    LET above == {known \in knownIDs : known > id}
    IN  IF above = {} THEN Least(knownIDs) ELSE Least(above)

\* One round of getClosestPredecessors: lower_bound finds no id below the one searched, so
\* the test of line 116 holds whether or not it finds one, and the highest id is taken.
PreviousKnown(id) ==
    LET notBelow == {known \in knownIDs : known >= id}
    IN  IF notBelow = {} \/ id <= Least(notBelow) THEN Greatest(knownIDs) ELSE Least(notBelow)

\* The list getClosestSuccessors returns for n nodes: each round starts at the last result.
getClosestSuccessors(id, n) ==
    LET found[i \in 1 .. n] == NextKnown(IF i = 1 THEN id ELSE found[i - 1]) IN found

getClosestPredecessors(id, n) ==
    LET found[i \in 1 .. n] == PreviousKnown(IF i = 1 THEN id ELSE found[i - 1]) IN found

-----------------------------------------------------------------------------
(***************************************************************************)
(* References                                                              *)
(***************************************************************************)

\* Mutant: a node that has an entry already is not counted again.
AddedOnce(id, count, n) == IF count > 0 THEN count ELSE n

\* addQueryNodeInfo for each of n slots.
Added(id, count, n) == count + n

\* Mutant: the entry goes when one reference is left.
RemovedEarly(count, n) == IF n > 0 /\ count <= n + 1 THEN 0 ELSE count - n

\* removeQueryNodeInfo for each of n slots; nothing is removed from a missing entry.
Removed(count, n) == IF count <= n THEN 0 ELSE count - n

\* The slots that hold an id.
Holding(slots, id) == {s \in slots : best[s] = id}

\* replaceQueryNodeInfo for each slot taken: first the new node is added, then the one
\* that was in the slot is removed.  A node's contact changes when it is added, and goes
\* with its last reference.
Assign(taken, id, contact) ==
    LET count(other) ==
            Removed(IF other = id THEN Added(id, IDReferenceCounts[id], Cardinality(taken))
                                  ELSE IDReferenceCounts[other],
                    Cardinality(Holding(taken, other)))
    IN  /\ best' = [s \in Slots |-> IF s \in taken THEN id ELSE best[s]]
        /\ IDReferenceCounts' = [other \in Nodes |-> count(other)]
        /\ idToContactInfo' = [other \in Nodes |->
                                  IF count(other) = 0 THEN NoContact
                                  ELSE IF other = id /\ taken # {} THEN contact
                                  ELSE idToContactInfo[other]]

-----------------------------------------------------------------------------
(***************************************************************************)
(* Operations                                                              *)
(***************************************************************************)

\* The constructor counts the own node once for itself, and once for every slot.
Init ==
    /\ best = [s \in Slots |-> chordID]
    /\ IDReferenceCounts = [id \in Nodes |-> IF id = chordID THEN FingerTableSize + 3 ELSE 0]
    /\ idToContactInfo = [id \in Nodes |-> IF id = chordID THEN SelfContact ELSE NoContact]
    /\ checked = {chordID}
    /\ resolved = {}

\* Mutant: the distance is measured from the target upwards.
BetterAbove(i, id) == Minus(best[i], Target(i)) > Minus(id, Target(i))

\* Closer below the finger's target than its present entry.
BetterFinger(i, id) == Minus(Target(i), best[i]) > Minus(Target(i), id)

\* Mutant: the own id, which stands for "none yet", is not recognised.
BetterSuccessorThanSelf(id) ==
    Minus(best[Successor], chordID) > Minus(id, chordID) /\ id # chordID

BetterSuccessor(id) ==
    \/ Minus(best[Successor], chordID) > Minus(id, chordID) /\ id # chordID
    \/ best[Successor] = chordID

BetterPredecessor(id) ==
    \/ Minus(chordID, best[Predecessor]) > Minus(chordID, id) /\ id # chordID
    \/ best[Predecessor] = chordID

\* The slots a node is the better choice for.
Improved(id) ==
    {i \in Fingers : BetterFinger(i, id)}
    \cup {s \in {Successor} : BetterSuccessor(id)}
    \cup {s \in {Predecessor} : BetterPredecessor(id)}

\* For every node a message comes from or names.
checkAndUpdateIfBetter(id, contact) ==
    /\ Assign(Improved(id), id, contact)
    /\ checked' = {known \in checked \cup {id} : IDReferenceCounts'[known] > 0}
    /\ UNCHANGED resolved

\* A lookup for the target of a finger has found the address's owner.
updateChordMatch(i, id, contact) ==
    /\ Assign({i}, id, contact)
    /\ checked' = {known \in checked : IDReferenceCounts'[known] > 0}
    /\ resolved' = resolved \cup {i}

\* The loop over the fingers runs from begin to begin (line 289) and replaces none.
Replaced(id) == Holding({Predecessor, Successor}, id)

\* A node did not answer: the next known node after it takes its slots, also the
\* predecessor's.
replaceWithNextBestOption(id) ==
    /\ id # chordID
    /\ LET next == getClosestSuccessors(id, 1)[1]
       IN  Assign(Replaced(id), next, idToContactInfo[next])
    /\ checked' = {known \in checked \ {id} : IDReferenceCounts'[known] > 0}
    /\ UNCHANGED resolved

Next ==
    \/ \E id \in Nodes, contact \in Contacts : checkAndUpdateIfBetter(id, contact)
    \/ \E i \in Fingers, id \in Nodes, contact \in Contacts : updateChordMatch(i, id, contact)
    \/ \E id \in Nodes : replaceWithNextBestOption(id)

Spec == Init /\ [][Next]_vars

-----------------------------------------------------------------------------
(***************************************************************************)
(* Properties                                                              *)
(***************************************************************************)

\* Every variable has its type: only nodes heard of are in slots.
TypeOK ==
    /\ best \in [Slots -> Nodes]
    /\ IDReferenceCounts \in [Nodes -> Nat]
    /\ idToContactInfo \in [Nodes -> Contacts \cup {NoContact}]
    /\ checked \subseteq Nodes
    /\ resolved \subseteq Fingers

\* A node's count is the number of slots that hold it, and one more for the own node: no
\* reference is lost or left behind, whatever is replaced by whatever, itself included.
ReferencesCounted ==
    \A id \in Nodes :
        IDReferenceCounts[id] =
            Cardinality(Holding(Slots, id)) + (IF id = chordID THEN 1 ELSE 0)

\* selfContactInfo, successorContactInfo and predecessorContactInfo never throw, and no
\* entry stands for a node without contact: what a slot holds can be contacted.
ContactsHeld ==
    /\ idToContactInfo[chordID] # NoContact
    /\ \A s \in Slots : idToContactInfo[best[s]] # NoContact

\* Clockwise distance; from an id to itself it is a full turn.
After(id, other) == IF other > id THEN other - id ELSE other - id + Modulus

\* Of the nodes that were checked, are still held and were not reported since, none is
\* closer behind this node than its successor, even after replacements; this node itself
\* counts as the farthest.
SuccessorIsClosest ==
    \A id \in checked : After(chordID, best[Successor]) <= After(chordID, id)

\* The same for a finger below its target, unless a lookup has set it: no node that was
\* checked and is still held would be a better match.
FingersAreClosest ==
    \A i \in Fingers \ resolved, id \in checked :
        Minus(Target(i), best[i]) <= Minus(Target(i), id)

\* getClosestSuccessors lists known nodes in the order of their distance and skips none,
\* also where the ring wraps around and when the list is longer than the table.
SuccessorsInOrder ==
    \A id \in IDs :
        LET found == getClosestSuccessors(id, Cardinality(Nodes) + 1)
            from(i) == IF i = 1 THEN id ELSE found[i - 1]
        IN  \A i \in DOMAIN found :
                /\ found[i] \in knownIDs
                /\ \A known \in knownIDs : After(from(i), found[i]) <= After(from(i), known)
=============================================================================
