---------------------- MODULE LocalURIDatabase_proofs ----------------------
(***************************************************************************)
(* Proofs about LocalURIDatabase, and about LocalURIServerSingleton, which *)
(* serves it, for every set of names, keys, URIs, queries and clients, and *)
(* every bound on the row ids.                                             *)
(***************************************************************************)
EXTENDS LocalURIServerSingleton, TLAPS, WellFoundedInduction, FiniteSetTheorems

\* A non-empty set of naturals has a least element: the intervals up to its members
\* are ordered by inclusion, which is well-founded on finite sets.
LEMMA LeastElement ==
  ASSUME NEW T \in SUBSET Nat, T # {}
  PROVE  \E n \in T : \A m \in T : n <= m
<1>1. PICK k \in T : TRUE
  OBVIOUS
<1> DEFINE S == 1 .. k
           F == {1 .. n : n \in {x \in T : x <= k}}
<1>2. F # {} /\ F \subseteq FiniteSubsetsOf(S)
  <2>1. \A n \in Nat : IsFiniteSet(1 .. n)
    BY FS_Interval
  <2> QED BY <2>1, <1>1 DEF FiniteSubsetsOf
<1>3. PICK X \in F : \A Y \in F : ~ (<<Y, X>> \in StrictSubsetOrdering(S))
  <2> HIDE DEF F, S
  <2> QED BY <1>2, FS_StrictSubsetOrderingWellFounded, WFMin, Zenon
<1>4. PICK n \in T : n <= k /\ X = 1 .. n
  BY <1>3
<1>5. SUFFICES ASSUME NEW m \in T, m < n PROVE FALSE
  BY <1>4
<1>6. 1 .. m \in F
  BY <1>4, <1>5
<1>7. 1 .. m \subseteq 1 .. n /\ n \in 1 .. n /\ n \notin 1 .. m /\ 1 .. n \subseteq S
  BY <1>4, <1>5
<1> QED BY <1>3, <1>4, <1>6, <1>7, Zenon DEF StrictSubsetOrdering

\* The row id SQLite picks is above every id in use, so it is nobody's.
LEMMA NewIDIsFresh ==
  ASSUME TypeOK
  PROVE  NewID \in 1 .. (MaxURIID + 1) /\ NewID \notin DOMAIN uris
<1> DEFINE Above == {id \in Nat \ {0} : \A used \in DOMAIN uris : used < id}
<1>1. MaxURIID \in Nat /\ DOMAIN uris \subseteq 1 .. MaxURIID
  BY DatabaseAssumption DEF TypeOK
<1>2. MaxURIID + 1 \in Above
  BY <1>1
<1>3. PICK id \in Above : \A m \in Above : id <= m
  BY <1>2, LeastElement
<1>4. id \in 1 .. (MaxURIID + 1) /\ \A used \in DOMAIN uris : used < id
  BY <1>1, <1>2, <1>3
<1>5. id = 1 \/ id - 1 \in DOMAIN uris
  <2>1. SUFFICES ASSUME id # 1 PROVE id - 1 \in DOMAIN uris
    OBVIOUS
  <2>2. id - 1 \in Nat \ {0} /\ id - 1 \notin Above
    BY <2>1, <1>3
  <2>3. PICK used \in DOMAIN uris : ~ (used < id - 1)
    BY <2>2
  <2> QED BY <1>1, <1>3, <1>4, <2>2, <2>3
<1>6. NewID \in 1 .. (MaxURIID + 1) /\ \A used \in DOMAIN uris : used < NewID
  BY <1>4, <1>5 DEF NewID
<1> QED BY <1>1, <1>6

LEMMA SuppliedSequence ==
  ASSUME NEW u \in LocalURIs, NEW kind \in Kinds
  PROVE  /\ u.attributes[kind] \in Seq([key : Keys, value : Int \cup {NaN}])
         /\ DOMAIN u.attributes[kind] = 1 .. Len(u.attributes[kind])
         /\ Len(u.attributes[kind]) \in Nat
<1>1. u.attributes[kind] \in Seq([key : Keys, value : Int \cup {NaN}])
  BY DatabaseAssumption DEF LocalURI
<1> QED BY <1>1

\* What addURI puts in an attribute table: rows of the new id, taken from the list.
LEMMA NewRowsShape ==
  ASSUME TypeOK, NEW u \in LocalURIs, NEW kind \in Kinds, NEW row \in NewRows(u, kind)
  PROVE  /\ row \in Row
         /\ row.uri = NewID
         /\ \E i \in Stored(u, kind) :
                /\ row.key = u.attributes[kind][i].key
                /\ row.value = u.attributes[kind][i].value
<1>1. u.attributes[kind] \in Seq([key : Keys, value : Int \cup {NaN}])
  BY SuppliedSequence
<1>2. PICK i \in Stored(u, kind) :
         row = [uri |-> NewID, key |-> u.attributes[kind][i].key,
                value |-> u.attributes[kind][i].value]
  BY DEF NewRows
<1>3. u.attributes[kind][i] \in [key : Keys, value : Int \cup {NaN}]
  <2>1. i \in DOMAIN u.attributes[kind]
    BY DEF Stored, Attempts
  <2>2. \A X : \A s \in Seq(X) : \A k \in DOMAIN s : s[k] \in X
    OBVIOUS
  <2> QED BY <1>1, <2>1, <2>2, Zenon
<1>4. NewID \in Nat \ {0}
  BY NewIDIsFresh, DatabaseAssumption
<1> QED BY <1>2, <1>3, <1>4 DEF Row

-----------------------------------------------------------------------------
\* No operation breaks a type.
LEMMA TypeStep ==
  ASSUME TypeOK, [Next]_dbvars
  PROVE  TypeOK'
<1>1. CASE UNCHANGED dbvars
  BY <1>1 DEF TypeOK, dbvars
<1>2. ASSUME NEW u \in LocalURIs, addURI(u) PROVE TypeOK'
  <2>1. u \in LocalURI
    BY DatabaseAssumption
  <2>3. CASE AddNotStepped(u)
    BY <1>1, <2>3 DEF AddNotStepped
  <2>4. CASE AddConflict(u)
    BY <2>4 DEF TypeOK, AddConflict, Statements
  <2>5. CASE AddStored(u)
    <3>1. [name |-> u.name, path |-> u.path, pid |-> u.pid] \in Base
      BY <2>1 DEF LocalURI, Base
    <3>2. NewID \in 1 .. MaxURIID
      BY <2>5, NewIDIsFresh, DatabaseAssumption DEF AddStored
    <3>3. (uris \in UNION {[ids -> Base] : ids \in SUBSET (1 .. MaxURIID)})'
      BY <2>5, <3>1, <3>2 DEF TypeOK, AddStored
    <3>4. (tables \in [Kinds -> SUBSET Row])'
      BY <2>5, NewRowsShape DEF TypeOK, AddStored
    <3>5. (stepped \subseteq Statements)'
      BY <2>5 DEF TypeOK, AddStored, Statements
    <3> QED BY <3>3, <3>4, <3>5 DEF TypeOK
  <2> QED BY <1>2, <2>3, <2>4, <2>5 DEF addURI
<1>3. ASSUME NEW ids, Delete(ids) PROVE TypeOK'
  BY <1>3 DEF TypeOK, Delete
<1> QED BY <1>1, <1>2, <1>3 DEF Next, removeURI, removeURIByID

\* The empty table has the type of URIs.
LEMMA EmptyTypes ==
  [id \in {} |-> {}] \in UNION {[ids -> Base] : ids \in SUBSET (1 .. MaxURIID)}
<1>1. [id \in {} |-> {}] \in [{} -> Base]
  OBVIOUS
<1>2. {} \in SUBSET (1 .. MaxURIID)
  OBVIOUS
<1> QED BY <1>1, <1>2

LEMMA InitialTypes == Init => TypeOK
BY EmptyTypes DEF Init, TypeOK

\* Every reachable state has its type, whatever is added and removed.
THEOREM TypeCorrect == Spec => []TypeOK
<1>1. Init => TypeOK
  BY InitialTypes
<1>2. TypeOK /\ [Next]_dbvars => TypeOK'
  BY TypeStep
<1> QED BY <1>1, <1>2, PTL DEF Spec

-----------------------------------------------------------------------------
\* A delete takes the rows with it (Delete), and an insert only adds rows of the new
\* URI (NewRowsShape).
LEMMA IntegrityStep ==
  ASSUME TypeOK, ReferentialIntegrity, [Next]_dbvars
  PROVE  ReferentialIntegrity'
<1>1. CASE UNCHANGED <<uris, tables>>
  BY <1>1 DEF ReferentialIntegrity
<1>2. ASSUME NEW u \in LocalURIs, AddStored(u) PROVE ReferentialIntegrity'
  <2>1. DOMAIN uris' = DOMAIN uris \cup {NewID}
    BY <1>2 DEF AddStored
  <2>2. \A kind \in Kinds : tables'[kind] = tables[kind] \cup NewRows(u, kind)
    BY <1>2 DEF AddStored
  <2> QED BY <2>1, <2>2, NewRowsShape DEF ReferentialIntegrity
<1>3. ASSUME NEW ids, Delete(ids) PROVE ReferentialIntegrity'
  BY <1>3 DEF ReferentialIntegrity, Delete
<1> QED BY <1>1, <1>2, <1>3
        DEF Next, addURI, AddNotStepped, AddConflict, removeURI, removeURIByID, dbvars

\* ReferentialIntegrity is inductive given the types: a delete takes the rows with
\* it (Delete), and an insert only adds rows of the new URI (NewRowsShape).
THEOREM IntegrityHolds == Spec => []ReferentialIntegrity
<1>1. Init => ReferentialIntegrity
  BY DEF Init, ReferentialIntegrity
<1>2. TypeOK /\ ReferentialIntegrity /\ [Next]_dbvars => ReferentialIntegrity'
  BY IntegrityStep
<1> QED BY <1>1, <1>2, TypeCorrect, PTL DEF Spec

\* The rows one addURI stores have different keys (RowConflicts).
LEMMA NewRowsDiffer ==
  ASSUME TypeOK, NEW u \in LocalURIs, NEW kind \in Kinds,
         NEW r1 \in NewRows(u, kind), NEW r2 \in NewRows(u, kind), r1.key = r2.key
  PROVE  r1 = r2
<1> DEFINE supplied == u.attributes[kind]
           At(i) == [uri |-> NewID, key |-> supplied[i].key, value |-> supplied[i].value]
<1>1. PICK i \in Stored(u, kind), j \in Stored(u, kind) : r1 = At(i) /\ r2 = At(j)
  BY DEF NewRows
<1>2. Stored(u, kind) \subseteq Nat \ {0}
  BY SuppliedSequence DEF Stored, Attempts
<1>3. ASSUME NEW a \in Stored(u, kind), NEW b \in Stored(u, kind), a < b
      PROVE  supplied[a].key # supplied[b].key
  <2>1. Inserts(u, kind, b) /\ a \in 1 .. (b - 1)
    BY <1>2, <1>3 DEF Stored
  <2> QED BY <2>1 DEF Inserts, RowConflicts
<1>4. i = j
  BY <1>1, <1>2, <1>3
<1> QED BY <1>1, <1>4

\* SQLite refuses a name or path in use, and the rows of the new URI differ in key
\* from each other (NewRowsDiffer) and in id from all that are there.
LEMMA ConstraintsStep ==
  ASSUME TypeOK, ReferentialIntegrity, SchemaConstraints, [Next]_dbvars
  PROVE  SchemaConstraints'
<1>1. CASE UNCHANGED <<uris, tables>>
  BY <1>1 DEF SchemaConstraints
<1>2. ASSUME NEW u \in LocalURIs, AddStored(u) PROVE SchemaConstraints'
  <2>1. NewID \notin DOMAIN uris
    BY NewIDIsFresh
  <2>2. /\ DOMAIN uris' = DOMAIN uris \cup {NewID}
        /\ uris'[NewID].name = u.name /\ uris'[NewID].path = u.path
        /\ \A id \in DOMAIN uris : uris'[id] = uris[id]
    BY <1>2, <2>1 DEF AddStored
  <2>3. \A id \in DOMAIN uris : uris[id].name # u.name /\ uris[id].path # u.path
    BY <1>2 DEF AddStored, BaseConflicts
  <2>4. \A a, b \in DOMAIN uris' :
          a # b => uris'[a].name # uris'[b].name /\ uris'[a].path # uris'[b].path
    BY <2>2, <2>3 DEF SchemaConstraints
  <2>5. ASSUME NEW kind \in Kinds, NEW r1 \in tables'[kind], NEW r2 \in tables'[kind],
               r1.uri = r2.uri, r1.key = r2.key
        PROVE  r1 = r2
    <3>1. tables'[kind] = tables[kind] \cup NewRows(u, kind)
      BY <1>2 DEF AddStored
    <3>2. \A row \in NewRows(u, kind) : row.uri = NewID
      BY NewRowsShape
    <3>3. \A row \in tables[kind] : row.uri # NewID
      BY <2>1 DEF ReferentialIntegrity
    <3>4. CASE r1 \in tables[kind] /\ r2 \in tables[kind]
      BY <2>5, <3>4 DEF SchemaConstraints
    <3>5. CASE r1 \in NewRows(u, kind) /\ r2 \in NewRows(u, kind)
      BY <2>5, <3>5, NewRowsDiffer
    <3> QED BY <2>5, <3>1, <3>2, <3>3, <3>4, <3>5
  <2> QED BY <2>4, <2>5 DEF SchemaConstraints
<1>3. ASSUME NEW ids, Delete(ids) PROVE SchemaConstraints'
  BY <1>3 DEF SchemaConstraints, Delete
<1> QED BY <1>1, <1>2, <1>3
        DEF Next, addURI, AddNotStepped, AddConflict, removeURI, removeURIByID, dbvars

\* SchemaConstraints is inductive given integrity: SQLite refuses a name or path in
\* use, and the rows of the new URI differ in key from each other (NewRowsDiffer)
\* and in id from all that are there.
THEOREM ConstraintsHold == Spec => []SchemaConstraints
<1>1. Init => SchemaConstraints
  BY DEF Init, SchemaConstraints
<1>2. TypeOK /\ ReferentialIntegrity /\ SchemaConstraints /\ [Next]_dbvars => SchemaConstraints'
  BY ConstraintsStep
<1> QED BY <1>1, <1>2, TypeCorrect, IntegrityHolds, PTL DEF Spec

-----------------------------------------------------------------------------
\* What a step leaves alone: rows and bases of the URIs that stay.
LEMMA OthersUntouched ==
  ASSUME TypeOK, ReferentialIntegrity, [Next]_dbvars,
         NEW id \in DOMAIN uris, id \in DOMAIN uris'
  PROVE  getLocalURI(id)' = getLocalURI(id)
<1>1. SUFFICES /\ uris'[id] = uris[id]
               /\ \A kind \in Kinds : {r \in tables'[kind] : r.uri = id}
                                    = {r \in tables[kind] : r.uri = id}
  BY Zenon DEF getLocalURI
<1>2. CASE UNCHANGED <<uris, tables>>
  BY <1>2
<1>3. ASSUME NEW u \in LocalURIs, AddStored(u)
      PROVE  /\ uris'[id] = uris[id]
             /\ \A kind \in Kinds : {r \in tables'[kind] : r.uri = id}
                                  = {r \in tables[kind] : r.uri = id}
  <2>1. id # NewID
    BY NewIDIsFresh
  <2>2. \A kind \in Kinds : tables'[kind] = tables[kind] \cup NewRows(u, kind)
    BY <1>3 DEF AddStored
  <2>3. \A kind \in Kinds : \A row \in NewRows(u, kind) : row.uri = NewID
    BY NewRowsShape
  <2>4. uris'[id] = uris[id]
    BY <1>3, <2>1 DEF AddStored
  <2> QED BY <2>1, <2>2, <2>3, <2>4
<1>4. ASSUME NEW ids, Delete(ids)
      PROVE  /\ uris'[id] = uris[id]
             /\ \A kind \in Kinds : {r \in tables'[kind] : r.uri = id}
                                  = {r \in tables[kind] : r.uri = id}
  BY <1>4 DEF Delete
<1> QED BY <1>2, <1>3, <1>4
        DEF Next, addURI, AddNotStepped, AddConflict, removeURI, removeURIByID, dbvars

\* A registration reads the same as long as it stands, in every run: the action
\* property follows from OthersUntouched in the reachable states.
THEOREM RegistrationsNeverChange == Spec => RegistrationsImmutable
<1> DEFINE Step == \A id \in DOMAIN uris \cap DOMAIN uris' : getLocalURI(id)' = getLocalURI(id)
<1>1. TypeOK /\ ReferentialIntegrity /\ [Next]_dbvars => [Step]_dbvars
  BY OthersUntouched
<1> QED BY <1>1, TypeCorrect, IntegrityHolds, PTL DEF Spec, RegistrationsImmutable

-----------------------------------------------------------------------------
\* The inserts of one list that succeed are the first n of it, for some n.
LEMMA StoredIsPrefix ==
  ASSUME NEW u \in LocalURIs, NEW kind \in Kinds
  PROVE  \E n \in 0 .. MaxAttributes :
            /\ Stored(u, kind) = 1 .. n
            /\ n <= Len(u.attributes[kind])
<1> DEFINE Missing == {i \in Nat \ {0} : i \notin Stored(u, kind)}
           length  == Len(u.attributes[kind])
<1>1. /\ Stored(u, kind) \subseteq 1 .. length
      /\ length \in Nat /\ MaxAttributes \in Nat
      /\ \A i \in Stored(u, kind) : i <= MaxAttributes
  BY SuppliedSequence, DatabaseAssumption DEF Stored, Attempts
<1>2. \A i \in Stored(u, kind) : \A j \in 1 .. i : j \in Stored(u, kind)
  BY <1>1, SuppliedSequence DEF Stored, Attempts
<1>3. length + 1 \in Missing
  BY <1>1
<1>4. PICK least \in Missing : \A m \in Missing : least <= m
  BY <1>3, LeastElement
<1>5. Stored(u, kind) = 1 .. (least - 1)
  <2> HIDE DEF length
  <2>1. \A i \in Nat \ {0} : i < least => i \in Stored(u, kind)
    BY <1>4
  <2>2. least \in Nat \ {0} /\ least \notin Stored(u, kind)
    BY <1>4
  <2>3. \A i \in Stored(u, kind) : i \in Nat \ {0} /\ i < least
    BY <1>1, <1>2, <2>2
  <2>4. \A i : i \in Stored(u, kind) <=> i \in 1 .. (least - 1)
    BY <2>1, <2>2, <2>3
  <2> HIDE DEF Missing
  <2> QED BY <2>4, Zenon
<1>6. least - 1 <= length /\ least - 1 <= MaxAttributes /\ least - 1 \in Nat
  <2> HIDE DEF length
  <2>1. least \in Nat \ {0}
    BY <1>4
  <2>2. CASE least = 1
    BY <2>2, <1>1
  <2>3. CASE least # 1
    <3>1. least - 1 \in Stored(u, kind)
      BY <1>5, <2>1, <2>3
    <3> QED BY <3>1, <1>1, <2>1
  <2> QED BY <2>2, <2>3
<1> QED BY <1>5, <1>6

\* addURI that stores is Add of the registry, with the stored prefixes.
LEMMA AddRefines ==
  ASSUME TypeOK, ReferentialIntegrity, NEW u \in LocalURIs, AddStored(u)
  PROVE  Registry!Add(u)
<1>0. PICK new : new = NewID
  OBVIOUS
<1>1. /\ new \notin DOMAIN uris
      /\ DOMAIN uris' = DOMAIN uris \cup {new}
      /\ uris'[new] = [name |-> u.name, path |-> u.path, pid |-> u.pid]
  BY <1>0, NewIDIsFresh DEF AddStored
<1>2. \A id \in DOMAIN uris : getLocalURI(id)' = getLocalURI(id)
  <2>1. [Next]_dbvars
    BY DEF Next, addURI
  <2> QED BY <2>1, <1>1, OthersUntouched
<1>3. PICK n \in [Kinds -> 0 .. MaxAttributes] :
         \A kind \in Kinds : /\ Stored(u, kind) = 1 .. n[kind]
                             /\ n[kind] <= Len(u.attributes[kind])
  <2> DEFINE N(kind) == CHOOSE n \in 0 .. MaxAttributes :
                /\ Stored(u, kind) = 1 .. n
                /\ n <= Len(u.attributes[kind])
  <2>1. \A kind \in Kinds : /\ N(kind) \in 0 .. MaxAttributes
                            /\ Stored(u, kind) = 1 .. N(kind)
                            /\ N(kind) <= Len(u.attributes[kind])
    BY StoredIsPrefix, Zenon
  <2> HIDE DEF N
  <2>2. [kind \in Kinds |-> N(kind)] \in [Kinds -> 0 .. MaxAttributes]
    BY <2>1
  <2> QED BY <2>1, <2>2
<1>4. ASSUME NEW kind \in Kinds
      PROVE  Registry!Storable(u.attributes[kind], n[kind])
  <2>1. \A i, j \in Stored(u, kind) : u.attributes[kind][i].key = u.attributes[kind][j].key => i = j
    <3>1. Stored(u, kind) \subseteq Nat \ {0}
      BY SuppliedSequence DEF Stored, Attempts
    <3>2. ASSUME NEW i \in Stored(u, kind), NEW j \in Stored(u, kind), i < j
          PROVE  u.attributes[kind][i].key # u.attributes[kind][j].key
      <4>1. Inserts(u, kind, j) /\ i \in 1 .. (j - 1)
        BY <3>1, <3>2 DEF Stored
      <4> QED BY <4>1 DEF Inserts, RowConflicts
    <3> QED BY <3>1, <3>2
  <2> QED BY <1>3, <1>4, <2>1 DEF Registry!Storable
<1>5. ASSUME NEW kind \in Kinds
      PROVE  {[key |-> row.key, value |-> row.value] : row \in {r \in tables'[kind] : r.uri = new}}
                = {u.attributes[kind][i] : i \in 1 .. n[kind]}
  <2> DEFINE supplied == u.attributes[kind]
  <2>1. {r \in tables'[kind] : r.uri = new} = NewRows(u, kind)
    <3>1. tables'[kind] = tables[kind] \cup NewRows(u, kind)
      BY <1>5 DEF AddStored
    <3>2. \A row \in NewRows(u, kind) : row.uri = new
      BY <1>0, <1>5, NewRowsShape
    <3>3. \A row \in tables[kind] : row.uri # new
      BY <1>1, <1>5 DEF ReferentialIntegrity
    <3> QED BY <3>1, <3>2, <3>3
  <2>2. \A i \in Stored(u, kind) :
            supplied[i] = [key |-> supplied[i].key, value |-> supplied[i].value]
    <3>1. \A i \in Stored(u, kind) : i \in DOMAIN supplied
      BY DEF Stored, Attempts
    <3>2. \A X : \A s \in Seq(X) : \A k \in DOMAIN s : s[k] \in X
      OBVIOUS
    <3>3. \A i \in Stored(u, kind) : supplied[i] \in [key : Keys, value : Int \cup {NaN}]
      BY <3>1, <3>2, SuppliedSequence, Zenon
    <3> QED BY <3>3
  <2>3. NewRows(u, kind) = {[uri |-> new, key |-> supplied[i].key, value |-> supplied[i].value]
                               : i \in Stored(u, kind)}
    BY <1>0 DEF NewRows
  <2>4. {[key |-> row.key, value |-> row.value] : row \in NewRows(u, kind)}
            = {supplied[i] : i \in Stored(u, kind)}
    <3> HIDE DEF supplied
    <3>1. ASSUME NEW row \in NewRows(u, kind)
          PROVE  [key |-> row.key, value |-> row.value] \in {supplied[i] : i \in Stored(u, kind)}
      <4>1. PICK i \in Stored(u, kind) :
               row = [uri |-> new, key |-> supplied[i].key, value |-> supplied[i].value]
        BY <2>3
      <4>2. [key |-> row.key, value |-> row.value] = supplied[i]
        BY <2>2, <4>1
      <4> QED BY <4>2
    <3>2. ASSUME NEW i \in Stored(u, kind)
          PROVE  \E row \in NewRows(u, kind) : supplied[i] = [key |-> row.key, value |-> row.value]
      <4>1. [uri |-> new, key |-> supplied[i].key, value |-> supplied[i].value] \in NewRows(u, kind)
        BY <2>3
      <4> QED BY <2>2, <4>1
    <3> QED BY <3>1, <3>2
  <2> QED BY <1>3, <1>5, <2>1, <2>4
<1>6. getLocalURI(new)' = [name |-> u.name, path |-> u.path, pid |-> u.pid,
                             attributes |-> [kind \in Kinds |->
                                {u.attributes[kind][i] : i \in 1 .. n[kind]}]]
  <2>1. [kind \in Kinds |-> {[key |-> row.key, value |-> row.value] :
                                row \in {r \in tables'[kind] : r.uri = new}}]
          = [kind \in Kinds |-> {u.attributes[kind][i] : i \in 1 .. n[kind]}]
    BY <1>5, Zenon
  <2>2. uris'[new].name = u.name /\ uris'[new].path = u.path /\ uris'[new].pid = u.pid
    BY <1>1
  <2> QED BY <2>1, <2>2, Zenon DEF getLocalURI
<1>7. registrations' = registrations \cup {getLocalURI(new)'}
  BY <1>1, <1>2 DEF registrations
<1>8. u.name \notin TooLong /\ u.path \notin TooLong
  BY DEF AddStored, BaseNotStepped
<1>9. \A e \in registrations : e.name # u.name /\ e.path # u.path
  BY DEF AddStored, BaseConflicts, registrations, getLocalURI
<1> QED BY <1>3, <1>4, <1>6, <1>7, <1>8, <1>9 DEF Registry!Add

\* Removing by name is Remove of the registry.
LEMMA RemoveRefines ==
  ASSUME TypeOK, ReferentialIntegrity, NEW name \in Names,
         Delete({id \in DOMAIN uris : uris[id].name = name})
  PROVE  registrations' = {e \in registrations : e.name # name}
<1> DEFINE gone == {id \in DOMAIN uris : uris[id].name = name}
<1>1. DOMAIN uris' = DOMAIN uris \ gone
  BY DEF Delete
<1>2. ASSUME NEW id \in DOMAIN uris \ gone
      PROVE  getLocalURI(id)' = getLocalURI(id)
  <2>1. uris'[id] = uris[id]
    BY <1>2 DEF Delete
  <2>2. [kind \in Kinds |-> {[key |-> row.key, value |-> row.value] :
                                row \in {r \in tables'[kind] : r.uri = id}}]
          = [kind \in Kinds |-> {[key |-> row.key, value |-> row.value] :
                                row \in {r \in tables[kind] : r.uri = id}}]
    <3>1. ASSUME NEW kind \in Kinds
          PROVE  {r \in tables'[kind] : r.uri = id} = {r \in tables[kind] : r.uri = id}
      BY <1>2, <3>1 DEF Delete
    <3> QED BY <3>1, Zenon
  <2> QED BY <2>1, <2>2, Zenon DEF getLocalURI
<1>3. \A id \in DOMAIN uris : getLocalURI(id).name = uris[id].name
  BY DEF getLocalURI
<1> QED BY <1>1, <1>2, <1>3 DEF registrations

\* Every run of the database is a run of the registry: AddRefines and RemoveRefines,
\* and the steps that only touch the prepared statements are stuttering steps.
THEOREM RegistryImplemented == Spec => ImplementsRegistry
<1>1. Init => Registry!Init
  BY DEF Init, Registry!Init, registrations
<1>2. TypeOK /\ ReferentialIntegrity /\ SchemaConstraints /\ [Next]_dbvars
        => [Registry!Next]_registrations
  <2>1. SUFFICES ASSUME TypeOK, ReferentialIntegrity, SchemaConstraints, [Next]_dbvars
                 PROVE  [Registry!Next]_registrations
    OBVIOUS
  <2>2. CASE UNCHANGED <<uris, tables>>
    BY <2>2 DEF registrations, getLocalURI
  <2>3. ASSUME NEW u \in LocalURIs, AddStored(u) PROVE Registry!Next
    BY <2>1, <2>3, AddRefines DEF Registry!Next
  <2>4. ASSUME NEW name \in Names, removeURI(name) PROVE Registry!Next
    BY <2>1, <2>4, RemoveRefines DEF removeURI, Registry!Next, Registry!Remove
  <2>5. ASSUME NEW id \in 1 .. MaxURIID, removeURIByID(id)
        PROVE  [Registry!Next]_registrations
    <3>1. CASE id \notin DOMAIN uris
      <4>1. uris' = uris /\ tables' = tables
        BY <2>1, <2>5, <3>1 DEF removeURIByID, Delete, TypeOK
      <4> QED BY <4>1, <2>2
    <3>2. CASE id \in DOMAIN uris
      <4>1. uris[id].name \in Names
        BY <2>1, <3>2 DEF TypeOK, Base
      <4>2. {id} \cap DOMAIN uris = {other \in DOMAIN uris : uris[other].name = uris[id].name}
        BY <2>1, <3>2 DEF SchemaConstraints
      <4>3. PICK name \in Names : name = uris[id].name
        BY <4>1
      <4> QED BY <2>1, <2>5, <4>2, <4>3, RemoveRefines
              DEF removeURIByID, Registry!Next, Registry!Remove
    <3> QED BY <3>1, <3>2
  <2> QED BY <2>1, <2>2, <2>3, <2>4, <2>5 DEF Next, addURI, AddNotStepped, AddConflict, dbvars
<1> QED BY <1>1, <1>2, TypeCorrect, IntegrityHolds, ConstraintsHold, PTL
        DEF Spec, ImplementsRegistry, Registry!Spec

-----------------------------------------------------------------------------
\* Every selected id comes from an attribute table, and those refer to URIs that are there.
LEMMA SelectedAreThere ==
  ASSUME ReferentialIntegrity, NEW q
  PROVE  Selected(tables, q) \subseteq DOMAIN uris
<1>2. \A kind \in Kinds : URIsIn(tables[kind]) \subseteq DOMAIN uris
  BY DEF URIsIn, ReferentialIntegrity
<1>3. TagSubquery(tables, q) \subseteq DOMAIN uris
  BY <1>2 DEF TagSubquery, Kinds
<1>4. /\ ConditionSubquery(tables[Integer], q.integers) \subseteq DOMAIN uris
      /\ ConditionSubquery(tables[Double], BoundConditions(q.doubles)) \subseteq DOMAIN uris
  BY <1>2 DEF ConditionSubquery, Kinds
<1> QED BY <1>3, <1>4 DEF Selected

-----------------------------------------------------------------------------
(***************************************************************************)
(* Queries.  The SQL counts matching rows and compares the count with the  *)
(* length of a list of the query; these lemmas say what the comparison     *)
(* means when a URI has at most one row for a key, as unique(value, uriID) *)
(* and unique(key, uriID) make sure.                                       *)
(***************************************************************************)
UniqueKeys(rows) ==
  \A r1, r2 \in rows : r1.uri = r2.uri /\ r1.key = r2.key => r1 = r2

TagsMatch(contents, id, q) ==
  /\ \A t \in Elements(q.required)  : HasTag(contents, id, t)
  /\ \A t \in Elements(q.forbidden) : ~ HasTag(contents, id, t)

\* A list has at most its length of elements, and exactly so many if they differ.
LEMMA ElementsCounted ==
  ASSUME NEW X, NEW s \in Seq(X)
  PROVE  /\ IsFiniteSet(Elements(s))
         /\ Cardinality(Elements(s)) \in Nat
         /\ Cardinality(Elements(s)) <= Len(s)
         /\ Cardinality(Elements(s)) = Len(s) <=> Distinct(s)
<1>1. Len(s) \in Nat /\ DOMAIN s = 1 .. Len(s) /\ s \in [1 .. Len(s) -> X]
  OBVIOUS
<1>2. s \in [DOMAIN s -> Elements(s)]
  BY <1>1 DEF Elements
<1>3. s \in Surjection(1 .. Len(s), Elements(s))
  BY <1>1, <1>2 DEF Surjection, Elements
<1>4. IsFiniteSet(1 .. Len(s)) /\ Cardinality(1 .. Len(s)) = Len(s)
  BY <1>1, FS_Interval
<1>5. /\ IsFiniteSet(Elements(s))
      /\ Cardinality(Elements(s)) <= Len(s)
      /\ Cardinality(Elements(s)) = Len(s) <=> s \in Injection(1 .. Len(s), Elements(s))
  BY <1>3, <1>4, FS_Surjection
<1>6. s \in Injection(1 .. Len(s), Elements(s)) <=> Distinct(s)
  BY <1>1, <1>2 DEF Injection, IsInjective, Distinct
<1> QED BY <1>5, <1>6, FS_CardinalityType

\* Rows with different keys, all wanted: as many as are wanted exactly if none is missing.
LEMMA RowsCounted ==
  ASSUME NEW wanted, IsFiniteSet(wanted), NEW rows,
         \A row \in rows : row.key \in wanted,
         \A r1, r2 \in rows : r1.key = r2.key => r1 = r2
  PROVE  /\ Cardinality(rows) \in Nat
         /\ Cardinality(rows) <= Cardinality(wanted)
         /\ Cardinality(rows) = Cardinality(wanted)
               <=> \A k \in wanted : \E row \in rows : row.key = k
<1> DEFINE f == [row \in rows |-> row.key]
<1>1. f \in Injection(rows, wanted)
  BY DEF Injection, IsInjective
<1>2. /\ IsFiniteSet(rows)
      /\ Cardinality(rows) <= Cardinality(wanted)
      /\ Cardinality(rows) = Cardinality(wanted) <=> f \in Surjection(rows, wanted)
  BY <1>1, FS_Injection
<1>3. f \in Surjection(rows, wanted) <=> \A k \in wanted : \E row \in rows : row.key = k
  BY <1>1 DEF Surjection, Injection
<1> QED BY <1>2, <1>3, FS_CardinalityType

\* TagSubquery returns exactly the URIs it describes, when no required tag is named
\* twice; when one is, it returns fewer.
LEMMA TagSubqueryExact ==
  ASSUME NEW contents, NEW q, NEW id, q.required \in Seq(Keys), q.required # <<>>,
         UniqueKeys(contents[Tags])
  PROVE  /\ id \in TagSubquery(contents, q) => TagsMatch(contents, id, q)
         /\ TagsMatch(contents, id, q) /\ Distinct(q.required) => id \in TagSubquery(contents, q)
<1> DEFINE rows     == {row \in contents[Tags] : row.uri = id /\ row.key \in Elements(q.required)}
           wanted   == Elements(q.required)
           complete == \A t \in wanted : HasTag(contents, id, t)
           pure     == \A t \in Elements(q.forbidden) : ~ HasTag(contents, id, t)
<1>1. /\ IsFiniteSet(wanted) /\ Cardinality(wanted) \in Nat
      /\ Cardinality(wanted) <= Len(q.required)
      /\ Cardinality(wanted) = Len(q.required) <=> Distinct(q.required)
      /\ Len(q.required) \in Nat
  BY ElementsCounted
<1>2. /\ Cardinality(rows) \in Nat /\ Cardinality(rows) <= Cardinality(wanted)
      /\ Cardinality(rows) = Cardinality(wanted)
            <=> \A k \in wanted : \E row \in rows : row.key = k
  <2>1. /\ \A row \in rows : row.key \in wanted
        /\ \A r1, r2 \in rows : r1.key = r2.key => r1 = r2
    BY DEF UniqueKeys
  <2> HIDE DEF rows, wanted
  <2> QED BY <1>1, <2>1, RowsCounted
<1>3. complete <=> \A k \in wanted : \E row \in rows : row.key = k
  BY DEF HasTag
<1>4. pure <=> id \notin URIsIn({row \in contents[Tags] : row.key \in Elements(q.forbidden)})
  BY DEF HasTag, URIsIn
<1>5. complete => id \in URIsIn(contents[Tags])
  <2>1. Len(q.required) \in Nat /\ Len(q.required) # 0 /\ DOMAIN q.required = 1 .. Len(q.required)
    OBVIOUS
  <2>2. q.required[1] \in wanted
    BY <2>1 DEF Elements
  <2> QED BY <2>2 DEF HasTag, URIsIn
<1>6. id \in TagSubquery(contents, q)
         <=> id \in URIsIn(contents[Tags]) /\ Cardinality(rows) = Len(q.required) /\ pure
  BY <1>4 DEF TagSubquery
<1>7. Cardinality(rows) = Len(q.required) => complete
  <2> HIDE DEF rows, wanted, complete
  <2> QED BY <1>1, <1>2, <1>3
<1>8. complete /\ Distinct(q.required) => Cardinality(rows) = Len(q.required)
  <2> HIDE DEF rows, wanted, complete
  <2> QED BY <1>1, <1>2, <1>3
<1> HIDE DEF rows
<1>9. id \in TagSubquery(contents, q) => complete /\ pure
  BY <1>6, <1>7
<1>10. complete /\ pure /\ Distinct(q.required) => id \in TagSubquery(contents, q)
  BY <1>5, <1>6, <1>8
<1>11. TagsMatch(contents, id, q) <=> complete /\ pure
  BY DEF TagsMatch
<1> HIDE DEF complete, pure
<1> QED BY <1>9, <1>10, <1>11

\* ConditionSubquery returns only URIs that meet every condition, even when a field is
\* named twice (then it returns none), and all of them when no field is named twice and
\* no condition asks to hold for a missing field.
LEMMA ConditionSubqueryExact ==
  ASSUME NEW rows, NEW id, NEW conditions \in Seq(RequiredCondition), conditions # <<>>,
         UniqueKeys(rows)
  PROVE  /\ id \in ConditionSubquery(rows, conditions)
               => \A c \in Elements(conditions) : Satisfies(rows, id, c)
         /\ (/\ \A c \in Elements(conditions) : Satisfies(rows, id, c) /\ ~ c.onNULL
             /\ Distinct(Fields(conditions)))
               => id \in ConditionSubquery(rows, conditions)
<1> DEFINE matching == {row \in rows : /\ row.uri = id
                                       /\ \E c \in Elements(conditions) :
                                             /\ row.key = c.field
                                             /\ Holds(c.comparison, row.value, c.value)}
           fields == Fields(conditions)
           wanted == Elements(fields)
<1>1. /\ Len(conditions) \in Nat /\ Len(conditions) # 0
      /\ DOMAIN conditions = 1 .. Len(conditions)
      /\ \A i \in DOMAIN conditions : conditions[i] \in RequiredCondition
  OBVIOUS
<1>2. /\ fields \in Seq(Keys) /\ Len(fields) = Len(conditions)
      /\ \A i \in DOMAIN conditions : fields[i] = conditions[i].field
      /\ DOMAIN fields = DOMAIN conditions
  BY <1>1 DEF Fields, RequiredCondition
<1>3. /\ IsFiniteSet(wanted) /\ Cardinality(wanted) \in Nat
      /\ Cardinality(wanted) <= Len(conditions)
      /\ Cardinality(wanted) = Len(conditions) <=> Distinct(fields)
  <2> HIDE DEF fields
  <2> QED BY <1>2, ElementsCounted
<1>4. \A c \in Elements(conditions) : c.field \in wanted
  <2> HIDE DEF fields
  <2> QED BY <1>2 DEF Elements
<1>5. /\ Cardinality(matching) \in Nat /\ Cardinality(matching) <= Cardinality(wanted)
      /\ Cardinality(matching) = Cardinality(wanted)
            <=> \A k \in wanted : \E row \in matching : row.key = k
  <2>1. /\ \A row \in matching : row.key \in wanted
        /\ \A r1, r2 \in matching : r1.key = r2.key => r1 = r2
    BY <1>4 DEF UniqueKeys
  <2> HIDE DEF matching, wanted
  <2> QED BY <1>3, <2>1, RowsCounted
<1>6. id \in ConditionSubquery(rows, conditions)
         <=> id \in URIsIn(rows) /\ Cardinality(matching) = Len(conditions)
  BY DEF ConditionSubquery
<1>7. ASSUME id \in ConditionSubquery(rows, conditions), NEW c \in Elements(conditions)
      PROVE  Satisfies(rows, id, c)
  <2>1. Distinct(fields) /\ \A k \in wanted : \E row \in matching : row.key = k
    <3> HIDE DEF matching, wanted, fields
    <3> QED BY <1>1, <1>3, <1>5, <1>6, <1>7
  <2>2. PICK row \in matching : row.key = c.field
    BY <1>4, <1>7, <2>1
  <2>3. Holds(c.comparison, row.value, c.value)
    <3>1. PICK other \in Elements(conditions) :
             /\ row.key = other.field
             /\ Holds(other.comparison, row.value, other.value)
      BY <2>2
    <3>2. PICK i \in DOMAIN conditions, j \in DOMAIN conditions :
             c = conditions[i] /\ other = conditions[j]
      BY <1>7, <3>1 DEF Elements
    <3>3. fields[i] = fields[j]
      BY <1>2, <2>2, <3>1, <3>2
    <3>4. i = j
      BY <1>2, <2>1, <3>3 DEF Distinct
    <3> QED BY <3>1, <3>2, <3>4
  <2>4. \A r \in rows : r.uri = id /\ r.key = c.field => r = row
    BY <2>2 DEF UniqueKeys
  <2> QED BY <2>2, <2>3, <2>4 DEF Satisfies
<1>8. ASSUME \A c \in Elements(conditions) : Satisfies(rows, id, c) /\ ~ c.onNULL,
             Distinct(fields)
      PROVE  id \in ConditionSubquery(rows, conditions)
  <2>1. \A c \in Elements(conditions) : \E row \in matching : row.key = c.field
    BY <1>8 DEF Satisfies
  <2>2. \A k \in wanted : \E c \in Elements(conditions) : c.field = k
    <3> HIDE DEF fields
    <3> QED BY <1>2 DEF Elements
  <2>3. Cardinality(matching) = Len(conditions)
    <3>1. \A k \in wanted : \E row \in matching : row.key = k
      BY <2>1, <2>2
    <3> HIDE DEF matching, wanted, fields
    <3> QED BY <1>3, <1>5, <1>8, <3>1
  <2>4. id \in URIsIn(rows)
    <3>1. conditions[1] \in Elements(conditions)
      BY <1>1 DEF Elements
    <3> QED BY <2>1, <3>1 DEF URIsIn
  <2> HIDE DEF matching
  <2> QED BY <1>6, <2>3, <2>4
<1> HIDE DEF matching, wanted
<1> QED BY <1>7, <1>8, Zenon

LEMMA QueryTyped ==
  ASSUME NEW q \in Queries
  PROVE  /\ q.required \in Seq(Keys) /\ q.forbidden \in Seq(Keys)
         /\ q.integers \in Seq(RequiredCondition) /\ q.doubles \in Seq(RequiredCondition)
BY DatabaseAssumption DEF QueryMessage

\* The doubles that pass through sqlite3_bind_int unharmed are bound as they are.
LEMMA WholeDoublesBound ==
  ASSUME NEW q \in Queries, WholeDoubles(q)
  PROVE  BoundConditions(q.doubles) = q.doubles
<1>1. PICK n \in Nat : q.doubles \in [1 .. n -> RequiredCondition]
  BY QueryTyped
<1>2. DOMAIN q.doubles = 1 .. n
  BY <1>1
<1>3. ASSUME NEW i \in 1 .. n
      PROVE  [q.doubles[i] EXCEPT !.value = Truncated(@)] = q.doubles[i]
  <2>1. q.doubles[i] \in RequiredCondition
    BY <1>1, <1>3
  <2>2. Truncated(q.doubles[i].value) = q.doubles[i].value
    BY <1>2, <1>3 DEF WholeDoubles, Elements
  <2> QED BY <2>1, <2>2 DEF RequiredCondition
<1>4. BoundConditions(q.doubles) = [i \in 1 .. n |-> q.doubles[i]]
  BY <1>2, <1>3, Zenon DEF BoundConditions
<1> QED BY <1>1, <1>4

\* A selected id is in each subquery that is present, and the other way round.
LEMMA SelectedIsIntersection ==
  ASSUME NEW contents, NEW q \in Queries, Usable(q), WholeDoubles(q), NEW id
  PROVE  id \in Selected(contents, q)
           <=> /\ q.required # <<>> => id \in TagSubquery(contents, q)
               /\ q.integers # <<>> => id \in ConditionSubquery(contents[Integer], q.integers)
               /\ q.doubles # <<>> => id \in ConditionSubquery(contents[Double], q.doubles)
<1>1. q.required # <<>> \/ q.integers # <<>> \/ q.doubles # <<>>
  BY DEF Usable
<1> QED BY <1>1, WholeDoublesBound, Zenon DEF Selected

\* What is selected is what the query describes, and all of it if the query is plain.
LEMMA SelectedExact ==
  ASSUME NEW contents, \A kind \in Kinds : UniqueKeys(contents[kind]),
         NEW q \in Queries, Usable(q), WholeDoubles(q), NEW id
  PROVE  /\ id \in Selected(contents, q) => Matches(contents, id, q)
         /\ Plain(q) /\ Matches(contents, id, q) => id \in Selected(contents, q)
<1> DEFINE TagsMet == q.required # <<>> => id \in TagSubquery(contents, q)
           Meant(rows, conditions) == \A c \in Elements(conditions) : Satisfies(rows, id, c)
           Met(rows, conditions) ==
               conditions # <<>> => id \in ConditionSubquery(rows, conditions)
<1>1. /\ UniqueKeys(contents[Tags]) /\ UniqueKeys(contents[Integer])
      /\ UniqueKeys(contents[Double])
  BY DEF Kinds
<1>2. Elements(<<>>) = {}
  BY DEF Elements
<1>3. /\ TagsMet => TagsMatch(contents, id, q)
      /\ TagsMatch(contents, id, q) /\ Distinct(q.required) => TagsMet
  <2>1. CASE q.required = <<>>
    <3>1. q.forbidden = <<>>
      BY <2>1 DEF Usable
    <3> QED BY <1>2, <2>1, <3>1 DEF TagsMatch
  <2>2. CASE q.required # <<>>
    BY <1>1, <2>2, QueryTyped, TagSubqueryExact
  <2> QED BY <2>1, <2>2
<1>4. ASSUME NEW rows, UniqueKeys(rows), NEW conditions \in Seq(RequiredCondition)
      PROVE  /\ Met(rows, conditions) => Meant(rows, conditions)
             /\ (/\ Meant(rows, conditions)
                 /\ \A c \in Elements(conditions) : ~ c.onNULL
                 /\ Distinct(Fields(conditions))) => Met(rows, conditions)
  <2>1. CASE conditions = <<>>
    BY <1>2, <2>1
  <2>2. CASE conditions # <<>>
    BY <1>4, <2>2, ConditionSubqueryExact, Zenon
  <2> QED BY <2>1, <2>2
<1>5. id \in Selected(contents, q)
         <=> TagsMet /\ Met(contents[Integer], q.integers) /\ Met(contents[Double], q.doubles)
  BY SelectedIsIntersection, Zenon
<1>6. Matches(contents, id, q)
         <=> /\ TagsMatch(contents, id, q)
             /\ Meant(contents[Integer], q.integers) /\ Meant(contents[Double], q.doubles)
  BY Zenon DEF Matches, TagsMatch
<1>7. Plain(q) => /\ Distinct(q.required)
                  /\ Distinct(Fields(q.integers)) /\ Distinct(Fields(q.doubles))
                  /\ \A c \in Elements(q.integers) : ~ c.onNULL
                  /\ \A c \in Elements(q.doubles) : ~ c.onNULL
  BY Zenon DEF Plain, Conditions
<1> HIDE DEF TagsMet, Meant, Met
<1> QED BY <1>1, <1>3, <1>4, <1>5, <1>6, <1>7, QueryTyped, Zenon

LEMMA ConstraintsGiveUniqueKeys ==
  ASSUME SchemaConstraints
  PROVE  \A kind \in Kinds : UniqueKeys(tables[kind])
BY DEF SchemaConstraints, UniqueKeys

\* A URI that a query returns meets all its conditions: the counts of the SQL can only
\* equal the lengths of the lists if nothing is missing, as a URI has one row for a key
\* (ConstraintsHold).
THEOREM QueriesSound == Spec => []QuerySound
<1>1. SchemaConstraints => QuerySound
  BY ConstraintsGiveUniqueKeys, SelectedExact, Zenon DEF QuerySound, QuerySucceeds
<1> QED BY <1>1, ConstraintsHold, PTL

\* A plain query returns every URI it describes, by the same count.
THEOREM QueriesComplete == Spec => []QueryComplete
<1>1. SchemaConstraints => QueryComplete
  <2>1. \A q \in Queries : Plain(q) => WholeDoubles(q)
    BY DEF Plain
  <2> QED BY <2>1, ConstraintsGiveUniqueKeys, SelectedExact, Zenon DEF QueryComplete, QuerySucceeds
<1> QED BY <1>1, ConstraintsHold, PTL
-----------------------------------------------------------------------------
(***************************************************************************)
(* The server.  Each of its steps is a step of the database or the loss of *)
(* the database, so what holds of the database alone holds of the served   *)
(* one; on top of it comes what the server told its clients.               *)
(***************************************************************************)
DatabaseInv == TypeOK /\ ReferentialIntegrity /\ SchemaConstraints

LEMMA EmptyDatabase == Init => DatabaseInv
<1>1. Init => TypeOK
  BY InitialTypes
<1> QED BY <1>1 DEF Init, DatabaseInv, ReferentialIntegrity, SchemaConstraints

\* What waits at the server is a request, and what was promised a URI of the messages.
ServerTypeOK ==
  /\ inbox \in [Pids -> Requests \cup {None}]
  /\ promised \subseteq LocalURIs

\* The two branches of addURI a reply tells apart.
LEMMA AddOutcome ==
  ASSUME NEW u \in LocalURIs, addURI(u)
  PROVE  /\ AddReturns(u) = 1 => AddStored(u)
         /\ AddReturns(u) # 1 => UNCHANGED <<uris, tables>>
BY DEF addURI, AddReturns, AddNotStepped, AddConflict, AddStored, dbvars

\* A request that is taken is one the client could send.
LEMMA TakenRequests ==
  ASSUME ServerTypeOK, NEW c \in Pids, inbox[c] # None
  PROVE  /\ inbox[c].kind = "add" => inbox[c].uri \in LocalURIs
         /\ inbox[c].kind = "remove" => inbox[c].name \in Names
BY DEF ServerTypeOK, Requests

LEMMA DatabaseSteps ==
  ASSUME ServerTypeOK, [ServerNext]_vars
  PROVE  [Next]_dbvars \/ MemoryLost
<1>1. CASE UNCHANGED vars
  BY <1>1 DEF vars
<1>2. ASSUME NEW c \in Pids, ServeAdd(c) PROVE [Next]_dbvars
  BY <1>2, TakenRequests DEF ServeAdd, Takes, Next
<1>3. ASSUME NEW c \in Pids, ServeRemoval(c) PROVE [Next]_dbvars
  BY <1>3, TakenRequests DEF ServeRemoval, Takes, Next
<1> QED BY <1>1, <1>2, <1>3
        DEF ServerNext, Ask, Receive, ClientDies, Serve, ServeQuery, ServeOther, ServeInvalid,
            ServerDies

LEMMA ServerTypeStep ==
  ASSUME ServerTypeOK, [ServerNext]_vars
  PROVE  ServerTypeOK'
<1>1. CASE UNCHANGED vars
  BY <1>1 DEF vars, servervars, ServerTypeOK
<1>2. ASSUME NEW c \in Pids, NEW request \in Requests, Ask(c, request) PROVE ServerTypeOK'
  BY <1>2 DEF Ask, ServerTypeOK
<1>3. ASSUME NEW c \in Pids, Receive(c) \/ ClientDies(c) PROVE ServerTypeOK'
  BY <1>3 DEF Receive, ClientDies, ServerTypeOK
<1>4. ASSUME NEW c \in Pids, Serve(c) PROVE ServerTypeOK'
  <2>1. (inbox \in [Pids -> Requests \cup {None}])'
    BY <1>4 DEF Serve, ServeAdd, ServeRemoval, ServeQuery, ServeOther, ServeInvalid, Takes,
                ServerTypeOK
  <2>2. (promised \subseteq LocalURIs)'
    <3>1. CASE ServeAdd(c)
      BY <3>1, TakenRequests DEF ServeAdd, Takes, ServerTypeOK
    <3> QED BY <1>4, <3>1
            DEF Serve, ServeRemoval, ServeQuery, ServeOther, ServeInvalid, MemoryLost, ServerTypeOK
  <2> QED BY <2>1, <2>2 DEF ServerTypeOK
<1>5. CASE ServerDies
  BY <1>5 DEF ServerDies, MemoryLost, ServerTypeOK
<1> QED BY <1>1, <1>2, <1>3, <1>4, <1>5 DEF ServerNext

\* The served database keeps its types, its integrity and its constraints.
THEOREM ServedDatabaseSound == ServerSpec => [](ServerTypeOK /\ DatabaseInv)
<1>1. ServerInit => ServerTypeOK /\ DatabaseInv
  BY EmptyDatabase DEF ServerInit, ServerTypeOK
<1>2. ServerTypeOK /\ DatabaseInv /\ [ServerNext]_vars => (ServerTypeOK /\ DatabaseInv)'
  <2>1. SUFFICES ASSUME ServerTypeOK, DatabaseInv, [ServerNext]_vars
                 PROVE  DatabaseInv'
    BY ServerTypeStep
  <2>2. CASE [Next]_dbvars
    BY <2>1, <2>2, TypeStep, IntegrityStep, ConstraintsStep DEF DatabaseInv
  <2>3. CASE MemoryLost
    <3>1. TypeOK'
      BY <2>3, EmptyTypes DEF MemoryLost, TypeOK
    <3> QED BY <2>3, <3>1 DEF MemoryLost, DatabaseInv, ReferentialIntegrity, SchemaConstraints
  <2> QED BY <2>1, <2>2, <2>3, DatabaseSteps
<1> QED BY <1>1, <1>2, PTL DEF ServerSpec

\* Only what changes the database, or forgets it, changes what was promised.
LEMMA PromiseSteps ==
  ASSUME ServerTypeOK, [ServerNext]_vars
  PROVE  \/ \E u \in LocalURIs : addURI(u) /\ AddReturns(u) = 1 /\ promised' = promised \cup {u}
         \/ \E u \in LocalURIs : addURI(u) /\ AddReturns(u) # 1 /\ UNCHANGED promised
         \/ \E name \in Names :
               /\ Delete({id \in DOMAIN uris : uris[id].name = name})
               /\ promised' = {u \in promised : u.name # name}
         \/ MemoryLost
         \/ UNCHANGED <<dbvars, promised>>
<1>1. CASE UNCHANGED vars
  BY <1>1 DEF vars, servervars
<1>2. ASSUME NEW c \in Pids, ServeAdd(c)
      PROVE  \E u \in LocalURIs :
                /\ addURI(u)
                /\ \/ AddReturns(u) = 1 /\ promised' = promised \cup {u}
                   \/ AddReturns(u) # 1 /\ UNCHANGED promised
  <2>1. inbox[c].uri \in LocalURIs
    BY <1>2, TakenRequests DEF ServeAdd, Takes
  <2> QED BY <1>2, <2>1, Zenon DEF ServeAdd
<1>3. ASSUME NEW c \in Pids, ServeRemoval(c)
      PROVE  \E name \in Names :
                /\ Delete({id \in DOMAIN uris : uris[id].name = name})
                /\ promised' = {u \in promised : u.name # name}
  <2>1. inbox[c].name \in Names
    BY <1>3, TakenRequests DEF ServeRemoval, Takes
  <2> QED BY <1>3, <2>1, Zenon DEF ServeRemoval, removeURI
<1>4. ASSUME NEW c \in Pids, NEW request \in Requests,
             \/ Ask(c, request) \/ Receive(c) \/ ClientDies(c) \/ ServeQuery(c) \/ ServeOther(c)
      PROVE  UNCHANGED <<dbvars, promised>>
  BY <1>4 DEF Ask, Receive, ClientDies, ServeQuery, ServeOther
<1>5. [kind |-> "other"] \in Requests
  BY DEF Requests
<1> QED BY <1>1, <1>2, <1>3, <1>4, <1>5 DEF ServerNext, Serve, ServeInvalid, ServerDies

\* Promises change with the table URIs: an add that succeeds inserts its base, one that
\* fails inserts nothing, and a removal takes the one registration of its name.
LEMMA PromisesKeptStep ==
  ASSUME ServerTypeOK, DatabaseInv, PromisesKept, [ServerNext]_vars
  PROVE  PromisesKept'
<1> DEFINE Bases == {uris[id] : id \in DOMAIN uris}
           BaseOf(u) == [name |-> u.name, path |-> u.path, pid |-> u.pid]
<1>1. ASSUME NEW u \in LocalURIs, addURI(u), AddReturns(u) = 1, promised' = promised \cup {u}
      PROVE  PromisesKept'
  <2>1. AddStored(u)
    BY <1>1, AddOutcome
  <2>2. /\ NewID \notin DOMAIN uris
        /\ DOMAIN uris' = DOMAIN uris \cup {NewID}
        /\ uris'[NewID] = BaseOf(u)
        /\ \A id \in DOMAIN uris : uris'[id] = uris[id]
    BY <2>1, NewIDIsFresh DEF AddStored, DatabaseInv
  <2>3. {uris'[id] : id \in DOMAIN uris'} = Bases \cup {BaseOf(u)}
    BY <2>2
  <2>4. {BaseOf(v) : v \in promised'} = {BaseOf(v) : v \in promised} \cup {BaseOf(u)}
    BY <1>1
  <2> QED BY <2>3, <2>4 DEF PromisesKept
<1>2. ASSUME NEW u \in LocalURIs, addURI(u), AddReturns(u) # 1, UNCHANGED promised
      PROVE  PromisesKept'
  BY <1>2, AddOutcome DEF PromisesKept
<1>3. ASSUME NEW name \in Names,
             Delete({id \in DOMAIN uris : uris[id].name = name}),
             promised' = {u \in promised : u.name # name}
      PROVE  PromisesKept'
  <2>1. {uris'[id] : id \in DOMAIN uris'} = {base \in Bases : base.name # name}
    BY <1>3 DEF Delete
  <2>2. {BaseOf(v) : v \in promised'} = {base \in {BaseOf(v) : v \in promised} : base.name # name}
    BY <1>3
  <2> QED BY <2>1, <2>2 DEF PromisesKept
<1>4. CASE MemoryLost
  BY <1>4 DEF MemoryLost, PromisesKept
<1>5. CASE UNCHANGED <<dbvars, promised>>
  BY <1>5 DEF dbvars, PromisesKept
<1> QED BY <1>1, <1>2, <1>3, <1>4, <1>5, PromiseSteps

\* What the server confirmed is what its database holds, for any number of clients that
\* ask, die and are answered in any order (processRequests).
THEOREM ServerKeepsPromises == ServerSpec => []PromisesKept
<1>1. ServerInit => PromisesKept
  BY DEF ServerInit, Init, PromisesKept
<1>2. ServerTypeOK /\ DatabaseInv /\ PromisesKept /\ [ServerNext]_vars => PromisesKept'
  BY PromisesKeptStep
<1> QED BY <1>1, <1>2, ServedDatabaseSound, PTL DEF ServerSpec

-----------------------------------------------------------------------------
(***************************************************************************)
(* From the message to the query: what the owner of a URI supplied, what   *)
(* the tables hold of it, and what a query says of it.                     *)
(***************************************************************************)

\* The tables hold everything the message of a promised, well-formed URI lists.
StoredAsSupplied ==
  stepped = {} => \A u \in promised : WellFormed(u) =>
      \E id \in DOMAIN uris :
         /\ uris[id].name = u.name
         /\ \A kind \in Kinds : getLocalURI(id).attributes[kind] = Elements(u.attributes[kind])

LEMMA AttributesRead ==
  ASSUME NEW id, NEW kind \in Kinds
  PROVE  getLocalURI(id).attributes[kind]
            = {[key |-> row.key, value |-> row.value] : row \in {r \in tables[kind] : r.uri = id}}
BY DEF getLocalURI

\* While every insert statement is usable, no insert of a well-formed list fails.
LEMMA WellFormedIsStored ==
  ASSUME DatabaseInv, stepped = {}, NEW u \in LocalURIs, WellFormed(u), NEW kind \in Kinds
  PROVE  Stored(u, kind) = DOMAIN u.attributes[kind]
<1> DEFINE list == u.attributes[kind]
           keys == [i \in DOMAIN list |-> list[i].key]
<1>1. DOMAIN list = 1 .. Len(list) /\ Len(list) \in Nat
  BY SuppliedSequence
<1>2. Len(keys) = Len(list) /\ DOMAIN keys = 1 .. Len(list)
  BY <1>1
<1>3. Distinct(keys) /\ Len(keys) <= MaxAttributes /\ Elements(keys) \cap TooLong = {}
  BY Zenon DEF WellFormed
<1>4. MaxAttributes \in Nat
  BY DatabaseAssumption
<1>5. \A i \in DOMAIN list : i <= MaxAttributes
  <2> HIDE DEF list, keys
  <2> QED BY <1>1, <1>2, <1>3, <1>4
<1>6. ASSUME NEW i \in DOMAIN list PROVE Inserts(u, kind, i)
  <2>1. list[i].key \notin TooLong
    BY <1>1, <1>2, <1>3, <1>6 DEF Elements
  <2>2. \A j \in 1 .. (i - 1) : list[j].key # list[i].key
    <3>1. ASSUME NEW j \in 1 .. (i - 1), list[j].key = list[i].key PROVE FALSE
      <4>1. j \in DOMAIN list /\ j # i
        <5> HIDE DEF list
        <5> QED BY <1>1, <1>6, <3>1
      <4>2. keys[j] = keys[i]
        BY <1>6, <3>1, <4>1
      <4>3. \A a, b \in DOMAIN keys : keys[a] = keys[b] => a = b
        <5> HIDE DEF keys
        <5> QED BY <1>3 DEF Distinct
      <4> HIDE DEF keys
      <4> QED BY <1>1, <1>2, <1>6, <4>1, <4>2, <4>3
    <3> QED BY <3>1
  <2>3. \A row \in tables[kind] : row.uri # NewID
    BY NewIDIsFresh DEF DatabaseInv, ReferentialIntegrity
  <2> QED BY <2>1, <2>2, <2>3 DEF Inserts, RowConflicts
<1>7. \A i \in DOMAIN list : \A j \in 1 .. i : j \in DOMAIN list
  <2> HIDE DEF list
  <2> QED BY <1>1
<1> QED BY <1>5, <1>6, <1>7, Zenon DEF Stored, Attempts

\* addURI of a well-formed URI makes all its attributes readable.
LEMMA AddStoresAll ==
  ASSUME DatabaseInv, stepped = {}, NEW u \in LocalURIs, AddStored(u), WellFormed(u)
  PROVE  \E id \in DOMAIN uris' :
            /\ uris'[id].name = u.name
            /\ \A kind \in Kinds :
                  (getLocalURI(id).attributes[kind])' = Elements(u.attributes[kind])
<1>1. PICK new : new = NewID
  OBVIOUS
<1>2. new \in DOMAIN uris' /\ uris'[new].name = u.name
  BY <1>1, NewIDIsFresh DEF AddStored
<1>3. ASSUME NEW kind \in Kinds
      PROVE  (getLocalURI(new).attributes[kind])' = Elements(u.attributes[kind])
  <2> DEFINE list == u.attributes[kind]
             At(i) == [uri |-> new, key |-> list[i].key, value |-> list[i].value]
  <2>1. tables'[kind] = tables[kind] \cup NewRows(u, kind)
    BY <1>3 DEF AddStored
  <2>2. NewRows(u, kind) = {At(i) : i \in DOMAIN list}
    BY <1>1, <1>3, WellFormedIsStored DEF NewRows
  <2>3. \A row \in tables[kind] : row.uri # new
    BY <1>1, <1>3, NewIDIsFresh DEF DatabaseInv, ReferentialIntegrity
  <2>4. {r \in tables'[kind] : r.uri = new} = {At(i) : i \in DOMAIN list}
    BY <2>1, <2>2, <2>3
  <2>5. \A i \in DOMAIN list : list[i] = [key |-> list[i].key, value |-> list[i].value]
    <3>1. \A i \in DOMAIN list : list[i] \in [key : Keys, value : Int \cup {NaN}]
      <4>1. \A X : \A s \in Seq(X) : \A k \in DOMAIN s : s[k] \in X
        OBVIOUS
      <4> QED BY <1>3, <4>1, SuppliedSequence, Zenon
    <3> QED BY <3>1
  <2>6. {[key |-> row.key, value |-> row.value] : row \in {At(i) : i \in DOMAIN list}}
           = {list[i] : i \in DOMAIN list}
    <3> HIDE DEF list
    <3>1. \A i \in DOMAIN list : [key |-> At(i).key, value |-> At(i).value] = list[i]
      BY <2>5
    <3> HIDE DEF At
    <3> QED BY <3>1
  <2>7. (getLocalURI(new).attributes[kind])'
           = {[key |-> row.key, value |-> row.value] : row \in {r \in tables'[kind] : r.uri = new}}
    BY <1>3 DEF getLocalURI
  <2> QED BY <2>4, <2>6, <2>7, Zenon DEF Elements
<1> QED BY <1>2, <1>3

LEMMA StoredAsSuppliedStep ==
  ASSUME ServerTypeOK, DatabaseInv, StoredAsSupplied, [ServerNext]_vars
  PROVE  StoredAsSupplied'
<1> DEFINE Reads(u, id) == /\ uris[id].name = u.name
                           /\ \A kind \in Kinds :
                                 getLocalURI(id).attributes[kind] = Elements(u.attributes[kind])
<1>1. SUFFICES ASSUME stepped' = {}, NEW u \in promised', WellFormed(u)
               PROVE  \E id \in DOMAIN uris' : Reads(u, id)'
  BY DEF StoredAsSupplied
<1>2. ASSUME stepped = {}, u \in promised, [Next]_dbvars,
             \A id \in DOMAIN uris : uris[id].name = u.name => id \in DOMAIN uris'
      PROVE  \E id \in DOMAIN uris' : Reads(u, id)'
  <2>1. PICK id \in DOMAIN uris : Reads(u, id)
    BY <1>1, <1>2 DEF StoredAsSupplied
  <2>2. id \in DOMAIN uris' /\ getLocalURI(id)' = getLocalURI(id)
    BY <1>2, <2>1, OthersUntouched DEF DatabaseInv
  <2>3. getLocalURI(id)'.name = uris'[id].name /\ getLocalURI(id).name = uris[id].name
    BY DEF getLocalURI
  <2>4. Reads(u, id)'
    BY <2>1, <2>2, <2>3
  <2> QED BY <2>2, <2>4
<1>3. ASSUME NEW added \in LocalURIs, addURI(added), AddReturns(added) = 1,
             promised' = promised \cup {added}
      PROVE  \E id \in DOMAIN uris' : Reads(u, id)'
  <2>1. AddStored(added) /\ stepped = {}
    BY <1>1, <1>3, AddOutcome DEF AddStored
  <2>2. CASE u = added
    BY <1>1, <1>3, <2>1, <2>2, AddStoresAll
  <2>3. CASE u \in promised
    BY <1>2, <1>3, <2>1, <2>3 DEF AddStored, Next
  <2> QED BY <1>1, <1>3, <2>2, <2>3
<1>4. ASSUME NEW added \in LocalURIs, addURI(added), AddReturns(added) # 1, UNCHANGED promised
      PROVE  \E id \in DOMAIN uris' : Reads(u, id)'
  <2>1. stepped = {} /\ uris' = uris
    BY <1>1, <1>4, AddOutcome DEF addURI, AddNotStepped, AddConflict, AddStored, dbvars
  <2> QED BY <1>1, <1>2, <1>4, <2>1 DEF Next
<1>5. ASSUME NEW name \in Names,
             Delete({id \in DOMAIN uris : uris[id].name = name}),
             promised' = {v \in promised : v.name # name}
      PROVE  \E id \in DOMAIN uris' : Reads(u, id)'
  <2>1. [Next]_dbvars
    BY <1>5 DEF Next, removeURI
  <2>2. stepped = {} /\ u \in promised /\ u.name # name
    BY <1>1, <1>5 DEF Delete
  <2> QED BY <1>2, <1>5, <2>1, <2>2 DEF Delete
<1>6. CASE MemoryLost
  BY <1>1, <1>6 DEF MemoryLost
<1>7. CASE UNCHANGED <<dbvars, promised>>
  BY <1>1, <1>2, <1>7 DEF dbvars
<1> HIDE DEF Reads
<1> QED BY <1>3, <1>4, <1>5, <1>6, <1>7, PromiseSteps

\* The keys and values of the rows of one URI.
Content(rows, id) == {[key |-> row.key, value |-> row.value] : row \in {r \in rows : r.uri = id}}

\* Each row of the URI is in its content, and nothing else.
LEMMA ContentRows ==
  ASSUME NEW rows, NEW id
  PROVE  /\ \A row \in rows : row.uri = id
               => \E e \in Content(rows, id) : e.key = row.key /\ e.value = row.value
         /\ \A e \in Content(rows, id) :
               \E row \in rows : row.uri = id /\ row.key = e.key /\ row.value = e.value
<1>1. ASSUME NEW row \in rows, row.uri = id
      PROVE  \E e \in Content(rows, id) : e.key = row.key /\ e.value = row.value
  <2>1. [key |-> row.key, value |-> row.value] \in Content(rows, id)
    BY <1>1 DEF Content
  <2> QED BY <2>1
<1>2. ASSUME NEW e \in Content(rows, id)
      PROVE  \E row \in rows : row.uri = id /\ row.key = e.key /\ row.value = e.value
  BY DEF Content
<1> QED BY <1>1, <1>2

HasKey(rows, id, k) == \E row \in rows : row.uri = id /\ row.key = k

LEMMA ContentKeys ==
  ASSUME NEW rows, NEW id, NEW k
  PROVE  HasKey(rows, id, k) <=> \E e \in Content(rows, id) : e.key = k
BY ContentRows DEF HasKey

LEMMA ContentValues ==
  ASSUME NEW rows, NEW id, NEW k, NEW comparison, NEW bound
  PROVE  (\A row \in {r \in rows : r.uri = id /\ r.key = k} : Holds(comparison, row.value, bound))
            <=> (\A e \in Content(rows, id) : e.key = k => Holds(comparison, e.value, bound))
BY ContentRows

\* A query sees nothing of a URI but its keys and values.
LEMMA MatchesByContent ==
  ASSUME NEW t1, NEW id1, NEW t2, NEW id2, NEW q,
         \A kind \in Kinds : Content(t1[kind], id1) = Content(t2[kind], id2),
         Matches(t1, id1, q)
  PROVE  Matches(t2, id2, q)
<1>1. ASSUME NEW kind \in Kinds, NEW k
      PROVE  HasKey(t1[kind], id1, k) <=> HasKey(t2[kind], id2, k)
  <2>1. Content(t1[kind], id1) = Content(t2[kind], id2)
    OBVIOUS
  <2>2. HasKey(t1[kind], id1, k) <=> \E e \in Content(t1[kind], id1) : e.key = k
    BY ContentKeys, Zenon
  <2>3. HasKey(t2[kind], id2, k) <=> \E e \in Content(t2[kind], id2) : e.key = k
    BY ContentKeys, Zenon
  <2> QED BY <2>1, <2>2, <2>3, Zenon
<1>2. ASSUME NEW kind \in Kinds, NEW c, Satisfies(t1[kind], id1, c)
      PROVE  Satisfies(t2[kind], id2, c)
  <2> DEFINE field1 == {row \in t1[kind] : row.uri = id1 /\ row.key = c.field}
             field2 == {row \in t2[kind] : row.uri = id2 /\ row.key = c.field}
             All(rows) == \A row \in rows : Holds(c.comparison, row.value, c.value)
  <2>1. field1 = {} <=> field2 = {}
    <3>1. HasKey(t1[kind], id1, c.field) <=> HasKey(t2[kind], id2, c.field)
      BY <1>1
    <3> QED BY <3>1 DEF HasKey
  <2>2. All(field1) <=> All(field2)
    <3>1. Content(t1[kind], id1) = Content(t2[kind], id2)
      OBVIOUS
    <3>2. All(field1) <=> \A e \in Content(t1[kind], id1) :
                             e.key = c.field => Holds(c.comparison, e.value, c.value)
      BY ContentValues, Zenon
    <3>3. All(field2) <=> \A e \in Content(t2[kind], id2) :
                             e.key = c.field => Holds(c.comparison, e.value, c.value)
      BY ContentValues, Zenon
    <3> QED BY <3>1, <3>2, <3>3, Zenon
  <2>3. IF field1 = {} THEN c.onNULL ELSE All(field1)
    BY <1>2, Zenon DEF Satisfies
  <2> HIDE DEF field1, field2, All
  <2>4. IF field2 = {} THEN c.onNULL ELSE All(field2)
    BY <2>1, <2>2, <2>3, Zenon
  <2> QED BY <2>4, Zenon DEF Satisfies, field2, All
<1>3. \A t : HasTag(t1, id1, t) <=> HasTag(t2, id2, t)
  BY <1>1, Zenon DEF HasTag, HasKey, Kinds
<1> QED BY <1>2, <1>3, Zenon DEF Matches, Kinds

\* The tables of a message hold what its lists hold.
LEMMA SuppliedContent ==
  ASSUME NEW u \in LocalURIs, NEW kind \in Kinds
  PROVE  Content(Supplied(u)[kind], 1) = Elements(u.attributes[kind])
<1> DEFINE list == u.attributes[kind]
           At(i) == [uri |-> 1, key |-> list[i].key, value |-> list[i].value]
<1>1. \A i \in DOMAIN list : list[i] = [key |-> list[i].key, value |-> list[i].value]
  <2>1. \A i \in DOMAIN list : list[i] \in [key : Keys, value : Int \cup {NaN}]
    <3>1. \A X : \A s \in Seq(X) : \A k \in DOMAIN s : s[k] \in X
      OBVIOUS
    <3> QED BY <3>1, SuppliedSequence, Zenon
  <2> QED BY <2>1
<1>2. Supplied(u)[kind] = {At(i) : i \in DOMAIN list}
  BY DEF Supplied
<1>3. {r \in {At(i) : i \in DOMAIN list} : r.uri = 1} = {At(i) : i \in DOMAIN list}
  <2> HIDE DEF list
  <2> QED OBVIOUS
<1>4. {[key |-> row.key, value |-> row.value] : row \in {At(i) : i \in DOMAIN list}}
         = {list[i] : i \in DOMAIN list}
  <2> HIDE DEF list
  <2>1. \A i \in DOMAIN list : [key |-> At(i).key, value |-> At(i).value] = list[i]
    BY <1>1
  <2> HIDE DEF At
  <2> QED BY <2>1
<1> QED BY <1>2, <1>3, <1>4, Zenon DEF Content, Elements

\* What the tables hold of a URI, its owner supplied: nothing is read from another message.
HeldWasSupplied ==
  \A id \in DOMAIN uris : \E u \in promised :
      /\ u.name = uris[id].name
      /\ \A kind \in Kinds :
            getLocalURI(id).attributes[kind] \subseteq Elements(u.attributes[kind])

\* addURI puts nothing under the new id but attributes of its message.
LEMMA AddStoresSupplied ==
  ASSUME DatabaseInv, NEW u \in LocalURIs, AddStored(u), NEW kind \in Kinds
  PROVE  /\ NewID \in DOMAIN uris' /\ uris'[NewID].name = u.name
         /\ \A row \in tables'[kind] : row.uri = NewID
               => [key |-> row.key, value |-> row.value] \in Elements(u.attributes[kind])
<1> DEFINE list == u.attributes[kind]
<1>1. \A i \in DOMAIN list : list[i] = [key |-> list[i].key, value |-> list[i].value]
  <2>1. \A i \in DOMAIN list : list[i] \in [key : Keys, value : Int \cup {NaN}]
    <3>1. \A X : \A s \in Seq(X) : \A k \in DOMAIN s : s[k] \in X
      OBVIOUS
    <3> QED BY <3>1, SuppliedSequence, Zenon
  <2> QED BY <2>1
<1>2. \A row \in tables[kind] : row.uri # NewID
  BY NewIDIsFresh DEF DatabaseInv, ReferentialIntegrity
<1>3. tables'[kind] = tables[kind] \cup NewRows(u, kind)
  BY DEF AddStored
<1>4. \A row \in NewRows(u, kind) : \E i \in DOMAIN list :
         row.key = list[i].key /\ row.value = list[i].value
  BY DEF NewRows, Stored, Attempts
<1>5. NewID \in DOMAIN uris' /\ uris'[NewID].name = u.name
  BY NewIDIsFresh DEF AddStored
<1> HIDE DEF list
<1>6. \A row \in tables'[kind] : row.uri = NewID
         => \E i \in DOMAIN list : [key |-> row.key, value |-> row.value] = list[i]
  BY <1>1, <1>2, <1>3, <1>4
<1> QED BY <1>5, <1>6 DEF Elements, list

LEMMA HeldWasSuppliedStep ==
  ASSUME ServerTypeOK, DatabaseInv, HeldWasSupplied, [ServerNext]_vars
  PROVE  HeldWasSupplied'
<1> DEFINE Covers(u, id) == /\ u.name = uris[id].name
                            /\ \A kind \in Kinds :
                                  getLocalURI(id).attributes[kind] \subseteq Elements(u.attributes[kind])
<1>1. SUFFICES ASSUME NEW id \in DOMAIN uris'
               PROVE  \E u \in promised' : Covers(u, id)'
  BY DEF HeldWasSupplied
<1>2. ASSUME id \in DOMAIN uris, [Next]_dbvars,
             \A u \in promised : u.name = uris[id].name => u \in promised'
      PROVE  \E u \in promised' : Covers(u, id)'
  <2>1. PICK u \in promised : Covers(u, id)
    BY <1>2 DEF HeldWasSupplied
  <2>2. getLocalURI(id)' = getLocalURI(id)
    BY <1>1, <1>2, OthersUntouched DEF DatabaseInv
  <2>3. getLocalURI(id)'.name = uris'[id].name /\ getLocalURI(id).name = uris[id].name
    BY DEF getLocalURI
  <2>4. Covers(u, id)'
    BY <2>1, <2>2, <2>3
  <2> QED BY <1>2, <2>1, <2>4
<1>3. ASSUME NEW added \in LocalURIs, addURI(added), AddReturns(added) = 1,
             promised' = promised \cup {added}
      PROVE  \E u \in promised' : Covers(u, id)'
  <2>1. AddStored(added) /\ [Next]_dbvars
    BY <1>3, AddOutcome DEF Next
  <2>2. CASE id = NewID
    <3>1. ASSUME NEW kind \in Kinds
          PROVE  getLocalURI(id)'.attributes[kind] \subseteq Elements(added.attributes[kind])
      <4>1. getLocalURI(id)'.attributes[kind]
               = {[key |-> row.key, value |-> row.value] : row \in {r \in tables'[kind] : r.uri = id}}
        BY DEF getLocalURI
      <4> QED BY <2>1, <2>2, <4>1, AddStoresSupplied
    <3>2. added.name = uris'[id].name
      BY <2>1, <2>2, AddStoresSupplied DEF Kinds
    <3> QED BY <1>3, <3>1, <3>2
  <2>3. CASE id # NewID
    <3>1. id \in DOMAIN uris
      BY <2>1, <2>3 DEF AddStored
    <3> QED BY <1>2, <1>3, <2>1, <3>1
  <2> QED BY <2>2, <2>3
<1>4. ASSUME NEW added \in LocalURIs, addURI(added), AddReturns(added) # 1, UNCHANGED promised
      PROVE  \E u \in promised' : Covers(u, id)'
  BY <1>1, <1>2, <1>4, AddOutcome DEF Next
<1>5. ASSUME NEW name \in Names,
             Delete({i \in DOMAIN uris : uris[i].name = name}),
             promised' = {v \in promised : v.name # name}
      PROVE  \E u \in promised' : Covers(u, id)'
  <2>1. [Next]_dbvars
    BY <1>5 DEF Next, removeURI
  <2>2. id \in DOMAIN uris /\ uris[id].name # name
    BY <1>1, <1>5 DEF Delete
  <2> QED BY <1>2, <1>5, <2>1, <2>2
<1>6. CASE MemoryLost
  BY <1>1, <1>6 DEF MemoryLost
<1>7. CASE UNCHANGED <<dbvars, promised>>
  BY <1>1, <1>2, <1>7 DEF dbvars
<1> HIDE DEF Covers
<1> QED BY <1>3, <1>4, <1>5, <1>6, <1>7, PromiseSteps

\* What cannot be read back was supplied so.
LEMMA NaNsAreSupplied ==
  ASSUME ServerTypeOK, HeldWasSupplied, NEW id \in DOMAIN uris, ~ Readable(id)
  PROVE  \E u \in promised : HasNaN(u)
<1>1. PICK row \in tables[Double] : row.uri = id /\ row.value = NaN
  BY DEF Readable
<1>2. PICK u \in promised :
         getLocalURI(id).attributes[Double] \subseteq Elements(u.attributes[Double])
  BY DEF HeldWasSupplied, Kinds
<1>3. [key |-> row.key, value |-> row.value] \in getLocalURI(id).attributes[Double]
  BY <1>1, AttributesRead DEF Kinds
<1>4. PICK i \in DOMAIN u.attributes[Double] :
         u.attributes[Double][i] = [key |-> row.key, value |-> row.value]
  BY <1>2, <1>3 DEF Elements
<1> QED BY <1>1, <1>4 DEF HasNaN

\* A confirmed URI is found by every plain query its owner's attributes satisfy, until
\* an insert fails: all its attributes are in the tables (StoredAsSupplied), and the
\* query loses none (SelectedExact).  The query succeeds as long as no client has supplied
\* a NaN, since all that is held was supplied (HeldWasSupplied).
THEOREM ConfirmedURIsAreFound == ServerSpec => []FoundUntilAnInsertFails
<1>1. ServerInit => StoredAsSupplied /\ HeldWasSupplied
  BY DEF ServerInit, Init, StoredAsSupplied, HeldWasSupplied
<1>2. ServerTypeOK /\ DatabaseInv /\ StoredAsSupplied /\ HeldWasSupplied /\ [ServerNext]_vars
         => StoredAsSupplied' /\ HeldWasSupplied'
  BY StoredAsSuppliedStep, HeldWasSuppliedStep
<1>3. ServerTypeOK /\ DatabaseInv /\ StoredAsSupplied /\ HeldWasSupplied
         => FoundUntilAnInsertFails
  <2>1. SUFFICES ASSUME ServerTypeOK, DatabaseInv, StoredAsSupplied, HeldWasSupplied,
                        stepped = {}, \A w \in promised : ~ HasNaN(w),
                        NEW u \in promised, NEW q \in Queries,
                        WellFormed(u), Plain(q), Usable(q), Matches(Supplied(u), 1, q)
                 PROVE  FoundBy(u, q)
    BY DEF FoundUntilAnInsertFails, WellFormedURIsAreFound
  <2>2. PICK id \in DOMAIN uris :
           /\ uris[id].name = u.name
           /\ \A kind \in Kinds : getLocalURI(id).attributes[kind] = Elements(u.attributes[kind])
    BY <2>1 DEF StoredAsSupplied
  <2>3. u \in LocalURIs
    BY <2>1 DEF ServerTypeOK
  <2>4. \A kind \in Kinds : Content(Supplied(u)[kind], 1) = Content(tables[kind], id)
    BY <2>2, <2>3, SuppliedContent, AttributesRead DEF Content
  <2>5. Matches(tables, id, q)
    BY <2>1, <2>4, MatchesByContent
  <2>6. WholeDoubles(q) /\ \A kind \in Kinds : UniqueKeys(tables[kind])
    BY <2>1, ConstraintsGiveUniqueKeys DEF Plain, DatabaseInv
  <2>7. id \in Selected(tables, q)
    BY <2>1, <2>5, <2>6, SelectedExact, Zenon
  <2>8. QuerySucceeds(q)
    <3>1. Selected(tables, q) \subseteq DOMAIN uris
      BY <2>1, SelectedAreThere DEF DatabaseInv
    <3> QED BY <2>1, <3>1, NaNsAreSupplied DEF QuerySucceeds
  <2> QED BY <2>2, <2>7, <2>8 DEF FoundBy
<1> QED BY <1>1, <1>2, <1>3, ServedDatabaseSound, PTL DEF ServerSpec

-----------------------------------------------------------------------------
(***************************************************************************)
(* The server as its clients see it: URIService.  Its operators on queries *)
(* are those of LocalURIQuery again, as that module extends it.            *)
(***************************************************************************)
LEMMA ServiceKinds == Service!Kinds = Kinds
  BY DEF Service!Kinds, Service!Tags, Service!Integer, Service!Double, Kinds, Tags, Integer, Double

LEMMA ServiceAdd ==
  ASSUME NEW u, Registry!Add(u)
  PROVE  Service!Registry!Add(u)
  BY ServiceKinds, Zenon
     DEF Registry!Add, Service!Registry!Add, Registry!Storable, Service!Registry!Storable

LEMMA ServiceQueries ==
  ASSUME NEW q
  PROVE  /\ Service!Usable(q) <=> Usable(q)
         /\ Service!WholeDoubles(q) <=> WholeDoubles(q)
         /\ Service!Plain(q) <=> Plain(q)
  BY Zenon DEF Service!Usable, Usable, Service!WholeDoubles, WholeDoubles, Service!Plain, Plain,
               Service!Conditions, Conditions, Service!Fields, Fields, Service!Elements, Elements,
               Service!Distinct, Distinct, Service!Truncated, Truncated

LEMMA ServiceMatches ==
  ASSUME NEW contents, NEW id, NEW q
  PROVE  Service!Matches(contents, id, q) <=> Matches(contents, id, q)
  BY Zenon DEF Service!Matches, Matches, Service!HasTag, HasTag, Service!Satisfies, Satisfies,
               Service!Holds, Holds, Service!Elements, Elements,
               Service!Tags, Service!Integer, Service!Double, Tags, Integer, Double

\* A table made of the content of a URI has that content.
LEMMA ContentAgain ==
  ASSUME NEW C, \A e \in C : e = [key |-> e.key, value |-> e.value]
  PROVE  Content({[uri |-> 1, key |-> e.key, value |-> e.value] : e \in C}, 1) = C
<1> DEFINE At(e) == [uri |-> 1, key |-> e.key, value |-> e.value]
<1>1. {r \in {At(e) : e \in C} : r.uri = 1} = {At(e) : e \in C}
  OBVIOUS
<1>2. {[key |-> row.key, value |-> row.value] : row \in {At(e) : e \in C}} = C
  <2>1. \A e \in C : [key |-> At(e).key, value |-> At(e).value] = e
    OBVIOUS
  <2> HIDE DEF At
  <2> QED BY <2>1
<1> QED BY <1>1, <1>2, Zenon DEF Content

\* What a query says of a registration is what it says of its rows.
LEMMA DescribesRows ==
  ASSUME NEW id \in DOMAIN uris, NEW q
  PROVE  Service!Describes(q, getLocalURI(id)) <=> Matches(tables, id, q)
<1> DEFINE A(kind) == getLocalURI(id).attributes[kind]
           contents == [kind \in Kinds |-> {[uri |-> 1, key |-> e.key, value |-> e.value] : e \in A(kind)}]
<1>1. ASSUME NEW kind \in Kinds PROVE Content(contents[kind], 1) = Content(tables[kind], id)
  <2>1. A(kind) = Content(tables[kind], id)
    BY AttributesRead, Zenon DEF Content
  <2>2. \A e \in Content(tables[kind], id) : e = [key |-> e.key, value |-> e.value]
    BY DEF Content
  <2>3. contents[kind] = {[uri |-> 1, key |-> e.key, value |-> e.value] : e \in A(kind)}
    OBVIOUS
  <2> HIDE DEF A, contents
  <2>4. Content({[uri |-> 1, key |-> e.key, value |-> e.value] : e \in A(kind)}, 1) = A(kind)
    BY <2>1, <2>2, ContentAgain
  <2> QED BY <2>1, <2>3, <2>4
<1>2. Service!Describes(q, getLocalURI(id)) <=> Matches(contents, 1, q)
  <2>1. Service!Describes(q, getLocalURI(id)) <=> Service!Matches(contents, 1, q)
    BY ServiceKinds, Zenon DEF Service!Describes
  <2> HIDE DEF contents
  <2> QED BY <2>1, ServiceMatches, Zenon
<1> HIDE DEF contents
<1>3. Matches(contents, 1, q) <=> Matches(tables, id, q)
  BY <1>1, MatchesByContent
<1> QED BY <1>2, <1>3

LEMMA NamesOfRows ==
  ASSUME NEW q
  PROVE  /\ {e.name : e \in registrations} = {uris[id].name : id \in DOMAIN uris}
         /\ Service!NamesDescribed(q)
               = {uris[id].name : id \in {i \in DOMAIN uris : Matches(tables, i, q)}}
<1>1. \A id \in DOMAIN uris : getLocalURI(id).name = uris[id].name
  BY DEF getLocalURI
<1>2. {e \in registrations : Service!Describes(q, e)}
         = {getLocalURI(id) : id \in {i \in DOMAIN uris : Matches(tables, i, q)}}
  BY DescribesRows DEF registrations
<1> QED BY <1>1, <1>2 DEF registrations, Service!NamesDescribed

\* A registration that cannot be read back is one whose rows cannot.
LEMMA UnreadableRows ==
  ASSUME NEW id \in DOMAIN uris
  PROVE  Service!Unreadable(getLocalURI(id)) <=> ~ Readable(id)
<1>1. getLocalURI(id).attributes[Double] = Content(tables[Double], id)
  BY AttributesRead DEF Kinds, Content
<1>2. Service!Unreadable(getLocalURI(id))
         <=> \E a \in getLocalURI(id).attributes[Double] : a.value = NaN
  BY Zenon DEF Service!Unreadable, Service!Double, Double
<1>3. (\E a \in getLocalURI(id).attributes[Double] : a.value = NaN)
         <=> \E row \in tables[Double] : row.uri = id /\ row.value = NaN
  BY <1>1, ContentRows
<1> QED BY <1>2, <1>3 DEF Readable

\* The branch of a query finds what the service may find.
LEMMA QueryRefines ==
  ASSUME ServerTypeOK, DatabaseInv, NEW c \in Pids, ServeQuery(c)
  PROVE  Service!Finds(c) \/ Service!Refuses(c)
<1> DEFINE q == inbox[c].query
           names == {uris[id].name : id \in Selected(tables, q)}
<1>1. /\ q \in Queries
      /\ server = "running" /\ inbox[c] # None /\ inbox[c].kind = "query"
      /\ inbox' = [inbox EXCEPT ![c] = None]
      /\ UNCHANGED <<uris, tables, server, alive>>
  BY DEF ServeQuery, Takes, dbvars, ServerTypeOK, Requests
<1>2. registrations' = registrations
  BY <1>1 DEF registrations, getLocalURI
<1>3. Selected(tables, q) \subseteq DOMAIN uris
  BY SelectedAreThere DEF DatabaseInv
<1>6. \A kind \in Kinds : UniqueKeys(tables[kind])
  BY ConstraintsGiveUniqueKeys DEF DatabaseInv
<1>4. CASE QuerySucceeds(q)
  <2>1. Service!Answers(c, "query", "REQUEST_SUCCEEDED", names)
    BY <1>1, <1>4 DEF ServeQuery, Sends, Service!Answers
  <2>2. Usable(q)
    BY <1>4 DEF QuerySucceeds
  <2>3. names \in SUBSET {e.name : e \in registrations}
    BY <1>3, NamesOfRows
  <2>5. WholeDoubles(q) => names \subseteq Service!NamesDescribed(q)
    BY <1>1, <1>3, <1>6, <2>2, NamesOfRows, SelectedExact
  <2>6. Plain(q) => Service!NamesDescribed(q) \subseteq names
    BY <1>1, <1>6, <2>2, NamesOfRows, SelectedExact DEF Plain
  <2>7. ASSUME NEW e \in registrations, e.name \in names PROVE ~ Service!Unreadable(e)
    <3>1. PICK id \in DOMAIN uris : e = getLocalURI(id)
      BY DEF registrations
    <3>2. PICK found \in Selected(tables, q) : uris[id].name = uris[found].name
      BY <2>7, <3>1 DEF getLocalURI
    <3>3. id = found
      BY <1>3, <3>2 DEF DatabaseInv, SchemaConstraints
    <3>4. Readable(id)
      BY <1>4, <3>3 DEF QuerySucceeds
    <3> QED BY <3>1, <3>4, UnreadableRows
  <2> QED BY <1>1, <1>2, <2>1, <2>2, <2>3, <2>5, <2>6, <2>7, ServiceQueries DEF Service!Finds
<1>5. CASE ~ QuerySucceeds(q)
  <2>1. Service!Answers(c, "query", "REQUEST_FAILED", {})
    BY <1>1, <1>5 DEF ServeQuery, sendRequestFailedMessage, Sends, Service!Answers
  <2>2. CASE ~ Usable(q)
    BY <1>1, <1>2, <2>1, <2>2, ServiceQueries DEF Service!Refuses
  <2>3. CASE Usable(q)
    <3>1. PICK id \in Selected(tables, q) : ~ Readable(id)
      BY <1>5, <2>3 DEF QuerySucceeds
    <3>2. id \in DOMAIN uris /\ getLocalURI(id) \in registrations
      BY <1>3, <3>1 DEF registrations
    <3>3. Service!Unreadable(getLocalURI(id))
      BY <3>1, <3>2, UnreadableRows
    <3>4. WholeDoubles(q) => Service!Describes(q, getLocalURI(id))
      <4>1. WholeDoubles(q) => Matches(tables, id, q)
        BY <1>1, <1>6, <2>3, <3>1, SelectedExact
      <4> QED BY <3>2, <4>1, DescribesRows
    <3>5. Service!Spoiled(q)
      BY <3>2, <3>3, <3>4, ServiceQueries DEF Service!Spoiled
    <3> QED BY <1>1, <1>2, <2>1, <3>5 DEF Service!Refuses
  <2> QED BY <2>2, <2>3
<1> QED BY <1>4, <1>5

\* Each branch of the loop is one answer of the service.
LEMMA ServeRefines ==
  ASSUME ServerTypeOK, DatabaseInv, NEW c \in Pids, Serve(c)
  PROVE  Service!Next
<1> USE DEF Sends, sendRequestFailedMessage, sendRequestSucceededMessage, Takes, Service!Answers
<1>1. UNCHANGED <<uris, tables>> => registrations' = registrations
  BY DEF registrations, getLocalURI
<1>2. CASE ServeAdd(c)
  <2> DEFINE u == inbox[c].uri
  <2>1. u \in LocalURIs /\ addURI(u)
    BY <1>2, TakenRequests DEF ServeAdd
  <2>2. CASE AddReturns(u) = 1
    <3>1. Service!Registry!Add(u)
      BY <2>1, <2>2, AddOutcome, AddRefines, ServiceAdd DEF DatabaseInv
    <3>2. Service!Answers(c, "add", "REQUEST_SUCCEEDED", {}) /\ UNCHANGED server
      BY <1>2, <2>2 DEF ServeAdd
    <3> QED BY <3>1, <3>2 DEF Service!Next, Service!Registers
  <2>3. CASE AddReturns(u) # 1
    <3>1. registrations' = registrations
      BY <1>1, <2>1, <2>3, AddOutcome
    <3>2. Service!Answers(c, "add", "REQUEST_FAILED", {}) /\ UNCHANGED server
      BY <1>2, <2>3 DEF ServeAdd
    <3> QED BY <3>1, <3>2 DEF Service!Next, Service!Refuses
  <2> QED BY <2>2, <2>3
<1>3. CASE ServeRemoval(c)
  <2>1. inbox[c].name \in Names /\ removeURI(inbox[c].name)
    BY <1>3, TakenRequests DEF ServeRemoval
  <2>2. Service!Registry!Remove(inbox[c].name)
    BY <2>1, RemoveRefines DEF removeURI, DatabaseInv, Service!Registry!Remove
  <2>3. Service!Answers(c, "remove", "REQUEST_SUCCEEDED", {}) /\ UNCHANGED server
    BY <1>3 DEF ServeRemoval
  <2> QED BY <2>2, <2>3 DEF Service!Next, Service!Removes
<1>4. CASE ServeQuery(c)
  BY <1>4, QueryRefines DEF Service!Next
<1>5. CASE ServeOther(c)
  <2>1. Service!Answers(c, "other", "REQUEST_FAILED", {}) /\ UNCHANGED server
    BY <1>5 DEF ServeOther
  <2>2. registrations' = registrations
    BY <1>1, <1>5 DEF ServeOther, dbvars
  <2> QED BY <2>1, <2>2 DEF Service!Next, Service!Refuses
<1>6. CASE ServeInvalid(c)
  <2>1. Service!Answers(c, "invalid", "REQUEST_FAILED", {})
    BY <1>6 DEF ServeInvalid
  <2>2. Service!Ends
    BY <1>6 DEF ServeInvalid, MemoryLost, registrations, Service!Ends
  <2> QED BY <2>1, <2>2 DEF Service!Next, Service!Breaks
<1> QED BY <1>2, <1>3, <1>4, <1>5, <1>6 DEF Serve

LEMMA ServerRefines ==
  ASSUME ServerTypeOK, DatabaseInv, [ServerNext]_vars
  PROVE  [Service!Next]_<<registrations, Service!clients, server>>
<1>1. UNCHANGED <<uris, tables>> => registrations' = registrations
  BY DEF registrations, getLocalURI
<1>2. CASE UNCHANGED vars
  BY <1>1, <1>2 DEF vars, dbvars, servervars, Service!clients
<1>3. ASSUME NEW c \in Pids, NEW request \in Requests, Ask(c, request) PROVE Service!Next
  <2>1. Service!Ask(c, request)
    BY <1>1, <1>3 DEF Ask, dbvars, Service!Ask
  <2>2. request \in Service!Requests
    BY DEF Requests, Service!Requests
  <2> QED BY <2>1, <2>2 DEF Service!Next
<1>4. ASSUME NEW c \in Pids, Receive(c) PROVE Service!Next
  BY <1>1, <1>4 DEF Receive, dbvars, Service!Receive, Service!Next
<1>5. ASSUME NEW c \in Pids, ClientDies(c) PROVE Service!Next
  BY <1>1, <1>5 DEF ClientDies, dbvars, Service!Dies, Service!Next
<1>6. CASE ServerDies
  BY <1>6 DEF ServerDies, MemoryLost, registrations, Service!Ends, Service!clients, Service!Next
<1> QED BY <1>2, <1>3, <1>4, <1>5, <1>6, ServeRefines DEF ServerNext

\* For any number of clients, URIs and queries: however requests, deaths and failed inserts
\* follow each other, clients see one request after another take its whole effect between
\* its question and its answer (processRequests).
THEOREM ServiceImplemented == ServerSpec => ImplementsService
<1>1. ServerInit => Service!Init
  BY DEF ServerInit, Init, registrations, Service!Init, Service!Registry!Init
<1>2. ServerTypeOK /\ DatabaseInv /\ [ServerNext]_vars
         => [Service!Next]_<<registrations, Service!clients, server>>
  BY ServerRefines
<1> QED BY <1>1, <1>2, ServedDatabaseSound, PTL
        DEF ServerSpec, ImplementsService, Service!Spec
=============================================================================
