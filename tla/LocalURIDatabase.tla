-------------------------- MODULE LocalURIDatabase --------------------------
(***************************************************************************)
(* The URI database of the IPC library (localURIDatabase): an in-memory    *)
(* SQLite database with the table URIs and three attribute tables, used    *)
(* through prepared statements that live as long as the object.            *)
(*                                                                         *)
(* Kept: the schema's constraints, the order of the inserts of addURI,     *)
(* every early exit, the cascade of a delete, the reuse of row ids, and    *)
(* the state of the prepared insert statements, which a failed             *)
(* sqlite3_step leaves un-reset: SQLite then answers SQLITE_MISUSE to      *)
(* every later bind of that statement.  Left out: the texts themselves,    *)
(* I/O errors of SQLite, the optional database file.                       *)
(***************************************************************************)
EXTENDS LocalURIQuery

CONSTANTS
    Names, Paths, Keys,   \* texts that occur as resource names, IPC paths, tags and keys
    TooLong,              \* those longer than the 80 characters localURIDatabase.h allows
    Pids, NoPid,          \* originating processes, and SQL NULL
    MaxAttributes,        \* MAX_NUMBER_OF_TAGS_PER_URI and its two siblings
    LocalURIs,            \* the localURI messages handed to addURI
    Queries,              \* the localURIQuery messages handed to processQuery
    MaxURIID              \* bound on the row ids

Statements == Kinds \cup {"URIs"}   \* one prepared insert statement per table

LocalURI == [name : Names, path : Paths, pid : Pids \cup {NoPid},
             attributes : [Kinds -> Seq([key : Keys, value : Int \cup {NaN}])]]

\* requiredIntegerCondition, requiredDoubleCondition and the query that holds them.
RequiredCondition ==
    [field : Keys, comparison : Comparisons, value : Int, onNULL : BOOLEAN]

QueryMessage ==
    [required : Seq(Keys), forbidden : Seq(Keys), integers : Seq(RequiredCondition),
     doubles : Seq(RequiredCondition), maximum : Nat]

ASSUME DatabaseAssumption ==
    /\ LocalURIs \subseteq LocalURI
    /\ Queries \subseteq QueryMessage
    /\ MaxAttributes \in Nat
    /\ MaxURIID \in Nat
    /\ NoPid \notin Pids
    /\ NaN \notin Int

VARIABLES
    uris,      \* table URIs: row id -> [name, path, pid]
    tables,    \* the attribute tables: kind -> set of rows
    stepped    \* insert statements left un-reset by a failed sqlite3_step

dbvars == <<uris, tables, stepped>>

Base == [name : Names, path : Paths, pid : Pids \cup {NoPid}]
Row  == [uri : Nat \ {0}, key : Keys, value : Int \cup {NaN}]

TypeOK ==
    /\ uris \in UNION {[ids -> Base] : ids \in SUBSET (1 .. MaxURIID)}
    /\ tables \in [Kinds -> SUBSET Row]
    /\ stepped \subseteq Statements

Init ==
    /\ uris = [id \in {} |-> {}]
    /\ tables = [kind \in Kinds |-> {}]
    /\ stepped = {}

-----------------------------------------------------------------------------
(***************************************************************************)
(* Insertion                                                               *)
(***************************************************************************)

\* "id integer primary key" without AUTOINCREMENT: one more than the largest id in use.
NewID == CHOOSE id \in 1 .. (MaxURIID + 1) :
            /\ \A used \in DOMAIN uris : used < id
            /\ id = 1 \/ id - 1 \in DOMAIN uris

\* insertURIBase returns 0 before it steps: a text is too long, or the bind is a misuse.
BaseNotStepped(u) == u.name \in TooLong \/ u.path \in TooLong \/ "URIs" \in stepped

\* Mutant: only the name column is declared unique.
BaseConflictsOnName(u) == \E id \in DOMAIN uris : uris[id].name = u.name

\* The unique columns of URIs.
BaseConflicts(u) == \E id \in DOMAIN uris : uris[id].name = u.name \/ uris[id].path = u.path

\* Mutant: the loop stops one attribute early.
AttemptsOneLess(u, kind) == {i \in DOMAIN u.attributes[kind] : i < MaxAttributes}

\* The loops of addURI stop at the end of the list or at the maximum.
Attempts(u, kind) == {i \in DOMAIN u.attributes[kind] : i <= MaxAttributes}

\* unique(value, uriID) and unique(key, uriID): the i-th insert meets an earlier row.
RowConflicts(u, kind, i) ==
    \/ \E row \in tables[kind] : row.uri = NewID /\ row.key = u.attributes[kind][i].key
    \/ \E j \in 1 .. (i - 1) : u.attributes[kind][j].key = u.attributes[kind][i].key

\* The i-th insert of a kind is stepped and succeeds.
Inserts(u, kind, i) ==
    /\ kind \notin stepped
    /\ u.attributes[kind][i].key \notin TooLong
    /\ ~ RowConflicts(u, kind, i)

\* Mutant: the loop goes on after an insert that failed.
StoredWithoutBreak(u, kind) == {i \in Attempts(u, kind) : Inserts(u, kind, i)}

\* A failed insert leaves its loop: what is stored is a prefix.
Stored(u, kind) == {i \in Attempts(u, kind) : \A j \in 1 .. i : Inserts(u, kind, j)}

\* Mutant: sqlite3_last_insert_rowid is read before the base is inserted.
RowsOfThePreviousID(u, kind) ==
    {[uri |-> NewID - 1, key |-> u.attributes[kind][i].key, value |-> u.attributes[kind][i].value]
        : i \in Stored(u, kind)}

NewRows(u, kind) ==
    {[uri |-> NewID, key |-> u.attributes[kind][i].key, value |-> u.attributes[kind][i].value]
        : i \in Stored(u, kind)}

\* The loop stopped at an insert whose step broke the uniqueness constraint.
StepFails(u, kind) ==
    /\ kind \notin stepped
    /\ \E i \in Attempts(u, kind) \ Stored(u, kind) :
          /\ \A j \in 1 .. (i - 1) : Inserts(u, kind, j)
          /\ u.attributes[kind][i].key \notin TooLong

\* The value addURI returns: whether the base was inserted.
AddReturns(u) == IF BaseNotStepped(u) \/ BaseConflicts(u) THEN 0 ELSE 1

AddNotStepped(u) ==
    /\ BaseNotStepped(u)
    /\ UNCHANGED dbvars

AddConflict(u) ==
    /\ ~ BaseNotStepped(u)
    /\ BaseConflicts(u)
    /\ stepped' = stepped \cup {"URIs"}
    /\ UNCHANGED <<uris, tables>>

AddStored(u) ==
    /\ ~ BaseNotStepped(u)
    /\ ~ BaseConflicts(u)
    /\ NewID <= MaxURIID
    /\ uris' = [id \in DOMAIN uris \cup {NewID} |->
                    IF id = NewID THEN [name |-> u.name, path |-> u.path, pid |-> u.pid]
                                  ELSE uris[id]]
    /\ tables' = [kind \in Kinds |-> tables[kind] \cup NewRows(u, kind)]
    /\ stepped' = stepped \cup {kind \in Kinds : StepFails(u, kind)}

addURI(u) == AddNotStepped(u) \/ AddConflict(u) \/ AddStored(u)

-----------------------------------------------------------------------------
\* Mutant: foreign keys are not switched on.
DeleteWithoutCascade(ids) ==
    /\ uris' = [id \in DOMAIN uris \ ids |-> uris[id]]
    /\ UNCHANGED <<tables, stepped>>

(***************************************************************************)
(* Removal.  "delete from URIs where ..." with foreign keys on: the rows   *)
(* of a deleted URI go with it.  Deleting nothing is a success.            *)
(***************************************************************************)
Delete(ids) ==
    /\ uris' = [id \in DOMAIN uris \ ids |-> uris[id]]
    /\ tables' = [kind \in Kinds |-> {row \in tables[kind] : row.uri \notin ids}]
    /\ UNCHANGED stepped

\* Mutant: the name is bound to another parameter than the one of the statement.
removeURIUnbound(name) == Delete({})

removeURI(name) == Delete({id \in DOMAIN uris : uris[id].name = name})

removeURIByID(id) == Delete({id} \cap DOMAIN uris)

-----------------------------------------------------------------------------
(***************************************************************************)
(* processQuery: 0 when the statement cannot be prepared or getLocalURI    *)
(* fails for a selected id, otherwise 1 and the selected URIs.  The        *)
(* maximum number of results is not looked at.                             *)
(***************************************************************************)

\* getLocalURI returns 1: the id has its row in URIs, and no double reads back as NULL
\* where SQLITE_FLOAT is expected.  Texts and integers are bound as what they are.
Readable(id) ==
    /\ id \in DOMAIN uris
    /\ \A row \in tables[Double] : row.uri = id => row.value # NaN

QuerySucceeds(q) == Usable(q) /\ \A id \in Selected(tables, q) : Readable(id)

\* The registration of an id: what getLocalURI puts together if it returns 1.
getLocalURI(id) ==
    [name |-> uris[id].name, path |-> uris[id].path, pid |-> uris[id].pid,
     attributes |-> [kind \in Kinds |->
        {[key |-> row.key, value |-> row.value] : row \in {r \in tables[kind] : r.uri = id}}]]

Next == \/ \E u \in LocalURIs : addURI(u)
        \/ \E name \in Names : removeURI(name)
        \/ \E id \in 1 .. MaxURIID : removeURIByID(id)

Spec == Init /\ [][Next]_dbvars

-----------------------------------------------------------------------------
(***************************************************************************)
(* Properties                                                              *)
(***************************************************************************)

\* No attribute row outlives its URI: ids are reused (the largest id freed is
\* handed out again), so an orphan row would become part of the next registration.
ReferentialIntegrity ==
    \A kind \in Kinds : \A row \in tables[kind] : row.uri \in DOMAIN uris

\* Two registrations never share a resource name or an IPC path, and a URI has at
\* most one value for a key of a kind, whatever was added and removed before.
SchemaConstraints ==
    /\ \A a, b \in DOMAIN uris :
          a # b => uris[a].name # uris[b].name /\ uris[a].path # uris[b].path
    /\ \A kind \in Kinds : \A r1, r2 \in tables[kind] :
          r1.uri = r2.uri /\ r1.key = r2.key => r1 = r2

\* A registration does not change while it stands: an operation on one URI never
\* alters what the database says of another (addURI and removeURI).
RegistrationsImmutable ==
    [][\A id \in DOMAIN uris \cap DOMAIN uris' : getLocalURI(id)' = getLocalURI(id)]_dbvars

\* The database keeps the promise of URIRegistry: its tables are a set of
\* registrations, each with a prefix of what its owner supplied (addURI, removeURI).
registrations == {getLocalURI(id) : id \in DOMAIN uris}
Registry == INSTANCE URIRegistry WITH entries <- registrations
ImplementsRegistry == Registry!Spec

\* A URI a query returns has every required tag, no forbidden one, and meets every
\* condition, as long as no double of a condition is cut (processQuery).
QuerySound ==
    \A q \in Queries : QuerySucceeds(q) /\ WholeDoubles(q) =>
        \A id \in Selected(tables, q) : Matches(tables, id, q)

\* A query that names no tag or field twice and asks for no missing field returns every
\* URI it describes, if these are not more than it asks for: INTERSECT, EXCEPT and the
\* counts lose none (processQuery).
QueryComplete ==
    \A q \in Queries :
        LET described == {id \in DOMAIN uris : Matches(tables, id, q)}
        IN  QuerySucceeds(q) /\ Plain(q) /\ Asked(q, described)
                => described \subseteq Selected(tables, q)

=============================================================================
