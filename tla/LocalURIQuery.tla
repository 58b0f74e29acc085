--------------------------- MODULE LocalURIQuery ---------------------------
(***************************************************************************)
(* How localURIDatabase answers a localURIQuery: the three subqueries over *)
(* the attribute tables, their intersection, and the cases in which the    *)
(* generated SQL cannot run.  Beside it stands the reference meaning of a  *)
(* query, taken from the fields of messages/localURIQuery.proto.           *)
(*                                                                         *)
(* There are no variables here.  "tables" is the content of the three      *)
(* attribute tables: a row is [uri |-> id, key |-> k, value |-> v], and a  *)
(* tag is a row whose key is the tag and whose value is 0.                 *)
(*                                                                         *)
(* A query is a record                                                     *)
(*   required, forbidden : sequences of tags                               *)
(*   integers, doubles   : sequences of [field, comparison, value, onNULL] *)
(*   maximum             : maximumNumberOfResults                          *)
(* Numbers in the double table and in double conditions are fixed point:   *)
(* v stands for v / DoubleScale.  sqlite3_bind_double stores NaN as NULL.  *)
(***************************************************************************)
EXTENDS Integers, Sequences, FiniteSets

CONSTANTS
    DoubleScale,   \* resolution of the fixed-point doubles
    NaN            \* a double that is no number

ASSUME DoubleScaleAssumption == DoubleScale \in Nat \ {0}

Tags     == "URItags"
Integer  == "URIIntegerKeyValuePairs"
Double   == "URIDoubleKeyValuePairs"
Kinds    == {Tags, Integer, Double}

Elements(s) == {s[i] : i \in DOMAIN s}
Distinct(s) == \A i, j \in DOMAIN s : s[i] = s[j] => i = j

Comparisons == {"LESS_THAN", "LESS_THAN_OR_EQUAL", "GREATER_THAN", "GREATER_THAN_OR_EQUAL",
                "EQUAL", "NOT_EQUAL"}

(***************************************************************************)
(* comparisonOperatorToString: the SQL operator, applied.  No comparison   *)
(* with NULL is true.                                                      *)
(***************************************************************************)
Holds(comparison, value, bound) ==
    /\ value # NaN
    /\ \/ comparison = "LESS_THAN"             /\ value < bound
       \/ comparison = "LESS_THAN_OR_EQUAL"    /\ value <= bound
       \/ comparison = "GREATER_THAN"          /\ value > bound
       \/ comparison = "GREATER_THAN_OR_EQUAL" /\ value >= bound
       \/ comparison = "EQUAL"                 /\ value = bound
       \/ comparison = "NOT_EQUAL"             /\ value # bound

(***************************************************************************)
(* sqlite3_bind_int receives the double of a condition, so C++ truncates   *)
(* it toward zero on the way.                                              *)
(***************************************************************************)
Truncated(v) == IF v >= 0 THEN (v \div DoubleScale) * DoubleScale
                          ELSE -((-v \div DoubleScale) * DoubleScale)

\* The double conditions as they are bound.
BoundConditions(conditions) ==
    [i \in DOMAIN conditions |-> [conditions[i] EXCEPT !.value = Truncated(@)]]

URIsIn(rows) == {row.uri : row \in rows}

\* Mutant: the EXCEPT with the forbidden tags is left out.
TagSubqueryWithoutExcept(tables, q) ==
    {id \in URIsIn(tables[Tags]) :
        Cardinality({row \in tables[Tags] :
                        row.uri = id /\ row.key \in Elements(q.required)}) = Len(q.required)}

(***************************************************************************)
(* "select uriID ... value in (required) group by uriID where matchCount = *)
(* number of required tags", except the URIs with a forbidden tag.         *)
(***************************************************************************)
TagSubquery(tables, q) ==
    LET matching(id) == {row \in tables[Tags] :
                            row.uri = id /\ row.key \in Elements(q.required)}
        unwanted     == {row \in tables[Tags] : row.key \in Elements(q.forbidden)}
    IN  {id \in URIsIn(tables[Tags]) : Cardinality(matching(id)) = Len(q.required)}
            \ URIsIn(unwanted)

\* Mutant: the conditions are joined by AND, so one row must meet them all.
ConditionSubqueryAnd(rows, conditions) ==
    {id \in URIsIn(rows) :
        \E row \in rows : row.uri = id /\ \A c \in Elements(conditions) :
            row.key = c.field /\ Holds(c.comparison, row.value, c.value)}

(***************************************************************************)
(* The conditions on a key/value table are joined by OR, and a URI is kept *)
(* when as many of its rows match as there are conditions.                 *)
(***************************************************************************)
ConditionSubquery(rows, conditions) ==
    LET matching(id) ==
            {row \in rows :
                /\ row.uri = id
                /\ \E c \in Elements(conditions) :
                      /\ row.key = c.field
                      /\ Holds(c.comparison, row.value, c.value)}
    IN  {id \in URIsIn(rows) : Cardinality(matching(id)) = Len(conditions)}

(***************************************************************************)
(* The SQL text is usable: there is some subquery, and the tag subquery    *)
(* has a "value in (...)" clause after its "where" (it is written only for *)
(* required tags).                                                         *)
(***************************************************************************)
Usable(q) ==
    /\ q.required # <<>> \/ (q.forbidden = <<>> /\ (q.integers # <<>> \/ q.doubles # <<>>))

(***************************************************************************)
(* The rows generateQueryStringFromSubqueries selects: the intersection of *)
(* the subqueries that are present.                                        *)
(***************************************************************************)
Selected(tables, q) ==
    LET present(s, ids) == IF s = <<>> THEN {} ELSE {ids}
        subqueries ==
            present(q.required, TagSubquery(tables, q))
            \cup present(q.integers, ConditionSubquery(tables[Integer], q.integers))
            \cup present(q.doubles, ConditionSubquery(tables[Double], BoundConditions(q.doubles)))
    IN  {id \in UNION subqueries : \A ids \in subqueries : id \in ids}

(***************************************************************************)
(* The reference: what each field of a query asks of a URI.                *)
(***************************************************************************)
HasTag(tables, id, tag) == \E row \in tables[Tags] : row.uri = id /\ row.key = tag

Satisfies(rows, id, c) ==
    LET field == {row \in rows : row.uri = id /\ row.key = c.field}
    IN  IF field = {} THEN c.onNULL
        ELSE \A row \in field : Holds(c.comparison, row.value, c.value)

Matches(tables, id, q) ==
    /\ \A t \in Elements(q.required)  : HasTag(tables, id, t)
    /\ \A t \in Elements(q.forbidden) : ~ HasTag(tables, id, t)
    /\ \A c \in Elements(q.integers)  : Satisfies(tables[Integer], id, c)
    /\ \A c \in Elements(q.doubles)   : Satisfies(tables[Double], id, c)

(***************************************************************************)
(* Queries the implementation is exact for: no double is cut, and (for     *)
(* completeness) no tag or field is named twice and no condition asks to   *)
(* hold for a missing field.  That there are more URIs than a query asks   *)
(* for at most is not a matter of the query alone: see Asked.              *)
(***************************************************************************)
WholeDoubles(q) == \A c \in Elements(q.doubles) : Truncated(c.value) = c.value

Conditions(q) == Elements(q.integers) \cup Elements(q.doubles)
Fields(conditions) == [i \in DOMAIN conditions |-> conditions[i].field]

Plain(q) ==
    /\ WholeDoubles(q)
    /\ Distinct(q.required) /\ Distinct(Fields(q.integers)) /\ Distinct(Fields(q.doubles))
    /\ \A c \in Conditions(q) : ~ c.onNULL

\* All that a query describes is what it asks for: it is not more than the maximum.
Asked(q, described) == Cardinality(described) <= q.maximum
=============================================================================
