------------------------- MODULE MCLocalURIDatabase -------------------------
(***************************************************************************)
(* A small instance of LocalURIDatabase: three storable names and paths,   *)
(* one text over the length limit, lists with a repeated key, with a key   *)
(* that is too long, and longer than the maximum.                          *)
(***************************************************************************)
EXTENDS LocalURIDatabase, TLC

CONSTANTS n1, n2, n3, p1, p2, p3, a, b, long, pid1

MCNames == {n1, n2, n3, long}
MCPaths == {p1, p2, p3}
MCKeys  == {a, b, long}
MCTooLong == {long}
MCPids  == {pid1}

Attribute(k, v) == [key |-> k, value |-> v]
URI(name, path, pid, tags, integers, doubles) ==
    [name |-> name, path |-> path, pid |-> pid,
     attributes |-> [kind \in Kinds |-> CASE kind = Tags    -> tags
                                          [] kind = Integer -> integers
                                          [] kind = Double  -> doubles]]

MCLocalURIs == {
    \* two publishers with different attributes
    URI(n1, p1, pid1, <<Attribute(a, 0)>>, <<Attribute(a, 1)>>, <<Attribute(a, 3)>>),
    URI(n2, p2, pid1, <<Attribute(a, 0), Attribute(b, 0)>>, <<Attribute(a, 2), Attribute(b, 1)>>, <<>>),
    \* a second URI with the name, or the path, of another
    URI(n1, p2, NoPid, <<Attribute(b, 0)>>, <<>>, <<Attribute(b, -1)>>),
    URI(n2, p1, NoPid, <<>>, <<Attribute(b, 2)>>, <<Attribute(a, NaN)>>),
    \* a tag and a key given twice
    URI(n1, p1, pid1, <<Attribute(a, 0), Attribute(a, 0), Attribute(b, 0)>>, <<Attribute(a, 2)>>, <<>>),
    URI(n2, p2, NoPid, <<Attribute(b, 0)>>, <<Attribute(b, 1), Attribute(b, 2)>>, <<>>),
    \* a tag that is too long, and a list longer than the maximum
    URI(n2, p2, pid1, <<Attribute(long, 0), Attribute(b, 0)>>, <<Attribute(a, 1)>>, <<Attribute(b, 2)>>),
    URI(n1, p2, pid1, <<>>, <<>>, <<Attribute(a, 2), Attribute(b, 1), Attribute(long, 2)>>),
    URI(n1, p2, pid1, <<>>, <<>>, <<Attribute(b, 2), Attribute(b, 1)>>),
    \* a third name and path
    URI(n3, p3, NoPid, <<Attribute(a, 0), Attribute(b, 0)>>, <<Attribute(b, -1), Attribute(a, 1)>>, <<Attribute(a, 1)>>),
    \* a name that is too long
    URI(long, p1, pid1, <<Attribute(a, 0)>>, <<>>, <<>>)}

Condition(f, c, v, n) == [field |-> f, comparison |-> c, value |-> v, onNULL |-> n]
Query(required, forbidden, integers, doubles, maximum) ==
    [required |-> required, forbidden |-> forbidden, integers |-> integers,
     doubles |-> doubles, maximum |-> maximum]

TagLists == {<<>>, <<a>>, <<a, b>>, <<b, b>>}
IntegerLists == {<<>>,
                 <<Condition(b, "NOT_EQUAL", 0, FALSE), Condition(a, "GREATER_THAN_OR_EQUAL", 1, FALSE)>>,
                 <<Condition(a, "GREATER_THAN", 0, FALSE), Condition(a, "LESS_THAN_OR_EQUAL", 1, FALSE)>>,
                 <<Condition(a, "EQUAL", 1, TRUE)>>}
DoubleLists == {<<>>, <<Condition(a, "GREATER_THAN", 2, FALSE)>>,
                <<Condition(b, "LESS_THAN", 0, FALSE)>>, <<Condition(a, "EQUAL", 3, FALSE)>>}

\* Tags with the integer conditions, for fewer than there may be and for all; doubles by
\* themselves or with both.
MCQueries ==
    {Query(r, f, i, <<>>, max) : r \in TagLists, f \in {<<>>, <<b>>}, i \in IntegerLists,
                                 max \in {1, 3}}
    \cup {Query(<<>>, <<>>, <<>>, d, 3) : d \in DoubleLists}
    \cup {Query(<<a>>, <<b>>, <<Condition(a, "LESS_THAN", 2, FALSE)>>, d, 2) : d \in DoubleLists}
=============================================================================
