--------------------- MODULE MCLocalURIServerSingleton ---------------------
(***************************************************************************)
(* Two client processes, four URIs that compete for two names, two queries *)
(* for one URI or for all, and one of forbidden tags only, which fails.    *)
(***************************************************************************)
EXTENDS LocalURIServerSingleton, TLC

CONSTANTS n1, n2, p1, p2, a, b, c1, c2

URI(name, path, pid, tags, doubles) ==
    [name |-> name, path |-> path, pid |-> pid,
     attributes |-> [kind \in Kinds |->
        CASE kind = Tags    -> [i \in DOMAIN tags |-> [key |-> tags[i], value |-> 0]]
          [] kind = Integer -> <<>>
          [] kind = Double  -> doubles]]

MCNames == {n1, n2}
MCPaths == {p1, p2}
MCKeys  == {a, b}
MCPids  == {c1, c2}

\* The third gives a tag twice, the fourth a double that is no number.
MCLocalURIs == {URI(n1, p1, c1, <<b, a>>, <<>>), URI(n1, p2, c2, <<>>, <<>>),
                URI(n2, p2, NoPid, <<a, a>>, <<>>),
                URI(n2, p2, c2, <<a>>, <<[key |-> b, value |-> NaN]>>)}

Query(required, forbidden, maximum) ==
    [required |-> required, forbidden |-> forbidden, integers |-> <<>>, doubles |-> <<>>,
     maximum |-> maximum]

MCQueries == {Query(<<a>>, <<>>, 1), Query(<<a>>, <<b>>, 2), Query(<<>>, <<b>>, 2)}
=============================================================================
