---------------------------- MODULE URIRegistry ----------------------------
(***************************************************************************)
(* What the URI database promises its users, without rows, ids, statements *)
(* or transactions: a set of registrations.  A registration enters with a  *)
(* part of the attributes its owner supplied, under a resource name and an *)
(* IPC path nobody else holds, and stays exactly as it is until it is      *)
(* removed.  Adding may be refused at any time.                            *)
(***************************************************************************)
EXTENDS Naturals, Sequences

CONSTANTS Names, TooLong, MaxAttributes, LocalURIs, Kinds

VARIABLE entries

Init == entries = {}

\* The first n of a list of supplied attributes may be stored: one value for a key.
Storable(supplied, n) ==
    n <= Len(supplied) /\ \A i, j \in 1 .. n : supplied[i].key = supplied[j].key => i = j

Add(u) ==
    /\ u.name \notin TooLong
    /\ u.path \notin TooLong
    /\ \A e \in entries : e.name # u.name /\ e.path # u.path
    /\ \E n \in [Kinds -> 0 .. MaxAttributes] :
          /\ \A kind \in Kinds : Storable(u.attributes[kind], n[kind])
          /\ entries' = entries \cup
                {[name |-> u.name, path |-> u.path, pid |-> u.pid,
                  attributes |-> [kind \in Kinds |->
                        {u.attributes[kind][i] : i \in 1 .. n[kind]}]]}

Remove(name) == entries' = {e \in entries : e.name # name}

Next == \/ \E u \in LocalURIs : Add(u)
        \/ \E name \in Names : Remove(name)

Spec == Init /\ [][Next]_entries
=============================================================================
