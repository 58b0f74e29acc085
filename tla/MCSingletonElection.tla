------------------------ MODULE MCSingletonElection ------------------------
(***************************************************************************)
(* s1's resource has a name of letters.  s2's is called "4": beside d1,    *)
(* whose pid is 12, its path is that of the server d2, whose pid is 124;   *)
(* beside d2 it has the number of another program, 1244.                   *)
(***************************************************************************)
EXTENDS SingletonElection

CONSTANTS s1, s2, d1, d2, other

MCStarters == {s1, s2}
MCDaemons  == {d1, d2}
MCOthers   == {other}

MCJoined == [f \in MCDaemons \X MCStarters |->
                IF f[2] = s1 THEN f ELSE IF f[1] = d1 THEN <<d2, Server>> ELSE <<other, Server>>]
=============================================================================
