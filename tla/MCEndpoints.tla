---------------------------- MODULE MCEndpoints ----------------------------
(***************************************************************************)
(* Two repliers and a publisher contend for one name; a requester and a    *)
(* subscriber look for them.                                               *)
(***************************************************************************)
EXTENDS Endpoints

CONSTANTS publisher, replier1, replier2, subscriber, requester1, requester2, name1

MCPublishers  == {publisher}
MCRepliers    == {replier1, replier2}
MCSubscribers == {subscriber}
MCRequesters  == {requester1, requester2}
MCNames       == {name1}
=============================================================================
