---------------------------- MODULE MCMatchmaker ----------------------------
(* Small instances of Matchmaker.  The first user can search twice, so that *)
(* a second search can overtake the cancel of the first.                    *)
EXTENDS Matchmaker

CONSTANTS ann, bob

MCUsers == {ann, bob}
MCTickets == 1..3
MCOwnerOf == <<ann, bob, ann>>
MCFickle == {bob}
=============================================================================
