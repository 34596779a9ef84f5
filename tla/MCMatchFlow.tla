---------------------------- MODULE MCMatchFlow ----------------------------
(* Small instances of MatchFlow: two humans, of whom one changes gear       *)
(* between the rounds.                                                      *)
EXTENDS MatchFlow
=============================================================================
