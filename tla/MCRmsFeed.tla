----------------------------- MODULE MCRmsFeed -----------------------------
(* The feed of one session for TLC. *)
EXTENDS RmsFeed
=============================================================================
