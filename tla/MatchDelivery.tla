--------------------------- MODULE MatchDelivery ---------------------------
(***************************************************************************)
(* What a session's rms feed promises of the match a client is waiting for, *)
(* whatever becomes of its sockets.  The match is written when it is made,  *)
(* if the client's newest socket is up, and at once to every socket the     *)
(* client opens after that, until it is forgotten.  Nothing is written at   *)
(* any other time or to any other socket, and what was forgotten or         *)
(* superseded is never written again.                                       *)
(***************************************************************************)
EXTENDS Integers, Sequences

CONSTANTS Sockets, NoTicket

VARIABLES
    newest,    \* the last socket the client opened, 0 before the first
    up,        \* that socket still takes messages
    resolved,  \* how many matches were made for the client
    due,       \* the match it is to be told of
    got,       \* what was written to each socket
    heard      \* what the client has read

vars == <<newest, up, resolved, due, got, heard>>

Init ==
    /\ newest = 0
    /\ up = FALSE
    /\ resolved = 0
    /\ due = NoTicket
    /\ got = [s \in Sockets |-> << >>]
    /\ heard = {}

(* A new socket starts with the match that is due, unless the match no      *)
(* longer waits for this player: then it is forgotten.                      *)
Connect ==
    /\ newest + 1 \in Sockets
    /\ newest' = newest + 1
    /\ up' = TRUE
    /\ \/ /\ due # NoTicket
          /\ got' = [got EXCEPT ![newest + 1] = <<due>>]
          /\ UNCHANGED due
       \/ /\ due' = NoTicket
          /\ UNCHANGED got
    /\ UNCHANGED <<resolved, heard>>

Drop ==
    /\ up
    /\ up' = FALSE
    /\ UNCHANGED <<newest, resolved, due, got, heard>>

Match ==
    /\ resolved' = resolved + 1
    /\ due' = resolved + 1
    /\ got' = IF up THEN [got EXCEPT ![newest] = Append(got[newest], resolved + 1)] ELSE got
    /\ UNCHANGED <<newest, up, heard>>

Forget ==
    /\ due' = NoTicket
    /\ UNCHANGED <<newest, up, resolved, got, heard>>

Read ==
    /\ up
    /\ heard' = heard \cup {got[newest][i] : i \in DOMAIN got[newest]}
    /\ UNCHANGED <<newest, up, resolved, due, got>>

Next == Connect \/ Drop \/ Match \/ Forget \/ Read

Spec == Init /\ [][Next]_vars
=============================================================================
