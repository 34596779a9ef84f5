----------------------------- MODULE TicketFate -----------------------------
(***************************************************************************)
(* What matchmaking promises of a ticket.  It waits until its fate is       *)
(* decided, once: seated in one match with at most one ticket of somebody   *)
(* else and then told so, or refused together with those it would have      *)
(* met, or dropped while its user is away.  Taken out or refused as a       *)
(* duplicate is only a ticket whose own client cancelled it.                *)
(***************************************************************************)
CONSTANTS Users, Tickets, OwnerOf, Matches

VARIABLES
    fate,      \* of each ticket
    seats,     \* the tickets of each match
    cancelled, \* tickets their client cancelled
    away       \* users without a feed

vars == <<fate, seats, cancelled, away>>

Init ==
    /\ fate = [t \in Tickets |-> "unminted"]
    /\ seats = [m \in Matches |-> {}]
    /\ cancelled = {}
    /\ away = {}

Becomes(T, f) == fate' = [t \in Tickets |-> IF t \in T THEN f ELSE fate[t]]
Waiting(T) == \A t \in T : fate[t] = "waiting"

\* One ticket, or two of different users.
Party(T) ==
    /\ \E s, t \in Tickets : T = {s, t}
    /\ \A s, t \in T : OwnerOf[s] = OwnerOf[t] => s = t

Mint(t) ==
    /\ fate[t] = "unminted"
    /\ Becomes({t}, "waiting")
    /\ UNCHANGED <<seats, cancelled, away>>

Cancel(t) ==
    /\ cancelled' = cancelled \cup {t}
    /\ UNCHANGED <<fate, seats, away>>

Leave(t, f) ==
    /\ Waiting({t})
    /\ t \in cancelled
    /\ Becomes({t}, f)
    /\ UNCHANGED <<seats, cancelled, away>>

Drop(T) ==
    /\ Waiting(T)
    /\ \A t \in T : OwnerOf[t] \in away
    /\ Becomes(T, "dropped")
    /\ UNCHANGED <<seats, cancelled, away>>

Refuse(T, f) ==
    /\ Waiting(T) /\ Party(T)
    /\ Becomes(T, f)
    /\ UNCHANGED <<seats, cancelled, away>>

Seat(m, T) ==
    /\ Waiting(T) /\ Party(T)
    /\ seats[m] = {}
    /\ seats' = [seats EXCEPT ![m] = T]
    /\ Becomes(T, "seated")
    /\ UNCHANGED <<cancelled, away>>

Tell(t) ==
    /\ fate[t] = "seated"
    /\ Becomes({t}, "succeeded")
    /\ UNCHANGED <<seats, cancelled, away>>

Feeds == away' \subseteq Users /\ UNCHANGED <<fate, seats, cancelled>>

Next ==
    \/ \E t \in Tickets : \/ Mint(t) \/ Cancel(t) \/ Tell(t)
                          \/ \E f \in {"withdrawn", "duplicate"} : Leave(t, f)
    \/ \E T \in SUBSET Tickets : \/ Drop(T)
                                 \/ \E f \in {"failed", "unresolved"} : Refuse(T, f)
                                 \/ \E m \in Matches : Seat(m, T)
    \/ Feeds

Spec == Init /\ [][Next]_vars
=============================================================================
