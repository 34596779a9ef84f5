---------------------------- MODULE MatchOutcome ----------------------------
(***************************************************************************)
(* What a match promises, whatever carries it out: rounds are won one at a *)
(* time, the first fighter to two of them wins the match, a fighter may    *)
(* forfeit before that, and a match that has a winner keeps it until it is *)
(* over.                                                                   *)
(***************************************************************************)
EXTENDS Integers, SequencesExt

CONSTANTS Humans, NoOne

Slots == {0, 1}
Opponent(s) == 1 - s

VARIABLES rounds, winner, over

vars == <<rounds, winner, over>>

WinsNeeded == 2

Wins(rs, s) == Cardinality({i \in DOMAIN rs : rs[i] = s})

Init == rounds = << >> /\ winner = NoOne /\ over = FALSE

WinRound(s) ==
    /\ winner = NoOne
    /\ rounds' = Append(rounds, s)
    /\ winner' = IF Wins(rounds, s) + 1 >= WinsNeeded THEN s ELSE NoOne
    /\ UNCHANGED over

Forfeit(s) ==
    /\ winner = NoOne
    /\ rounds' = Append(rounds, Opponent(s))
    /\ winner' = Opponent(s)
    /\ UNCHANGED over

Close ==
    /\ winner # NoOne
    /\ ~over
    /\ over' = TRUE
    /\ UNCHANGED <<rounds, winner>>

Next ==
    \/ \E s \in Slots : WinRound(s)
    \/ \E s \in Humans : Forfeit(s)
    \/ Close

Spec == Init /\ [][Next]_vars
=============================================================================
