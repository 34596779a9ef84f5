---------------------------- MODULE ResultLedger ----------------------------
(***************************************************************************)
(* What the match-end writer promises of results: a result pays its player  *)
(* once, a trophy won or lost, and only a result that has paid is ever on   *)
(* record.  Nothing else moves a trophy.                                    *)
(***************************************************************************)
EXTENDS Integers

CONSTANTS Matches, Characters

VARIABLES
    trophies,  \* of each character
    paid,      \* results that have paid, as <<match, character>>
    recorded   \* results on record

vars == <<trophies, paid, recorded>>

Init ==
    /\ trophies = [c \in Characters |-> 0]
    /\ paid = {}
    /\ recorded = {}

Fallen(n) == IF n = 0 THEN 0 ELSE n - 1

Pay(m, c) ==
    /\ <<m, c>> \notin paid
    /\ paid' = paid \cup {<<m, c>>}
    /\ \E n \in {trophies[c] + 1, Fallen(trophies[c])} : trophies' = [trophies EXCEPT ![c] = n]
    /\ UNCHANGED recorded

Record(m, c) ==
    /\ <<m, c>> \in paid
    /\ recorded' = recorded \cup {<<m, c>>}
    /\ UNCHANGED <<trophies, paid>>

Next == \E m \in Matches, c \in Characters : Pay(m, c) \/ Record(m, c)

Spec == Init /\ [][Next]_vars
=============================================================================
