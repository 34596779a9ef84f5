----------------------------- MODULE SeasonTurn -----------------------------
(***************************************************************************)
(* What the end of a season promises of the characters' rows.  A result     *)
(* pays its character once.  The season turns in one step, for everyone but *)
(* the rows that cannot be read and those of characters created meanwhile,  *)
(* which stay as they are: a member of a guild takes all it earned into the *)
(* archive, anyone else at least what the final standings count.  Or the    *)
(* season ends, in one step that leaves every row.  After a turn only a     *)
(* repair replaces a row, by an archive of results that were paid to the    *)
(* same character, or by the row a newcomer enters the first season with.   *)
(***************************************************************************)
EXTENDS Integers

CONSTANTS Characters, Results, Members, Unreadable, Newcomers

VARIABLES
    season,    \* the active season, 1 or 2, or 0 if there is none
    row,       \* each character's row
    standings, \* the results the final standings of season 1 count
    paid       \* the results paid to each character

vars == <<season, row, standings, paid>>

Blank(s) == [season |-> s, cups |-> {}, past |-> {}, xp |-> {}]
Archived(S) == [season |-> 2, cups |-> {}, past |-> S, xp |-> S]

Init ==
    /\ season = 1
    /\ row = [c \in Characters |-> IF c \in Newcomers THEN Blank(0) ELSE Blank(1)]
    /\ standings = {}
    /\ paid = [c \in Characters |-> {}]

Pay(c, r) ==
    /\ c \notin Unreadable
    /\ \A d \in Characters : r \notin paid[d]
    /\ paid' = [paid EXCEPT ![c] = paid[c] \cup {r}]
    /\ row' = [row EXCEPT ![c] = [row[c] EXCEPT !.cups = row[c].cups \cup {r},
                                                !.xp = row[c].xp \cup {r}]]
    /\ UNCHANGED <<season, standings>>

Turn ==
    /\ season = 1
    /\ season' = 2
    /\ \E late \in SUBSET Newcomers, kept \in [Characters -> SUBSET Results] :
           LET turned == Characters \ (Unreadable \cup late) IN
           /\ \A c \in Characters : kept[c] \subseteq row[c].cups
           /\ \A c \in Members : kept[c] = row[c].cups
           /\ row' = [c \in Characters |-> IF c \in turned THEN Archived(kept[c]) ELSE row[c]]
           /\ standings' \subseteq UNION {kept[c] : c \in turned}
    /\ UNCHANGED paid

End ==
    /\ season = 1
    /\ season' = 0
    /\ standings' \subseteq UNION {row[c].cups : c \in Characters}
    /\ UNCHANGED <<row, paid>>

Repair(c) ==
    /\ season = 2
    /\ c \notin Unreadable
    /\ \E S \in SUBSET paid[c] : row' = [row EXCEPT ![c] = Archived(S)]
    /\ UNCHANGED <<season, standings, paid>>

(* While the first season is on, only a newcomer without a season enters it. *)
Enter(c) ==
    /\ season = 1 => row[c] = Blank(0)
    /\ row' = [row EXCEPT ![c] = Blank(1)]
    /\ UNCHANGED <<season, standings, paid>>

Next ==
    \/ Turn \/ End
    \/ \E c \in Characters : Repair(c) \/ \E r \in Results : Pay(c, r)
    \/ \E c \in Newcomers : Enter(c)

Spec == Init /\ [][Next]_vars
=============================================================================
