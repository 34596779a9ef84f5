----------------------------- MODULE SeasonClose -----------------------------
(***************************************************************************)
(* The end of an arena season against everything that writes a character    *)
(* meanwhile.  The operator's close (admin.rs, end_arena_season) freezes    *)
(* the standings from the audit rows, zeroes the guilds, rolls a copy of    *)
(* every character into the next season and activates it, in one            *)
(* transaction, or only ends this one if no next season was named; the      *)
(* match-end writer (arena/arena_economy.rs) pays results in transactions   *)
(* of its own; a player who queues has a row of another season repaired     *)
(* (arena/matchmaker.rs); characters are created (character.rs), of no      *)
(* season until such a repair or a close.                                   *)
(*                                                                         *)
(* Cups, XP and standings are kept as the sets of results they were         *)
(* computed from; of the guilds only the locks matter.  Every result moves  *)
(* cups (one that moves none takes no guild's lock).  Row locks last until  *)
(* the holder's transaction ends; reads take none and see what is committed.*)
(***************************************************************************)
EXTENDS Integers, Sequences, FiniteSets

CONSTANTS
    NumCharacters,
    Members,       \* the characters that are in a guild
    Unreadable,    \* the characters whose row no code can parse
    Newcomers,     \* the characters that are still to be created
    MaxResults,    \* bound: results of matches
    MaxCloses,     \* bound: attempts to close
    MaxRepairs     \* bound: rows read by a repair, one repair at a time

Characters == 1..NumCharacters     \* in the order the close visits them
Results == 1..MaxResults

ASSUME SeasonAssumption ==
    /\ NumCharacters \in Nat /\ MaxResults \in Nat /\ MaxCloses \in Nat /\ MaxRepairs \in Nat
    /\ Members \subseteq Characters /\ Unreadable \subseteq Characters
    /\ Newcomers \subseteq Characters \ (Members \cup Unreadable)

VARIABLES
    owner,     \* the character of each result, 0 while it is not finished
    queue,     \* results waiting for the writer
    writer,    \* the writer's transaction and the row it has locked
    present,   \* the characters there are
    row,       \* each character's row, as committed
    audit,     \* arena_match_results
    season,    \* the active season, 1 or 2, or 0 if there is none
    standings, \* arena_season_standings of season 1
    close,     \* the close's transaction
    closes,
    repair,    \* a row being repaired
    repairs,
    paid,      \* history: rewards that committed
    dropped,   \* history: results whose transaction was aborted
    found,     \* history: characters the close that rolled them had read
    undone     \* history: characters whose row a repair overwrote, changed since it was read

vars == <<owner, queue, writer, present, row, audit, season, standings,
          close, closes, repair, repairs, paid, dropped, found, undone>>

Seasons == 0..2
Rows == [season : Seasons, cups : SUBSET Results, past : SUBSET Results, xp : SUBSET Results]
NewRow == [season |-> 1, cups |-> {}, past |-> {}, xp |-> {}]
FreshRow == [NewRow EXCEPT !.season = 0]

WriterSteps == {"idle", "locked", "auditing"}
CloseSteps == {"idle", "frozen", "reset", "rolling", "done"}
RepairSteps == {"idle", "read", "write"}

IdleWriter == [pc |-> "idle", r |-> 0, copy |-> NewRow]
IdleClose == [pc |-> "idle", next |-> TRUE, standings |-> {}, found |-> {},
              copy |-> [c \in Characters |-> NewRow], rolled |-> 0]
IdleRepair == [pc |-> "idle", c |-> 0, copy |-> NewRow, to |-> 0]

Init ==
    /\ owner = [r \in Results |-> 0]
    /\ queue = << >>
    /\ writer = IdleWriter
    /\ present = Characters \ Newcomers
    /\ row = [c \in Characters |-> IF c \in Newcomers THEN FreshRow ELSE NewRow]
    /\ audit = {}
    /\ season = 1
    /\ standings = {}
    /\ close = IdleClose
    /\ closes = 0
    /\ repair = IdleRepair
    /\ repairs = 0
    /\ paid = {}
    /\ dropped = {}
    /\ found = {}
    /\ undone = {}

----------------------------------------------------------------------------
(* Locks.                                                                   *)
HeldByWriter(c) == writer.pc = "locked" /\ owner[writer.r] = c
HeldByClose(c) == close.pc = "rolling" /\ c <= close.rolled /\ c \in close.found \ Unreadable
GuildsHeldByClose == close.pc \in {"reset", "rolling"}

(* roll_character_into season s; a row of no season has none to archive.    *)
Rolled(w, s) ==
    IF w.season = s THEN w
    ELSE [season |-> s, cups |-> {}, past |-> IF w.season = 0 THEN w.past ELSE w.cups,
          xp |-> w.xp]

(* A character is created.                                                  *)
CreateCharacter(c) ==
    /\ c \in Newcomers \ present
    /\ present' = present \cup {c}
    /\ UNCHANGED <<owner, queue, writer, row, audit, season, standings, close, closes,
                   repair, repairs, paid, dropped, found, undone>>

(* A match ends for a player; the result carries the time.  Who plays with  *)
(* a row has had it read, and repaired into the active season if there is   *)
(* one, when they queued.                                                   *)
Finish(r, c) ==
    /\ owner[r] = 0
    /\ c \in present \ Unreadable
    /\ season # 0 => row[c].season # 0
    /\ \A q \in Results : q < r => owner[q] # 0
    /\ owner' = [owner EXCEPT ![r] = c]
    /\ queue' = Append(queue, r)
    /\ UNCHANGED <<writer, present, row, audit, season, standings, close, closes,
                   repair, repairs, paid, dropped, found, undone>>

\* Mutant: the writer reads the row without locking it.
WriterReads ==
    /\ writer.pc = "idle"
    /\ queue # << >>
    /\ writer' = [pc |-> "locked", r |-> Head(queue), copy |-> row[owner[Head(queue)]]]
    /\ queue' = Tail(queue)
    /\ UNCHANGED <<owner, present, row, audit, season, standings, close, closes,
                   repair, repairs, paid, dropped, found, undone>>

(* persist: the row is loaded FOR NO KEY UPDATE.                            *)
WriterLocks ==
    /\ writer.pc = "idle"
    /\ queue # << >>
    /\ ~HeldByClose(owner[Head(queue)])
    /\ writer' = [pc |-> "locked", r |-> Head(queue), copy |-> row[owner[Head(queue)]]]
    /\ queue' = Tail(queue)
    /\ UNCHANGED <<owner, present, row, audit, season, standings, close, closes,
                   repair, repairs, paid, dropped, found, undone>>

\* Mutant: the guild's total is added without waiting for its row.
GuildIgnored(c) == TRUE

(* The guild's row can be updated.                                          *)
GuildReady(c) == c \in Members => ~GuildsHeldByClose

(* The reward, the guild's total, commit.                                   *)
WriterCommits ==
    LET c == owner[writer.r] IN
    /\ writer.pc = "locked"
    /\ GuildReady(c)
    /\ row' = [row EXCEPT ![c] = [writer.copy EXCEPT !.cups = @ \cup {writer.r},
                                                     !.xp = @ \cup {writer.r}]]
    /\ paid' = paid \cup {writer.r}
    /\ writer' = [writer EXCEPT !.pc = "auditing"]
    /\ UNCHANGED <<owner, queue, present, audit, season, standings, close, closes,
                   repair, repairs, dropped, found, undone>>

(* The audit row, in a statement of its own.                                *)
WriterAudits ==
    /\ writer.pc = "auditing"
    /\ audit' = audit \cup {writer.r}
    /\ writer' = IdleWriter
    /\ UNCHANGED <<owner, queue, present, row, season, standings, close, closes,
                   repair, repairs, paid, dropped, found, undone>>

----------------------------------------------------------------------------
(* BEGIN, the season's lock, freeze_standings: the audit rows, but for      *)
(* those recorded at the season's scheduled end, within this second or      *)
(* later.                                                                   *)
CloseFreezes ==
    /\ close.pc = "idle"
    /\ season = 1
    /\ closes < MaxCloses
    /\ closes' = closes + 1
    /\ \E counted \in SUBSET audit :
           \E next \in BOOLEAN :
               close' = [IdleClose EXCEPT !.pc = "frozen", !.next = next, !.standings = counted]
    /\ UNCHANGED <<owner, queue, writer, present, row, audit, season, standings,
                   repair, repairs, paid, dropped, found, undone>>

(* UPDATE guilds SET trophies = 0: every guild is locked from here on.      *)
CloseResetsGuilds ==
    /\ close.pc = "frozen"
    /\ close' = [close EXCEPT !.pc = "reset"]
    /\ UNCHANGED <<owner, queue, writer, present, row, audit, season, standings,
                   closes, repair, repairs, paid, dropped, found, undone>>

(* No next season was named: nobody is rolled, and all of it commits.       *)
CloseEnds ==
    /\ close.pc = "reset" /\ ~close.next
    /\ standings' = close.standings
    /\ season' = 0
    /\ close' = [IdleClose EXCEPT !.pc = "done"]
    /\ UNCHANGED <<owner, queue, writer, present, row, audit, closes, repair, repairs,
                   paid, dropped, found, undone>>

(* SELECT id, character FROM characters: without locks.                     *)
CloseReads ==
    /\ close.pc = "reset" /\ close.next
    /\ close' = [close EXCEPT !.pc = "rolling", !.found = present, !.copy = row, !.rolled = 0]
    /\ UNCHANGED <<owner, queue, writer, present, row, audit, season, standings,
                   closes, repair, repairs, paid, dropped, found, undone>>

(* The next character is written from its copy, once its lock is free; one  *)
(* whose row does not parse is skipped.                                     *)
CloseRolls ==
    /\ close.pc = "rolling"
    /\ close.rolled < NumCharacters
    /\ ~HeldByWriter(close.rolled + 1)
    /\ close' = [close EXCEPT !.rolled = @ + 1]
    /\ UNCHANGED <<owner, queue, writer, present, row, audit, season, standings,
                   closes, repair, repairs, paid, dropped, found, undone>>

(* The rows the close writes, from its copies, and those it leaves alone.   *)
RolledRows ==
    [c \in Characters |-> IF c \in close.found \ Unreadable THEN Rolled(close.copy[c], 2)
                                                            ELSE row[c]]

\* Mutant: the standings are frozen after the characters were read.
CommitFreezingLast ==
    /\ close.pc = "rolling"
    /\ close.rolled = NumCharacters
    /\ row' = RolledRows
    /\ standings' = audit
    /\ season' = 2
    /\ found' = close.found
    /\ close' = [IdleClose EXCEPT !.pc = "done"]
    /\ UNCHANGED <<owner, queue, writer, present, audit, closes, repair, repairs,
                   paid, dropped, undone>>

(* The next season is activated from now, and all of it commits.            *)
CloseCommits ==
    /\ close.pc = "rolling"
    /\ close.rolled = NumCharacters
    /\ row' = RolledRows
    /\ standings' = close.standings
    /\ season' = 2
    /\ found' = close.found
    /\ close' = [IdleClose EXCEPT !.pc = "done"]
    /\ UNCHANGED <<owner, queue, writer, present, audit, closes, repair, repairs,
                   paid, dropped, undone>>

CloseWaits == close.pc = "rolling" /\ HeldByWriter(close.rolled + 1)

(* A statement fails, or has waited a second for a lock: all of it is       *)
(* rolled back, and the operator may try again.                             *)
CloseFails ==
    /\ close.pc \in {"frozen", "reset", "rolling"}
    /\ close' = IdleClose
    /\ UNCHANGED <<owner, queue, writer, present, row, audit, season, standings,
                   closes, repair, repairs, paid, dropped, found, undone>>

\* Mutant: no lock ever times out.
WaitsForEver == FALSE /\ UNCHANGED vars

(* lock_timeout is one second.                                              *)
CloseTimesOut == CloseWaits /\ CloseFails

(* The writer waits for a guild, the close for the writer's character: the  *)
(* database may abort the writer, whose result is logged and not retried.   *)
WriterAborted ==
    /\ CloseWaits
    /\ ~GuildReady(owner[writer.r])
    /\ dropped' = dropped \cup {writer.r}
    /\ writer' = IdleWriter
    /\ UNCHANGED <<owner, queue, present, row, audit, season, standings, close,
                   closes, repair, repairs, paid, found, undone>>

----------------------------------------------------------------------------
(* load_character_loadout: the row and the active season are read one after *)
(* the other, without a lock; a row of another season is rolled and written *)
(* whole.                                                                   *)
RepairReads(c) ==
    /\ repair.pc = "idle"
    /\ c \in present \ Unreadable
    /\ repairs < MaxRepairs
    /\ repairs' = repairs + 1
    /\ repair' = [pc |-> "read", c |-> c, copy |-> row[c], to |-> 0]
    /\ UNCHANGED <<owner, queue, writer, present, row, audit, season, standings,
                   close, closes, paid, dropped, found, undone>>

RepairChecks ==
    /\ repair.pc = "read"
    /\ repair' = IF season # 0 /\ repair.copy.season # season
                 THEN [repair EXCEPT !.pc = "write", !.to = season]
                 ELSE IdleRepair
    /\ UNCHANGED <<owner, queue, writer, present, row, audit, season, standings,
                   close, closes, repairs, paid, dropped, found, undone>>

RepairWrites ==
    LET c == repair.c   rolled == Rolled(repair.copy, repair.to) IN
    /\ repair.pc = "write"
    /\ ~HeldByWriter(c)
    /\ ~HeldByClose(c)
    /\ row' = [row EXCEPT ![c] = rolled]
    /\ undone' = IF row[c] \in {repair.copy, rolled} THEN undone ELSE undone \cup {c}
    /\ repair' = IdleRepair
    /\ UNCHANGED <<owner, queue, writer, present, audit, season, standings,
                   close, closes, repairs, paid, dropped, found>>

Next ==
    \/ \E c \in Characters : CreateCharacter(c)
    \/ \E r \in Results, c \in Characters : Finish(r, c)
    \/ WriterLocks \/ WriterCommits \/ WriterAudits \/ WriterAborted
    \/ CloseFreezes \/ CloseResetsGuilds \/ CloseEnds \/ CloseReads \/ CloseRolls \/ CloseCommits
    \/ CloseFails
    \/ \E c \in Characters : RepairReads(c)
    \/ RepairChecks \/ RepairWrites

Spec == Init /\ [][Next]_vars

(* The writer takes what is queued and goes on once it can; the close, once *)
(* begun, goes on or times out.                                             *)
FairSpec ==
    /\ Spec
    /\ WF_vars(WriterLocks) /\ WF_vars(WriterCommits) /\ WF_vars(WriterAudits)
    /\ WF_vars(CloseResetsGuilds) /\ WF_vars(CloseEnds) /\ WF_vars(CloseReads) /\ WF_vars(CloseRolls)
    /\ WF_vars(CloseCommits) /\ WF_vars(CloseTimesOut)

----------------------------------------------------------------------------
TypeOK ==
    /\ owner \in [Results -> Characters \cup {0}]
    /\ queue \in Seq(Results)
    /\ writer \in [pc : WriterSteps, r : Results \cup {0}, copy : Rows]
    /\ present \subseteq Characters
    /\ row \in [Characters -> Rows]
    /\ audit \subseteq Results
    /\ season \in Seasons
    /\ standings \subseteq Results
    /\ close \in [pc : CloseSteps, next : BOOLEAN, standings : SUBSET Results,
                  found : SUBSET Characters, copy : [Characters -> Rows],
                  rolled : 0..NumCharacters]
    /\ closes \in 0..MaxCloses
    /\ repair \in [pc : RepairSteps, c : Characters \cup {0}, copy : Rows, to : Seasons]
    /\ repairs \in 0..MaxRepairs
    /\ paid \subseteq Results
    /\ dropped \subseteq Results
    /\ found \subseteq Characters /\ undone \subseteq Characters

(* "Without it, a failure on character 4,000 of 9,000 left the first 4,000  *)
(* at zero cups, the rest untouched" (admin.rs): once the next season is    *)
(* active, every row the close read and could parse is of it and stays so,  *)
(* whatever was being paid or repaired when it was activated.  Not so are   *)
(* the rows the close skips, those of characters created after its read,    *)
(* and a row overwritten by a repair that had read the season before.       *)
NobodyLeftBehind ==
    season = 2 => \A c \in found \ (Unreadable \cup undone) : row[c].season = 2

(* Every result the final standings count is one the player's archived      *)
(* season shows, or the player's cups if no season follows: the standings   *)
(* never hold what the roll of the character lost.  (A repair may put an    *)
(* older archive in its place.)                                             *)
StandingsAreArchived ==
    \A r \in standings :
        owner[r] \notin undone =>
            r \in IF season = 2 THEN row[owner[r]].past ELSE row[owner[r]].cups

(* The close is one step, whatever is paid and repaired while it runs: the  *)
(* guild's lock keeps the writer out between the close's read of a member's *)
(* row and its write, and nobody loses a result the standings count.        *)
PaidTo == [c \in Characters |-> {r \in paid : owner[r] = c}]
Turn == INSTANCE SeasonTurn WITH paid <- PaidTo
ImplementsTurn == Turn!Spec

(* Whatever waits for whom, every result is paid or given up in the end.    *)
ResultsSettle == \A r \in Results : owner[r] # 0 ~> r \in paid \cup dropped

(* "the REWARD IS SAFE (it committed in its own transaction)"               *)
(* (arena_economy.rs): a reward that committed stays.                       *)
RewardIsSafe == \A r \in paid : r \in row[owner[r]].xp
=============================================================================
