-------------------------- MODULE SeasonCloseProofs --------------------------
(***************************************************************************)
(* Proofs about SeasonClose for any characters, guild members, unreadable   *)
(* rows, newcomers, results, attempts to close and repairs.                 *)
(***************************************************************************)
EXTENDS SeasonClose, TLAPS

Closing == [pc : CloseSteps, next : BOOLEAN, standings : SUBSET Results,
            found : SUBSET Characters, copy : [Characters -> Rows], rolled : 0..NumCharacters]
Repairing == [pc : RepairSteps, c : Characters \cup {0}, copy : Rows, to : Seasons]

(* An idle transaction is of its type.                                      *)
LEMMA IdleTypes ==
  /\ NewRow \in Rows /\ FreshRow \in Rows
  /\ IdleWriter \in [pc : WriterSteps, r : Results \cup {0}, copy : Rows]
  /\ IdleClose \in Closing
  /\ IdleRepair \in Repairing
<1>1. NewRow \in Rows /\ FreshRow \in Rows
  BY DEF NewRow, FreshRow, Rows, Seasons
<1>2. IdleWriter \in [pc : WriterSteps, r : Results \cup {0}, copy : Rows]
  BY <1>1 DEF IdleWriter, WriterSteps
<1>3. IdleClose \in Closing
  <2>1. [c \in Characters |-> NewRow] \in [Characters -> Rows]
    BY <1>1
  <2>2. 0 \in 0..NumCharacters
    BY SeasonAssumption
  <2> QED BY <2>1, <2>2 DEF IdleClose, Closing, CloseSteps
<1>4. IdleRepair \in Repairing
  BY <1>1 DEF IdleRepair, Repairing, RepairSteps, Seasons
<1> QED BY <1>1, <1>2, <1>3, <1>4

LEMMA InitTypeOK == Init => TypeOK
<1> SUFFICES ASSUME Init PROVE TypeOK
  OBVIOUS
<1>1. row \in [Characters -> Rows]
  BY IdleTypes DEF Init
<1>2. close \in Closing /\ repair \in Repairing
  BY IdleTypes DEF Init
<1> QED BY <1>1, <1>2, IdleTypes, SeasonAssumption DEF Init, TypeOK, Seasons, Closing, Repairing

LEMMA RolledType ==
  ASSUME NEW w \in Rows, NEW t \in Seasons
  PROVE  /\ Rolled(w, t) \in Rows
         /\ Rolled(w, t).season = t
         /\ Rolled(w, t).xp = w.xp
         /\ w.season # t => /\ Rolled(w, t).cups = {}
                            /\ Rolled(w, t).past = IF w.season = 0 THEN w.past ELSE w.cups
BY DEF Rolled, Rows, Seasons

(* The rows the close leaves behind.                                        *)
LEMMA RolledRowsType ==
  ASSUME TypeOK
  PROVE  /\ RolledRows \in [Characters -> Rows]
         /\ \A c \in close.found \ Unreadable : RolledRows[c] = Rolled(close.copy[c], 2)
         /\ \A c \in Characters \ (close.found \ Unreadable) : RolledRows[c] = row[c]
<1>1. \A c \in Characters : close.copy[c] \in Rows /\ row[c] \in Rows
  BY DEF TypeOK
<1>2. \A c \in Characters : Rolled(close.copy[c], 2) \in Rows
  BY <1>1, RolledType DEF Seasons
<1>3. close.found \subseteq Characters
  BY DEF TypeOK
<1> QED BY <1>1, <1>2, <1>3 DEF RolledRows

(* Every result, and so the queued ones and the one the writer is at, has a *)
(* character that exists and can be read.                                   *)
Owned ==
    /\ Characters \ Newcomers \subseteq present
    /\ \A r \in Results : owner[r] # 0 => owner[r] \in present \ Unreadable
    /\ \A i \in DOMAIN queue : owner[queue[i]] \in Characters
    /\ writer.pc # "idle" => writer.r \in Results /\ owner[writer.r] \in Characters
    /\ repair.pc # "idle" => repair.c \in present \ Unreadable

Typed == TypeOK /\ Owned

LEMMA TypedStep == Typed /\ [Next]_vars => Typed'
<1> SUFFICES ASSUME Typed, [Next]_vars PROVE Typed'
  OBVIOUS
<1> USE DEF Typed
<1>1. ASSUME NEW r \in Results, NEW c \in Characters, Finish(r, c) PROVE Typed'
  <2>1. TypeOK'
    BY <1>1 DEF Finish, TypeOK
  <2>2. owner' = [owner EXCEPT ![r] = c] /\ queue' = Append(queue, r) /\ owner[r] = 0
    BY <1>1 DEF Finish
  <2>3. ASSUME NEW i \in DOMAIN queue' PROVE owner'[queue'[i]] \in Characters
    <3>1. queue \in Seq(Results) /\ owner \in [Results -> Characters \cup {0}]
      BY DEF TypeOK
    <3>2. CASE i = Len(queue) + 1
      BY <2>2, <3>1, <3>2
    <3>3. CASE i # Len(queue) + 1
      <4>1. i \in DOMAIN queue /\ queue'[i] = queue[i] /\ queue[i] \in Results
        BY <2>2, <3>1, <3>3
      <4> QED BY <2>2, <3>1, <4>1 DEF Owned
    <3> QED BY <3>2, <3>3
  <2>4. writer'.pc # "idle" => writer'.r \in Results /\ owner'[writer'.r] \in Characters
    BY <1>1, <2>2 DEF Finish, Owned, TypeOK
  <2>5. \A q \in Results : owner'[q] # 0 => owner'[q] \in present' \ Unreadable
    BY <1>1, <2>2 DEF Finish, Owned, TypeOK
  <2>6. /\ Characters \ Newcomers \subseteq present'
        /\ repair'.pc # "idle" => repair'.c \in present' \ Unreadable
    BY <1>1 DEF Finish, Owned
  <2> QED BY <2>1, <2>3, <2>4, <2>5, <2>6 DEF Owned
<1>2. CASE WriterLocks
  <2>1. queue \in Seq(Results) /\ queue # << >> /\ queue' = Tail(queue)
    BY <1>2 DEF WriterLocks, TypeOK
  <2>2. Head(queue) \in Results /\ queue' \in Seq(Results) /\ Head(queue) = queue[1] /\ 1 \in DOMAIN queue
    BY <2>1
  <2>3. owner[Head(queue)] \in Characters
    BY <2>2 DEF Owned
  <2>4. row[owner[Head(queue)]] \in Rows
    BY <2>3 DEF TypeOK
  <2>5. TypeOK'
    BY <1>2, <2>2, <2>4 DEF WriterLocks, TypeOK, WriterSteps
  <2>6. \A i \in DOMAIN queue' : i + 1 \in DOMAIN queue /\ queue'[i] = queue[i + 1]
    BY <2>1
  <2> QED BY <1>2, <2>2, <2>3, <2>5, <2>6 DEF WriterLocks, Owned
<1>3. CASE WriterCommits
  <2>1. writer.r \in Results /\ owner[writer.r] \in Characters /\ writer.copy \in Rows
    BY <1>3 DEF WriterCommits, Owned, TypeOK
  <2>2. [writer.copy EXCEPT !.cups = writer.copy.cups \cup {writer.r},
                            !.xp = writer.copy.xp \cup {writer.r}] \in Rows
    BY <2>1 DEF Rows
  <2>3. row' \in [Characters -> Rows]
    BY <1>3, <2>1, <2>2 DEF WriterCommits, TypeOK
  <2>4. paid' \subseteq Results
    BY <1>3, <2>1 DEF WriterCommits, TypeOK
  <2>5. writer' \in [pc : WriterSteps, r : Results \cup {0}, copy : Rows] /\ writer'.r = writer.r
    BY <1>3 DEF WriterCommits, TypeOK, WriterSteps
  <2> QED BY <1>3, <2>1, <2>3, <2>4, <2>5 DEF WriterCommits, TypeOK, Owned
<1>4. CASE WriterAudits
  BY <1>4, IdleTypes DEF WriterAudits, TypeOK, Owned, IdleWriter
<1>5. CASE WriterAborted
  BY <1>5, IdleTypes DEF WriterAborted, CloseWaits, HeldByWriter, TypeOK, Owned, IdleWriter
<1>c. close \in Closing /\ repair \in Repairing
  BY DEF TypeOK, Closing, Repairing
<1>6. CASE CloseFreezes
  <2>1. PICK counted \in SUBSET audit, next \in BOOLEAN :
            close' = [IdleClose EXCEPT !.pc = "frozen", !.next = next, !.standings = counted]
    BY <1>6, Zenon DEF CloseFreezes
  <2>2. counted \in SUBSET Results /\ "frozen" \in CloseSteps
    BY DEF TypeOK, CloseSteps
  <2>3. close' \in Closing
    BY <2>1, <2>2, IdleTypes DEF Closing
  <2>4. closes' \in 0..MaxCloses
    BY <1>6, SeasonAssumption DEF CloseFreezes, TypeOK
  <2> QED BY <1>6, <2>3, <2>4 DEF CloseFreezes, TypeOK, Owned, Closing
<1>7. CASE CloseResetsGuilds
  BY <1>7 DEF CloseResetsGuilds, TypeOK, Owned, CloseSteps
<1>8. CASE CloseReads
  <2>1. close' \in Closing
    <3>1. /\ row \in [Characters -> Rows] /\ 0 \in 0..NumCharacters /\ "rolling" \in CloseSteps
          /\ present \in SUBSET Characters
      BY SeasonAssumption DEF TypeOK, CloseSteps
    <3>2. close' = [close EXCEPT !.pc = "rolling", !.found = present, !.copy = row, !.rolled = 0]
      BY <1>8 DEF CloseReads
    <3> QED BY <1>c, <3>1, <3>2 DEF Closing
  <2> QED BY <1>8, <2>1 DEF CloseReads, TypeOK, Owned, Closing
<1>9. CASE CloseRolls
  <2>1. close' \in Closing
    <3>1. close' = [close EXCEPT !.rolled = close.rolled + 1]
      BY <1>9 DEF CloseRolls
    <3>2. close.rolled + 1 \in 0..NumCharacters
      BY <1>9, <1>c, SeasonAssumption DEF CloseRolls, Closing
    <3> QED BY <1>c, <3>1, <3>2 DEF Closing
  <2> QED BY <1>9, <2>1 DEF CloseRolls, TypeOK, Owned, Closing
<1>d. [IdleClose EXCEPT !.pc = "done"] \in Closing
  BY IdleTypes DEF Closing, CloseSteps
<1>10. CASE CloseCommits
  <2>1. row' \in [Characters -> Rows]
    BY <1>10, RolledRowsType DEF CloseCommits
  <2>3. season' \in Seasons /\ standings' \subseteq Results /\ found' \subseteq Characters
    BY <1>10 DEF CloseCommits, TypeOK, Seasons
  <2> QED BY <1>10, <1>d, <2>1, <2>3 DEF CloseCommits, TypeOK, Owned, Closing
<1>e. CASE CloseEnds
  <2>3. season' \in Seasons /\ standings' \subseteq Results
    BY <1>e DEF CloseEnds, TypeOK, Seasons
  <2> QED BY <1>e, <1>d, <2>3 DEF CloseEnds, TypeOK, Owned, Closing
<1>11. CASE CloseFails
  BY <1>11, IdleTypes DEF CloseFails, TypeOK, Owned, Closing
<1>f. ASSUME NEW c \in Characters, CreateCharacter(c) PROVE Typed'
  BY <1>f DEF CreateCharacter, TypeOK, Owned
<1>12. ASSUME NEW c \in Characters, RepairReads(c) PROVE Typed'
  <2>1. repairs' \in 0..MaxRepairs
    BY <1>12, SeasonAssumption DEF RepairReads, TypeOK
  <2>2. repair' \in Repairing
    <3>1. row[c] \in Rows
      BY DEF TypeOK
    <3> QED BY <1>12, <3>1 DEF RepairReads, Repairing, RepairSteps, Seasons
  <2> QED BY <1>12, <2>1, <2>2 DEF RepairReads, TypeOK, Owned, Repairing
<1>13. CASE RepairChecks
  <2>1. [repair EXCEPT !.pc = "write", !.to = season] \in Repairing
    BY <1>c DEF Repairing, RepairSteps, TypeOK
  <2>2. repair' \in Repairing
    BY <1>13, <2>1, IdleTypes DEF RepairChecks
  <2>3. repair'.pc # "idle" => repair'.c = repair.c /\ repair.pc # "idle"
    BY <1>13, <1>c DEF RepairChecks, IdleRepair, Repairing
  <2>4. UNCHANGED <<owner, queue, writer, present>>
    BY <1>13 DEF RepairChecks
  <2>5. TypeOK'
    BY <1>13, <2>2 DEF RepairChecks, TypeOK, Repairing
  <2>6. Owned'
    BY <2>3, <2>4 DEF Owned
  <2> QED BY <2>5, <2>6
<1>14. CASE RepairWrites
  <2>1. Rolled(repair.copy, repair.to) \in Rows
    BY RolledType DEF TypeOK
  <2>2. row' \in [Characters -> Rows]
    BY <1>14, <2>1 DEF RepairWrites, TypeOK
  <2>3. undone' \subseteq Characters
    <3>1. repair.c \in Characters
      BY <1>14 DEF RepairWrites, Owned, TypeOK
    <3> QED BY <1>14, <3>1 DEF RepairWrites, TypeOK
  <2>4. TypeOK'
    BY <1>14, <2>2, <2>3, IdleTypes DEF RepairWrites, TypeOK, Repairing
  <2>5. Owned'
    BY <1>14 DEF RepairWrites, Owned, IdleRepair
  <2> QED BY <2>4, <2>5
<1>15. CASE UNCHANGED vars
  BY <1>15 DEF vars, TypeOK, Owned
<1> QED BY <1>1, <1>2, <1>3, <1>4, <1>5, <1>6, <1>7, <1>8, <1>9, <1>10, <1>11, <1>12,
           <1>13, <1>14, <1>15, <1>e, <1>f DEF Next

(* Every reachable state of the season's end is of its type.                *)
THEOREM TypeCorrect == Spec => []TypeOK
<1>1. Init => Typed
  BY InitTypeOK DEF Init, Typed, Owned, IdleWriter, IdleRepair
<1>2. Typed /\ [Next]_vars => Typed'
  BY TypedStep
<1>3. Typed => TypeOK
  BY DEF Typed
<1> QED BY <1>1, <1>2, <1>3, PTL DEF Spec

----------------------------------------------------------------------------
(* The row the writer has locked is the committed one, and the close has    *)
(* not written it.                                                          *)
LockedIsCurrent ==
    writer.pc = "locked" =>
        /\ writer.copy = row[owner[writer.r]]
        /\ ~HeldByClose(owner[writer.r])

(* Until the season ends nobody is in the next one.                         *)
OneSeasonAtATime ==
    /\ close.pc = "done" <=> season # 1
    /\ season # 2 => \A c \in Characters : row[c].season # 2
    /\ season = 1 => undone = {} /\ standings = {}
    /\ NobodyLeftBehind

(* A row no season has archived yet, and one that has been in none.         *)
Early(w) == w.season # 2 => w.past = {}
Empty(w) == w.season = 0 => w.cups = {} /\ w.xp = {}

(* Only newcomers are of no season, and while there is one they earn        *)
(* nothing before they enter it.                                            *)
RowsAreEarly ==
    /\ \A c \in Characters : Early(row[c])
    /\ \A c \in Characters \ Newcomers : row[c].season # 0
    /\ season # 0 => \A c \in Characters : Empty(row[c])
    /\ season # 0 => \A r \in Results : owner[r] # 0 => row[owner[r]].season # 0

CopiesAreEarly ==
    close.pc = "rolling" =>
        /\ Characters \ Newcomers \subseteq close.found
        /\ \A c \in Characters : /\ close.copy[c].season # 2
                                 /\ Early(close.copy[c]) /\ Empty(close.copy[c])

(* What a repair has read of an older season, and the season it writes.     *)
RepairIsEarly ==
    repair.pc # "idle" =>
        /\ Early(repair.copy)
        /\ repair.copy.season = 0 => repair.c \in Newcomers
        /\ season # 2 => repair.copy.season # 2
        /\ season # 0 => Empty(repair.copy)
        /\ season = 1 => repair.copy.season = row[repair.c].season
        /\ repair.pc = "write" => /\ repair.copy.season # 2 /\ Empty(repair.copy)
                                  /\ \/ repair.to = 1 /\ repair.copy.season = 0
                                     \/ repair.to = 2 /\ season = 2

Locks == LockedIsCurrent /\ OneSeasonAtATime /\ RowsAreEarly /\ CopiesAreEarly /\ RepairIsEarly

(* The freeze leaves everything but the close as it is.                     *)
LEMMA FreezeKeeps ==
  CloseFreezes => UNCHANGED <<owner, queue, writer, present, row, audit, season, standings,
                              repair, repairs, paid, dropped, found, undone>>
BY Zenon DEF CloseFreezes

(* Where each step of the close leads.                                      *)
LEMMA CloseMoves ==
  ASSUME TypeOK
  PROVE  /\ CloseFreezes => close.pc = "idle" /\ close'.pc = "frozen"
         /\ CloseResetsGuilds => close.pc = "frozen" /\ close'.pc = "reset"
         /\ CloseEnds => close.pc = "reset" /\ close'.pc = "done"
         /\ CloseReads => close.pc = "reset" /\ close'.pc = "rolling"
         /\ CloseRolls => close.pc = "rolling" /\ close'.pc = "rolling"
         /\ CloseCommits => close.pc = "rolling" /\ close'.pc = "done"
         /\ CloseFails => close.pc \in {"frozen", "reset", "rolling"} /\ close'.pc = "idle"
<1>1. CloseFreezes => close.pc = "idle" /\ close'.pc = "frozen"
  BY DEF CloseFreezes, IdleClose
<1>2. CloseResetsGuilds => close.pc = "frozen" /\ close'.pc = "reset"
  BY DEF CloseResetsGuilds, TypeOK
<1>3. CloseReads => close.pc = "reset" /\ close'.pc = "rolling"
  BY DEF CloseReads, TypeOK
<1>4. CloseRolls => close.pc = "rolling" /\ close'.pc = "rolling"
  BY DEF CloseRolls, TypeOK
<1>5. /\ CloseEnds => close.pc = "reset" /\ close'.pc = "done"
      /\ CloseCommits => close.pc = "rolling" /\ close'.pc = "done"
      /\ CloseFails => close.pc \in {"frozen", "reset", "rolling"} /\ close'.pc = "idle"
  BY DEF CloseEnds, CloseCommits, CloseFails, IdleClose
<1> QED BY <1>1, <1>2, <1>3, <1>4, <1>5

(* What a repair writes: a row of season 1 is new, one of season 2 keeps    *)
(* the rewards it was read with.                                            *)
LEMMA WhatRepairWrites ==
  ASSUME Typed, Locks, RepairWrites
  PROVE  /\ repair.c \in Characters /\ repair.c \in present \ Unreadable
         /\ repair.copy \in Rows /\ repair.to \in {1, 2} /\ repair.copy.season # repair.to
         /\ Rolled(repair.copy, repair.to) \in Rows
         /\ Rolled(repair.copy, repair.to).season = repair.to
         /\ Rolled(repair.copy, repair.to).cups = {}
         /\ Rolled(repair.copy, repair.to).xp = repair.copy.xp
         /\ Early(Rolled(repair.copy, repair.to))
         /\ \A c \in Characters \ {repair.c} : row'[c] = row[c]
         /\ row'[repair.c] = Rolled(repair.copy, repair.to)
<1>1. repair.pc = "write" /\ repair.c \in present \ Unreadable /\ repair.c \in Characters
  BY DEF RepairWrites, Typed, Owned, TypeOK
<1>2. repair.copy \in Rows /\ repair.to \in {1, 2} /\ repair.copy.season # repair.to
  BY <1>1 DEF Locks, RepairIsEarly, Typed, TypeOK
<1>3. /\ Rolled(repair.copy, repair.to) \in Rows
      /\ Rolled(repair.copy, repair.to).season = repair.to
      /\ Rolled(repair.copy, repair.to).cups = {}
      /\ Rolled(repair.copy, repair.to).xp = repair.copy.xp
      /\ repair.copy.season = 0 => Rolled(repair.copy, repair.to).past = repair.copy.past
  BY <1>2, RolledType DEF Seasons
<1>4. Early(Rolled(repair.copy, repair.to))
  BY <1>1, <1>2, <1>3 DEF Early, Locks, RepairIsEarly
<1>5. /\ \A c \in Characters \ {repair.c} : row'[c] = row[c]
      /\ row'[repair.c] = Rolled(repair.copy, repair.to)
  BY <1>1, <1>3 DEF RepairWrites, Typed, TypeOK
<1> QED BY <1>1, <1>2, <1>3, <1>4, <1>5

(* What the close writes.                                                   *)
LEMMA WhatCloseWrites ==
  ASSUME Typed, Locks, CloseCommits
  PROVE  /\ close.pc = "rolling" /\ season = 1 /\ season' = 2 /\ close'.pc = "done"
         /\ \A c \in Characters \ (close.found \ Unreadable) : row'[c] = row[c]
         /\ \A c \in close.found \ Unreadable :
                /\ c \in Characters /\ close.copy[c] \in Rows
                /\ row'[c] = Rolled(close.copy[c], 2)
                /\ row'[c].season = 2 /\ row'[c].xp = close.copy[c].xp
                /\ row'[c].past = close.copy[c].cups
<1>1. close.pc = "rolling" /\ season' = 2 /\ close'.pc = "done" /\ row' = RolledRows
  BY DEF CloseCommits, IdleClose
<1>2. season = 1
  BY <1>1 DEF Locks, OneSeasonAtATime
<1>3. \A c \in Characters \ (close.found \ Unreadable) : row'[c] = row[c]
  BY <1>1, RolledRowsType DEF Typed
<1>4. ASSUME NEW c \in close.found \ Unreadable
      PROVE  /\ c \in Characters /\ close.copy[c] \in Rows
             /\ row'[c] = Rolled(close.copy[c], 2)
             /\ row'[c].season = 2 /\ row'[c].xp = close.copy[c].xp
             /\ row'[c].past = close.copy[c].cups
  <2>1. c \in Characters /\ close.copy[c] \in Rows
    BY DEF Typed, TypeOK
  <2>2. row'[c] = Rolled(close.copy[c], 2)
    BY <1>1, RolledRowsType DEF Typed
  <2>3. close.copy[c].season # 2 /\ Early(close.copy[c]) /\ Empty(close.copy[c])
    BY <1>1, <2>1 DEF Locks, CopiesAreEarly
  <2>4. /\ Rolled(close.copy[c], 2).season = 2 /\ Rolled(close.copy[c], 2).xp = close.copy[c].xp
        /\ Rolled(close.copy[c], 2).past = IF close.copy[c].season = 0 THEN close.copy[c].past
                                                                     ELSE close.copy[c].cups
    BY <2>1, <2>3, RolledType DEF Seasons
  <2> QED BY <2>1, <2>2, <2>3, <2>4 DEF Early, Empty
<1> QED BY <1>1, <1>2, <1>3, <1>4

(* The reward the writer commits.                                           *)
LEMMA WhatWriterWrites ==
  ASSUME Typed, Locks, WriterCommits
  PROVE  /\ writer.pc = "locked" /\ writer'.pc = "auditing" /\ writer'.r = writer.r
         /\ writer.r \in Results /\ owner[writer.r] \in Characters
         /\ owner[writer.r] \in present \ Unreadable
         /\ \A c \in Characters \ {owner[writer.r]} : row'[c] = row[c]
         /\ row' = [row EXCEPT ![owner[writer.r]] =
                       [row[owner[writer.r]] EXCEPT
                           !.cups = row[owner[writer.r]].cups \cup {writer.r},
                           !.xp = row[owner[writer.r]].xp \cup {writer.r}]]
         /\ row'[owner[writer.r]].season = row[owner[writer.r]].season
         /\ row'[owner[writer.r]].past = row[owner[writer.r]].past
         /\ row'[owner[writer.r]].cups = row[owner[writer.r]].cups \cup {writer.r}
         /\ row'[owner[writer.r]].xp = row[owner[writer.r]].xp \cup {writer.r}
<1> DEFINE c == owner[writer.r]
<1>1. /\ writer.pc = "locked" /\ writer.r \in Results /\ c \in Characters
      /\ writer.copy = row[c] /\ row[c] \in Rows
  BY DEF WriterCommits, Typed, Owned, TypeOK, Locks, LockedIsCurrent
<1>2. c \in present \ Unreadable
  <2>1. c # 0
    BY <1>1, SeasonAssumption DEF Characters
  <2> QED BY <1>1, <2>1 DEF Typed, Owned
<1>3. writer'.pc = "auditing" /\ writer'.r = writer.r
  BY DEF WriterCommits, Typed, TypeOK
<1>4. row' = [row EXCEPT ![c] = [row[c] EXCEPT !.cups = row[c].cups \cup {writer.r},
                                              !.xp = row[c].xp \cup {writer.r}]]
  BY <1>1 DEF WriterCommits
<1> HIDE DEF c
<1>5. /\ \A d \in Characters \ {c} : row'[d] = row[d]
      /\ row'[c].season = row[c].season /\ row'[c].past = row[c].past
      /\ row'[c].cups = row[c].cups \cup {writer.r} /\ row'[c].xp = row[c].xp \cup {writer.r}
  BY <1>1, <1>4 DEF Typed, TypeOK, Rows
<1>6. c = owner[writer.r]
  BY DEF c
<1> QED BY <1>1, <1>2, <1>3, <1>4, <1>5, <1>6

LEMMA LockedStep == Typed /\ Locks /\ [Next]_vars => LockedIsCurrent'
<1> SUFFICES ASSUME Typed, Locks, [Next]_vars PROVE LockedIsCurrent'
  OBVIOUS
<1> USE DEF Locks, LockedIsCurrent, HeldByClose
<1>1. ASSUME NEW r \in Results, NEW c \in Characters, Finish(r, c) PROVE LockedIsCurrent'
  <2>1. writer.pc = "locked" => owner'[writer.r] = owner[writer.r]
    BY <1>1, SeasonAssumption DEF Finish, Typed, TypeOK, Owned, Characters
  <2> QED BY <1>1, <2>1 DEF Finish
<1>2. CASE WriterLocks
  BY <1>2 DEF WriterLocks
<1>3. CASE WriterCommits
  BY <1>3, WhatWriterWrites
<1>4. CASE WriterAudits \/ WriterAborted
  BY <1>4 DEF WriterAudits, WriterAborted, IdleWriter
<1>5. CASE CloseFreezes \/ CloseResetsGuilds \/ CloseEnds \/ CloseFails
  <2>1. close'.pc # "rolling"
    BY <1>5, CloseMoves DEF Typed
  <2>2. UNCHANGED <<writer, row, owner>>
    BY <1>5, FreezeKeeps DEF CloseResetsGuilds, CloseEnds, CloseFails
  <2> QED BY <2>1, <2>2
<1>7. CASE CloseReads
  <2>1. close'.rolled = 0 /\ UNCHANGED <<writer, row, owner>>
    BY <1>7 DEF CloseReads, Typed, TypeOK
  <2>2. writer.pc = "locked" => ~(owner[writer.r] <= 0)
    BY SeasonAssumption DEF Typed, Owned, Characters
  <2> QED BY <2>1, <2>2
<1>8. CASE CloseRolls
  <2>1. /\ close.pc = "rolling" /\ close'.found = close.found
        /\ close'.rolled = close.rolled + 1 /\ close.rolled \in Nat
        /\ UNCHANGED <<writer, row, owner>>
    BY <1>8, SeasonAssumption DEF CloseRolls, Typed, TypeOK
  <2>2. writer.pc = "locked" => owner[writer.r] # close.rolled + 1 /\ owner[writer.r] \in Nat
    BY <1>8, SeasonAssumption DEF CloseRolls, HeldByWriter, Typed, Owned, Characters
  <2> QED BY <2>1, <2>2
<1>9. CASE CloseCommits
  <2>1. close'.pc = "done" /\ UNCHANGED <<writer, owner>>
    BY <1>9 DEF CloseCommits, IdleClose
  <2>2. ASSUME writer.pc = "locked" PROVE row'[owner[writer.r]] = row[owner[writer.r]]
    <3>1. owner[writer.r] \in Characters /\ owner[writer.r] <= NumCharacters
      BY <2>2, SeasonAssumption DEF Typed, Owned, Characters
    <3>2. owner[writer.r] \notin close.found \ Unreadable
      BY <1>9, <2>2, <3>1 DEF CloseCommits
    <3> QED BY <1>9, <3>1, <3>2, WhatCloseWrites
  <2> QED BY <2>1, <2>2
<1>12. CASE RepairWrites
  <2>1. writer.pc = "locked" => owner[writer.r] # repair.c
    BY <1>12 DEF RepairWrites, HeldByWriter
  <2>2. writer.pc = "locked" => row'[owner[writer.r]] = row[owner[writer.r]]
    BY <1>12, <2>1, WhatRepairWrites DEF Typed, Owned
  <2> QED BY <1>12, <2>2 DEF RepairWrites
<1>13. CASE UNCHANGED <<owner, writer, row, close>>
  BY <1>13
<1> QED BY <1>1, <1>2, <1>3, <1>4, <1>5, <1>7, <1>8, <1>9, <1>12, <1>13
     DEF Next, vars, CreateCharacter, RepairReads, RepairChecks

LEMMA OneSeasonStep == Typed /\ Locks /\ [Next]_vars => OneSeasonAtATime'
<1> SUFFICES ASSUME Typed, Locks, [Next]_vars PROVE OneSeasonAtATime'
  OBVIOUS
<1> USE DEF Locks, OneSeasonAtATime, NobodyLeftBehind
<1>1. CASE WriterCommits
  <2>1. \A c \in Characters : row'[c].season = row[c].season
    BY <1>1, WhatWriterWrites
  <2>2. found \subseteq Characters
    BY DEF Typed, TypeOK
  <2>3. UNCHANGED <<close, season, undone, standings, found>>
    BY <1>1 DEF WriterCommits
  <2> QED BY <2>1, <2>2, <2>3
<1>2. CASE CloseFreezes \/ CloseResetsGuilds \/ CloseReads \/ CloseRolls \/ CloseFails
  <2>1. close.pc # "done" /\ close'.pc # "done"
    BY <1>2, CloseMoves DEF Typed
  <2>2. UNCHANGED <<row, season, undone, standings, found>>
    BY <1>2, FreezeKeeps DEF CloseResetsGuilds, CloseReads, CloseRolls, CloseFails
  <2> QED BY <2>1, <2>2
<1>3. CASE CloseEnds
  <2>1. /\ close.pc = "reset" /\ close'.pc = "done" /\ season' = 0
        /\ UNCHANGED <<row, undone, found>>
    BY <1>3 DEF CloseEnds, IdleClose
  <2> QED BY <2>1
<1>4. CASE CloseCommits
  <2>1. close'.pc = "done" /\ season' = 2 /\ found' = close.found
    BY <1>4 DEF CloseCommits, IdleClose
  <2> QED BY <1>4, <2>1, WhatCloseWrites
<1>5. CASE RepairWrites
  <2>1. UNCHANGED <<close, season, standings, found>>
    BY <1>5 DEF RepairWrites
  <2>2. season # 2 => repair.to = 1 /\ repair.copy.season = 0
    BY <1>5 DEF RepairWrites, RepairIsEarly
  <2>3. season # 2 => \A c \in Characters : row'[c].season # 2
    BY <1>5, <2>2, WhatRepairWrites
  <2>4. ASSUME season = 1 PROVE undone' = {}
    <3>1. row[repair.c].season = 0 /\ repair.copy.season = 0
      BY <1>5, <2>2, <2>4 DEF RepairWrites, RepairIsEarly
    <3>2. /\ repair.copy \in Rows /\ row[repair.c] \in Rows /\ Early(row[repair.c])
          /\ Early(repair.copy) /\ Empty(row[repair.c]) /\ Empty(repair.copy)
      BY <1>5, <2>4, WhatRepairWrites DEF RepairWrites, RepairIsEarly, RowsAreEarly, Typed, TypeOK
    <3>3. row[repair.c] = repair.copy
      <4>1. /\ row[repair.c].season = repair.copy.season /\ row[repair.c].cups = repair.copy.cups
            /\ row[repair.c].past = repair.copy.past /\ row[repair.c].xp = repair.copy.xp
        BY <3>1, <3>2 DEF Early, Empty
      <4> QED BY <3>2, <4>1 DEF Rows
    <3>4. undone' = undone
      BY <1>5, <3>3 DEF RepairWrites
    <3> QED BY <2>4, <3>4
  <2>5. ASSUME season = 2, NEW c \in found \ (Unreadable \cup undone') PROVE row'[c].season = 2
    <3>1. c \in Characters
      BY DEF Typed, TypeOK
    <3>2. c \notin undone /\ (c = repair.c => row[c] \in {repair.copy, Rolled(repair.copy, repair.to)})
      BY <1>5, <2>5 DEF RepairWrites
    <3>3. row[c].season = 2
      BY <2>5, <3>2
    <3>4. CASE c = repair.c
      <4>1. repair.copy.season # 2
        BY <1>5 DEF RepairWrites, RepairIsEarly
      <4> QED BY <1>5, <3>2, <3>3, <3>4, <4>1, WhatRepairWrites
    <3>5. CASE c # repair.c
      BY <1>5, <3>1, <3>3, <3>5, WhatRepairWrites
    <3> QED BY <3>4, <3>5
  <2> QED BY <2>1, <2>3, <2>4, <2>5
<1>6. CASE UNCHANGED <<row, close, season, undone, standings, found>>
  BY <1>6
<1> QED BY <1>1, <1>2, <1>3, <1>4, <1>5, <1>6
     DEF Next, vars, CreateCharacter, Finish, WriterLocks, WriterAudits, WriterAborted,
         RepairReads, RepairChecks

LEMMA RowsStep == Typed /\ Locks /\ [Next]_vars => RowsAreEarly'
<1> SUFFICES ASSUME Typed, Locks, [Next]_vars PROVE RowsAreEarly'
  OBVIOUS
<1>r. RowsAreEarly
  BY DEF Locks
<1>o. \A r \in Results : owner[r] # 0 => owner[r] \in Characters
  BY DEF Typed, Owned, TypeOK
<1>1. ASSUME NEW r \in Results, NEW c \in Characters, Finish(r, c) PROVE RowsAreEarly'
  <2>1. owner' = [owner EXCEPT ![r] = c] /\ UNCHANGED <<row, season>>
        /\ (season # 0 => row[c].season # 0)
    BY <1>1 DEF Finish
  <2>2. \A q \in Results : owner'[q] = owner[q] \/ owner'[q] = c
    BY <2>1 DEF Typed, TypeOK
  <2> QED BY <1>r, <2>1, <2>2 DEF RowsAreEarly, Early, Empty
<1>2. CASE WriterCommits
  <2>1. /\ \A d \in Characters : row'[d].season = row[d].season /\ row'[d].past = row[d].past
        /\ \A d \in Characters \ {owner[writer.r]} : row'[d] = row[d]
    BY <1>2, WhatWriterWrites
  <2>2. UNCHANGED <<season, owner>> /\ writer.r \in Results /\ owner[writer.r] # 0
    BY <1>2, WhatWriterWrites, SeasonAssumption DEF WriterCommits, Characters
  <2>3. \A d \in Characters : Early(row'[d])
    BY <1>r, <2>1 DEF RowsAreEarly, Early
  <2>4. \A d \in Characters \ Newcomers : row'[d].season # 0
    BY <1>r, <2>1 DEF RowsAreEarly
  <2>5. season # 0 => \A q \in Results : owner[q] # 0 => row'[owner[q]].season # 0
    BY <1>r, <1>o, <2>1 DEF RowsAreEarly
  <2>6. season # 0 => row'[owner[writer.r]].season # 0
    BY <2>2, <2>5
  <2>7. season # 0 => \A d \in Characters : Empty(row'[d])
    BY <1>r, <2>1, <2>6 DEF RowsAreEarly, Empty
  <2> QED BY <2>2, <2>3, <2>4, <2>5, <2>7 DEF RowsAreEarly, Early, Empty
<1>3. CASE CloseCommits
  <2>1. \A d \in Characters : row'[d] = row[d] \/ row'[d].season = 2
    BY <1>3, WhatCloseWrites
  <2>2. season # 0 /\ UNCHANGED owner
    BY <1>3, WhatCloseWrites DEF CloseCommits
  <2> QED BY <1>r, <1>o, <2>1, <2>2 DEF RowsAreEarly, Early, Empty
<1>4. CASE CloseEnds
  <2>1. season' = 0 /\ UNCHANGED row
    BY <1>4 DEF CloseEnds
  <2> QED BY <1>r, <2>1 DEF RowsAreEarly, Early, Empty
<1>5. CASE RepairWrites
  <2>1. \A d \in Characters : \/ row'[d] = row[d]
                              \/ row'[d].season \in {1, 2} /\ Early(row'[d])
    BY <1>5, WhatRepairWrites
  <2>2. UNCHANGED <<season, owner>>
    BY <1>5 DEF RepairWrites
  <2> QED BY <1>r, <1>o, <2>1, <2>2 DEF RowsAreEarly, Early, Empty
<1>6. CASE UNCHANGED <<owner, row, season>>
  BY <1>r, <1>6 DEF RowsAreEarly, Early, Empty
<1> QED BY <1>1, <1>2, <1>3, <1>4, <1>5, <1>6, FreezeKeeps
     DEF Next, vars, CreateCharacter, WriterLocks, WriterAudits, WriterAborted,
         CloseResetsGuilds, CloseReads, CloseRolls, CloseFails, RepairReads, RepairChecks

LEMMA CopiesEarlyStep == Typed /\ Locks /\ [Next]_vars => CopiesAreEarly'
<1> SUFFICES ASSUME Typed, Locks, [Next]_vars PROVE CopiesAreEarly'
  OBVIOUS
<1>1. CASE CloseReads
  <2>1. close'.copy = row /\ close'.found = present /\ close.pc = "reset"
    BY <1>1 DEF CloseReads, Typed, TypeOK
  <2>2. season = 1
    BY <2>1 DEF Locks, OneSeasonAtATime
  <2> QED BY <2>1, <2>2
        DEF CopiesAreEarly, Early, Empty, Locks, RowsAreEarly, OneSeasonAtATime, Typed, Owned
<1>2. CASE CloseRolls
  <2>1. close.pc = "rolling" /\ close'.copy = close.copy /\ close'.found = close.found
    BY <1>2 DEF CloseRolls, Typed, TypeOK
  <2> QED BY <2>1 DEF Locks, CopiesAreEarly, Early, Empty
<1>3. CASE CloseFreezes \/ CloseResetsGuilds \/ CloseEnds \/ CloseCommits \/ CloseFails
  <2>1. close'.pc # "rolling"
    BY <1>3, CloseMoves DEF Typed
  <2> QED BY <2>1 DEF CopiesAreEarly
<1>4. CASE UNCHANGED close
  BY <1>4 DEF Locks, CopiesAreEarly, Early, Empty
<1> QED BY <1>1, <1>2, <1>3, <1>4
     DEF Next, vars, CreateCharacter, Finish, WriterLocks, WriterCommits, WriterAudits,
         WriterAborted, RepairReads, RepairChecks, RepairWrites

LEMMA RepairStep == Typed /\ Locks /\ [Next]_vars => RepairIsEarly'
<1> SUFFICES ASSUME Typed, Locks, [Next]_vars PROVE RepairIsEarly'
  OBVIOUS
<1>r. RepairIsEarly
  BY DEF Locks
<1>1. ASSUME NEW c \in Characters, RepairReads(c) PROVE RepairIsEarly'
  <2>1. /\ repair' = [pc |-> "read", c |-> c, copy |-> row[c], to |-> 0]
        /\ UNCHANGED <<row, season>>
    BY <1>1 DEF RepairReads
  <2> QED BY <2>1 DEF RepairIsEarly, Locks, RowsAreEarly, OneSeasonAtATime, Early, Empty
<1>2. CASE RepairChecks
  <2>1. repair.pc = "read" /\ UNCHANGED <<row, season>>
    BY <1>2 DEF RepairChecks
  <2>2. CASE season # 0 /\ repair.copy.season # season
    <3>1. /\ repair'.pc = "write" /\ repair'.to = season /\ repair'.c = repair.c
          /\ repair'.copy = repair.copy
      BY <1>2, <2>2 DEF RepairChecks, Typed, TypeOK
    <3>2. season \in {1, 2} /\ repair.copy.season \in 0..2
      BY <2>2 DEF Typed, TypeOK, Seasons, Rows
    <3>3. /\ Early(repair.copy) /\ Empty(repair.copy)
          /\ repair.copy.season = 0 => repair.c \in Newcomers
          /\ season # 2 => repair.copy.season # 2
          /\ season = 1 => repair.copy.season = row[repair.c].season
      BY <1>r, <2>1, <2>2 DEF RepairIsEarly
    <3>4. \/ season = 1 /\ repair.copy.season = 0
          \/ season = 2 /\ repair.copy.season # 2
      BY <2>2, <3>2, <3>3
    <3> QED BY <2>1, <3>1, <3>3, <3>4 DEF RepairIsEarly, Early, Empty
  <2>3. CASE ~(season # 0 /\ repair.copy.season # season)
    BY <1>2, <2>3 DEF RepairChecks, IdleRepair, RepairIsEarly
  <2> QED BY <2>2, <2>3
<1>3. CASE RepairWrites
  BY <1>3 DEF RepairWrites, IdleRepair, RepairIsEarly
<1>4. CASE WriterCommits
  <2>1. \A d \in Characters : row'[d].season = row[d].season
    BY <1>4, WhatWriterWrites
  <2>2. UNCHANGED <<repair, season>> /\ (repair.pc # "idle" => repair.c \in Characters)
    BY <1>4 DEF WriterCommits, Typed, TypeOK, Owned
  <2> QED BY <1>r, <2>1, <2>2 DEF RepairIsEarly, Early, Empty
<1>5. CASE CloseCommits
  <2>1. season = 1 /\ season' = 2 /\ UNCHANGED repair
    BY <1>5, WhatCloseWrites DEF CloseCommits
  <2> QED BY <1>r, <2>1 DEF RepairIsEarly, Early, Empty
<1>6. CASE CloseEnds
  <2>1. season = 1 /\ season' = 0 /\ UNCHANGED repair
    BY <1>6 DEF CloseEnds, Locks, OneSeasonAtATime
  <2> QED BY <1>r, <2>1 DEF RepairIsEarly, Early, Empty
<1>7. CASE UNCHANGED <<row, season, repair>>
  BY <1>r, <1>7 DEF RepairIsEarly, Early, Empty
<1> QED BY <1>1, <1>2, <1>3, <1>4, <1>5, <1>6, <1>7, FreezeKeeps
     DEF Next, vars, CreateCharacter, Finish, WriterLocks, WriterAudits, WriterAborted,
         CloseResetsGuilds, CloseReads, CloseRolls, CloseFails

LEMMA LocksStep == Typed /\ Locks /\ [Next]_vars => Locks'
BY LockedStep, OneSeasonStep, RowsStep, CopiesEarlyStep, RepairStep DEF Locks

LEMMA InitLocks == Init => Typed /\ Locks
<1> SUFFICES ASSUME Init PROVE Typed /\ Locks
  OBVIOUS
<1>1. Typed
  BY InitTypeOK DEF Init, Typed, Owned, IdleWriter, IdleRepair
<1>2. LockedIsCurrent /\ OneSeasonAtATime
  BY DEF Init, LockedIsCurrent, OneSeasonAtATime, NobodyLeftBehind, IdleWriter, IdleClose,
         NewRow, FreshRow
<1>3. RowsAreEarly
  BY SeasonAssumption DEF Init, RowsAreEarly, Early, Empty, NewRow, FreshRow
<1>4. CopiesAreEarly /\ RepairIsEarly
  BY DEF Init, CopiesAreEarly, RepairIsEarly, IdleClose, IdleRepair
<1> QED BY <1>1, <1>2, <1>3, <1>4 DEF Locks

(* Once the next season is active, every row the close read and could parse *)
(* is of it and stays so, unless a repair that had read the season before   *)
(* overwrote it.                                                            *)
THEOREM AllAreRolled == Spec => []NobodyLeftBehind
<1>1. Init => Typed /\ Locks
  BY InitLocks
<1>2. Typed /\ Locks /\ [Next]_vars => Typed' /\ Locks'
  BY TypedStep, LocksStep
<1>3. Locks => NobodyLeftBehind
  BY DEF Locks, OneSeasonAtATime
<1> QED BY <1>1, <1>2, <1>3, PTL DEF Spec

----------------------------------------------------------------------------
(* What the audit rows, the frozen standings and the close's copy say of    *)
(* the rows.                                                                *)
PaidHaveOwners ==
    /\ audit \subseteq paid
    /\ writer.pc = "auditing" => writer.r \in paid
    /\ \A r \in paid : owner[r] \in Characters \ Unreadable

CupsUntilRolled == season = 1 => \A r \in paid : r \in row[owner[r]].cups

FrozenIsCopied ==
    /\ close.pc \in {"frozen", "reset", "rolling"} => close.standings \subseteq audit
    /\ close.pc = "rolling" => \A r \in close.standings : /\ owner[r] \in close.found
                                                          /\ r \in close.copy[owner[r]].cups

MembersAreCopied ==
    close.pc = "rolling" => \A r \in paid : owner[r] \in Members => r \in close.copy[owner[r]].xp

(* The standings count paid results only.                                   *)
StandingsAudited == standings \subseteq paid

(* The guild's lock keeps the writer out between the close's read of a      *)
(* member's row and its write: no member loses a reward to the close.       *)
MembersKeepRewards ==
    \A r \in paid : owner[r] \in Members \ undone => r \in row[owner[r]].xp

Kept == PaidHaveOwners /\ CupsUntilRolled /\ FrozenIsCopied /\ MembersAreCopied
        /\ StandingsAudited /\ StandingsAreArchived /\ MembersKeepRewards

LEMMA InitKept == Init => Kept
BY DEF Init, Kept, PaidHaveOwners, CupsUntilRolled, FrozenIsCopied, MembersAreCopied,
       StandingsAudited, StandingsAreArchived, MembersKeepRewards, IdleWriter, IdleClose

LEMMA KeptStep == Typed /\ Locks /\ Kept /\ [Next]_vars => Kept'
<1> SUFFICES ASSUME Typed, Locks, Kept, [Next]_vars PROVE Kept'
  OBVIOUS
<1> USE DEF Kept, PaidHaveOwners, CupsUntilRolled, FrozenIsCopied, MembersAreCopied,
            StandingsAudited, StandingsAreArchived, MembersKeepRewards
<1>o. \A r \in Results : owner[r] # 0 => owner[r] \in present \ Unreadable /\ owner[r] \in Characters
  BY DEF Typed, Owned, TypeOK
<1>z. 0 \notin Characters /\ paid \subseteq Results /\ audit \subseteq Results
  BY SeasonAssumption DEF Characters, Typed, TypeOK
<1>1. ASSUME NEW r \in Results, NEW c \in Characters, Finish(r, c) PROVE Kept'
  <2>1. owner' = [owner EXCEPT ![r] = c] /\ owner[r] = 0
    BY <1>1 DEF Finish
  <2>2. 0 \notin Characters /\ paid \subseteq Results /\ owner \in [Results -> Characters \cup {0}]
    BY SeasonAssumption DEF Characters, Typed, TypeOK
  <2>3. \A q \in paid : owner'[q] = owner[q]
    BY <2>1, <2>2
  <2>4. UNCHANGED <<writer, row, audit, season, standings, close, paid, undone>>
    BY <1>1 DEF Finish
  <2>5. CupsUntilRolled' /\ PaidHaveOwners'
    BY <2>3, <2>4
  <2>6. FrozenIsCopied' /\ MembersAreCopied'
    BY <2>3, <2>4
  <2>7. StandingsAreArchived' /\ MembersKeepRewards' /\ StandingsAudited'
    BY <2>3, <2>4
  <2> QED BY <2>5, <2>6, <2>7
<1>2. CASE WriterLocks
  BY <1>2 DEF WriterLocks
<1>3. CASE WriterCommits
  <2> DEFINE c == owner[writer.r]
  <2>1. c \in Characters \ Unreadable
    BY <1>3, WhatWriterWrites
  <2>4. \A d \in Characters : /\ row[d].cups \subseteq row'[d].cups
                               /\ row[d].xp \subseteq row'[d].xp
                               /\ row'[d].past = row[d].past
    BY <1>3, WhatWriterWrites
  <2>5. writer.r \in row'[c].cups /\ writer.r \in row'[c].xp /\ writer'.r = writer.r
    BY <1>3, WhatWriterWrites
  <2>6. /\ paid' = paid \cup {writer.r}
        /\ UNCHANGED <<owner, audit, season, standings, close, undone>>
    BY <1>3 DEF WriterCommits
  <2>7. close.pc = "rolling" => c \notin Members
    BY <1>3 DEF WriterCommits, GuildReady, GuildsHeldByClose
  <2> HIDE DEF c
  <2>8. c = owner[writer.r]
    BY DEF c
  <2>9. PaidHaveOwners' /\ StandingsAudited'
    BY <2>1, <2>5, <2>6, <2>8
  <2>10. CupsUntilRolled'
    BY <2>4, <2>5, <2>6, <2>8
  <2>11. FrozenIsCopied' /\ MembersAreCopied'
    BY <2>6, <2>7, <2>8
  <2>12. StandingsAreArchived'
    BY <2>4, <2>6
  <2>13. MembersKeepRewards'
    BY <2>4, <2>5, <2>6, <2>8
  <2> QED BY <2>9, <2>10, <2>11, <2>12, <2>13
<1>4. CASE WriterAudits \/ WriterAborted
  BY <1>4 DEF WriterAudits, WriterAborted, IdleWriter
<1>5. CASE CloseFreezes
  <2>1. close'.pc = "frozen" /\ close'.standings \subseteq audit
    <3>1. PICK counted \in SUBSET audit, next \in BOOLEAN :
              close' = [IdleClose EXCEPT !.pc = "frozen", !.next = next, !.standings = counted]
      BY <1>5, Zenon DEF CloseFreezes
    <3> QED BY <3>1 DEF IdleClose
  <2> QED BY <1>5, <2>1, FreezeKeeps
<1>6. CASE CloseResetsGuilds
  <2>1. close'.pc = "reset" /\ close'.standings = close.standings /\ close.pc = "frozen"
    BY <1>6 DEF CloseResetsGuilds, Typed, TypeOK
  <2> QED BY <1>6, <2>1 DEF CloseResetsGuilds
<1>7. CASE CloseReads
  <2>1. /\ close'.pc = "rolling" /\ close'.copy = row /\ close'.standings = close.standings
        /\ close.pc = "reset" /\ close'.found = present
    BY <1>7 DEF CloseReads, Typed, TypeOK
  <2>2. season = 1 /\ undone = {}
    BY <2>1 DEF Locks, OneSeasonAtATime
  <2>3. UNCHANGED <<owner, writer, row, audit, season, standings, paid, undone>>
    BY <1>7 DEF CloseReads
  <2>4. \A r \in paid : owner[r] \in present
    BY <1>o, <1>z
  <2>5. FrozenIsCopied'
    BY <2>1, <2>2, <2>3, <2>4
  <2>6. MembersAreCopied'
    BY <2>1, <2>2, <2>3
  <2> QED BY <2>1, <2>3, <2>5, <2>6
<1>8. CASE CloseRolls
  <2>1. /\ close'.pc = "rolling" /\ close'.copy = close.copy /\ close'.found = close.found
        /\ close'.standings = close.standings /\ close.pc = "rolling"
    BY <1>8 DEF CloseRolls, Typed, TypeOK
  <2> QED BY <1>8, <2>1 DEF CloseRolls
<1>9. CASE CloseCommits
  <2>1. standings' = close.standings /\ UNCHANGED <<owner, writer, audit, paid, undone>>
    BY <1>9 DEF CloseCommits
  <2>2. /\ close.pc = "rolling" /\ close'.pc = "done" /\ season = 1 /\ season' = 2
        /\ \A c \in Characters \ (close.found \ Unreadable) : row'[c] = row[c]
        /\ \A c \in close.found \ Unreadable :
               row'[c].past = close.copy[c].cups /\ row'[c].xp = close.copy[c].xp
    BY <1>9, WhatCloseWrites
  <2>3. \A r \in standings' : /\ owner[r] \in close.found \ Unreadable
                               /\ r \in close.copy[owner[r]].cups
    BY <2>1, <2>2, <1>o, <1>z
  <2>4. StandingsAreArchived'
    BY <2>1, <2>2, <2>3
  <2>5. MembersKeepRewards'
    <3> SUFFICES ASSUME NEW r \in paid, owner[r] \in Members \ undone
                 PROVE  r \in row'[owner[r]].xp
      BY <2>1
    <3>1. owner[r] \in close.found \ Unreadable
      BY <2>2, SeasonAssumption DEF Locks, CopiesAreEarly
    <3> QED BY <2>2, <3>1
  <2>6. PaidHaveOwners' /\ CupsUntilRolled' /\ FrozenIsCopied' /\ MembersAreCopied'
    BY <2>1, <2>2
  <2>7. StandingsAudited'
    BY <2>1, <2>2
  <2> QED BY <2>4, <2>5, <2>6, <2>7
<1>e. CASE CloseEnds
  <2>1. /\ standings' = close.standings /\ season' = 0 /\ close.pc = "reset"
        /\ close'.pc = "done" /\ UNCHANGED <<owner, writer, row, audit, paid, undone>>
    BY <1>e DEF CloseEnds, IdleClose
  <2>2. season = 1
    BY <2>1 DEF Locks, OneSeasonAtATime
  <2> QED BY <2>1, <2>2
<1>10. CASE CloseFails
  BY <1>10 DEF CloseFails, IdleClose
<1>11. ASSUME NEW c \in Characters, RepairReads(c) PROVE Kept'
  BY <1>11 DEF RepairReads
<1>12. CASE RepairChecks
  BY <1>12 DEF RepairChecks
<1>13. CASE RepairWrites
  <2> DEFINE b == repair.c
             w == Rolled(repair.copy, repair.to)
  <2>1. /\ b \in Characters /\ w.cups = {} /\ w.xp = repair.copy.xp
        /\ \A c \in Characters \ {b} : row'[c] = row[c]
        /\ row'[b] = w /\ w.season = repair.to
    BY <1>13, WhatRepairWrites
  <2>2. /\ undone \subseteq undone'
        /\ b \notin undone' => row[b] \in {repair.copy, w}
        /\ UNCHANGED <<owner, writer, audit, season, standings, close, paid>>
    BY <1>13 DEF RepairWrites
  <2>3. /\ repair.pc = "write" /\ Early(repair.copy) /\ Empty(repair.copy)
        /\ repair.copy.season # 2
        /\ \/ repair.to = 1 /\ repair.copy.season = 0
           \/ repair.to = 2 /\ season = 2
        /\ season = 1 => repair.copy.season = row[b].season
    BY <1>13 DEF RepairWrites, Locks, RepairIsEarly
  <2>4. season = 1 => row[b].cups = {}
    BY <2>1, <2>3 DEF Locks, RowsAreEarly, Empty
  <2> HIDE DEF b, w
  <2>5. CupsUntilRolled'
    BY <2>1, <2>2, <2>4
  <2>6. StandingsAreArchived'
    <3> SUFFICES ASSUME NEW r \in standings, owner[r] \notin undone'
                 PROVE  r \in IF season = 2 THEN row'[owner[r]].past ELSE row'[owner[r]].cups
      BY <2>2
    <3>1. /\ owner[r] \in Characters
          /\ r \in IF season = 2 THEN row[owner[r]].past ELSE row[owner[r]].cups
      BY <2>2
    <3>2. CASE owner[r] = b
      <4>1. row[b] \in {repair.copy, w} /\ repair.copy.past = {}
        BY <2>2, <2>3, <3>2 DEF Early
      <4>2. CASE season = 2
        BY <2>1, <3>1, <3>2, <4>1, <4>2
      <4>3. CASE season # 2
        BY <2>1, <2>3, <3>1, <3>2, <4>1, <4>3 DEF Empty
      <4> QED BY <4>2, <4>3
    <3>3. CASE owner[r] # b
      BY <2>1, <3>1, <3>3
    <3> QED BY <3>2, <3>3
  <2>7. MembersKeepRewards'
    BY <2>1, <2>2
  <2>8. PaidHaveOwners' /\ FrozenIsCopied' /\ MembersAreCopied' /\ StandingsAudited'
    BY <2>2
  <2> QED BY <2>5, <2>6, <2>7, <2>8
<1>f. ASSUME NEW c \in Characters, CreateCharacter(c) PROVE Kept'
  BY <1>f DEF CreateCharacter
<1>14. CASE UNCHANGED vars
  BY <1>14 DEF vars
<1> QED BY <1>1, <1>2, <1>3, <1>4, <1>5, <1>6, <1>7, <1>8, <1>9, <1>10, <1>11, <1>12,
           <1>13, <1>14, <1>e, <1>f DEF Next

(* Every result the final standings count is in the archive the close made  *)
(* of its character, or still in the cups if no season follows, unless a    *)
(* repair overwrote the row.                                                *)
THEOREM StandingsHold == Spec => []StandingsAreArchived
<1>1. Init => Typed /\ Locks /\ Kept
  BY InitLocks, InitKept
<1>2. Typed /\ Locks /\ Kept /\ [Next]_vars => Typed' /\ Locks' /\ Kept'
  BY TypedStep, LocksStep, KeptStep
<1>3. Kept => StandingsAreArchived
  BY DEF Kept
<1> QED BY <1>1, <1>2, <1>3, PTL DEF Spec

(* No guild member loses a committed reward to the close.                   *)
THEOREM MembersLoseNothing == Spec => []MembersKeepRewards
<1>1. Init => Typed /\ Locks /\ Kept
  BY InitLocks, InitKept
<1>2. Typed /\ Locks /\ Kept /\ [Next]_vars => Typed' /\ Locks' /\ Kept'
  BY TypedStep, LocksStep, KeptStep
<1>3. Kept => MembersKeepRewards
  BY DEF Kept
<1> QED BY <1>1, <1>2, <1>3, PTL DEF Spec
----------------------------------------------------------------------------
(* The whole end of the season is one step of SeasonTurn.                   *)

(* A result waits in one place, and only until it is paid.                  *)
PaidOnce ==
    /\ \A i, j \in DOMAIN queue : queue[i] = queue[j] => i = j
    /\ \A i \in DOMAIN queue : queue[i] \notin paid
    /\ writer.pc = "locked" => /\ writer.r \notin paid
                               /\ \A i \in DOMAIN queue : queue[i] # writer.r

LEMMA PaidOnceStep == Typed /\ Kept /\ PaidOnce /\ [Next]_vars => PaidOnce'
<1> SUFFICES ASSUME Typed, Kept, PaidOnce, [Next]_vars PROVE PaidOnce'
  OBVIOUS
<1> USE DEF PaidOnce
<1>q. queue \in Seq(Results)
  BY DEF Typed, TypeOK
<1>1. ASSUME NEW r \in Results, NEW c \in Characters, Finish(r, c) PROVE PaidOnce'
  <2>1. queue' = Append(queue, r) /\ owner[r] = 0 /\ UNCHANGED <<paid, writer>>
    BY <1>1 DEF Finish
  <2>2. 0 \notin Characters
    BY SeasonAssumption DEF Characters
  <2>3. r \notin paid /\ (writer.pc = "locked" => writer.r # r)
    BY <2>1, <2>2 DEF Kept, PaidHaveOwners, Typed, Owned
  <2>4. \A i \in DOMAIN queue : queue[i] # r
    BY <2>1, <2>2 DEF Typed, Owned
  <2>5. \A i \in DOMAIN queue' : \/ i \in DOMAIN queue /\ queue'[i] = queue[i]
                                 \/ i = Len(queue) + 1 /\ queue'[i] = r
    BY <1>q, <2>1
  <2> QED BY <2>1, <2>3, <2>4, <2>5
<1>2. CASE WriterLocks
  <2>1. queue # << >> /\ queue' = Tail(queue) /\ UNCHANGED paid /\ writer'.r = Head(queue)
    BY <1>2 DEF WriterLocks
  <2>2. Head(queue) = queue[1] /\ 1 \in DOMAIN queue
    BY <1>q, <2>1
  <2>3. \A i \in DOMAIN queue' : i + 1 \in DOMAIN queue /\ queue'[i] = queue[i + 1] /\ i \in Nat /\ i # 0
    BY <1>q, <2>1
  <2>4. \A i, j \in DOMAIN queue' : queue'[i] = queue'[j] => i = j
    BY <2>3
  <2>5. \A i \in DOMAIN queue' : queue'[i] \notin paid /\ queue'[i] # queue[1]
    BY <2>2, <2>3
  <2> QED BY <2>1, <2>2, <2>4, <2>5
<1>3. CASE WriterCommits
  <2>1. /\ writer.pc = "locked" /\ writer'.pc = "auditing" /\ UNCHANGED queue
        /\ paid' = paid \cup {writer.r}
    BY <1>3 DEF WriterCommits, Typed, TypeOK
  <2> QED BY <2>1
<1>4. CASE WriterAudits \/ WriterAborted
  BY <1>4 DEF WriterAudits, WriterAborted, IdleWriter
<1>5. CASE UNCHANGED <<queue, writer, paid>>
  BY <1>5
<1> QED BY <1>1, <1>2, <1>3, <1>4, <1>5, FreezeKeeps
     DEF Next, vars, CreateCharacter, CloseResetsGuilds, CloseEnds, CloseReads, CloseRolls,
         CloseCommits, CloseFails, RepairReads, RepairChecks, RepairWrites

(* In the first season a row holds paid results of its character and        *)
(* nothing else.                                                            *)
FirstSeason(w, c) ==
    w.season = 1 => /\ w.past = {}
                    /\ w.xp = w.cups
                    /\ \A r \in w.cups : r \in paid /\ owner[r] = c

RowsArePaid == \A c \in Characters : FirstSeason(row[c], c)

RepairIsOld == repair.pc # "idle" => FirstSeason(repair.copy, repair.c)

(* What the close copied of a row is what the row was, and still is if its  *)
(* character is in a guild.                                                 *)
CopiesLag ==
    close.pc = "rolling" =>
        \A c \in Characters : /\ FirstSeason(close.copy[c], c)
                              /\ close.copy[c].cups \subseteq row[c].cups
                              /\ c \in Members => close.copy[c] = row[c]

Copies == RowsArePaid /\ RepairIsOld /\ CopiesLag

(* Nothing that was paid is taken back or changes hands.                    *)
LEMMA PaidStays ==
  ASSUME Typed, Kept, [Next]_vars
  PROVE  \A r \in paid : r \in paid' /\ owner'[r] = owner[r]
<1>1. ASSUME NEW q \in Results, NEW c \in Characters, Finish(q, c)
      PROVE  \A r \in paid : r \in paid' /\ owner'[r] = owner[r]
  <2>1. owner' = [owner EXCEPT ![q] = c] /\ owner[q] = 0 /\ UNCHANGED paid
    BY <1>1 DEF Finish
  <2>2. 0 \notin Characters /\ paid \subseteq Results /\ owner \in [Results -> Characters \cup {0}]
    BY SeasonAssumption DEF Characters, Typed, TypeOK
  <2> QED BY <2>1, <2>2 DEF Kept, PaidHaveOwners
<1>2. CASE WriterCommits
  BY <1>2 DEF WriterCommits
<1>3. CASE UNCHANGED <<owner, paid>>
  BY <1>3
<1> QED BY <1>1, <1>2, <1>3, FreezeKeeps
     DEF Next, vars, CreateCharacter, WriterLocks, WriterAudits, WriterAborted,
         CloseResetsGuilds, CloseEnds, CloseReads, CloseRolls, CloseCommits, CloseFails,
         RepairReads, RepairChecks, RepairWrites

LEMMA CopiesStep == Typed /\ Locks /\ Kept /\ Copies /\ [Next]_vars => Copies'
<1> SUFFICES ASSUME Typed, Locks, Kept, Copies, [Next]_vars PROVE Copies'
  OBVIOUS
<1> USE DEF Copies
<1>p. \A r \in paid : r \in paid' /\ owner'[r] = owner[r]
  BY PaidStays
<1>1. ASSUME UNCHANGED row PROVE Copies'
  <2> RowsArePaid'
    BY <1>1, <1>p DEF RowsArePaid, FirstSeason
  <2>1. ASSUME UNCHANGED repair PROVE RepairIsOld'
    BY <2>1, <1>p DEF RepairIsOld, FirstSeason
  <2>2. ASSUME close'.pc = "rolling" => close.pc = "rolling" /\ close'.copy = close.copy
        PROVE  CopiesLag'
    BY <1>1, <2>2, <1>p DEF CopiesLag, FirstSeason
  <2>3. CASE UNCHANGED <<repair, close>>
    BY <2>1, <2>2, <2>3
  <2>4. CASE CloseFreezes \/ CloseResetsGuilds \/ CloseEnds \/ CloseFails \/ CloseCommits
    <3>1. close'.pc # "rolling"
      BY <2>4, CloseMoves DEF Typed
    <3>2. UNCHANGED repair
      BY <2>4, FreezeKeeps DEF CloseResetsGuilds, CloseEnds, CloseFails, CloseCommits
    <3> QED BY <2>1, <2>2, <3>1, <3>2
  <2>5. CASE CloseReads
    <3>1. close'.copy = row /\ UNCHANGED repair
      BY <2>5 DEF CloseReads, Typed, TypeOK
    <3>2. CopiesLag'
      BY <1>1, <3>1, <1>p DEF CopiesLag, RowsArePaid, FirstSeason
    <3> QED BY <2>1, <3>1, <3>2
  <2>6. CASE CloseRolls
    <3>1. close'.copy = close.copy /\ close.pc = "rolling" /\ UNCHANGED repair
      BY <2>6 DEF CloseRolls, Typed, TypeOK
    <3> QED BY <2>1, <2>2, <3>1
  <2>7. ASSUME NEW c \in Characters, RepairReads(c) PROVE Copies'
    <3>1. repair' = [pc |-> "read", c |-> c, copy |-> row[c], to |-> 0] /\ UNCHANGED close
      BY <2>7 DEF RepairReads
    <3>2. RepairIsOld'
      BY <3>1, <1>p DEF RepairIsOld, RowsArePaid, FirstSeason
    <3> QED BY <2>2, <3>1, <3>2
  <2>8. CASE RepairChecks \/ RepairWrites
    <3>1. UNCHANGED close
      BY <2>8 DEF RepairChecks, RepairWrites
    <3>2. CASE repair' = IdleRepair
      <4>1. RepairIsOld'
        BY <3>2 DEF RepairIsOld, IdleRepair
      <4> QED BY <2>2, <3>1, <4>1
    <3>3. CASE repair.pc = "read" /\ repair' = [repair EXCEPT !.pc = "write", !.to = season]
      <4>1. repair'.c = repair.c /\ repair'.copy = repair.copy /\ repair.pc # "idle"
        BY <3>3 DEF Typed, TypeOK
      <4>2. RepairIsOld'
        BY <4>1, <1>1, <1>p DEF RepairIsOld, FirstSeason
      <4> QED BY <2>2, <3>1, <4>2
    <3> QED BY <2>8, <3>2, <3>3 DEF RepairChecks, RepairWrites
  <2>9. CASE WriterCommits
    BY <2>3, <2>9 DEF WriterCommits
  <2> QED BY <2>3, <2>4, <2>5, <2>6, <2>7, <2>8, <2>9
       DEF Next, vars, CreateCharacter, Finish, WriterLocks, WriterAudits, WriterAborted
<1>2. CASE WriterCommits
  <2> DEFINE c == owner[writer.r]
  <2>3. writer.r \in paid' /\ UNCHANGED <<owner, close, repair>>
    BY <1>2 DEF WriterCommits
  <2>4. close.pc = "rolling" => c \notin Members
    BY <1>2 DEF WriterCommits, GuildReady, GuildsHeldByClose
  <2>5. c = owner'[writer.r] /\ c \in Characters
    BY <1>2, <2>3, WhatWriterWrites
  <2>6. \A d \in Characters : d # c => row'[d] = row[d]
    BY <1>2, WhatWriterWrites
  <2>7. /\ row'[c].season = row[c].season /\ row'[c].past = row[c].past
        /\ row'[c].cups = row[c].cups \cup {writer.r} /\ row'[c].xp = row[c].xp \cup {writer.r}
    BY <1>2, WhatWriterWrites
  <2> HIDE DEF c
  <2>8. RowsArePaid'
    <3> SUFFICES ASSUME NEW d \in Characters PROVE FirstSeason(row[d], d)'
      BY DEF RowsArePaid
    <3>1. CASE d = c
      <4>1. FirstSeason(row[d], d)
        BY DEF RowsArePaid
      <4>2. \A r \in row'[d].cups : r \in row[d].cups \/ r = writer.r
        BY <2>7, <3>1
      <4>3. writer.r \in paid' /\ owner'[writer.r] = d
        BY <2>3, <2>5, <3>1
      <4>4. row'[d].season = 1 => row'[d].past = {} /\ row'[d].xp = row'[d].cups
        BY <2>7, <3>1, <4>1 DEF FirstSeason
      <4>5. row'[d].season = 1 => \A r \in row'[d].cups : r \in paid' /\ owner'[r] = d
        BY <2>7, <3>1, <4>1, <4>2, <4>3, <1>p DEF FirstSeason
      <4> QED BY <4>4, <4>5 DEF FirstSeason
    <3>2. CASE d # c
      BY <2>6, <3>2, <1>p DEF RowsArePaid, FirstSeason
    <3> QED BY <3>1, <3>2
  <2>9. RepairIsOld'
    BY <2>3, <1>p DEF RepairIsOld, FirstSeason
  <2>10. CopiesLag'
    BY <2>3, <2>4, <2>6, <2>7, <1>p DEF CopiesLag, FirstSeason
  <2> QED BY <2>8, <2>9, <2>10
<1>3. CASE CloseCommits
  <2>1. \A c \in Characters : row'[c] = row[c] \/ row'[c].season = 2
    BY <1>3, WhatCloseWrites
  <2>2. close'.pc = "done" /\ UNCHANGED repair
    BY <1>3 DEF CloseCommits, IdleClose
  <2>3. RepairIsOld'
    BY <2>2, <1>p DEF RepairIsOld, FirstSeason
  <2>4. RowsArePaid'
    BY <2>1, <1>p DEF RowsArePaid, FirstSeason
  <2> QED BY <2>2, <2>3, <2>4 DEF CopiesLag
<1>4. CASE RepairWrites
  <2> DEFINE b == repair.c
  <2>1. repair.pc = "write" /\ repair'.pc = "idle" /\ UNCHANGED <<close, season>>
    BY <1>4 DEF RepairWrites, IdleRepair
  <2>2. /\ \A c \in Characters \ {b} : row'[c] = row[c]
        /\ row'[b].season = repair.to /\ row'[b].cups = {} /\ row'[b].xp = repair.copy.xp
        /\ Early(row'[b])
    BY <1>4, WhatRepairWrites
  <2>3. /\ repair.to = 1 => repair.copy.season = 0 /\ repair.copy.xp = {}
        /\ repair.copy.season = 0 => b \in Newcomers
        /\ season = 1 => repair.to = 1 /\ row[b].season = 0
    BY <2>1 DEF Locks, RepairIsEarly, Empty
  <2> HIDE DEF b
  <2>4. RowsArePaid'
    <3> SUFFICES ASSUME NEW c \in Characters PROVE FirstSeason(row[c], c)'
      BY DEF RowsArePaid
    <3>1. CASE c = b
      <4>1. row'[c].season = 1 => row'[c].past = {}
        BY <2>2, <3>1 DEF Early
      <4>2. row'[c].season = 1 => row'[c].xp = {} /\ row'[c].cups = {}
        BY <2>2, <2>3, <3>1
      <4> QED BY <4>1, <4>2 DEF FirstSeason
    <3>2. CASE c # b
      <4>1. row'[c] = row[c] /\ FirstSeason(row[c], c)
        BY <2>2, <3>2 DEF RowsArePaid
      <4> QED BY <4>1, <1>p DEF FirstSeason
    <3> QED BY <3>1, <3>2
  <2>5. CopiesLag'
    <3> SUFFICES ASSUME close.pc = "rolling", NEW c \in Characters
                 PROVE  /\ FirstSeason(close.copy[c], c)'
                        /\ close.copy[c].cups \subseteq row'[c].cups
                        /\ c \in Members => close.copy[c] = row'[c]
      BY <2>1 DEF CopiesLag
    <3>1. /\ FirstSeason(close.copy[c], c)
          /\ close.copy[c].cups \subseteq row[c].cups
          /\ c \in Members => close.copy[c] = row[c]
      BY DEF CopiesLag
    <3>2. FirstSeason(close.copy[c], c)'
      BY <2>1, <3>1, <1>p DEF FirstSeason
    <3>3. season = 1
      BY DEF Locks, OneSeasonAtATime
    <3>4. CASE c = b
      <4>1. row[c].cups = {} /\ c \notin Members
        BY <2>3, <3>3, <3>4, SeasonAssumption DEF Locks, RowsAreEarly, Empty
      <4> QED BY <3>1, <3>2, <4>1
    <3>5. CASE c # b
      BY <2>2, <3>1, <3>2, <3>5
    <3> QED BY <3>4, <3>5
  <2> QED BY <2>1, <2>4, <2>5 DEF RepairIsOld
<1> QED BY <1>1, <1>2, <1>3, <1>4, FreezeKeeps
     DEF Next, vars, CreateCharacter, Finish, WriterLocks, WriterAudits, WriterAborted,
         CloseResetsGuilds, CloseEnds, CloseReads, CloseRolls, CloseFails, RepairReads,
         RepairChecks

TurnInv == PaidOnce /\ Copies

LEMMA InitTurn == Init => Turn!Init /\ TurnInv
<1> SUFFICES ASSUME Init PROVE Turn!Init /\ TurnInv
  OBVIOUS
<1>1. Turn!Init
  <2>1. NewRow = Turn!Blank(1)
    BY DEF NewRow, Turn!Blank
  <2>2. FreshRow = Turn!Blank(0)
    BY DEF FreshRow, NewRow, Turn!Blank
  <2>3. row = [c \in Characters |-> IF c \in Newcomers THEN Turn!Blank(0) ELSE Turn!Blank(1)]
    BY <2>1, <2>2 DEF Init
  <2>4. PaidTo = [c \in Characters |-> {}]
    BY DEF Init, PaidTo
  <2> QED BY <2>3, <2>4 DEF Init, Turn!Init
<1>2. PaidOnce
  BY DEF Init, PaidOnce, IdleWriter
<1>3. Copies
  <2>1. RowsArePaid
    BY DEF Init, RowsArePaid, FirstSeason, NewRow, FreshRow
  <2>2. RepairIsOld /\ CopiesLag
    BY DEF Init, RepairIsOld, CopiesLag, IdleRepair, IdleClose
  <2> QED BY <2>1, <2>2 DEF Copies
<1> QED BY <1>1, <1>2, <1>3 DEF TurnInv

(* A reward that commits is paid for the first time.                        *)
LEMMA CommitPays ==
  ASSUME Typed, Locks, Kept, TurnInv, WriterCommits
  PROVE  \E c \in Characters, r \in Results : Turn!Pay(c, r)
<1>1. PICK r \in Results : r = writer.r
  BY DEF WriterCommits, Typed, Owned
<1>2. PICK c \in Characters : c = owner[r]
  BY <1>1 DEF WriterCommits, Typed, Owned
<1>3. r \notin paid /\ c \notin Unreadable
  BY <1>1, <1>2, WhatWriterWrites DEF TurnInv, PaidOnce
<1>4. paid' = paid \cup {r} /\ UNCHANGED <<owner, season, standings>>
  BY <1>1 DEF WriterCommits
<1>5. PaidTo' = [PaidTo EXCEPT ![c] = PaidTo[c] \cup {r}]
  BY <1>2, <1>4 DEF PaidTo
<1>6. row' = [row EXCEPT ![c] = [row[c] EXCEPT !.cups = row[c].cups \cup {r},
                                              !.xp = row[c].xp \cup {r}]]
  BY <1>1, <1>2, WhatWriterWrites
<1>7. \A d \in Characters : r \notin PaidTo[d]
  BY <1>3 DEF PaidTo
<1>8. Turn!Pay(c, r)
  BY <1>3, <1>4, <1>5, <1>6, <1>7 DEF Turn!Pay
<1> QED BY <1>8

(* A row of the first season, or of none yet, is rolled into what it earned. *)
LEMMA RolledIsArchived ==
  ASSUME NEW w \in Rows, NEW c \in Characters,
         w.season # 2, Early(w), Empty(w), FirstSeason(w, c)
  PROVE  Rolled(w, 2) = Turn!Archived(w.cups)
<1>1. w.season = 0 \/ w.season = 1
  BY DEF Rows, Seasons
<1>2. Rolled(w, 2) = [season |-> 2, cups |-> {},
                      past |-> IF w.season = 0 THEN w.past ELSE w.cups, xp |-> w.xp]
  BY DEF Rolled
<1>3. w.xp = w.cups /\ (IF w.season = 0 THEN w.past ELSE w.cups) = w.cups
  BY <1>1 DEF Early, Empty, FirstSeason
<1> QED BY <1>2, <1>3 DEF Turn!Archived

(* The close's commit turns the season for everyone it read and could parse. *)
LEMMA CommitTurns ==
  ASSUME Typed, Locks, Kept, TurnInv, CloseCommits
  PROVE  Turn!Turn
<1> DEFINE late == Characters \ close.found
           turned == Characters \ (Unreadable \cup late)
           kept == [c \in Characters |-> IF c \in turned THEN close.copy[c].cups
                                                         ELSE row[c].cups]
<1>1. /\ close.pc = "rolling" /\ season = 1 /\ season' = 2 /\ standings' = close.standings
      /\ close.found \subseteq Characters
  BY WhatCloseWrites DEF CloseCommits, Typed, TypeOK
<1>2. turned = close.found \ Unreadable /\ turned \subseteq Characters
  BY <1>1
<1>3. late \in SUBSET Newcomers
  BY <1>1 DEF Locks, CopiesAreEarly
<1> HIDE DEF late, turned
<1>4. /\ close.copy \in [Characters -> Rows] /\ row \in [Characters -> Rows]
      /\ \A c \in Characters : close.copy[c] \in Rows /\ row[c] \in Rows
  BY DEF Typed, TypeOK
<1>e. \A c \in Characters : close.copy[c].season # 2
  BY <1>1 DEF Locks, CopiesAreEarly
<1>f. \A c \in Characters : Early(close.copy[c]) /\ Empty(close.copy[c])
  BY <1>1 DEF Locks, CopiesAreEarly
<1>p. \A c \in Characters : FirstSeason(close.copy[c], c)
  BY <1>1 DEF TurnInv, Copies, CopiesLag
<1>l. \A c \in Characters : close.copy[c].cups \subseteq row[c].cups
  BY <1>1 DEF TurnInv, Copies, CopiesLag
<1>m. \A c \in Members : close.copy[c] = row[c]
  BY <1>1, SeasonAssumption DEF TurnInv, Copies, CopiesLag
<1>5. \A c \in Characters : close.copy[c].cups \in SUBSET Results /\ row[c].cups \in SUBSET Results
  BY <1>4 DEF Rows
<1>6. kept \in [Characters -> SUBSET Results]
  BY <1>5
<1>k. \A c \in Characters : kept[c] = IF c \in turned THEN close.copy[c].cups ELSE row[c].cups
  OBVIOUS
<1> HIDE DEF kept
<1>7. /\ \A c \in Characters : kept[c] \subseteq row[c].cups
      /\ \A c \in Members : kept[c] = row[c].cups
  <2>1. ASSUME NEW c \in Characters PROVE kept[c] \subseteq row[c].cups
    <3>1. CASE c \in turned
      BY <1>k, <1>l, <3>1
    <3>2. CASE c \notin turned
      BY <1>k, <3>2
    <3> QED BY <3>1, <3>2
  <2>2. ASSUME NEW c \in Members PROVE kept[c] = row[c].cups
    <3>1. c \in Characters
      BY SeasonAssumption
    <3>2. close.copy[c] = row[c]
      BY <1>m
    <3> QED BY <1>k, <3>1, <3>2
  <2> QED BY <2>1, <2>2
<1>8. \A c \in turned : kept[c] = close.copy[c].cups
  BY <1>2, <1>k
<1>9. \A c \in turned : RolledRows[c] = Turn!Archived(kept[c])
  <2> SUFFICES ASSUME NEW c \in turned
               PROVE  Rolled(close.copy[c], 2) = Turn!Archived(close.copy[c].cups)
    BY <1>2, <1>8, RolledRowsType DEF Typed
  <2>1. c \in Characters /\ close.copy[c] \in Rows
    BY <1>2, <1>4
  <2>2. close.copy[c].season # 2
    BY <1>e, <2>1
  <2>3. Early(close.copy[c]) /\ Empty(close.copy[c])
    BY <1>f, <2>1
  <2>4. FirstSeason(close.copy[c], c)
    BY <1>p, <2>1
  <2> QED BY <2>1, <2>2, <2>3, <2>4, RolledIsArchived
<1>10. row' = [c \in Characters |-> IF c \in turned THEN Turn!Archived(kept[c]) ELSE row[c]]
  <2>1. row' = RolledRows /\ RolledRows \in [Characters -> Rows]
    BY RolledRowsType DEF CloseCommits, Typed
  <2>2. \A c \in Characters : RolledRows[c] = IF c \in turned THEN Turn!Archived(kept[c]) ELSE row[c]
    BY <1>2, <1>9, RolledRowsType DEF Typed
  <2> QED BY <2>1, <2>2
<1>11. standings' \subseteq UNION {kept[c] : c \in turned}
  <2> SUFFICES ASSUME NEW r \in standings'
               PROVE  \E c \in turned : r \in kept[c]
    OBVIOUS
  <2>1. owner[r] \in turned /\ r \in close.copy[owner[r]].cups
    BY <1>1, <1>2 DEF Kept, PaidHaveOwners, FrozenIsCopied
  <2> QED BY <1>8, <2>1
<1>12. UNCHANGED PaidTo
  BY DEF CloseCommits, PaidTo
<1>13. turned = Characters \ (Unreadable \cup late)
  BY DEF turned
<1> QED BY <1>1, <1>3, <1>6, <1>7, <1>10, <1>11, <1>12, <1>13 DEF Turn!Turn

(* A close with no next season ends this one.                               *)
LEMMA CommitEnds ==
  ASSUME Typed, Locks, Kept, CloseEnds
  PROVE  Turn!End
<1>1. /\ close.pc = "reset" /\ season' = 0 /\ standings' = close.standings
      /\ UNCHANGED <<row, paid, owner>>
  BY DEF CloseEnds
<1>2. season = 1
  BY <1>1 DEF Locks, OneSeasonAtATime
<1>3. standings' \subseteq UNION {row[c].cups : c \in Characters}
  <2> SUFFICES ASSUME NEW r \in standings'
               PROVE  \E c \in Characters : r \in row[c].cups
    OBVIOUS
  <2>1. owner[r] \in Characters /\ r \in row[owner[r]].cups
    BY <1>1, <1>2 DEF Kept, PaidHaveOwners, FrozenIsCopied, CupsUntilRolled
  <2> QED BY <2>1
<1>4. UNCHANGED PaidTo
  BY <1>1 DEF PaidTo
<1> QED BY <1>1, <1>2, <1>3, <1>4 DEF Turn!End

(* A repair writes an archive of what was paid to the character, or has a   *)
(* newcomer enter the first season.                                         *)
LEMMA RepairRestores ==
  ASSUME Typed, Locks, Kept, TurnInv, RepairWrites
  PROVE  \/ \E c \in Characters : Turn!Repair(c)
         \/ \E c \in Newcomers : Turn!Enter(c)
<1>1. PICK c \in Characters : c = repair.c /\ c \notin Unreadable
  BY WhatRepairWrites
<1>2. /\ repair.pc = "write" /\ repair.copy \in Rows /\ Early(repair.copy) /\ Empty(repair.copy)
      /\ FirstSeason(repair.copy, c) /\ repair.copy.season \in {0, 1}
      /\ repair.copy.season = 0 => c \in Newcomers
      /\ \/ repair.to = 1 /\ repair.copy.season = 0
         \/ repair.to = 2 /\ season = 2
      /\ season = 1 => row[c].season = repair.copy.season
  BY <1>1 DEF RepairWrites, Locks, RepairIsEarly, TurnInv, Copies, RepairIsOld, Typed, TypeOK,
              Rows, Seasons
<1>3. row' = [row EXCEPT ![c] = Rolled(repair.copy, repair.to)]
  BY <1>1 DEF RepairWrites
<1>4. UNCHANGED <<season, standings, PaidTo>>
  BY DEF RepairWrites, PaidTo
<1>5. CASE repair.to = 1 /\ repair.copy.season = 0
  <2>1. Rolled(repair.copy, 1) = Turn!Blank(1)
    BY <1>2, <1>5 DEF Rolled, Turn!Blank, Early, Empty
  <2>2. ASSUME season = 1 PROVE row[c] = Turn!Blank(0)
    <3>1. row[c] \in Rows /\ row[c].season = 0 /\ Early(row[c]) /\ Empty(row[c])
      BY <1>2, <1>5, <2>2 DEF Locks, RowsAreEarly, Typed, TypeOK
    <3> QED BY <3>1 DEF Rows, Turn!Blank, Early, Empty
  <2>3. Turn!Enter(c)
    BY <1>3, <1>4, <1>5, <2>1, <2>2 DEF Turn!Enter
  <2> QED BY <1>2, <1>5, <2>3
<1>6. CASE repair.to = 2 /\ season = 2
  <2>1. PICK S : S = repair.copy.cups
    OBVIOUS
  <2>2. Rolled(repair.copy, 2) = Turn!Archived(S)
    BY <1>2, <2>1 DEF Rolled, Turn!Archived, Early, Empty, FirstSeason
  <2>3. S \in SUBSET PaidTo[c]
    BY <1>2, <2>1 DEF PaidTo, FirstSeason, Empty
  <2>4. Turn!Repair(c)
    BY <1>1, <1>3, <1>4, <1>6, <2>2, <2>3 DEF Turn!Repair
  <2> QED BY <2>4
<1> QED BY <1>2, <1>5, <1>6

LEMMA TurnStep ==
  Typed /\ Locks /\ Kept /\ TurnInv /\ [Next]_vars => [Turn!Next]_(Turn!vars)
<1> SUFFICES ASSUME Typed, Locks, Kept, TurnInv, [Next]_vars
             PROVE  Turn!Next \/ UNCHANGED Turn!vars
  OBVIOUS
<1>1. ASSUME NEW r \in Results, NEW c \in Characters, Finish(r, c)
      PROVE  UNCHANGED Turn!vars
  <2>1. owner' = [owner EXCEPT ![r] = c] /\ owner[r] = 0
        /\ UNCHANGED <<season, row, standings, paid>>
    BY <1>1 DEF Finish
  <2>2. \A q \in paid : owner'[q] = owner[q]
    BY PaidStays
  <2>3. UNCHANGED PaidTo
    BY <2>1, <2>2 DEF PaidTo
  <2> QED BY <2>1, <2>3 DEF Turn!vars
<1>2. CASE UNCHANGED <<season, row, standings, paid, owner>>
  BY <1>2 DEF Turn!vars, PaidTo
<1>3. CASE WriterCommits
  BY <1>3, CommitPays DEF Turn!Next
<1>4. CASE CloseCommits
  BY <1>4, CommitTurns DEF Turn!Next
<1>5. CASE RepairWrites
  BY <1>5, RepairRestores DEF Turn!Next
<1>6. CASE CloseEnds
  BY <1>6, CommitEnds DEF Turn!Next
<1> QED BY <1>1, <1>2, <1>3, <1>4, <1>5, <1>6, FreezeKeeps
     DEF Next, vars, CreateCharacter, WriterLocks, WriterAudits, WriterAborted,
         CloseResetsGuilds, CloseReads, CloseRolls, CloseFails, RepairReads, RepairChecks

(* The close, the writer and the repairs together are a season that turns   *)
(* in one step, for every row the close read and could parse, or ends in    *)
(* one that leaves every row.                                               *)
THEOREM CloseImplementsTurn == Spec => ImplementsTurn
<1>1. Init => Typed /\ Locks /\ Kept /\ Turn!Init /\ TurnInv
  BY InitLocks, InitKept, InitTurn
<1>2. Typed /\ Locks /\ Kept /\ TurnInv /\ [Next]_vars
          => /\ [Turn!Next]_(Turn!vars)
             /\ Typed' /\ Locks' /\ Kept' /\ TurnInv'
  BY TypedStep, LocksStep, KeptStep, PaidOnceStep, CopiesStep, TurnStep DEF TurnInv
<1> QED BY <1>1, <1>2, PTL DEF Spec, ImplementsTurn, Turn!Spec

=============================================================================
