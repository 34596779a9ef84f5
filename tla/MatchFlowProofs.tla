-------------------------- MODULE MatchFlowProofs --------------------------
(***************************************************************************)
(* What one arena match promises, for any set of humans, any of them        *)
(* editing their gear and any number of saves: it implements MatchOutcome.  *)
(***************************************************************************)
EXTENDS MatchFlow, FiniteSetTheorems, TLAPS

(* A round counts for the fighter it is appended for, and for no other. *)
LEMMA WinsType ==
    ASSUME NEW rs \in Seq(Slots), NEW f \in Slots
    PROVE  Wins(rs, f) \in Nat
  <1> DEFINE W == {i \in DOMAIN rs : rs[i] = f}
  <1>1. IsFiniteSet(1..Len(rs))
    BY FS_Interval
  <1>2. W \in SUBSET (1..Len(rs))
    OBVIOUS
  <1>3. IsFiniteSet(W)
    BY <1>1, <1>2, FS_Subset
  <1> QED
    BY <1>3, FS_CardinalityType DEF Wins

LEMMA WinsAppend ==
    ASSUME NEW rs \in Seq(Slots), NEW f \in Slots, NEW s \in Slots
    PROVE  Wins(Append(rs, s), f) = Wins(rs, f) + (IF f = s THEN 1 ELSE 0)
  <1> DEFINE W == {i \in DOMAIN rs : rs[i] = f}
             A == {i \in DOMAIN Append(rs, s) : Append(rs, s)[i] = f}
             last == Len(rs) + 1
  <1>1. IsFiniteSet(W)
    <2>1. IsFiniteSet(1..Len(rs))
      BY FS_Interval
    <2>2. W \in SUBSET (1..Len(rs))
      OBVIOUS
    <2> QED
      BY <2>1, <2>2, FS_Subset
  <1>2. Cardinality(W) \in Nat
    BY <1>1, FS_CardinalityType
  <1>3. last \notin W
    OBVIOUS
  <1>4. Wins(rs, f) = Cardinality(W) /\ Wins(Append(rs, s), f) = Cardinality(A)
    BY Zenon DEF Wins
  <1>5. CASE f = s
    <2>1. A = W \cup {last}
      BY <1>5
    <2>2. Cardinality(W \cup {last}) = Cardinality(W) + 1
      BY <1>1, <1>3, FS_AddElement
    <2> HIDE DEF A, W
    <2> QED
      BY <1>4, <1>5, <2>1, <2>2
  <1>6. CASE f # s
    <2>1. A = W
      BY <1>6
    <2> HIDE DEF A, W
    <2> QED
      BY <1>2, <1>4, <1>6, <2>1
  <1> QED
    BY <1>5, <1>6

LEMMA WinsEmpty ==
    ASSUME NEW f \in Slots
    PROVE  Wins(<< >>, f) = 0
  <1>1. {i \in DOMAIN << >> : << >>[i] = f} = {}
    OBVIOUS
  <1> QED
    BY <1>1, FS_EmptySet DEF Wins

-----------------------------------------------------------------------------
(* The score of the match: every recorded round is somebody's, nobody has   *)
(* enough of them before there is a winner, and there is a winner exactly   *)
(* once the match has left its rounds.                                      *)
Ending == {"RoundEnd", "Finished"}

Scored ==
    /\ round_winners \in Seq(Slots)
    /\ winner \in Slots \cup {NoOne}
    /\ phase \in Ending <=> winner # NoOne
    /\ Len(round_winners) = Wins(round_winners, 0) + Wins(round_winners, 1)
    /\ winner = NoOne => \A s \in Slots : Wins(round_winners, s) < WinsNeeded

(* A step that decides nothing.  *)
Quiet ==
    /\ UNCHANGED <<round_winners, winner>>
    /\ phase' \in Ending <=> phase \in Ending
    /\ phase' = "Finished" <=> phase = "Finished"

(* Every step decides nothing, ends a live round, concedes or finishes.  *)
LEMMA StepKinds ==
    ASSUME [Next]_vars
    PROVE  \/ Quiet
           \/ \E s \in Slots, d \in BOOLEAN : phase = "StateTimeout" /\ RoundEnded(s, d)
           \/ \E s \in Humans : Concede(s)
           \/ Finish
  <1> USE DEF flow, result, saving, profile, Ending, Quiet, Walking
  <1>1. ASSUME Elapse \/ SendResult \/ Spawn \/ SpawnActors \/ CreateBackendMatch PROVE Quiet
    BY <1>1 DEF Elapse, SendResult, Spawn, SpawnActors, CreateBackendMatch
  <1>2. ASSUME SetupStep \/ FirstRound \/ InterroundStep \/ NextRound \/ MatchEndStep PROVE Quiet
    BY <1>2 DEF SetupStep, FirstRound, InterroundStep, NextRound, MatchEndStep
  <1>3. ASSUME NEW s \in Humans,
               \/ Ready(s) \/ PlayerLoadoutReady(s) \/ BackendSynchronized(s)
               \/ SaveLoadout(s) \/ StageLoadout(s)
        PROVE  Quiet
    BY <1>3 DEF Ready, PlayerLoadoutReady, BackendSynchronized, SaveLoadout, StageLoadout
  <1>4. ASSUME UNCHANGED vars PROVE Quiet
    BY <1>4 DEF vars
  <1>5. ASSUME NEW s \in Slots, RoundTimeout(s) \/ RoundWonByDeath(s)
        PROVE  \E d \in BOOLEAN : phase = "StateTimeout" /\ RoundEnded(s, d)
    BY <1>5 DEF RoundTimeout, RoundWonByDeath
  <1> QED
    BY <1>1, <1>2, <1>3, <1>4, <1>5, Zenon DEF Next, Tick

LEMMA HumansAreSlots == Humans \subseteq Slots
  BY MatchFlowAssumption DEF Slots

LEMMA NoOneIsNoSlot == NoOne \notin Slots
  BY MatchFlowAssumption

LEMMA OpponentIsASlot ==
    ASSUME NEW s \in Slots
    PROVE  Opponent(s) \in Slots
  BY DEF Slots, Opponent

LEMMA ScoreAppend ==
    ASSUME NEW rs \in Seq(Slots), NEW s \in Slots, Len(rs) = Wins(rs, 0) + Wins(rs, 1)
    PROVE  /\ Append(rs, s) \in Seq(Slots)
           /\ Len(Append(rs, s)) = Wins(Append(rs, s), 0) + Wins(Append(rs, s), 1)
  <1>1. 0 \in Slots /\ 1 \in Slots /\ (s = 0 \/ s = 1)
    BY DEF Slots
  <1>2. /\ Wins(Append(rs, s), 0) = Wins(rs, 0) + (IF s = 0 THEN 1 ELSE 0)
        /\ Wins(Append(rs, s), 1) = Wins(rs, 1) + (IF s = 1 THEN 1 ELSE 0)
    BY <1>1, WinsAppend
  <1>3. Wins(rs, 0) \in Nat /\ Wins(rs, 1) \in Nat
    BY <1>1, WinsType
  <1> QED
    BY <1>1, <1>2, <1>3

(* A round that is won ends the match exactly when it is the winner's       *)
(* second: with two fighters the cap of three rounds adds nothing.          *)
LEMMA OverWhenWon ==
    ASSUME NEW rs \in Seq(Slots), NEW s \in Slots, Len(rs) = Wins(rs, 0) + Wins(rs, 1),
           \A f \in Slots : Wins(rs, f) < WinsNeeded
    PROVE  /\ IsOver(Append(rs, s)) <=> Wins(rs, s) + 1 >= WinsNeeded
           /\ IsOver(Append(rs, s)) => Champion(Append(rs, s), s) = s
           /\ ~IsOver(Append(rs, s)) =>
                  \A f \in Slots : Wins(Append(rs, s), f) < WinsNeeded
           /\ Len(rs) <= 2
  <1>1. 0 \in Slots /\ 1 \in Slots /\ (s = 0 \/ s = 1)
    BY DEF Slots
  <1>2. \A f \in Slots : /\ Wins(rs, f) \in {0, 1}
                         /\ Wins(Append(rs, s), f) = Wins(rs, f) + (IF f = s THEN 1 ELSE 0)
    <2>1. \A f \in Slots : Wins(rs, f) \in Nat
      BY WinsType
    <2> QED
      BY <2>1, WinsAppend DEF WinsNeeded
  <1>3. IsWon(Append(rs, s)) <=> Wins(rs, s) + 1 >= 2
    BY <1>2 DEF IsWon, WinsNeeded
  <1>4. Len(Append(rs, s)) = Wins(rs, 0) + Wins(rs, 1) + 1
    OBVIOUS
  <1>5. Len(Append(rs, s)) >= 3 => Wins(rs, s) + 1 >= 2
    BY <1>1, <1>2, <1>4
  <1>6. IsOver(Append(rs, s)) <=> Wins(rs, s) + 1 >= 2
    BY <1>3, <1>5 DEF IsOver, RoundCap, WinsNeeded
  <1>7. IsOver(Append(rs, s)) => Champion(Append(rs, s), s) = s
    BY <1>3, <1>6 DEF Champion
  <1>8. ~IsOver(Append(rs, s)) => \A f \in Slots : Wins(Append(rs, s), f) < WinsNeeded
    BY <1>2, <1>6 DEF WinsNeeded
  <1>9. Len(rs) <= 2
    BY <1>1, <1>2
  <1> QED
    BY <1>6, <1>7, <1>8, <1>9 DEF WinsNeeded

LEMMA RoundEndedScores ==
    ASSUME Scored, phase = "StateTimeout", NEW s \in Slots, NEW d \in BOOLEAN, RoundEnded(s, d)
    PROVE  Scored' /\ Outcome!WinRound(s)
  <1> DEFINE rs == Append(round_winners, s)
  <1>1. round_winners \in Seq(Slots) /\ winner = NoOne
    BY DEF Scored, Ending
  <1>2. /\ rs \in Seq(Slots)
        /\ Len(rs) = Wins(rs, 0) + Wins(rs, 1)
    BY <1>1, ScoreAppend DEF Scored
  <1>3. /\ IsOver(rs) <=> Wins(round_winners, s) + 1 >= WinsNeeded
        /\ IsOver(rs) => Champion(rs, s) = s
        /\ ~IsOver(rs) => \A f \in Slots : Wins(rs, f) < WinsNeeded
    BY <1>1, OverWhenWon DEF Scored
  <1>4. /\ round_winners' = rs
        /\ winner' = IF IsOver(rs) THEN s ELSE NoOne
        /\ phase' = IF IsOver(rs) THEN "RoundEnd" ELSE "NextState"
    <2>1. /\ round_winners' = rs
          /\ winner' = IF IsOver(rs) THEN Champion(rs, s) ELSE winner
          /\ phase' = IF IsOver(rs) THEN "RoundEnd" ELSE "NextState"
      BY Zenon DEF RoundEnded
    <2>2. IsOver(rs) => Champion(rs, s) = s
      BY <1>3
    <2> HIDE DEF rs
    <2>3. CASE IsOver(rs)
      BY <2>1, <2>2, <2>3
    <2>4. CASE ~IsOver(rs)
      BY <1>1, <2>1, <2>4
    <2> QED
      BY <2>3, <2>4
  <1> HIDE DEF rs
  <1>5. Scored'
    BY <1>2, <1>3, <1>4, NoOneIsNoSlot DEF Scored, Ending
  <1>6. Outcome!WinRound(s)
    <2>1. Outcome!Wins(round_winners, s) = Wins(round_winners, s)
      BY Zenon DEF Outcome!Wins, Wins, Outcome!Cardinality, Cardinality
    <2>2. winner' = IF Outcome!Wins(round_winners, s) + 1 >= Outcome!WinsNeeded
                    THEN s ELSE NoOne
      BY <1>3, <1>4, <2>1 DEF Outcome!WinsNeeded, WinsNeeded
    <2>3. (phase = "Finished") = (phase' = "Finished")
      BY <1>4
    <2> QED
      BY <1>1, <1>4, <2>2, <2>3 DEF Outcome!WinRound, rs
  <1> QED
    BY <1>5, <1>6

LEMMA ConcedeScores ==
    ASSUME Scored, NEW s \in Humans, Concede(s)
    PROVE  Scored' /\ Outcome!Forfeit(s)
  <1> DEFINE rs == Append(round_winners, Opponent(s))
  <1>1. s \in Slots /\ Opponent(s) \in Slots
    BY HumansAreSlots, OpponentIsASlot
  <1>2. round_winners \in Seq(Slots) /\ winner = NoOne /\ phase \notin Ending
    BY DEF Scored, Ending, Concede
  <1>3. /\ rs \in Seq(Slots)
        /\ Len(rs) = Wins(rs, 0) + Wins(rs, 1)
    BY <1>1, <1>2, ScoreAppend DEF Scored
  <1>4. round_winners' = rs /\ winner' = Opponent(s) /\ phase' = "RoundEnd"
    BY Zenon DEF Concede
  <1>5. Scored'
    <2> HIDE DEF rs
    <2> QED
      BY <1>1, <1>3, <1>4, NoOneIsNoSlot DEF Scored, Ending
  <1>6. (phase = "Finished") = (phase' = "Finished")
    BY <1>2, <1>4 DEF Ending
  <1>7. Outcome!Opponent(s) = Opponent(s)
    BY DEF Outcome!Opponent, Opponent
  <1>8. Outcome!Forfeit(s)
    BY <1>2, <1>4, <1>6, <1>7 DEF Outcome!Forfeit
  <1> QED
    BY <1>5, <1>8

LEMMA FinishCloses ==
    ASSUME Scored, Finish
    PROVE  Scored' /\ Outcome!Close
  <1>1. /\ phase = "RoundEnd" /\ phase' = "Finished"
        /\ UNCHANGED <<round_winners, winner>>
    BY DEF Finish, result
  <1>2. winner # NoOne
    BY <1>1 DEF Scored, Ending
  <1>3. Scored'
    BY <1>1, <1>2 DEF Scored, Ending
  <1> QED
    BY <1>1, <1>2, <1>3 DEF Outcome!Close

LEMMA QuietStutters ==
    ASSUME Scored, Quiet
    PROVE  Scored' /\ UNCHANGED Outcome!vars
  BY DEF Scored, Quiet, Outcome!vars

LEMMA InitScored == Init => Scored /\ Outcome!Init
  <1> SUFFICES ASSUME Init PROVE Scored /\ Outcome!Init
    OBVIOUS
  <1>1. Wins(<< >>, 0) = 0 /\ Wins(<< >>, 1) = 0
    BY WinsEmpty DEF Slots
  <1>2. \A s \in Slots : Wins(<< >>, s) = 0
    BY WinsEmpty
  <1>3. round_winners = << >> /\ winner = NoOne /\ phase = "Connecting"
    BY DEF Init
  <1>4. Scored
    BY <1>1, <1>2, <1>3 DEF Scored, Ending, WinsNeeded
  <1> QED
    BY <1>3, <1>4 DEF Outcome!Init

LEMMA StepScored ==
    ASSUME Scored, [Next]_vars
    PROVE  Scored' /\ [Outcome!Next]_(Outcome!vars)
  <1>1. CASE Quiet
    BY <1>1, QuietStutters
  <1>2. ASSUME NEW s \in Slots, NEW d \in BOOLEAN, phase = "StateTimeout", RoundEnded(s, d)
        PROVE  Scored' /\ Outcome!Next
    BY <1>2, RoundEndedScores DEF Outcome!Next, Outcome!Slots, Slots
  <1>3. ASSUME NEW s \in Humans, Concede(s)
        PROVE  Scored' /\ Outcome!Next
    BY <1>3, ConcedeScores DEF Outcome!Next
  <1>4. CASE Finish
    BY <1>4, FinishCloses DEF Outcome!Next
  <1> QED
    BY <1>1, <1>2, <1>3, <1>4, StepKinds

(* Whatever the players do, a match is decided as a best of three with      *)
(* forfeits is, and decided once: every step of the engine's flow is a won  *)
(* round, a forfeit, the closing of the match or nothing to the outcome     *)
(* (engine.rs on_round_ended and finish_by_concession).                     *)
THEOREM MatchImplementsOutcome == Spec => ImplementsOutcome
  <1>1. Init => Scored /\ Outcome!Init
    BY InitScored
  <1>2. Scored /\ [Next]_vars => Scored' /\ [Outcome!Next]_(Outcome!vars)
    BY StepScored
  <1> QED
    BY <1>1, <1>2, PTL DEF Spec, ImplementsOutcome, Outcome!Spec
-----------------------------------------------------------------------------
(* What the clients have been told, with the result still waiting.  *)
AllResults == IF pending = NoOne THEN told ELSE Append(told, pending)

(* A result waits only where the walk after its round has not started.  *)
Told ==
    /\ told \in Seq(Results)
    /\ pending \in Results \cup {NoOne}
    /\ pending # NoOne => phase \in {"NextState", "RoundEnd"}
    /\ ResultBeforeTheWalk
    /\ ResultsAccumulate

(* A step that adds no result: it sends the waiting one, or leaves it and   *)
(* the walk where they are.                                                 *)
NothingNew ==
    \/ /\ UNCHANGED <<told, pending>>
       /\ pending # NoOne => UNCHANGED <<phase, match_state, step>>
    \/ /\ pending # NoOne
       /\ told' = Append(told, pending)
       /\ pending' = NoOne

LEMMA FlushTells ==
    ASSUME Flush, WalkIsFree
    PROVE  NothingNew
  BY DEF Flush, WalkIsFree, ResultDue, PendingNow, ToldNow, NothingNew

LEMMA TellingKinds ==
    ASSUME Told, [Next]_vars
    PROVE  \/ NothingNew
           \/ \E s \in Slots, d \in BOOLEAN : phase = "StateTimeout" /\ RoundEnded(s, d)
           \/ \E s \in Humans : Concede(s)
  <1> USE DEF flow, result, saving, profile, NothingNew
  <1>1. ASSUME phase \notin {"NextState", "RoundEnd"} PROVE pending = NoOne
    BY <1>1 DEF Told
  <1>2. ASSUME Elapse \/ SendResult PROVE NothingNew
    BY <1>2 DEF Elapse, SendResult, ResultDue, Flush, PendingNow, ToldNow
  <1>3. ASSUME Spawn \/ SpawnActors \/ CreateBackendMatch \/ SetupStep \/ FirstRound
        PROVE  NothingNew
    BY <1>1, <1>3 DEF Spawn, SpawnActors, CreateBackendMatch, SetupStep, FirstRound
  <1>4. ASSUME InterroundStep \/ NextRound \/ MatchEndStep PROVE NothingNew
    BY <1>4, FlushTells DEF InterroundStep, NextRound, MatchEndStep
  <1>5. ASSUME Finish PROVE NothingNew
    <2>1. pending = NoOne
      BY <1>5 DEF Finish, MatchEndWalk, Told, ResultBeforeTheWalk
    <2> QED
      BY <1>5, <2>1 DEF Finish
  <1>6. ASSUME NEW s \in Humans,
               \/ Ready(s) \/ PlayerLoadoutReady(s) \/ BackendSynchronized(s)
               \/ SaveLoadout(s) \/ StageLoadout(s)
        PROVE  NothingNew
    BY <1>6 DEF Ready, PlayerLoadoutReady, BackendSynchronized, SaveLoadout, StageLoadout
  <1>7. ASSUME UNCHANGED vars PROVE NothingNew
    BY <1>7 DEF vars
  <1>8. ASSUME NEW s \in Slots, RoundTimeout(s) \/ RoundWonByDeath(s)
        PROVE  \E d \in BOOLEAN : phase = "StateTimeout" /\ RoundEnded(s, d)
    BY <1>8 DEF RoundTimeout, RoundWonByDeath
  <1> HIDE DEF NothingNew
  <1> QED
    BY <1>2, <1>3, <1>4, <1>5, <1>6, <1>7, <1>8, Zenon DEF Next, Tick

LEMMA AppendPrefix ==
    ASSUME NEW rs \in Seq(Slots), NEW s \in Slots, NEW n \in 1..Len(rs)
    PROVE  SubSeq(Append(rs, s), 1, n) = SubSeq(rs, 1, n)
  OBVIOUS

LEMMA WholePrefix ==
    ASSUME NEW rs \in Seq(Slots)
    PROVE  SubSeq(rs, 1, Len(rs)) = rs
  OBVIOUS

(* One more round with its result keeps the results in step with the rounds. *)
LEMMA OneMoreResult ==
    ASSUME NEW all \in Seq(Results), NEW rs \in Seq(Slots), NEW s \in Slots,
           NEW r \in Results, r.rounds = Append(rs, s),
           Len(all) = Len(rs),
           \A n \in DOMAIN all : all[n].rounds = SubSeq(rs, 1, n) /\ ~all[n].ended
    PROVE  /\ Append(all, r) \in Seq(Results)
           /\ Len(Append(all, r)) = Len(Append(rs, s))
           /\ \A n \in DOMAIN Append(all, r) :
                /\ Append(all, r)[n].rounds = SubSeq(Append(rs, s), 1, n)
                /\ Append(all, r)[n].ended <=> (r.ended /\ n = Len(Append(all, r)))
  <1> DEFINE new == Append(rs, s)
             told1 == Append(all, r)
  <1>1. new \in Seq(Slots) /\ Len(new) = Len(rs) + 1
    OBVIOUS
  <1>2. r \in Results /\ r.rounds = new /\ r.ended \in BOOLEAN
    BY DEF Results
  <1>3. told1 \in Seq(Results) /\ Len(told1) = Len(all) + 1
    BY <1>2
  <1>4. ASSUME NEW n \in 1..Len(all)
        PROVE  told1[n].rounds = SubSeq(new, 1, n) /\ ~told1[n].ended
    <2>1. told1[n] = all[n]
      BY <1>2
    <2>2. SubSeq(new, 1, n) = SubSeq(rs, 1, n)
      BY AppendPrefix
    <2> HIDE DEF told1, new
    <2> QED
      BY <2>1, <2>2
  <1>5. told1[Len(all) + 1] = r
    BY <1>2
  <1>6. SubSeq(new, 1, Len(all) + 1) = new
    <2> HIDE DEF new
    <2> QED
      BY <1>1, WholePrefix
  <1>7. DOMAIN told1 = 1..Len(all) \cup {Len(all) + 1}
    BY <1>2
  <1> HIDE DEF told1, new
  <1>8. ASSUME NEW n \in DOMAIN told1
        PROVE  /\ told1[n].rounds = SubSeq(new, 1, n)
               /\ told1[n].ended <=> (r.ended /\ n = Len(told1))
    <2>1. CASE n \in 1..Len(all)
      BY <1>3, <1>4, <2>1
    <2>2. CASE n = Len(all) + 1
      BY <1>2, <1>3, <1>5, <1>6, <2>2
    <2> QED
      BY <1>7, <2>1, <2>2
  <1> QED
    BY <1>1, <1>3, <1>8 DEF told1, new

LEMMA InitTold == Init => Told
  BY DEF Init, Told, ResultBeforeTheWalk, ResultsAccumulate

LEMMA AccumulateMeans ==
    ResultsAccumulate <=>
        /\ Len(AllResults) = Len(round_winners)
        /\ \A n \in DOMAIN AllResults :
            /\ AllResults[n].rounds = SubSeq(round_winners, 1, n)
            /\ AllResults[n].ended <=> (winner # NoOne /\ n = Len(AllResults))
  BY Zenon DEF ResultsAccumulate, AllResults

LEMMA AccumulateMeansPrimed ==
    ResultsAccumulate' <=>
        /\ Len(AllResults') = Len(round_winners')
        /\ \A n \in DOMAIN AllResults' :
            /\ AllResults'[n].rounds = SubSeq(round_winners', 1, n)
            /\ AllResults'[n].ended <=> (winner' # NoOne /\ n = Len(AllResults'))
  BY Zenon DEF ResultsAccumulate, AllResults

(* Sending the waiting result changes when it is told, not what is told.  *)
LEMMA NothingNewTold ==
    ASSUME Told, Scored, NothingNew, Quiet \/ Finish
    PROVE  Told'
  <1>1. UNCHANGED <<round_winners, winner>>
    BY DEF Quiet, Finish, result
  <1>2. AllResults' = AllResults
    BY DEF NothingNew, AllResults
  <1>3. ResultsAccumulate'
    BY <1>1, <1>2, AccumulateMeans, AccumulateMeansPrimed DEF Told
  <1>4. told' \in Seq(Results) /\ pending' \in Results \cup {NoOne}
    BY DEF Told, NothingNew
  <1>5. pending' # NoOne => UNCHANGED <<pending, phase, match_state, step>>
    BY DEF NothingNew
  <1> QED
    BY <1>3, <1>4, <1>5 DEF Told, ResultBeforeTheWalk

LEMMA UndecidedResults ==
    ASSUME Told, winner = NoOne
    PROVE  /\ AllResults \in Seq(Results)
           /\ Len(AllResults) = Len(round_winners)
           /\ \A n \in DOMAIN AllResults :
                /\ AllResults[n].rounds = SubSeq(round_winners, 1, n)
                /\ ~AllResults[n].ended
  <1>1. AllResults \in Seq(Results)
    BY DEF Told, AllResults
  <1> QED
    BY <1>1 DEF Told, ResultsAccumulate, AllResults

LEMMA RoundEndedTold ==
    ASSUME Told, Scored, phase = "StateTimeout",
           NEW s \in Slots, NEW d \in BOOLEAN, RoundEnded(s, d)
    PROVE  Told'
  <1> DEFINE rs == Append(round_winners, s)
             sent == Result(rs, IsOver(rs), FALSE)
  <1>1. /\ round_winners' = rs
        /\ winner' = IF IsOver(rs) THEN Champion(rs, s) ELSE winner
        /\ phase' = IF IsOver(rs) THEN "RoundEnd" ELSE "NextState"
        /\ match_state' = "PostRound" /\ step' = 0
        /\ IF d THEN pending' = sent /\ UNCHANGED told
                ELSE told' = Append(told, sent) /\ UNCHANGED pending
    BY Zenon DEF RoundEnded
  <1>2. winner = NoOne /\ pending = NoOne /\ round_winners \in Seq(Slots)
    BY DEF Scored, Ending, Told
  <1>3. AllResults = told
    BY <1>2 DEF AllResults
  <1>4. rs \in Seq(Slots)
    BY <1>2
  <1>5. IsOver(rs) \in BOOLEAN
    BY DEF IsOver
  <1>6. sent \in Results /\ sent # NoOne
    <2> HIDE DEF rs
    <2>1. sent \in Results
      BY <1>4, <1>5 DEF Result, Results
    <2> HIDE DEF sent
    <2> QED
      BY <2>1, MatchFlowAssumption
  <1> HIDE DEF sent
  <1>7. AllResults' = Append(AllResults, sent)
    BY <1>1, <1>2, <1>6 DEF AllResults
  <1>8. IsOver(rs) <=> winner' # NoOne
    <2>1. Champion(rs, s) \in Slots
      BY OpponentIsASlot DEF Champion
    <2> HIDE DEF rs
    <2>2. CASE IsOver(rs)
      BY <1>1, <2>1, <2>2, NoOneIsNoSlot
    <2>3. CASE ~IsOver(rs)
      BY <1>1, <1>2, <2>3
    <2> QED
      BY <2>2, <2>3
  <1>9. /\ AllResults' \in Seq(Results)
        /\ Len(AllResults') = Len(rs)
        /\ \A n \in DOMAIN AllResults' :
             /\ AllResults'[n].rounds = SubSeq(rs, 1, n)
             /\ AllResults'[n].ended <=> (IsOver(rs) /\ n = Len(AllResults'))
    <2> DEFINE new == Append(AllResults, sent)
    <2>1. /\ AllResults \in Seq(Results)
          /\ Len(AllResults) = Len(round_winners)
          /\ \A n \in DOMAIN AllResults :
               AllResults[n].rounds = SubSeq(round_winners, 1, n) /\ ~AllResults[n].ended
      BY <1>2, UndecidedResults
    <2>2. /\ new \in Seq(Results)
          /\ Len(new) = Len(rs)
          /\ \A n \in DOMAIN new : /\ new[n].rounds = SubSeq(rs, 1, n)
                                   /\ new[n].ended <=> (IsOver(rs) /\ n = Len(new))
      <3>1. sent \in Results /\ sent.rounds = Append(round_winners, s) /\ sent.ended = IsOver(rs)
        BY <1>6 DEF sent, Result
      <3> QED
        BY <1>2, <2>1, <3>1, OneMoreResult
    <2> HIDE DEF rs
    <2> QED
      BY <1>7, <2>2
  <1> HIDE DEF rs
  <1>10. ResultsAccumulate'
    BY <1>1, <1>8, <1>9, AccumulateMeansPrimed
  <1>11. told' \in Seq(Results) /\ pending' \in Results \cup {NoOne}
    BY <1>1, <1>2, <1>6 DEF Told
  <1>12. phase' \in {"NextState", "RoundEnd"} /\ ResultBeforeTheWalk'
    BY <1>1 DEF ResultBeforeTheWalk
  <1> QED
    BY <1>10, <1>11, <1>12 DEF Told

LEMMA ConcedeTold ==
    ASSUME Told, Scored, NEW s \in Humans, Concede(s)
    PROVE  Told'
  <1> DEFINE o == Opponent(s)
             rs == Append(round_winners, o)
             last == Result(rs, TRUE, TRUE)
             waiting == IF pending = NoOne THEN << >> ELSE <<pending>>
  <1>1. /\ round_winners' = rs /\ winner' = o
        /\ told' = told \o waiting \o <<last>>
        /\ pending' = NoOne
        /\ phase \notin Ending
    BY Zenon DEF Concede, Ending
  <1>2. o \in Slots /\ o # NoOne
    BY HumansAreSlots, OpponentIsASlot, NoOneIsNoSlot
  <1>3. winner = NoOne /\ round_winners \in Seq(Slots)
    BY <1>1 DEF Scored
  <1>4. last \in Results
    BY <1>2, <1>3 DEF Result, Results
  <1>5. AllResults = told \o waiting
    BY DEF AllResults, Told
  <1> HIDE DEF o, last, waiting
  <1>6. told' = Append(AllResults, last)
    BY <1>1, <1>3, <1>4, <1>5, UndecidedResults
  <1>7. AllResults' = told'
    BY <1>1 DEF AllResults
  <1>8. /\ Len(told') = Len(rs)
        /\ told' \in Seq(Results)
        /\ \A n \in DOMAIN told' :
             /\ told'[n].rounds = SubSeq(rs, 1, n)
             /\ told'[n].ended <=> n = Len(told')
    <2> DEFINE new == Append(AllResults, last)
    <2>1. \A n \in DOMAIN AllResults :
               AllResults[n].rounds = SubSeq(round_winners, 1, n) /\ ~AllResults[n].ended
      BY <1>3, UndecidedResults
    <2>2. AllResults \in Seq(Results) /\ Len(AllResults) = Len(round_winners)
      BY <1>3, UndecidedResults
    <2>3. last.rounds = Append(round_winners, o) /\ last.ended = TRUE
      BY DEF last, Result
    <2>4. /\ new \in Seq(Results)
          /\ Len(new) = Len(rs)
          /\ \A n \in DOMAIN new : /\ new[n].rounds = SubSeq(rs, 1, n)
                                   /\ new[n].ended <=> (last.ended /\ n = Len(new))
      BY <1>2, <1>3, <1>4, <2>1, <2>2, <2>3, OneMoreResult
    <2> HIDE DEF rs
    <2> QED
      BY <1>6, <2>3, <2>4
  <1> HIDE DEF rs
  <1>9. ResultsAccumulate'
    BY <1>1, <1>2, <1>7, <1>8, AccumulateMeansPrimed
  <1> QED
    BY <1>1, <1>8, <1>9 DEF Told, ResultBeforeTheWalk

LEMMA StepTold ==
    ASSUME Scored, Told, [Next]_vars
    PROVE  Told'
  <1>1. ASSUME NEW s \in Slots, NEW d \in BOOLEAN, phase = "StateTimeout", RoundEnded(s, d)
        PROVE  Told'
    BY <1>1, RoundEndedTold
  <1>2. ASSUME NEW s \in Humans, Concede(s) PROVE Told'
    BY <1>2, ConcedeTold
  <1>3. CASE NothingNew /\ (Quiet \/ Finish)
    BY <1>3, NothingNewTold
  <1> QED
    BY <1>1, <1>2, <1>3, StepKinds, TellingKinds

(* The clients are told every decided round once, in order, and only the    *)
(* last result says that the match has ended.                               *)
THEOREM ResultsToldInOrder == Spec => []ResultsAccumulate
  <1>1. Init => Scored /\ Told
    BY InitScored, InitTold
  <1>2. Scored /\ Told /\ [Next]_vars => Scored' /\ Told'
    BY StepScored, StepTold
  <1>3. Told => ResultsAccumulate
    BY DEF Told
  <1> QED
    BY <1>1, <1>2, <1>3, PTL DEF Spec

(* A Ready press never starts the walk after a round ahead of its result.   *)
THEOREM WalksWaitForResults == Spec => []ResultBeforeTheWalk
  <1>1. Init => Scored /\ Told
    BY InitScored, InitTold
  <1>2. Scored /\ Told /\ [Next]_vars => Scored' /\ Told'
    BY StepScored, StepTold
  <1>3. Told => ResultBeforeTheWalk
    BY DEF Told
  <1> QED
    BY <1>1, <1>2, <1>3, PTL DEF Spec
-----------------------------------------------------------------------------
(* The walk at the end of a match shows the card at its second state and    *)
(* says goodbye at its fourth.                                              *)
Goodbye == "DisconnectingPlayersAfterMatch"

Carded ==
    /\ step \in Nat
    /\ card = IF phase \in Ending /\ step >= 2 THEN <<winner>> ELSE << >>
    /\ phase = "Finished" => step = 4
    /\ match_state = Goodbye => phase \in Ending /\ step = 4

LEMMA EndWalkStates ==
    ASSUME phase = "RoundEnd", NEW n \in Nat, n < Len(Walk(phase))
    PROVE  /\ n \in 0..3
           /\ Walk(phase)[n + 1] = "Victory" <=> n = 1
           /\ Walk(phase)[n + 1] = Goodbye => n = 3
  <1>1. Walk(phase) = MatchEndWalk
    BY DEF Walk
  <1>2. n \in 0..3
    BY <1>1 DEF MatchEndWalk
  <1>3. n = 0 \/ n = 1 \/ n = 2 \/ n = 3
    BY <1>2
  <1> QED
    BY <1>1, <1>2, <1>3 DEF MatchEndWalk, Goodbye

LEMMA RoundWalkStates ==
    ASSUME NEW n \in Nat
    PROVE  /\ phase = "BackendMatchCreated" /\ n < Len(Walk(phase)) =>
                n \in 0..4 /\ Walk(phase)[n + 1] \in MatchStates \ {Goodbye}
           /\ phase = "NextState" /\ n < Len(Walk(phase)) =>
                n \in 0..5 /\ Walk(phase)[n + 1] \in MatchStates \ {Goodbye}
  <1>1. ASSUME phase = "BackendMatchCreated", n < Len(Walk(phase))
        PROVE  n \in 0..4 /\ Walk(phase)[n + 1] \in MatchStates \ {Goodbye}
    <2>1. Walk(phase) = SetupWalk
      BY <1>1 DEF Walk
    <2>2. n \in 0..4 /\ n + 1 \in DOMAIN SetupWalk
      <3>1. Len(SetupWalk) = 5 /\ DOMAIN SetupWalk = 1..5
        BY DEF SetupWalk
      <3>2. n < Len(SetupWalk)
        BY <1>1, <2>1, Zenon
      <3> QED
        BY <3>1, <3>2
    <2>3. SetupWalk[n + 1] \in MatchStates
      BY <2>2 DEF MatchStates, Range
    <2>4. n = 0 \/ n = 1 \/ n = 2 \/ n = 3 \/ n = 4
      BY <2>2
    <2>5. SetupWalk[n + 1] # Goodbye
      BY <2>4 DEF SetupWalk, Goodbye
    <2> QED
      BY <2>1, <2>2, <2>3, <2>5
  <1>2. ASSUME phase = "NextState", n < Len(Walk(phase))
        PROVE  n \in 0..5 /\ Walk(phase)[n + 1] \in MatchStates \ {Goodbye}
    <2>1. Walk(phase) = InterroundWalk
      BY <1>2 DEF Walk
    <2>2. n \in 0..5 /\ n + 1 \in DOMAIN InterroundWalk
      <3>1. Len(InterroundWalk) = 6 /\ DOMAIN InterroundWalk = 1..6
        BY DEF InterroundWalk
      <3>2. n < Len(InterroundWalk)
        BY <1>2, <2>1, Zenon
      <3> QED
        BY <3>1, <3>2
    <2>3. InterroundWalk[n + 1] \in MatchStates
      BY <2>2 DEF MatchStates, Range
    <2>4. n = 0 \/ n = 1 \/ n = 2 \/ n = 3 \/ n = 4 \/ n = 5
      BY <2>2
    <2>5. InterroundWalk[n + 1] # Goodbye
      BY <2>4 DEF InterroundWalk, Goodbye
    <2> QED
      BY <2>1, <2>2, <2>3, <2>5
  <1> QED
    BY <1>1, <1>2

LEMMA InitCarded == Init => Carded
  BY DEF Init, Carded, Ending, Goodbye

LEMMA StepCarded ==
    ASSUME Carded, [Next]_vars
    PROVE  Carded'
  <1> USE DEF flow, result, saving, profile, Ending
  <1>1. ASSUME UNCHANGED <<phase, match_state, step, card, winner>> PROVE Carded'
    BY <1>1 DEF Carded
  <1>2. ASSUME Elapse \/ SendResult PROVE Carded'
    BY <1>1, <1>2 DEF Elapse, SendResult
  <1>3. ASSUME phase \notin Ending, phase' \notin Ending, match_state' # Goodbye,
               step' \in Nat, UNCHANGED card
        PROVE  Carded'
    BY <1>3 DEF Carded
  <1>4. ASSUME Spawn \/ SpawnActors \/ CreateBackendMatch PROVE Carded'
    BY <1>3, <1>4 DEF Spawn, SpawnActors, CreateBackendMatch, Carded, Goodbye
  <1>5. ASSUME SetupStep PROVE Carded'
    <2>1. match_state' # Goodbye
      BY <1>5, RoundWalkStates DEF SetupStep, Advance, Entering, Carded
    <2> QED
      BY <1>3, <1>5, <2>1 DEF SetupStep, Carded
  <1>6. ASSUME FirstRound PROVE Carded'
    BY <1>3, <1>6 DEF FirstRound, Carded
  <1>7. ASSUME InterroundStep PROVE Carded'
    <2>1. match_state' # Goodbye
      BY <1>7, RoundWalkStates DEF InterroundStep, Advance, Entering, Carded
    <2> QED
      BY <1>3, <1>7, <2>1 DEF InterroundStep, Carded
  <1>8. ASSUME NextRound PROVE Carded'
    <2>1. match_state' # Goodbye
      BY <1>8, RoundWalkStates DEF NextRound, Advance, Entering, Carded
    <2> QED
      BY <1>3, <1>8, <2>1 DEF NextRound, Carded
  <1>9. ASSUME phase \notin Ending, phase' # "Finished", match_state' = "PostRound",
               step' = 0, UNCHANGED card
        PROVE  Carded'
    BY <1>9 DEF Carded, Goodbye
  <1>10. ASSUME NEW s \in Slots, NEW d \in BOOLEAN, phase = "StateTimeout", RoundEnded(s, d)
         PROVE  Carded'
    BY <1>9, <1>10 DEF RoundEnded
  <1>11. ASSUME NEW s \in Humans, Concede(s) PROVE Carded'
    BY <1>9, <1>11 DEF Concede
  <1>12. ASSUME MatchEndStep PROVE Carded'
    <2>1. /\ phase = "RoundEnd" /\ phase' = "RoundEnd" /\ winner' = winner
          /\ step < Len(Walk(phase)) /\ match_state' = Walk(phase)[step + 1]
          /\ step' = step + 1
          /\ card' = IF Walk(phase)[step + 1] = "Victory" THEN Append(card, winner) ELSE card
      BY <1>12, Zenon DEF MatchEndStep, Advance, Entering
    <2>2. /\ step \in 0..3
          /\ match_state' = Goodbye => step = 3
          /\ card' = IF step = 1 THEN Append(card, winner) ELSE card
      BY <2>1, EndWalkStates DEF Carded
    <2>3. card = IF step >= 2 THEN <<winner>> ELSE << >>
      BY <2>1 DEF Carded
    <2>4. card' = IF step' >= 2 THEN <<winner>> ELSE << >>
      <3>1. CASE step = 1
        <4>1. card = << >> /\ card' = Append(card, winner) /\ step' = 2
          BY <2>1, <2>2, <2>3, <3>1
        <4>2. Append(<< >>, winner) = <<winner>>
          OBVIOUS
        <4> QED
          BY <4>1, <4>2
      <3>2. CASE step # 1
        BY <2>1, <2>2, <2>3, <3>2
      <3> QED
        BY <3>1, <3>2
    <2>5. step' \in 1..4 /\ (match_state' = Goodbye => step' = 4)
      BY <2>1, <2>2
    <2>6. phase' \in Ending /\ phase' # "Finished" /\ step' \in Nat
      BY <2>1, <2>5
    <2>7. card' = IF phase' \in Ending /\ step' >= 2 THEN <<winner'>> ELSE << >>
      BY <2>1, <2>4
    <2> HIDE DEF Ending
    <2> QED
      BY <2>5, <2>6, <2>7, Zenon DEF Carded
  <1>13. ASSUME Finish PROVE Carded'
    BY <1>13 DEF Finish, MatchEndWalk, Carded
  <1>14. ASSUME NEW s \in Humans,
                \/ Ready(s) \/ PlayerLoadoutReady(s) \/ BackendSynchronized(s)
                \/ SaveLoadout(s) \/ StageLoadout(s)
         PROVE  Carded'
    BY <1>1, <1>14
    DEF Ready, PlayerLoadoutReady, BackendSynchronized, SaveLoadout, StageLoadout
  <1>15. ASSUME UNCHANGED vars PROVE Carded'
    BY <1>1, <1>15 DEF vars
  <1>16. ASSUME NEW s \in Slots, RoundTimeout(s) \/ RoundWonByDeath(s)
         PROVE  \E d \in BOOLEAN : phase = "StateTimeout" /\ RoundEnded(s, d)
    BY <1>16 DEF RoundTimeout, RoundWonByDeath
  <1> QED
    BY <1>2, <1>4, <1>5, <1>6, <1>7, <1>8, <1>10, <1>11, <1>12, <1>13, <1>14, <1>15, <1>16,
       Zenon DEF Next, Tick

(* Both clients have been shown one card, the winner's, before they are     *)
(* told to disconnect.                                                      *)
THEOREM CardShownBeforeGoodbye == Spec => []CardBeforeGoodbye
  <1>1. Init => Carded
    BY InitCarded
  <1>2. Carded /\ [Next]_vars => Carded'
    BY StepCarded
  <1>3. Carded => CardBeforeGoodbye
    BY DEF Carded, CardBeforeGoodbye, Goodbye, Ending
  <1> QED
    BY <1>1, <1>2, <1>3, PTL DEF Spec
-----------------------------------------------------------------------------
(* The type of the walks, which needs that rounds are counted: round n is   *)
(* fought when n - 1 of them are decided.                                   *)
FlowType ==
    /\ phase \in Phases /\ match_state \in MatchStates
    /\ step \in 0..6 /\ clock \in 0..2 /\ round \in 0..3
    /\ ready \subseteq Humans
    /\ card \in Seq(Slots)

RoundCounted ==
    /\ phase \in {"Connecting", "Spawning", "BackendMatchCreated"} =>
            round = 0 /\ round_winners = << >>
    /\ phase = "StateTimeout" => round = Len(round_winners) + 1
    /\ phase = "NextState" => round = Len(round_winners) /\ round # 0

ProfileType ==
    /\ gear \in [Slots -> 0..MaxSaves] /\ row \in [Slots -> 0..MaxSaves]
    /\ hide \in [Slots -> BOOLEAN]
    /\ seen \in [Slots -> ((0..MaxSaves) \X BOOLEAN) \cup {NoOne}]
    /\ staged \in [Slots -> 0..MaxSaves \cup {NoOne}]
    /\ inflight \in [Slots -> SUBSET (1..MaxSaves)]
    /\ relays \in [Slots -> RelayCounts]
    /\ ledger \in [round : 1..RoundCap \cup {NoOne}, sent : SUBSET Slots]

LEMMA TypeSplits ==
    ASSUME FlowType, ProfileType, Scored, Told
    PROVE  TypeOK
  <1>1. Len(InterroundWalk) = 6 /\ RoundCap = 3 /\ Held = 2 /\ NoMark = 0
    BY DEF InterroundWalk, RoundCap, WinsNeeded, Held, NoMark
  <1> QED
    BY <1>1 DEF TypeOK, FlowType, ProfileType, Scored, Told

LEMMA FewRounds ==
    ASSUME Scored, winner = NoOne
    PROVE  round_winners \in Seq(Slots) /\ Len(round_winners) \in 0..2
  <1>1. 0 \in Slots
    BY DEF Slots
  <1>2. Len(round_winners) <= 2
    BY <1>1, OverWhenWon DEF Scored
  <1> QED
    BY <1>2 DEF Scored

Counting == Scored /\ FlowType /\ RoundCounted

LEMMA NamedStates ==
    {"Idle", "WaitingForPlayers", "InitialPlayerSetup", "BackendMatchCreation", "PostRound"}
        \subseteq MatchStates
  BY DEF MatchStates

LEMMA EndWalkTyped ==
    ASSUME phase = "RoundEnd", NEW n \in Nat, n < Len(Walk(phase))
    PROVE  Walk(phase)[n + 1] \in MatchStates
  <1>1. Walk(phase) = MatchEndWalk
    BY DEF Walk
  <1>2. DOMAIN MatchEndWalk = 1..4
    BY DEF MatchEndWalk
  <1>3. n + 1 \in DOMAIN MatchEndWalk
    BY <1>2, EndWalkStates
  <1> QED
    BY <1>1, <1>3 DEF MatchStates, Range

LEMMA ReadyAfterTyped ==
    ASSUME FlowType
    PROVE  ReadyAfter \subseteq Humans
  BY DEF FlowType, ReadyAfter

LEMMA InitCounting == Init => FlowType /\ RoundCounted
  BY NamedStates DEF Init, FlowType, RoundCounted, Phases, Walking, NoMark

LEMMA StepCounting ==
    ASSUME Counting, [Next]_vars
    PROVE  FlowType' /\ RoundCounted'
  <1> USE DEF flow, result, saving, profile
  <1>1. ASSUME UNCHANGED <<phase, match_state, step, round, card, round_winners>>,
               clock' \in 0..2, ready' \subseteq Humans
        PROVE  FlowType' /\ RoundCounted'
    BY <1>1 DEF Counting, FlowType, RoundCounted
  <1>2. ASSUME Elapse PROVE FlowType' /\ RoundCounted'
    <2>1. clock' \in 0..2 /\ ready' \subseteq Humans
      BY <1>2 DEF Elapse, Counting, FlowType, Held
    <2> QED
      BY <1>1, <1>2, <2>1 DEF Elapse
  <1>3. ASSUME SendResult PROVE FlowType' /\ RoundCounted'
    BY <1>1, <1>3 DEF SendResult, Counting, FlowType
  <1>4. ASSUME NEW s \in Humans,
               \/ Ready(s) \/ PlayerLoadoutReady(s) \/ BackendSynchronized(s)
               \/ SaveLoadout(s) \/ StageLoadout(s)
        PROVE  FlowType' /\ RoundCounted'
    BY <1>1, <1>4
    DEF Ready, PlayerLoadoutReady, BackendSynchronized, SaveLoadout, StageLoadout,
        Counting, FlowType
  <1>5. ASSUME UNCHANGED vars PROVE FlowType' /\ RoundCounted'
    BY <1>1, <1>5 DEF vars, Counting, FlowType
  <1>6. ASSUME Spawn \/ SpawnActors \/ CreateBackendMatch PROVE FlowType' /\ RoundCounted'
    BY <1>6, NamedStates
    DEF Spawn, SpawnActors, CreateBackendMatch, Counting, FlowType, RoundCounted, Phases,
        Walking, NoMark, Held
  <1>7. ASSUME SetupStep PROVE FlowType' /\ RoundCounted'
    <2>1. step' \in 0..6 /\ match_state' \in MatchStates
      BY <1>7, RoundWalkStates DEF SetupStep, Advance, Entering, Counting, FlowType
    <2>2. ready' \subseteq Humans
      BY <1>7, ReadyAfterTyped DEF SetupStep, Advance, Counting
    <2> QED
      BY <1>7, <2>1, <2>2 DEF SetupStep, Counting, FlowType, RoundCounted, NoMark
  <1>8. ASSUME FirstRound PROVE FlowType' /\ RoundCounted'
    BY <1>8 DEF FirstRound, Counting, FlowType, RoundCounted, Phases, NoMark
  <1>9. ASSUME InterroundStep PROVE FlowType' /\ RoundCounted'
    <2>1. step' \in 0..6 /\ match_state' \in MatchStates
      BY <1>9, RoundWalkStates DEF InterroundStep, Advance, Entering, Counting, FlowType
    <2>2. ready' \subseteq Humans
      BY <1>9, ReadyAfterTyped DEF InterroundStep, Advance, Counting
    <2> QED
      BY <1>9, <2>1, <2>2 DEF InterroundStep, Counting, FlowType, RoundCounted, NoMark
  <1>10. ASSUME NextRound PROVE FlowType' /\ RoundCounted'
    <2>1. step' \in 0..6 /\ match_state' \in MatchStates
      BY <1>10, RoundWalkStates DEF NextRound, Advance, Entering, Counting, FlowType
    <2>2. ready' \subseteq Humans
      BY <1>10, ReadyAfterTyped DEF NextRound, Advance, Counting
    <2>3. /\ phase = "NextState" /\ phase' = "StateTimeout" /\ round' = round + 1
          /\ clock' = 0 /\ UNCHANGED <<round_winners, card>>
      BY <1>10 DEF NextRound, NoMark
    <2>4. round \in 0..2 /\ round = Len(round_winners)
      BY <2>3, FewRounds DEF Counting, RoundCounted, Scored, Ending
    <2>5. RoundCounted'
      BY <2>3, <2>4 DEF RoundCounted
    <2>6. round' \in 0..3
      <3>1. round' = round + 1 /\ round \in 0..2
        BY <2>3, <2>4, Zenon
      <3> QED
        BY <3>1
    <2> QED
      BY <2>1, <2>2, <2>3, <2>5, <2>6 DEF Counting, FlowType, Phases
  <1>11. ASSUME NEW s \in Slots, NEW d \in BOOLEAN, phase = "StateTimeout", RoundEnded(s, d)
         PROVE  FlowType' /\ RoundCounted'
    <2>1. /\ round_winners' = Append(round_winners, s)
          /\ phase' \in {"RoundEnd", "NextState"}
          /\ match_state' = "PostRound" /\ step' = 0 /\ clock' = 0
          /\ UNCHANGED <<round, ready, card>>
      BY <1>11 DEF RoundEnded, NoMark
    <2>2. round_winners \in Seq(Slots) /\ round = Len(round_winners) + 1
      BY <1>11 DEF Counting, Scored, RoundCounted
    <2>3. Len(round_winners') = round'
      BY <2>1, <2>2
    <2>4. RoundCounted'
      BY <2>1, <2>2, <2>3 DEF RoundCounted
    <2> QED
      BY <2>1, <2>4, NamedStates DEF Counting, FlowType, Phases, Walking
  <1>12. ASSUME NEW s \in Humans, Concede(s) PROVE FlowType' /\ RoundCounted'
    <2>1. /\ phase' = "RoundEnd" /\ match_state' = "PostRound" /\ step' = 0 /\ clock' = 0
          /\ UNCHANGED <<round, ready, card>>
      BY <1>12 DEF Concede, NoMark
    <2> QED
      BY <2>1, NamedStates DEF Counting, FlowType, RoundCounted, Phases, Walking
  <1>13. ASSUME MatchEndStep PROVE FlowType' /\ RoundCounted'
    <2>1. /\ phase = "RoundEnd" /\ phase' = phase /\ round' = round /\ clock' = 0
          /\ step' = step + 1 /\ step < Len(Walk(phase)) /\ match_state' = Walk(phase)[step + 1]
          /\ card' = card \/ card' = Append(card, winner)
      BY <1>13 DEF MatchEndStep, Advance, Entering, NoMark
    <2>2. winner \in Slots
      BY <2>1 DEF Counting, Scored, Ending
    <2>3. card' \in Seq(Slots)
      BY <2>1, <2>2 DEF Counting, FlowType
    <2>4. step' \in 0..6 /\ match_state' \in MatchStates
      BY <2>1, EndWalkStates, EndWalkTyped DEF Counting, FlowType
    <2>5. ready' \subseteq Humans
      BY <1>13, ReadyAfterTyped DEF MatchEndStep, Advance, Counting
    <2> QED
      BY <2>1, <2>3, <2>4, <2>5 DEF Counting, FlowType, RoundCounted
  <1>14. ASSUME Finish PROVE FlowType' /\ RoundCounted'
    BY <1>14 DEF Finish, Counting, FlowType, RoundCounted, Phases
  <1>15. ASSUME NEW s \in Slots, RoundTimeout(s) \/ RoundWonByDeath(s)
         PROVE  \E d \in BOOLEAN : phase = "StateTimeout" /\ RoundEnded(s, d)
    BY <1>15 DEF RoundTimeout, RoundWonByDeath
  <1> QED
    BY <1>2, <1>3, <1>4, <1>5, <1>6, <1>7, <1>8, <1>9, <1>10, <1>11, <1>12, <1>13, <1>14, <1>15,
       Zenon DEF Next, Tick
-----------------------------------------------------------------------------
(* The type of the gear and of the profiles sent about it.  *)
Loadouts == 0..MaxSaves
Ledgers == [round : 1..RoundCap \cup {NoOne}, sent : SUBSET Slots]

LEMMA RelayTyped ==
    ASSUME ProfileType, gear' \in [Slots -> Loadouts], hide' \in [Slots -> BOOLEAN],
           NEW S, Relay(S)
    PROVE  seen' \in [Slots -> ((0..MaxSaves) \X BOOLEAN) \cup {NoOne}]
  BY DEF ProfileType, Relay, Loadouts

LEMMA AdoptTyped ==
    ASSUME ProfileType, Adopt
    PROVE  /\ gear' \in [Slots -> Loadouts]
           /\ staged' \in [Slots -> 0..MaxSaves \cup {NoOne}]
           /\ UNCHANGED <<hide, row, inflight>>
  <1>1. \A s \in Slots : s \in Adopting => staged[s] \in Loadouts
    BY DEF ProfileType, Adopting, Loadouts
  <1> QED
    BY <1>1 DEF ProfileType, Adopt, Loadouts

LEMMA LedgerTyped ==
    ASSUME ProfileType, NEW r \in 1..RoundCap
    PROVE  LedgerOf(r) \in Ledgers
  BY DEF ProfileType, LedgerOf, FreshLedger, Ledgers

LEMMA LedgerMarked ==
    ASSUME NEW l \in Ledgers, NEW S \in SUBSET Slots
    PROVE  [l EXCEPT !.sent = l.sent \cup S] \in Ledgers
  BY DEF Ledgers

LEMMA RelayCounted ==
    ASSUME relays \in [Slots -> RelayCounts], NEW S, Relay(S)
    PROVE  relays' \in [Slots -> RelayCounts]
  BY DEF Relay, OneMore, RelayCounts

LEMMA RelayOnceTyped ==
    ASSUME ProfileType, gear' \in [Slots -> Loadouts], hide' \in [Slots -> BOOLEAN],
           NEW l \in Ledgers, NEW S \in SUBSET Slots, RelayOnce(l, S)
    PROVE  /\ ledger' \in Ledgers
           /\ seen' \in [Slots -> ((0..MaxSaves) \X BOOLEAN) \cup {NoOne}]
           /\ relays' \in [Slots -> RelayCounts]
  <1> DEFINE sending == SentAgain(l) \cup (S \ l.sent)
  <1>1. /\ ledger' = [l EXCEPT !.sent = l.sent \cup S]
        /\ Relay(sending)
    BY Zenon DEF RelayOnce
  <1> HIDE DEF sending
  <1>2. ledger' \in Ledgers
    BY <1>1, LedgerMarked
  <1>3. seen' \in [Slots -> ((0..MaxSaves) \X BOOLEAN) \cup {NoOne}]
    BY <1>1, RelayTyped
  <1>4. relays' \in [Slots -> RelayCounts]
    BY <1>1, RelayCounted DEF ProfileType
  <1> QED
    BY <1>2, <1>3, <1>4

LEMMA ProfileTypeOf ==
    ASSUME gear' \in [Slots -> Loadouts], row' \in [Slots -> 0..MaxSaves],
           hide' \in [Slots -> BOOLEAN],
           seen' \in [Slots -> ((0..MaxSaves) \X BOOLEAN) \cup {NoOne}],
           staged' \in [Slots -> 0..MaxSaves \cup {NoOne}],
           inflight' \in [Slots -> SUBSET (1..MaxSaves)],
           relays' \in [Slots -> RelayCounts], ledger' \in Ledgers
    PROVE  ProfileType'
  BY DEF ProfileType, Loadouts, Ledgers

LEMMA InitProfileType == Init => ProfileType
  BY MatchFlowAssumption DEF Init, ProfileType, FreshLedger, RelayCounts

LEMMA StepProfileType ==
    ASSUME ProfileType, Counting, [Next]_vars
    PROVE  ProfileType'
  <1>0. /\ gear \in [Slots -> Loadouts] /\ row \in [Slots -> 0..MaxSaves]
        /\ hide \in [Slots -> BOOLEAN]
        /\ seen \in [Slots -> ((0..MaxSaves) \X BOOLEAN) \cup {NoOne}]
        /\ staged \in [Slots -> 0..MaxSaves \cup {NoOne}]
        /\ inflight \in [Slots -> SUBSET (1..MaxSaves)]
        /\ relays \in [Slots -> RelayCounts] /\ ledger \in Ledgers
    BY DEF ProfileType, Loadouts, Ledgers
  <1>1. phase = "NextState" => round \in 1..RoundCap /\ round + 1 \in 1..RoundCap
    BY FewRounds DEF Counting, RoundCounted, FlowType, Scored, Ending, RoundCap, WinsNeeded
  <1>2. ASSUME UNCHANGED <<profile, saving>> PROVE ProfileType'
    BY <1>2 DEF profile, saving, ProfileType
  <1>3. ASSUME \/ Elapse \/ SendResult \/ Spawn \/ SetupStep \/ FirstRound \/ MatchEndStep
               \/ Finish \/ UNCHANGED vars
        PROVE  ProfileType'
    <2>1. UNCHANGED <<profile, saving>>
      BY <1>3, Zenon
      DEF Elapse, SendResult, Spawn, SetupStep, FirstRound, MatchEndStep, Finish, vars
    <2> QED
      BY <1>2, <2>1
  <1>4. ASSUME NEW s \in Humans, Ready(s) \/ Concede(s) PROVE ProfileType'
    <2>1. UNCHANGED <<profile, saving>>
      BY <1>4, Zenon DEF Ready, Concede
    <2> QED
      BY <1>2, <2>1
  <1>5. ASSUME SpawnActors \/ CreateBackendMatch PROVE ProfileType'
    <2>1. /\ UNCHANGED <<gear, hide, ledger, row, inflight, staged>>
          /\ Relay(Slots) \/ Relay(IF Stagger THEN Slots ELSE {})
      BY <1>5 DEF SpawnActors, CreateBackendMatch, saving
    <2>2. seen' \in [Slots -> ((0..MaxSaves) \X BOOLEAN) \cup {NoOne}]
      BY <1>0, <2>1, RelayTyped
    <2>3. relays' \in [Slots -> RelayCounts]
      BY <1>0, <2>1, RelayCounted
    <2> QED
      BY <1>0, <2>1, <2>2, <2>3, ProfileTypeOf
  <1>6. ASSUME InterroundStep PROVE ProfileType'
    <2>1. CASE UNCHANGED <<profile, saving>>
      BY <1>2, <2>1
    <2>2. CASE Adopt /\ RelayOnce(LedgerOf(round), Slots)
      <3>1. LedgerOf(round) \in Ledgers
        BY <1>1, <1>6, LedgerTyped DEF InterroundStep
      <3>2. /\ gear' \in [Slots -> Loadouts]
            /\ staged' \in [Slots -> 0..MaxSaves \cup {NoOne}]
            /\ UNCHANGED <<hide, row, inflight>>
        BY <2>2, AdoptTyped
      <3>3. /\ ledger' \in Ledgers
            /\ seen' \in [Slots -> ((0..MaxSaves) \X BOOLEAN) \cup {NoOne}]
            /\ relays' \in [Slots -> RelayCounts]
        BY <1>0, <2>2, <3>1, <3>2, RelayOnceTyped
      <3> QED
        BY <1>0, <3>2, <3>3, ProfileTypeOf
    <2> QED
      BY <1>6, <2>1, <2>2, Zenon DEF InterroundStep
  <1>7. ASSUME NextRound PROVE ProfileType'
    <2>1. /\ Adopt /\ Relay(SentAgain(LedgerOf(round + 1)))
          /\ ledger' = (IF Adopting = {} THEN ledger ELSE LedgerOf(round + 1))
          /\ phase = "NextState"
      BY <1>7 DEF NextRound
    <2>2. /\ gear' \in [Slots -> Loadouts]
          /\ staged' \in [Slots -> 0..MaxSaves \cup {NoOne}]
          /\ UNCHANGED <<hide, row, inflight>>
      BY <2>1, AdoptTyped
    <2>3. LedgerOf(round + 1) \in Ledgers
      BY <1>1, <2>1, LedgerTyped
    <2>4. ledger' \in Ledgers
      BY <1>0, <2>1, <2>3
    <2>5. seen' \in [Slots -> ((0..MaxSaves) \X BOOLEAN) \cup {NoOne}]
      BY <1>0, <2>1, <2>2, RelayTyped
    <2>6. relays' \in [Slots -> RelayCounts]
      BY <1>0, <2>1, RelayCounted
    <2> QED
      BY <1>0, <2>1, <2>2, <2>4, <2>5, <2>6, ProfileTypeOf
  <1>8. ASSUME NEW s \in Slots, NEW d \in BOOLEAN, RoundEnded(s, d) PROVE ProfileType'
    <2>1. /\ UNCHANGED <<gear, hide, seen, ledger, row, inflight, staged>>
          /\ relays' = [f \in Slots |-> 0]
      BY <1>8 DEF RoundEnded, saving
    <2>2. relays' \in [Slots -> RelayCounts]
      BY <2>1 DEF RelayCounts
    <2> QED
      BY <1>0, <2>1, <2>2, ProfileTypeOf
  <1>9. ASSUME NEW s \in Humans, SaveLoadout(s) PROVE ProfileType'
    <2>1. /\ row[s] < MaxSaves /\ row' = [row EXCEPT ![s] = row[s] + 1]
          /\ inflight' = [inflight EXCEPT ![s] = inflight[s] \cup {row[s] + 1}]
          /\ UNCHANGED <<gear, hide, seen, ledger, relays, staged>>
      BY <1>9 DEF SaveLoadout, profile
    <2>2. s \in Slots /\ MaxSaves \in Nat
      BY HumansAreSlots, MatchFlowAssumption
    <2>3. row[s] + 1 \in 1..MaxSaves
      BY <1>0, <2>1, <2>2
    <2>4. row' \in [Slots -> 0..MaxSaves] /\ inflight' \in [Slots -> SUBSET (1..MaxSaves)]
      BY <1>0, <2>1, <2>2, <2>3
    <2> QED
      BY <1>0, <2>1, <2>4, ProfileTypeOf
  <1>10. ASSUME NEW s \in Humans, StageLoadout(s) PROVE ProfileType'
    <2>1. PICK committed \in inflight[s] :
            /\ \E read \in committed..row[s] : staged' = [staged EXCEPT ![s] = read]
            /\ inflight' = [inflight EXCEPT ![s] = inflight[s] \ {committed}]
      BY <1>10 DEF StageLoadout
    <2>2. UNCHANGED <<gear, hide, seen, ledger, relays, row>>
      BY <1>10 DEF StageLoadout, profile
    <2>3. s \in Slots /\ MaxSaves \in Nat
      BY HumansAreSlots, MatchFlowAssumption
    <2>4. committed..row[s] \subseteq Loadouts
      BY <1>0, <2>3 DEF Loadouts
    <2>5. staged' \in [Slots -> 0..MaxSaves \cup {NoOne}]
      BY <1>0, <2>1, <2>3, <2>4 DEF Loadouts
    <2>6. inflight' \in [Slots -> SUBSET (1..MaxSaves)]
      BY <1>0, <2>1, <2>3
    <2> QED
      BY <1>0, <2>2, <2>5, <2>6, ProfileTypeOf
  <1>11. ASSUME NEW s \in Humans, PlayerLoadoutReady(s) PROVE ProfileType'
    <2>1. phase = "NextState" /\ Adopt /\ RelayOnce(LedgerOf(round), {s})
      BY <1>11 DEF PlayerLoadoutReady
    <2>2. LedgerOf(round) \in Ledgers /\ {s} \in SUBSET Slots
      BY <1>1, <2>1, LedgerTyped, HumansAreSlots
    <2>3. /\ gear' \in [Slots -> Loadouts]
          /\ staged' \in [Slots -> 0..MaxSaves \cup {NoOne}]
          /\ UNCHANGED <<hide, row, inflight>>
      BY <2>1, AdoptTyped
    <2>4. /\ ledger' \in Ledgers
          /\ seen' \in [Slots -> ((0..MaxSaves) \X BOOLEAN) \cup {NoOne}]
          /\ relays' \in [Slots -> RelayCounts]
      BY <1>0, <2>1, <2>2, <2>3, RelayOnceTyped
    <2> QED
      BY <1>0, <2>3, <2>4, ProfileTypeOf
  <1>12. ASSUME NEW s \in Humans, BackendSynchronized(s) PROVE ProfileType'
    <2>1. /\ hide' = [hide EXCEPT ![s] = ~hide[s]] /\ Relay({s})
          /\ ledger' = IF phase = "NextState"
                       THEN [LedgerOf(round) EXCEPT !.sent = LedgerOf(round).sent \cup {s}]
                       ELSE ledger
          /\ UNCHANGED <<gear, row, inflight, staged>>
      BY <1>12 DEF BackendSynchronized, saving
    <2>6. relays' \in [Slots -> RelayCounts]
      BY <1>0, <2>1, RelayCounted
    <2>2. s \in Slots
      BY HumansAreSlots
    <2>3. hide' \in [Slots -> BOOLEAN]
      BY <1>0, <2>1, <2>2
    <2>4. ledger' \in Ledgers
      <3>1. CASE phase = "NextState"
        <4>1. LedgerOf(round) \in Ledgers /\ {s} \in SUBSET Slots
          BY <1>1, <2>2, <3>1, LedgerTyped
        <4> QED
          BY <2>1, <3>1, <4>1, LedgerMarked
      <3>2. CASE phase # "NextState"
        BY <1>0, <2>1, <3>2
      <3> QED
        BY <3>1, <3>2
    <2>5. seen' \in [Slots -> ((0..MaxSaves) \X BOOLEAN) \cup {NoOne}]
      BY <1>0, <2>1, <2>3, RelayTyped
    <2> QED
      BY <1>0, <2>1, <2>3, <2>4, <2>5, <2>6, ProfileTypeOf
  <1>13. ASSUME NEW s \in Slots, RoundTimeout(s) \/ RoundWonByDeath(s)
         PROVE  \E d \in BOOLEAN : RoundEnded(s, d)
    BY <1>13 DEF RoundTimeout, RoundWonByDeath
  <1> QED
    BY <1>3, <1>4, <1>5, <1>6, <1>7, <1>8, <1>9, <1>10, <1>11, <1>12, <1>13, Zenon DEF Next, Tick

IInv == Scored /\ Told /\ FlowType /\ RoundCounted /\ ProfileType

LEMMA Inductive == (Init => IInv) /\ (IInv /\ [Next]_vars => IInv')
  <1>1. Init => IInv
    BY InitScored, InitTold, InitCounting, InitProfileType DEF IInv
  <1>2. ASSUME IInv, [Next]_vars PROVE IInv'
    BY <1>2, StepScored, StepTold, StepCounting, StepProfileType DEF IInv, Counting
  <1> QED
    BY <1>1, <1>2

(* Every variable keeps its type; that the round number never passes the    *)
(* cap is the part that needs the score.                                    *)
THEOREM TypeCorrect == Spec => []TypeOK
  <1>1. Init => IInv
    BY Inductive
  <1>2. IInv /\ [Next]_vars => IInv'
    BY Inductive
  <1>3. IInv => TypeOK
    BY TypeSplits DEF IInv
  <1> QED
    BY <1>1, <1>2, <1>3, PTL DEF Spec
-----------------------------------------------------------------------------
(* Who knows what of whom.  The ledger of a walk never runs ahead of the    *)
(* rounds and is empty when a round goes live; a fighter on it is known as  *)
(* he is, and once the loadouts are synchronised everyone is on it.         *)
Known(s) == seen[s] = <<gear[s], hide[s]>>

Knowing ==
    /\ ledger.round = NoOne \/ ledger.round <= round
    /\ phase = "StateTimeout" => LedgerOf(round).sent = {}
    /\ phase = "Spawning" => match_state \in {"WaitingForPlayers", "InitialPlayerSetup"}
    /\ phase = "Spawning" /\ match_state = "InitialPlayerSetup" => \A s \in Slots : Known(s)
    /\ phase = "BackendMatchCreated" => \A s \in Slots : Known(s)
    /\ phase = "NextState" =>
        /\ \A s \in LedgerOf(round).sent : Known(s)
        /\ \A s \in Slots : relays[s] # 0 => s \in LedgerOf(round).sent
        /\ step >= 3 => LedgerOf(round).sent = Slots

IKnow == IInv /\ Knowing

(* A step that moves no gear, profile or ledger, and opens no round.  *)
LEMMA UntouchedKnowing ==
    ASSUME Knowing, UNCHANGED <<phase, match_state, step, round, gear, hide, seen, ledger, relays>>
    PROVE  Knowing'
  BY DEF Knowing, LedgerOf, FreshLedger, Known

(* After adopting and relaying once, whoever is on the ledger is known.  *)
LEMMA RelayOnceKnown ==
    ASSUME IKnow, phase = "NextState", NEW S \in SUBSET Slots,
           Adopt, RelayOnce(LedgerOf(round), S)
    PROVE  /\ ledger'.round = round
           /\ ledger'.sent = LedgerOf(round).sent \cup S
           /\ \A s \in ledger'.sent : Known(s)'
           /\ \A s \in Slots : relays'[s] # 0 => s \in ledger'.sent
           /\ \A s \in Slots :
                relays[s] # 0 /\ relays'[s] # relays[s] => staged[s] # NoOne
  <1> DEFINE l == LedgerOf(round)
             sending == SentAgain(l) \cup (S \ l.sent)
  <1>1. /\ ledger' = [l EXCEPT !.sent = l.sent \cup S]
        /\ Relay(sending)
    BY Zenon DEF RelayOnce
  <1>2. round \in 1..RoundCap
    BY DEF IKnow, IInv, RoundCounted, FlowType, RoundCap, WinsNeeded
  <1>3. l \in Ledgers /\ l.round = round
    <2>1. l \in Ledgers
      BY <1>2, LedgerTyped DEF IKnow, IInv
    <2> QED
      BY <2>1 DEF LedgerOf, FreshLedger
  <1>4. /\ \A s \in l.sent : Known(s)
        /\ \A s \in Slots : relays[s] # 0 => s \in l.sent
    BY DEF IKnow, Knowing
  <1> HIDE DEF l
  <1>5. ledger'.round = round /\ ledger'.sent = l.sent \cup S
    BY <1>1, <1>3 DEF Ledgers
  <1>6. l.sent \subseteq Slots
    BY <1>3 DEF Ledgers
  <1>7. SentAgain(l) = Adopting \cap l.sent /\ Adopting = {s \in Slots : staged[s] # NoOne}
    BY DEF SentAgain, Adopting
  <1>8. ASSUME NEW s \in ledger'.sent PROVE Known(s)'
    <2>1. s \in Slots
      BY <1>5, <1>6
    <2>2. CASE s \in sending
      BY <1>1, <2>1, <2>2 DEF Relay, Known
    <2>3. CASE s \notin sending
      <3>1. s \in l.sent /\ s \notin Adopting
        BY <1>5, <1>7, <2>3
      <3>2. gear'[s] = gear[s] /\ hide'[s] = hide[s] /\ seen'[s] = seen[s]
        BY <1>1, <2>1, <2>3, <3>1 DEF Adopt, Relay
      <3> QED
        BY <1>4, <3>1, <3>2 DEF Known
    <2> QED
      BY <2>2, <2>3
  <1>9. ASSUME NEW s \in Slots, relays'[s] # 0 PROVE s \in ledger'.sent
    <2>1. CASE s \in sending
      BY <1>5, <1>7, <2>1
    <2>2. CASE s \notin sending
      BY <1>1, <1>4, <1>5, <1>9, <2>2 DEF Relay
    <2> QED
      BY <2>1, <2>2
  <1>10. ASSUME NEW s \in Slots, relays[s] # 0, relays'[s] # relays[s] PROVE staged[s] # NoOne
    <2>1. s \in sending
      BY <1>1, <1>10 DEF Relay
    <2> QED
      BY <1>4, <1>7, <1>10, <2>1
  <1> QED
    BY <1>5, <1>8, <1>9, <1>10 DEF l

LEMMA WalkFacts ==
    /\ Walk("NextState") = InterroundWalk
    /\ InterroundWalk[3] = "SynchronizingLoadout"
    /\ InterroundWalk[6] = "InRound"
    /\ Len(InterroundWalk) = 6
    /\ \A n \in 1..5 : InterroundWalk[n] # "InRound"
  <1>1. \A n \in 1..5 : InterroundWalk[n] # "InRound"
    <2>1. \A n \in 1..5 : n = 1 \/ n = 2 \/ n = 3 \/ n = 4 \/ n = 5
      OBVIOUS
    <2> QED
      BY <2>1 DEF InterroundWalk
  <1> QED
    BY <1>1 DEF Walk, InterroundWalk

(* Only the last state of the walk opens the round, when the loadouts have  *)
(* long been synchronised.                                                  *)
LEMMA NextRoundOpens ==
    ASSUME IKnow, NextRound
    PROVE  /\ LedgerOf(round).sent = Slots
           /\ round' = round + 1 /\ phase' = "StateTimeout" /\ hide' = hide
           /\ LedgerOf(round + 1).sent = {}
           /\ \A s \in Slots : staged'[s] = NoOne
           /\ \A s \in Slots : staged[s] # NoOne => gear'[s] = staged[s]
           /\ \A s \in Slots : staged[s] = NoOne => Known(s)'
           /\ LedgerOf(round)'.sent = {}
           /\ ledger'.round = NoOne \/ ledger'.round <= round'
  <1>1. /\ phase = "NextState" /\ phase' = "StateTimeout" /\ round' = round + 1
        /\ Entering = "InRound" /\ step < Len(Walk(phase))
        /\ Adopt /\ Relay(SentAgain(LedgerOf(round + 1)))
        /\ ledger' = (IF Adopting = {} THEN ledger ELSE LedgerOf(round + 1))
    BY DEF NextRound, Advance
  <1>2. step = 5
    <2>1. step \in 0..6 /\ step < 6
      BY <1>1, WalkFacts DEF IKnow, IInv, FlowType
    <2>2. InterroundWalk[step + 1] = "InRound"
      BY <1>1, WalkFacts DEF Entering
    <2> QED
      BY <2>1, <2>2, WalkFacts
  <1>3. LedgerOf(round).sent = Slots /\ \A s \in Slots : Known(s)
    BY <1>1, <1>2 DEF IKnow, Knowing
  <1>4. round \in Nat /\ (ledger.round = NoOne \/ ledger.round \in Nat)
    BY DEF IKnow, IInv, FlowType, ProfileType
  <1>5. ledger.round # round + 1
    BY <1>4, MatchFlowAssumption DEF IKnow, Knowing
  <1>6. LedgerOf(round + 1) = FreshLedger(round + 1)
    BY <1>5 DEF LedgerOf
  <1>7. LedgerOf(round + 1).sent = {} /\ SentAgain(LedgerOf(round + 1)) = {}
    BY <1>6 DEF FreshLedger, SentAgain
  <1>8. seen' = [s \in Slots |-> seen[s]] /\ hide' = hide
    BY <1>1, <1>7 DEF Relay, Adopt
  <1>9. \A s \in Slots : staged[s] = NoOne => Known(s)'
    BY <1>1, <1>3, <1>8 DEF Adopt, Adopting, Known
  <1>10. ledger' = ledger \/ ledger' = FreshLedger(round + 1)
    BY <1>1, <1>6
  <1>11. LedgerOf(round)'.sent = {}
    BY <1>1, <1>5, <1>10 DEF LedgerOf, FreshLedger
  <1>12. ledger'.round = NoOne \/ ledger'.round <= round'
    BY <1>1, <1>4, <1>10 DEF FreshLedger, IKnow, Knowing
  <1> QED
    BY <1>1, <1>3, <1>7, <1>8, <1>9, <1>11, <1>12 DEF Adopt, Adopting

LEMMA InitKnowing == Init => Knowing
  BY DEF Init, Knowing, FreshLedger

LEMMA StepKnowing ==
    ASSUME IKnow, [Next]_vars
    PROVE  Knowing'
  <1> USE DEF flow, result, saving, profile
  <1>0. Knowing /\ Counting /\ ProfileType
    BY DEF IKnow, IInv, Counting
  <1>1. ASSUME UNCHANGED <<phase, match_state, step, round, gear, hide, seen, ledger, relays>>
        PROVE  Knowing'
    BY <1>0, <1>1, UntouchedKnowing
  <1>2. ASSUME Elapse \/ SendResult \/ UNCHANGED vars PROVE Knowing'
    BY <1>1, <1>2 DEF Elapse, SendResult, vars
  <1>3. ASSUME NEW s \in Humans, Ready(s) \/ SaveLoadout(s) \/ StageLoadout(s)
        PROVE  Knowing'
    BY <1>1, <1>3 DEF Ready, SaveLoadout, StageLoadout
  <1>4. ASSUME phase' \in {"Finished", "RoundEnd"}, UNCHANGED <<round, ledger>> PROVE Knowing'
    BY <1>0, <1>4 DEF Knowing
  <1>5. ASSUME MatchEndStep \/ Finish PROVE Knowing'
    BY <1>4, <1>5 DEF MatchEndStep, Finish
  <1>6. ASSUME NEW s \in Humans, Concede(s) PROVE Knowing'
    BY <1>4, <1>6 DEF Concede
  <1>7. ASSUME Spawn PROVE Knowing'
    BY <1>0, <1>7 DEF Spawn, Knowing
  <1>8. ASSUME SpawnActors PROVE Knowing'
    <2>1. \A s \in Slots : Known(s)'
      BY <1>8 DEF SpawnActors, Relay, Known
    <2> QED
      BY <1>0, <1>8, <2>1 DEF SpawnActors, Knowing
  <1>9. ASSUME CreateBackendMatch PROVE Knowing'
    <2>1. \A s \in Slots : Known(s)'
      <3>1. CASE Stagger
        BY <1>9, <3>1 DEF CreateBackendMatch, Relay, Known
      <3>2. CASE ~Stagger
        <4>1. match_state = "InitialPlayerSetup"
          BY <1>0, <1>9, <3>2
          DEF CreateBackendMatch, HoldIsOver, Held, StaggerMark, Stagger, Knowing
        <4>2. \A s \in Slots : Known(s)
          BY <1>0, <1>9, <4>1 DEF CreateBackendMatch, Knowing
        <4>3. UNCHANGED <<gear, hide>> /\ seen' = [s \in Slots |-> seen[s]]
          BY <1>9, <3>2 DEF CreateBackendMatch, Relay
        <4> QED
          BY <4>2, <4>3 DEF Known
      <3> QED
        BY <3>1, <3>2
    <2> QED
      BY <1>0, <1>9, <2>1 DEF CreateBackendMatch, Knowing
  <1>10. ASSUME SetupStep PROVE Knowing'
    BY <1>0, <1>10 DEF SetupStep, Knowing, Known
  <1>11. ASSUME FirstRound PROVE Knowing'
    <2>1. round = 0 /\ ledger \in Ledgers
      BY <1>0, <1>11 DEF FirstRound, Counting, RoundCounted, ProfileType, Ledgers
    <2>2. ledger.round = NoOne
      BY <1>0, <2>1 DEF Knowing, Ledgers, RoundCap, WinsNeeded
    <2>3. LedgerOf(round)'.sent = {} /\ ledger'.round = NoOne
      BY <1>11, <2>2, MatchFlowAssumption DEF FirstRound, LedgerOf, FreshLedger
    <2> QED
      BY <1>11, <2>3 DEF FirstRound, Knowing
  <1>12. ASSUME NextRound PROVE Knowing'
    BY <1>12, NextRoundOpens DEF Knowing
  <1>13. ASSUME NEW s \in Slots, NEW d \in BOOLEAN, phase = "StateTimeout", RoundEnded(s, d)
         PROVE  Knowing'
    <2>1. /\ phase' \in {"RoundEnd", "NextState"} /\ step' = 0
          /\ UNCHANGED <<round, ledger>>
          /\ relays' = [f \in Slots |-> 0]
      BY <1>13 DEF RoundEnded
    <2>2. LedgerOf(round)'.sent = {}
      BY <1>0, <1>13, <2>1 DEF Knowing, LedgerOf, FreshLedger
    <2> QED
      BY <1>0, <2>1, <2>2 DEF Knowing
  <1>14. ASSUME phase = "NextState", phase' = "NextState", round' = round,
                ledger'.round = round,
                \A s \in ledger'.sent : Known(s)',
                \A s \in Slots : relays'[s] # 0 => s \in ledger'.sent,
                step' >= 3 => ledger'.sent = Slots
         PROVE  Knowing'
    <2>1. LedgerOf(round)' = ledger'
      BY <1>14 DEF LedgerOf
    <2>2. round \in Int
      BY <1>0 DEF Counting, FlowType
    <2> QED
      BY <1>14, <2>1, <2>2 DEF Knowing
  <1>15. phase = "NextState" => LedgerOf(round) \in Ledgers /\ LedgerOf(round).sent \subseteq Slots
    <2>1. phase = "NextState" => round \in 1..RoundCap
      BY <1>0 DEF Counting, RoundCounted, FlowType, RoundCap, WinsNeeded
    <2> QED
      BY <1>0, <2>1, LedgerTyped DEF Ledgers
  <1>16. ASSUME NEW s \in Humans, PlayerLoadoutReady(s) PROVE Knowing'
    <2>1. /\ phase = "NextState" /\ UNCHANGED <<phase, round, step>>
          /\ Adopt /\ RelayOnce(LedgerOf(round), {s})
      BY <1>16 DEF PlayerLoadoutReady
    <2>2. /\ ledger'.round = round
          /\ ledger'.sent = LedgerOf(round).sent \cup {s}
          /\ \A f \in ledger'.sent : Known(f)'
          /\ \A f \in Slots : relays'[f] # 0 => f \in ledger'.sent
      BY <2>1, HumansAreSlots, RelayOnceKnown
    <2>3. step' >= 3 => ledger'.sent = Slots
      BY <1>0, <2>1, <2>2, HumansAreSlots DEF Knowing
    <2> QED
      BY <1>14, <2>1, <2>2, <2>3
  <1>17. ASSUME InterroundStep PROVE Knowing'
    <2>1. /\ phase = "NextState" /\ UNCHANGED <<phase, round>>
          /\ step' = step + 1 /\ step \in 0..6
          /\ Entering = InterroundWalk[step + 1]
      BY <1>0, <1>17, WalkFacts DEF InterroundStep, Entering, Counting, FlowType
    <2>2. CASE Entering = "SynchronizingLoadout"
      <3>1. Adopt /\ RelayOnce(LedgerOf(round), Slots)
        BY <1>17, <2>2 DEF InterroundStep
      <3>2. /\ ledger'.round = round
            /\ ledger'.sent = LedgerOf(round).sent \cup Slots
            /\ \A f \in ledger'.sent : Known(f)'
            /\ \A f \in Slots : relays'[f] # 0 => f \in ledger'.sent
        BY <2>1, <3>1, RelayOnceKnown
      <3>3. ledger'.sent = Slots
        BY <1>15, <2>1, <3>2
      <3> QED
        BY <1>14, <2>1, <3>2, <3>3
    <2>3. CASE Entering # "SynchronizingLoadout"
      <3>1. UNCHANGED <<gear, hide, seen, ledger, relays>>
        BY <1>17, <2>3 DEF InterroundStep
      <3>2. step # 2
        BY <2>1, <2>3, WalkFacts
      <3>3. step' >= 3 => step >= 3
        BY <2>1, <3>2
      <3>4. LedgerOf(round)' = LedgerOf(round)
        BY <2>1, <3>1 DEF LedgerOf, FreshLedger
      <3> QED
        BY <1>0, <2>1, <3>1, <3>3, <3>4 DEF Knowing, Known
    <2> QED
      BY <2>2, <2>3
  <1>18. ASSUME NEW s \in Humans, BackendSynchronized(s) PROVE Knowing'
    <2>1. /\ UNCHANGED <<phase, match_state, step, round, gear>>
          /\ hide' = [hide EXCEPT ![s] = ~hide[s]]
          /\ ledger' = IF phase = "NextState"
                       THEN [LedgerOf(round) EXCEPT !.sent = LedgerOf(round).sent \cup {s}]
                       ELSE ledger
          /\ seen' = [f \in Slots |-> IF f \in {s} THEN <<gear'[f], hide'[f]>> ELSE seen[f]]
          /\ \A f \in Slots : f # s => relays'[f] = relays[f]
      BY <1>18 DEF BackendSynchronized, Relay
    <2>2. s \in Slots
      BY HumansAreSlots
    <2>3. ASSUME NEW f \in Slots, f = s \/ Known(f) PROVE Known(f)'
      BY <1>0, <2>1, <2>2, <2>3 DEF Known, ProfileType
    <2>4. CASE phase = "NextState"
      <3>1. ledger'.sent = LedgerOf(round).sent \cup {s} /\ ledger'.round = LedgerOf(round).round
        BY <1>15, <2>1, <2>4 DEF Ledgers
      <3>2. LedgerOf(round).round = round
        BY DEF LedgerOf, FreshLedger
      <3>3. \A f \in ledger'.sent : Known(f)'
        BY <1>0, <1>15, <2>2, <2>3, <2>4, <3>1 DEF Knowing
      <3>4. /\ \A f \in Slots : relays'[f] # 0 => f \in ledger'.sent
            /\ step' >= 3 => ledger'.sent = Slots
        BY <1>0, <2>1, <2>2, <2>4, <3>1 DEF Knowing
      <3> QED
        BY <1>14, <2>1, <2>4, <3>1, <3>2, <3>3, <3>4
    <2>5. CASE phase # "NextState"
      <3>1. ledger' = ledger /\ LedgerOf(round)' = LedgerOf(round)
        BY <2>1, <2>5 DEF LedgerOf, FreshLedger
      <3> QED
        BY <1>0, <2>1, <2>3, <2>5, <3>1 DEF Knowing
    <2> QED
      BY <2>4, <2>5
  <1>19. ASSUME NEW s \in Slots, RoundTimeout(s) \/ RoundWonByDeath(s)
         PROVE  \E d \in BOOLEAN : phase = "StateTimeout" /\ RoundEnded(s, d)
    BY <1>19 DEF RoundTimeout, RoundWonByDeath
  <1> QED
    BY <1>2, <1>3, <1>5, <1>6, <1>7, <1>8, <1>9, <1>10, <1>11, <1>12, <1>13, <1>16, <1>17,
       <1>18, <1>19, Zenon DEF Next, Tick

LEMMA KnowInductive == (Init => IKnow) /\ (IKnow /\ [Next]_vars => IKnow')
  BY Inductive, InitKnowing, StepKnowing DEF IKnow
-----------------------------------------------------------------------------
(* Steps that touch no gear, and relay no profile twice in a walk unless a  *)
(* helmet changed.                                                          *)
QuietlyGeared ==
    /\ gear' = gear
    /\ phase' = "StateTimeout" => phase # "NextState"
    /\ phase = "NextState" =>
        \A f \in Slots : relays'[f] \in {0, relays[f]} \/ hide'[f] # hide[f]

LEMMA ProfileSteps ==
    ASSUME ProfileType, [Next]_vars
    PROVE  \/ QuietlyGeared
           \/ InterroundStep
           \/ NextRound
           \/ \E s \in Humans : PlayerLoadoutReady(s)
  <1> USE DEF flow, result, saving, profile
  <1>1. ASSUME gear' = gear, relays' = relays, phase' = "StateTimeout" => phase # "NextState"
        PROVE  QuietlyGeared
    BY <1>1 DEF QuietlyGeared
  <1>2. ASSUME Elapse \/ SendResult \/ Spawn \/ SetupStep \/ FirstRound \/ MatchEndStep \/ Finish
        PROVE  QuietlyGeared
    BY <1>1, <1>2
    DEF Elapse, SendResult, Spawn, SetupStep, FirstRound, MatchEndStep, Finish
  <1>3. ASSUME SpawnActors \/ CreateBackendMatch PROVE QuietlyGeared
    BY <1>3 DEF SpawnActors, CreateBackendMatch, QuietlyGeared
  <1>4. ASSUME NEW s \in Humans, Ready(s) \/ Concede(s) \/ SaveLoadout(s) \/ StageLoadout(s)
        PROVE  QuietlyGeared
    BY <1>1, <1>4 DEF Ready, Concede, SaveLoadout, StageLoadout
  <1>5. ASSUME NEW s \in Humans, BackendSynchronized(s) PROVE QuietlyGeared
    <2>1. /\ gear' = gear /\ phase' = phase /\ hide' = [hide EXCEPT ![s] = ~hide[s]]
          /\ \A f \in Slots : f # s => relays'[f] = relays[f]
      BY <1>5 DEF BackendSynchronized, Relay
    <2>2. hide'[s] = ~hide[s] /\ hide[s] \in BOOLEAN
      BY <2>1, HumansAreSlots DEF ProfileType
    <2> QED
      BY <2>1, <2>2 DEF QuietlyGeared
  <1>6. ASSUME UNCHANGED vars PROVE QuietlyGeared
    BY <1>1, <1>6 DEF vars
  <1>7. ASSUME NEW s \in Slots, RoundTimeout(s) \/ RoundWonByDeath(s) PROVE QuietlyGeared
    BY <1>7 DEF RoundTimeout, RoundWonByDeath, RoundEnded, QuietlyGeared
  <1> QED
    BY <1>2, <1>3, <1>4, <1>5, <1>6, <1>7, Zenon DEF Next, Tick

LEMMA KeepsGear ==
    ASSUME ProfileType, [Next]_vars, phase = "StateTimeout"
    PROVE  gear' = gear
  BY ProfileSteps DEF QuietlyGeared, InterroundStep, NextRound, PlayerLoadoutReady

(* Whatever is saved or staged while a round is fought, it is fought to its *)
(* end in the gear it began with.                                           *)
THEOREM GearIsFrozen == Spec => GearFrozenInRound
  <1>1. Init => IKnow
    BY KnowInductive
  <1>2. IKnow /\ [Next]_vars => IKnow'
    BY KnowInductive
  <1>3. IKnow /\ [Next]_vars => [phase = "StateTimeout" => gear' = gear]_vars
    BY KeepsGear DEF IKnow, IInv
  <1> QED
    BY <1>1, <1>2, <1>3, PTL DEF Spec, GearFrozenInRound

(* Every loadout staged before the next round goes live is worn in it.  *)
THEOREM StagedGearIsWorn == Spec => StagedGearMakesTheRound
  <1> DEFINE Worn == phase = "NextState" /\ phase' = "StateTimeout"
                        => \A s \in Slots : /\ staged'[s] = NoOne
                                            /\ staged[s] # NoOne => gear'[s] = staged[s]
  <1>1. Init => IKnow
    BY KnowInductive
  <1>2. IKnow /\ [Next]_vars => IKnow'
    BY KnowInductive
  <1>3. ASSUME IKnow, [Next]_vars, phase = "NextState", phase' = "StateTimeout"
        PROVE  NextRound
    BY <1>3, ProfileSteps DEF QuietlyGeared, InterroundStep, PlayerLoadoutReady, flow, IKnow, IInv
  <1>4. IKnow /\ [Next]_vars => [Worn]_vars
    BY <1>3, NextRoundOpens
  <1> QED
    BY <1>1, <1>2, <1>4, PTL DEF Spec, StagedGearMakesTheRound

(* In one walk a profile is relayed again only for a newly staged loadout   *)
(* or a helmet just hidden or shown.                                        *)
THEOREM RelayedOnce == Spec => RelayedOncePerProfile
  <1> DEFINE Once == \A s \in Slots : relays[s] # 0 /\ relays'[s] \notin {0, relays[s]}
                        => staged[s] # NoOne \/ hide'[s] # hide[s]
  <1>1. Init => IKnow
    BY KnowInductive
  <1>2. IKnow /\ [Next]_vars => IKnow'
    BY KnowInductive
  <1>3. ASSUME IKnow, [Next]_vars, phase = "NextState" PROVE Once
    <2>1. CASE relays' = relays
      BY <2>1
    <2>2. CASE InterroundStep
      <3>1. CASE Entering = "SynchronizingLoadout"
        BY <1>3, <2>2, <3>1, RelayOnceKnown DEF InterroundStep
      <3>2. CASE Entering # "SynchronizingLoadout"
        BY <2>1, <2>2, <3>2 DEF InterroundStep, profile
      <3> QED
        BY <3>1, <3>2
    <2>3. CASE NextRound
      <3>1. SentAgain(LedgerOf(round + 1)) = {}
        BY <1>3, <2>3, NextRoundOpens DEF SentAgain
      <3> QED
        BY <2>3, <3>1 DEF NextRound, Relay
    <2>4. ASSUME NEW s \in Humans, PlayerLoadoutReady(s) PROVE Once
      <3>1. {s} \in SUBSET Slots
        BY HumansAreSlots
      <3> QED
        BY <1>3, <2>4, <3>1, RelayOnceKnown DEF PlayerLoadoutReady
    <2>5. CASE QuietlyGeared
      BY <1>3, <2>5 DEF QuietlyGeared
    <2> HIDE DEF Once
    <2>6. ProfileType
      BY <1>3 DEF IKnow, IInv
    <2> QED
      BY <1>3, <2>2, <2>3, <2>4, <2>5, <2>6, ProfileSteps
  <1>4. IKnow /\ [Next]_vars => [phase = "NextState" => Once]_vars
    BY <1>3
  <1> QED
    BY <1>1, <1>2, <1>4, PTL DEF Spec, RelayedOncePerProfile

(* When a round goes live, each client has been sent its opponent's gear as *)
(* it is, but for a loadout staged after the walk sent the profiles.        *)
THEOREM OpensOnKnownGear == Spec => RoundOpensOnKnownGear
  <1> DEFINE Opens == phase # "StateTimeout" /\ phase' = "StateTimeout"
                        => \A s \in Slots : seen'[s] = <<gear'[s], hide'[s]>> \/ staged[s] # NoOne
  <1>1. Init => IKnow
    BY KnowInductive
  <1>2. IKnow /\ [Next]_vars => IKnow'
    BY KnowInductive
  <1>3. ASSUME IKnow, [Next]_vars, phase # "StateTimeout", phase' = "StateTimeout"
        PROVE  \A s \in Slots : seen'[s] = <<gear'[s], hide'[s]>> \/ staged[s] # NoOne
    <2>1. FirstRound \/ NextRound
      <3> USE DEF flow, result, saving, profile
      <3>1. ~(Elapse \/ SendResult \/ Spawn \/ SpawnActors \/ CreateBackendMatch \/ SetupStep)
        BY <1>3
        DEF Elapse, SendResult, Spawn, SpawnActors, CreateBackendMatch, SetupStep
      <3>2. ~(InterroundStep \/ MatchEndStep \/ Finish \/ UNCHANGED vars)
        BY <1>3 DEF InterroundStep, MatchEndStep, Finish, vars
      <3>3. ASSUME NEW s \in Humans
            PROVE  ~(\/ Ready(s) \/ Concede(s) \/ PlayerLoadoutReady(s) \/ BackendSynchronized(s)
                     \/ SaveLoadout(s) \/ StageLoadout(s))
        BY <1>3
        DEF Ready, Concede, PlayerLoadoutReady, BackendSynchronized, SaveLoadout, StageLoadout
      <3>4. \A s \in Slots : ~(RoundTimeout(s) \/ RoundWonByDeath(s))
        BY <1>3 DEF RoundTimeout, RoundWonByDeath
      <3> QED
        BY <1>3, <3>1, <3>2, <3>3, <3>4, Zenon DEF Next, Tick
    <2>2. CASE FirstRound
      <3>1. UNCHANGED <<gear, hide, seen>> /\ phase = "BackendMatchCreated"
        BY <2>2 DEF FirstRound, profile
      <3>2. \A s \in Slots : Known(s)
        BY <1>3, <3>1 DEF IKnow, Knowing
      <3> QED
        BY <3>1, <3>2 DEF Known
    <2>3. CASE NextRound
      BY <1>3, <2>3, NextRoundOpens DEF Known
    <2> QED
      BY <2>1, <2>2, <2>3
  <1>4. IKnow /\ [Next]_vars => [Opens]_vars
    BY <1>3
  <1> QED
    BY <1>1, <1>2, <1>4, PTL DEF Spec, RoundOpensOnKnownGear
=============================================================================
