----------------------------- MODULE MatchFlow -----------------------------
(***************************************************************************)
(* One arena match as the combat engine drives it                          *)
(* (server/src/arena/combat/engine.rs and the round end of resolve.rs):    *)
(* the phases from the first peer to the last goodbye, the walks of match  *)
(* states between them with their holds and Ready presses, the results the *)
(* clients are told, concessions, and the loadouts changed between rounds. *)
(*                                                                         *)
(* Blows are abstracted to who wins the round; time to the marks a tick    *)
(* compares against: 0 is the moment a phase or state was entered, 1 the   *)
(* first deadline inside it, Held the end of its hold.                     *)
(***************************************************************************)
EXTENDS Integers, SequencesExt

CONSTANTS
    Humans,      \* the slots with a real peer: both, or 0 against a bot
    Editors,     \* bound: the humans who change gear between rounds
    MaxSaves,    \* bound: loadouts each of them saves
    NoOne        \* no winner, no loadout, no profile, no result

Slots == {0, 1}
Opponent(s) == 1 - s

(* What an op48 broadcast says: the winners so far, and whether that is all. *)
Results == [rounds : Seq(Slots), ended : BOOLEAN, conceded : BOOLEAN]

ASSUME MatchFlowAssumption ==
    /\ Humans \in {{0}, {0, 1}}
    /\ Editors \subseteq Humans
    /\ MaxSaves \in Nat
    /\ NoOne \notin Nat /\ NoOne \notin Slots /\ NoOne \notin Results

VARIABLES
    phase,          \* MatchCombat.phase
    match_state,    \* the Match object's state as last broadcast
    step,           \* cursor of the running walk
    clock,          \* time since phase_entered, in marks
    ready,          \* skip_state_requested
    round,
    round_winners,
    winner,
    pending,        \* round_end_pending: the result not yet on the wire
    told,           \* the op48 results broadcast so far
    card,           \* the op49 victory cards broadcast so far
    gear,           \* the loadout each fighter fights with
    hide,           \* hide_helmet
    row,            \* the loadout in the character's database row
    inflight,       \* saves committed whose handler has not staged yet
    staged,         \* staged_loadouts
    seen,           \* the profile of each fighter its opponent was last sent
    ledger,         \* interround_profile_round and interround_profiles_sent
    relays          \* history: relays of each profile since the last round ended

flow == <<phase, match_state, step, clock, round>>
result == <<round_winners, winner, pending, told, card>>
profile == <<gear, hide, seen, ledger, relays>>
saving == <<row, inflight, staged>>
vars == <<flow, ready, result, profile, saving>>

Held == 2
NoMark == 0
ResultMark == 1     \* ROUND_RESULT_DELAY after a death
StaggerMark == 1    \* MATCH_SETUP_STAGGER after the spawns

WinsNeeded == 2
RoundCap == 2 * WinsNeeded - 1

SetupWalk == <<"OpponentFoundFeedback", "PreMatch", "OpponentShowcase", "PreRound", "InRound">>

InterroundWalk ==
    <<"ChooseLoadout", "AwaitingClientBackendSynchronization", "SynchronizingLoadout",
      "OpponentShowcase", "PreRound", "InRound">>

MatchEndWalk ==
    <<"BackendMatchEnd", "Victory", "PostMatch", "DisconnectingPlayersAfterMatch">>

Walking == {"BackendMatchCreated", "NextState", "RoundEnd"}

Walk(p) == CASE p = "BackendMatchCreated" -> SetupWalk
             [] p = "NextState" -> InterroundWalk
             [] p = "RoundEnd" -> MatchEndWalk

Phases == Walking \cup {"Connecting", "Spawning", "StateTimeout", "Finished"}

MatchStates ==
    {"Idle", "WaitingForPlayers", "InitialPlayerSetup", "BackendMatchCreation", "PostRound"}
    \cup Range(SetupWalk) \cup Range(InterroundWalk) \cup Range(MatchEndWalk)

Wins(rs, s) == Cardinality({i \in DOMAIN rs : rs[i] = s})

FreshLedger(r) == [round |-> r, sent |-> {}]

Init ==
    /\ phase = "Connecting" /\ match_state = "Idle"
    /\ step = 0 /\ clock = NoMark /\ round = 0
    /\ ready = {}
    /\ round_winners = << >> /\ winner = NoOne
    /\ pending = NoOne /\ told = << >> /\ card = << >>
    /\ gear = [s \in Slots |-> 0] /\ hide = [s \in Slots |-> FALSE]
    /\ seen = [s \in Slots |-> NoOne]
    /\ ledger = FreshLedger(NoOne)
    /\ relays = [s \in Slots |-> 0]
    /\ row = [s \in Slots |-> 0]
    /\ inflight = [s \in Slots |-> {}]
    /\ staged = [s \in Slots |-> NoOne]
-----------------------------------------------------------------------------
(* Time passes up to the next mark the engine compares with.  *)
Elapse ==
    /\ phase \notin {"Connecting", "Finished"}
    /\ clock < Held
    /\ clock' = IF phase = "Spawning" \/ pending # NoOne THEN clock + 1 ELSE Held
    /\ UNCHANGED <<phase, match_state, step, round, ready, result, profile, saving>>

(* op57, the Ready press: latched while a walk runs.  *)
Ready(s) ==
    /\ phase \in Walking
    /\ ready' = ready \cup {s}
    /\ UNCHANGED <<flow, result, profile, saving>>

(* A walk moves on when its hold is over, or when every human pressed Ready; *)
(* only the second uses the presses up.                                      *)
HoldIsOver == clock = Held
EveryoneReady == Humans \subseteq ready
MayAdvance == HoldIsOver \/ EveryoneReady
ReadyAfter == IF HoldIsOver THEN ready ELSE {}
-----------------------------------------------------------------------------
(* A tick begins by sending the pending result once it is due.  *)
ResultDue == pending # NoOne /\ clock >= ResultMark
PendingNow == IF ResultDue THEN NoOne ELSE pending
ToldNow == IF ResultDue THEN Append(told, pending) ELSE told

Flush == pending' = PendingNow /\ told' = ToldNow

(* The tick whose only effect is that result.  *)
SendResult ==
    /\ ResultDue
    /\ ~MayAdvance
    /\ Flush
    /\ UNCHANGED <<flow, ready, round_winners, winner, card, profile, saving>>

(* The walks after a round wait for its result to be on the wire.  *)
\* Mutant: a Ready press skips ahead of the result.
WalkNeverWaits == TRUE

WalkIsFree == PendingNow = NoOne
-----------------------------------------------------------------------------
(* adopt_staged_loadouts, in the walk whose ledger is l: a fighter whose    *)
(* profile l names as sent already is sent again.                           *)
Adopting == {s \in Slots : staged[s] # NoOne}

LedgerOf(r) == IF ledger.round = r THEN ledger ELSE FreshLedger(r)

Adopt ==
    /\ gear' = [s \in Slots |-> IF s \in Adopting THEN staged[s] ELSE gear[s]]
    /\ staged' = [s \in Slots |-> NoOne]
    /\ UNCHANGED <<hide, row, inflight>>

\* Mutant: adopting a loadout relays nothing.
SentAgainNever(l) == {}

SentAgain(l) == Adopting \cap l.sent

(* Relays are counted 0, 1, 2, 1, 2...: enough to tell each from none and   *)
(* from the one before, however often a helmet is hidden and shown.         *)
RelayCounts == 0..2
OneMore(n) == IF n = 1 THEN 2 ELSE 1

(* broadcast_profile_of: the opponents of S are sent their new profiles.  *)
Relay(S) ==
    /\ seen' = [s \in Slots |-> IF s \in S THEN <<gear'[s], hide'[s]>> ELSE seen[s]]
    /\ relays' = [s \in Slots |-> IF s \in S THEN OneMore(relays[s]) ELSE relays[s]]

(* broadcast_interround_profile_once for each of S.  *)
\* Mutant: the two relay paths share no ledger.
RelayAlways(l, S) ==
    /\ ledger' = [l EXCEPT !.sent = l.sent \cup S]
    /\ Relay(S)

RelayOnce(l, S) ==
    LET sending == SentAgain(l) \cup (S \ l.sent)
    IN  /\ ledger' = [l EXCEPT !.sent = l.sent \cup S]
        /\ Relay(sending)

(* POST /loadouts/current commits the row; its handler reads the row back   *)
(* and stages what it read, any time later.                                 *)
SaveLoadout(s) ==
    /\ s \in Editors
    /\ phase # "Finished"
    /\ row[s] < MaxSaves
    /\ row' = [row EXCEPT ![s] = row[s] + 1]
    /\ inflight' = [inflight EXCEPT ![s] = inflight[s] \cup {row[s] + 1}]
    /\ UNCHANGED <<flow, ready, result, profile, staged>>

StageLoadout(s) ==
    /\ phase # "Finished"
    /\ \E committed \in inflight[s] :
        /\ \E read \in committed..row[s] : staged' = [staged EXCEPT ![s] = read]
        /\ inflight' = [inflight EXCEPT ![s] = inflight[s] \ {committed}]
    /\ UNCHANGED <<flow, ready, result, profile, row>>

(* op36: the client committed its choice on the loadout screen.  *)
PlayerLoadoutReady(s) ==
    /\ phase = "NextState"
    /\ Adopt
    /\ RelayOnce(LedgerOf(round), {s})
    /\ UNCHANGED <<flow, ready, result>>

(* op61: the client hid or showed its helmet, in any phase.  *)
BackendSynchronized(s) ==
    /\ s \in Editors
    /\ hide' = [hide EXCEPT ![s] = ~hide[s]]
    /\ ledger' = IF phase = "NextState"
                 THEN [LedgerOf(round) EXCEPT !.sent = LedgerOf(round).sent \cup {s}]
                 ELSE ledger
    /\ UNCHANGED <<flow, ready, result, gear, saving>>
    /\ Relay({s})
-----------------------------------------------------------------------------
(* FlowState::Connecting: every expected peer is in its slot.  *)
Spawn ==
    /\ phase = "Connecting"
    /\ phase' = "Spawning" /\ match_state' = "WaitingForPlayers" /\ clock' = NoMark
    /\ UNCHANGED <<step, round, ready, result, profile, saving>>

(* FlowState::Spawning: the actors and profiles go out at the stagger, the  *)
(* backend match at the end of the hold; a late tick does both.             *)
Stagger == match_state = "WaitingForPlayers" /\ clock >= StaggerMark

SpawnActors ==
    /\ phase = "Spawning"
    /\ Stagger /\ clock < Held
    /\ match_state' = "InitialPlayerSetup"
    /\ UNCHANGED <<phase, step, clock, round, ready, result, gear, hide, ledger, saving>>
    /\ Relay(Slots)

CreateBackendMatch ==
    /\ phase = "Spawning" /\ HoldIsOver
    /\ phase' = "BackendMatchCreated" /\ match_state' = "BackendMatchCreation"
    /\ step' = 0
    /\ clock' = Held    \* the first state of the walk has no hold
    /\ UNCHANGED <<round, ready, result, gear, hide, ledger, saving>>
    /\ Relay(IF Stagger THEN Slots ELSE {})

(* One state of the running walk is entered and broadcast.  *)
Entering == Walk(phase)[step + 1]

Advance ==
    /\ step < Len(Walk(phase))
    /\ MayAdvance
    /\ match_state' = Entering
    /\ ready' = ReadyAfter

SetupStep ==
    /\ phase = "BackendMatchCreated"
    /\ Advance
    /\ step' = step + 1 /\ clock' = NoMark
    /\ UNCHANGED <<phase, round, result, profile, saving>>

(* The tick after InRound was broadcast: round 1 is live.  *)
FirstRound ==
    /\ phase = "BackendMatchCreated"
    /\ step = Len(SetupWalk)
    /\ phase' = "StateTimeout" /\ round' = 1 /\ clock' = NoMark
    /\ UNCHANGED <<match_state, step, ready, result, profile, saving>>

InterroundStep ==
    /\ phase = "NextState"
    /\ WalkIsFree /\ Flush
    /\ Entering # "InRound"
    /\ Advance
    /\ step' = step + 1 /\ clock' = NoMark
    /\ IF Entering = "SynchronizingLoadout"
       THEN Adopt /\ RelayOnce(LedgerOf(round), Slots)
       ELSE UNCHANGED <<profile, saving>>
    /\ UNCHANGED <<phase, round, round_winners, winner, card>>

(* InRound: the round number is bumped, what was staged since is adopted,   *)
(* and the next round is live.                                              *)
\* Mutant: a loadout staged after the profiles went out waits for another round.
NextRoundNoAdopt ==
    /\ phase = "NextState"
    /\ WalkIsFree /\ Flush
    /\ Entering = "InRound"
    /\ Advance
    /\ phase' = "StateTimeout" /\ round' = round + 1 /\ clock' = NoMark /\ step' = step + 1
    /\ UNCHANGED <<round_winners, winner, card, profile, saving>>

NextRound ==
    /\ phase = "NextState"
    /\ WalkIsFree /\ Flush
    /\ Entering = "InRound"
    /\ Advance
    /\ phase' = "StateTimeout" /\ round' = round + 1 /\ clock' = NoMark /\ step' = step + 1
    /\ Adopt
    /\ ledger' = IF Adopting = {} THEN ledger ELSE LedgerOf(round + 1)
    /\ Relay(SentAgain(LedgerOf(round + 1)))
    /\ UNCHANGED <<round_winners, winner, card>>
-----------------------------------------------------------------------------
(* on_round_ended: the round is recorded, and the match either has a winner *)
(* or walks on to the next round.  After a death the result waits for its   *)
(* delay; after a timeout it is sent at once.                               *)
Result(rs, ended, conceded) == [rounds |-> rs, ended |-> ended, conceded |-> conceded]

IsWon(rs) == \E s \in Slots : Wins(rs, s) >= WinsNeeded

\* Mutant: every round of the three is played.
IsOverAtCap(rs) == Len(rs) >= RoundCap

IsOver(rs) == IsWon(rs) \/ Len(rs) >= RoundCap

(* Who wins a match that is over: at the cap, the fighter ahead.  *)
Champion(rs, s) ==
    IF ~IsWon(rs) /\ Wins(rs, Opponent(s)) > Wins(rs, s) THEN Opponent(s) ELSE s

RoundEnded(s, by_death) ==
    LET rs == Append(round_winners, s)
        sent == Result(rs, IsOver(rs), FALSE)
    IN  /\ round_winners' = rs
        /\ winner' = IF IsOver(rs) THEN Champion(rs, s) ELSE winner
        /\ phase' = IF IsOver(rs) THEN "RoundEnd" ELSE "NextState"
        /\ match_state' = "PostRound" /\ step' = 0 /\ clock' = NoMark
        /\ relays' = [f \in Slots |-> 0]
        /\ IF by_death THEN pending' = sent /\ UNCHANGED told
                       ELSE told' = Append(told, sent) /\ UNCHANGED pending
        /\ UNCHANGED <<round, ready, card, gear, hide, seen, ledger, saving>>

(* A blow, a burn or a double knock-out leaves the round to s.  *)
RoundWonByDeath(s) == phase = "StateTimeout" /\ RoundEnded(s, TRUE)

(* The round's 120 s are up; s has more health left, or wins the tie.  *)
\* Mutant: the live round has no deadline.
RoundTimeoutMissing(s) == s \notin Slots /\ RoundEnded(s, FALSE)

RoundTimeout(s) == phase = "StateTimeout" /\ HoldIsOver /\ RoundEnded(s, FALSE)

(* op28, or the peer left: the opponent wins, after the result that was     *)
(* still waiting.                                                           *)
\* Mutant: the concession supersedes the result that was waiting.
ConcedeDropsWaiting(s) ==
    /\ phase \notin {"RoundEnd", "Finished"}
    /\ round_winners' = Append(round_winners, Opponent(s))
    /\ told' = Append(told, Result(round_winners', TRUE, TRUE))
    /\ pending' = NoOne
    /\ winner' = Opponent(s)
    /\ phase' = "RoundEnd" /\ match_state' = "PostRound" /\ step' = 0 /\ clock' = NoMark
    /\ UNCHANGED <<round, ready, card, profile, saving>>

\* Mutant: a concession finishes the match on the spot.
ConcedeFinishes(s) ==
    /\ phase \notin {"RoundEnd", "Finished"}
    /\ round_winners' = Append(round_winners, Opponent(s))
    /\ winner' = Opponent(s)
    /\ phase' = "Finished"
    /\ UNCHANGED <<match_state, step, clock, round, ready, pending, told, card, profile, saving>>

Concede(s) ==
    /\ phase \notin {"RoundEnd", "Finished"}
    /\ LET rs == Append(round_winners, Opponent(s))
           waiting == IF pending = NoOne THEN << >> ELSE <<pending>>
       IN  /\ round_winners' = rs
           /\ told' = told \o waiting \o <<Result(rs, TRUE, TRUE)>>
    /\ pending' = NoOne
    /\ winner' = Opponent(s)
    /\ phase' = "RoundEnd" /\ match_state' = "PostRound" /\ step' = 0 /\ clock' = NoMark
    /\ UNCHANGED <<round, ready, card, profile, saving>>

MatchEndStep ==
    /\ phase = "RoundEnd"
    /\ WalkIsFree /\ Flush
    /\ Advance
    /\ step' = step + 1 /\ clock' = NoMark
    /\ card' = IF Entering = "Victory" THEN Append(card, winner) ELSE card
    /\ UNCHANGED <<phase, round, round_winners, winner, profile, saving>>

Finish ==
    /\ phase = "RoundEnd"
    /\ step = Len(MatchEndWalk)
    /\ phase' = "Finished"
    /\ UNCHANGED <<match_state, step, clock, round, ready, result, profile, saving>>
-----------------------------------------------------------------------------
Tick ==
    \/ SendResult \/ Spawn \/ SpawnActors \/ CreateBackendMatch \/ SetupStep \/ FirstRound
    \/ InterroundStep \/ NextRound \/ MatchEndStep \/ Finish
    \/ \E s \in Slots : RoundTimeout(s)

Next ==
    \/ Elapse
    \/ Tick
    \/ \E s \in Slots : RoundWonByDeath(s)
    \/ \E s \in Humans :
        \/ Ready(s) \/ Concede(s) \/ PlayerLoadoutReady(s) \/ BackendSynchronized(s)
        \/ SaveLoadout(s) \/ StageLoadout(s)

Spec == Init /\ [][Next]_vars

(* Time passes, and enet_host.rs ticks every match on every turn of its loop. *)
Fairness == WF_vars(Elapse) /\ WF_vars(Tick)

FairSpec == Spec /\ Fairness
-----------------------------------------------------------------------------
TypeOK ==
    /\ phase \in Phases /\ match_state \in MatchStates
    /\ step \in 0..Len(InterroundWalk) /\ clock \in NoMark..Held /\ round \in 0..RoundCap
    /\ ready \subseteq Humans
    /\ round_winners \in Seq(Slots) /\ winner \in Slots \cup {NoOne}
    /\ card \in Seq(Slots)
    /\ told \in Seq(Results) /\ pending \in Results \cup {NoOne}
    /\ gear \in [Slots -> 0..MaxSaves] /\ row \in [Slots -> 0..MaxSaves]
    /\ hide \in [Slots -> BOOLEAN]
    /\ seen \in [Slots -> ((0..MaxSaves) \X BOOLEAN) \cup {NoOne}]
    /\ staged \in [Slots -> 0..MaxSaves \cup {NoOne}]
    /\ inflight \in [Slots -> SUBSET (1..MaxSaves)]
    /\ relays \in [Slots -> RelayCounts]
    /\ ledger \in [round : 1..RoundCap \cup {NoOne}, sent : SUBSET Slots]

(* The results the clients are told, with the one still waiting, name every *)
(* decided round once and in order: the n-th lists the first n rounds, and   *)
(* only the last says the match has ended.  A concession inside the delay of *)
(* a death's result must neither lose that result nor overtake it            *)
(* (engine.rs finish_by_concession, resolve.rs flush_round_end).             *)
ResultsAccumulate ==
    LET all == IF pending = NoOne THEN told ELSE Append(told, pending)
    IN  /\ Len(all) = Len(round_winners)
        /\ \A n \in DOMAIN all :
            /\ all[n].rounds = SubSeq(round_winners, 1, n)
            /\ all[n].ended <=> (winner # NoOne /\ n = Len(all))

(* No Ready press, however early it was made, starts the walk after a round *)
(* before that round's result is on the wire (engine.rs 1357-1360).          *)
ResultBeforeTheWalk == pending # NoOne => match_state = "PostRound" /\ step = 0

(* A match ends as a best of three with forfeits does, and a decided match  *)
(* is decided for good: a peer leaving after the end is no second forfeit.  *)
Outcome == INSTANCE MatchOutcome WITH rounds <- round_winners, over <- (phase = "Finished")
ImplementsOutcome == Outcome!Spec

(* Whatever ended the match, both clients get one victory card, naming the  *)
(* winner, before they are disconnected: a concession takes the same walk   *)
(* (engine.rs 970-977).                                                      *)
CardBeforeGoodbye ==
    match_state = "DisconnectingPlayersAfterMatch" \/ phase = "Finished" => card = <<winner>>

(* Gear saved during a round is never worn in that round.  *)
GearFrozenInRound ==
    [][phase = "StateTimeout" => gear' = gear]_vars

(* A loadout staged at any beat before the next round is worn in it, and    *)
(* nothing stays staged for a later one.                                    *)
StagedGearMakesTheRound ==
    [][phase = "NextState" /\ phase' = "StateTimeout"
        => \A s \in Slots : /\ staged'[s] = NoOne
                            /\ staged[s] # NoOne => gear'[s] = staged[s]]_vars

(* In one walk a fighter's profile is relayed again only with something new *)
(* to show, a loadout just adopted or a helmet just hidden or shown: op36,   *)
(* op61 and the SynchronizingLoadout beat all relay it, and one profile      *)
(* rebuilt twice left the opponent stale (engine.rs 472-476).                *)
RelayedOncePerProfile ==
    [][phase = "NextState" =>
        \A s \in Slots : relays[s] # 0 /\ relays'[s] \notin {0, relays[s]}
            => staged[s] # NoOne \/ hide'[s] # hide[s]]_vars

(* A round opens on opponents who know each other's gear, except for what   *)
(* was staged after the profiles went out.                                  *)
RoundOpensOnKnownGear ==
    [][phase # "StateTimeout" /\ phase' = "StateTimeout"
        => \A s \in Slots : seen'[s] = <<gear'[s], hide'[s]>> \/ staged[s] # NoOne]_vars

(* A match whose players are there ends, whatever they do: a round nobody   *)
(* wins ends by its clock (engine.rs 1331-1348).                             *)
MatchEnds == phase = "Spawning" ~> phase = "Finished"
=============================================================================
