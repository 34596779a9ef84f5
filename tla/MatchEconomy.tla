---------------------------- MODULE MatchEconomy ----------------------------
(***************************************************************************)
(* What a finished match pays and records.  The engine queues one outcome   *)
(* per human side (arena/combat/engine.rs); a single writer task takes them *)
(* in order (arena/arena_economy.rs): the reward in one transaction, then   *)
(* the audit row, then the human-vs-human rating of both sides; a periodic  *)
(* task rebuilds every rating from the audit rows (arena/ranking.rs).  Each *)
(* GiftEvery-th fight of an account pays a weapon (arena_fight_gift.rs).    *)
(*                                                                         *)
(* A win is worth one trophy, a loss costs one; a rung of the ladder is one *)
(* trophy.  A rating is kept as the sequence of matches it was computed     *)
(* from.                                                                    *)
(***************************************************************************)
EXTENDS Integers, Sequences, FiniteSets

CONSTANTS
    NumCharacters,
    UserOf,         \* the account of each character
    Pairings,       \* the pairs the matchmaker may make, in the order of the slots
    Quitters,       \* the characters that may concede
    GiftEvery,      \* FIGHTS_PER_WEAPON_GIFT
    MaxMatches,     \* bound: matches opened
    MaxQueue,       \* bound: outcomes waiting for the writer
    MaxFaults       \* bound: failed statements and crashes

Characters == 1..NumCharacters
Matches == 1..MaxMatches
Rungs == 1..MaxMatches

ASSUME EconomyAssumption ==
    /\ NumCharacters \in Nat /\ MaxMatches \in Nat /\ MaxQueue \in Nat /\ MaxFaults \in Nat
    /\ GiftEvery \in Nat \ {0}
    /\ UserOf \in [Characters -> Nat]
    /\ Quitters \subseteq Characters
    /\ Pairings \subseteq {p \in Characters \X Characters : UserOf[p[1]] # UserOf[p[2]]}

Users == {UserOf[c] : c \in Characters}

VARIABLES
    match,     \* each match: its characters, and whose card shows a weapon
    finished,  \* matches in the order they completed (their recorded_at)
    queue,     \* outcomes waiting for the writer
    writer,    \* the writer task
    row,       \* each character's row
    fights,    \* arena_account_fight_counts
    gifts,     \* arena_fight_gifts
    audit,     \* arena_match_results: <<match, character>>
    rating,    \* arena_h2h_ratings
    faults,
    paid       \* history: the rewards that committed, as <<match, character>>

vars == <<match, finished, queue, writer, row, fights, gifts, audit, rating, faults, paid>>

NoMatch == [state |-> "none", pair |-> {}, card |-> {}]
MatchStates == {"none", "running", "finished"}

NewRow == [trophies |-> 0, high |-> 0, rungs |-> [r \in Rungs |-> 0], weapons |-> 0]

WriterSteps == {"idle", "auditing", "rating"}

Outcomes == [m : Matches, c : Characters, win : BOOLEAN, fought : BOOLEAN, card : BOOLEAN]
NoOutcome == [m |-> 0, c |-> 0, win |-> FALSE, fought |-> FALSE, card |-> FALSE]

Init ==
    /\ match = [m \in Matches |-> NoMatch]
    /\ finished = << >>
    /\ queue = << >>
    /\ writer = [pc |-> "idle", o |-> NoOutcome]
    /\ row = [c \in Characters |-> NewRow]
    /\ fights = [u \in Users |-> 0]
    /\ gifts = {}
    /\ audit = {}
    /\ rating = [c \in Characters |-> << >>]
    /\ faults = 0
    /\ paid = {}

(* A statement or a commit fails; which of them is up to the action.        *)
Fault == faults < MaxFaults /\ faults' = faults + 1
NoFault == UNCHANGED faults

(* milestone_reached.                                                       *)
Milestone(n) == n > 0 /\ n % GiftEvery = 0

(* A match is made.  load_loadout reads each account's count: a card shows  *)
(* the weapon if this fight comes next and the count could be read, however *)
(* many fights of the account are still running or unpaid.                  *)
Open(m, a, b) ==
    /\ <<a, b>> \in Pairings
    /\ match[m].state = "none"
    /\ \A n \in Matches : n < m => match[n].state # "none"
    /\ \A n \in Matches : match[n].state = "running" => match[n].pair \cap {a, b} = {}
    /\ \E card \in SUBSET {c \in {a, b} : Milestone(fights[UserOf[c]] + 1)} :
          match' = [match EXCEPT ![m] = [state |-> "running", pair |-> {a, b}, card |-> card]]
    /\ UNCHANGED <<finished, queue, writer, row, fights, gifts, audit, rating, faults, paid>>

OutcomeOf(m, c, winner, quitter) ==
    [m |-> m, c |-> c, win |-> c = winner, fought |-> c # quitter,
     card |-> c \in match[m].card /\ c # quitter]

(* The match ends: both outcomes are queued, in the order of the slots.  A  *)
(* side that conceded has not fought its fight.                             *)
Finish(m, a, b, winner, quitter) ==
    /\ match[m].state = "running"
    /\ Len(queue) + 2 <= MaxQueue
    /\ <<a, b>> \in Pairings
    /\ match[m].pair = {a, b}
    /\ winner \in {a, b}
    /\ quitter \in {0} \cup (Quitters \cap ({a, b} \ {winner}))
    /\ match' = [match EXCEPT ![m].state = "finished"]
    /\ finished' = Append(finished, m)
    /\ queue' = queue \o <<OutcomeOf(m, a, winner, quitter), OutcomeOf(m, b, winner, quitter)>>
    /\ UNCHANGED <<writer, row, fights, gifts, audit, rating, faults, paid>>

NonNegative(n) == IF n < 0 THEN 0 ELSE n
Higher(a, b) == IF a < b THEN b ELSE a

\* Mutant: the ladder pays by the trophies a player had, not the high-water mark.
PromotedByTrophies(r, trophies) ==
    [k \in Rungs |-> r.rungs[k] + (IF r.trophies < k /\ k <= trophies THEN 1 ELSE 0)]

(* tiers_crossed: the rungs between the old high-water mark and the new.    *)
Promoted(r, trophies) ==
    [k \in Rungs |-> r.rungs[k] + (IF r.high < k /\ k <= trophies THEN 1 ELSE 0)]

(* The character row after one outcome; XP, rounds and chests only add up.  *)
Rewarded(r, win) ==
    LET trophies == NonNegative(r.trophies + (IF win THEN 1 ELSE -1))
    IN  [r EXCEPT !.trophies = trophies,
                  !.high = Higher(@, trophies),
                  !.rungs = Promoted(r, trophies)]

\* Mutant: the card's weapon is handed over whatever the count says.
DeliveredAsShown(o, n) == o.card

(* record_finished_fight: the weapon goes straight to the backpack when     *)
(* this fight is the milestone and the card showed it.                      *)
Delivered(o, n) == Milestone(n) /\ o.card

GiftRow(o, n) == [user |-> UserOf[o.c], milestone |-> n, c |-> o.c, granted |-> Delivered(o, n)]

(* The count, the gift and the weapon, in a savepoint of the reward.        *)
Counted(o) ==
    LET u == UserOf[o.c]
        n == fights[u] + 1
    IN  /\ fights' = [fights EXCEPT ![u] = n]
        /\ gifts' = IF Milestone(n) THEN gifts \cup {GiftRow(o, n)} ELSE gifts
        /\ row' = [row EXCEPT ![o.c] =
                      [Rewarded(row[o.c], o.win) EXCEPT
                          !.weapons = @ + (IF Delivered(o, n) THEN 1 ELSE 0)]]

NotCounted(o) ==
    /\ row' = [row EXCEPT ![o.c] = Rewarded(row[o.c], o.win)]
    /\ UNCHANGED <<fights, gifts>>

\* Mutant: the audit row is written with the reward, even if that fails.
AuditAnyway ==
    /\ writer.pc = "idle"
    /\ queue # << >>
    /\ queue' = Tail(queue)
    /\ \/ NotCounted(Head(queue)) /\ paid' = paid \cup {<<Head(queue).m, Head(queue).c>>}
       \/ UNCHANGED <<row, fights, gifts, paid>>
    /\ writer' = [pc |-> "auditing", o |-> Head(queue)]
    /\ UNCHANGED <<match, finished, audit, rating, faults>>

(* Phase 1 of persist for the next outcome.  A failed savepoint loses only  *)
(* the count; a failed reward loses the outcome: it is logged, not retried. *)
PayTx ==
    /\ writer.pc = "idle"
    /\ queue # << >>
    /\ queue' = Tail(queue)
    /\ LET o == Head(queue)
       IN  \/ /\ \/ /\ o.fought
                   /\ Counted(o)
                   /\ NoFault
                \/ /\ ~o.fought
                   /\ NotCounted(o)
                   /\ NoFault
                \/ /\ o.fought
                   /\ NotCounted(o)
                   /\ Fault
             /\ paid' = paid \cup {<<o.m, o.c>>}
             /\ writer' = [pc |-> "auditing", o |-> o]
          \/ /\ Fault
             /\ UNCHANGED <<writer, row, fights, gifts, paid>>
    /\ UNCHANGED <<match, finished, audit, rating>>

(* Only the outcome of the lower character id goes on to rate the pair.     *)
RatesThePair(o) == \A d \in match[o.m].pair : o.c <= d

(* Phase 2: the audit row, in a statement of its own.                       *)
Audit ==
    /\ writer.pc = "auditing"
    /\ \/ /\ audit' = audit \cup {<<writer.o.m, writer.o.c>>}
          /\ writer' = IF RatesThePair(writer.o) THEN [writer EXCEPT !.pc = "rating"]
                                                 ELSE [pc |-> "idle", o |-> NoOutcome]
          /\ NoFault
       \/ /\ Fault
          /\ writer' = [pc |-> "idle", o |-> NoOutcome]
          /\ UNCHANGED audit
    /\ UNCHANGED <<match, finished, queue, row, fights, gifts, rating, paid>>

(* H2H_REPLAY_ROWS_CTE: every match with an audit row of either side, once, *)
(* in the order of recorded_at; seen by one of its characters.              *)
OnRecord(m) == \E c \in Characters : <<m, c>> \in audit
Counting(c) == {i \in DOMAIN finished : OnRecord(finished[i]) /\ c \in match[finished[i]].pair}
Nth(S, k) == CHOOSE i \in S : Cardinality({j \in S : j <= i}) = k
Replay(c) == [k \in 1..Cardinality(Counting(c)) |-> finished[Nth(Counting(c), k)]]

\* Mutant: a match that a reconcile already counted is counted again.
AlwaysIncrement(m) == TRUE

(* h2h_needs_increment: either side's rating counts fewer matches than the  *)
(* audit rows do.                                                           *)
NeedsIncrement(m) == \E c \in match[m].pair : Len(rating[c]) < Len(Replay(c))

(* persist_h2h_rating_pair_locked: both sides or neither.                   *)
Rate ==
    /\ writer.pc = "rating"
    /\ \/ /\ rating' = [c \in Characters |->
                          IF NeedsIncrement(writer.o.m) /\ c \in match[writer.o.m].pair
                          THEN Append(rating[c], writer.o.m) ELSE rating[c]]
          /\ NoFault
       \/ Fault /\ UNCHANGED rating
    /\ writer' = [pc |-> "idle", o |-> NoOutcome]
    /\ UNCHANGED <<match, finished, queue, row, fights, gifts, audit, paid>>

\* Mutant: the reconcile drops a rating it cannot rebuild and stops there.
ReconcileDropping ==
    /\ rating # [c \in Characters |-> << >>]
    /\ rating' = [c \in Characters |-> << >>]
    /\ UNCHANGED <<match, finished, queue, writer, row, fights, gifts, audit, faults, paid>>

(* reconcile_h2h_ratings_with_config, under the same advisory lock.         *)
Reconcile ==
    /\ rating # [c \in Characters |-> Replay(c)]
    /\ rating' = [c \in Characters |-> Replay(c)]
    /\ UNCHANGED <<match, finished, queue, writer, row, fights, gifts, audit, faults, paid>>

(* A pending gift is claimed (global_gift.rs): marked granted if it was     *)
(* not, and handed over, in one transaction.                                *)
Claim(g) ==
    /\ ~g.granted
    /\ gifts' = (gifts \ {g}) \cup {[g EXCEPT !.granted = TRUE]}
    /\ row' = [row EXCEPT ![g.c].weapons = @ + 1]
    /\ UNCHANGED <<match, finished, queue, writer, fights, audit, rating, faults, paid>>

(* The server stops: the queue is memory, and so are the matches.           *)
Crash ==
    /\ Fault
    /\ queue' = << >>
    /\ writer' = [pc |-> "idle", o |-> NoOutcome]
    /\ match' = [m \in Matches |->
                    IF match[m].state = "running" THEN NoMatch ELSE match[m]]
    /\ UNCHANGED <<finished, row, fights, gifts, audit, rating, paid>>

Next ==
    \/ \E m \in Matches, a, b \in Characters :
          \/ Open(m, a, b)
          \/ \E winner \in {a, b}, quitter \in {0, a, b} : Finish(m, a, b, winner, quitter)
    \/ PayTx \/ Audit \/ Rate \/ Reconcile
    \/ \E g \in gifts : Claim(g)
    \/ Crash

Spec == Init /\ [][Next]_vars

(* The reconcile task runs every few minutes for as long as the server      *)
(* does; nothing else has to happen.                                        *)
FairSpec == Spec /\ WF_vars(Reconcile)

----------------------------------------------------------------------------
Rows == [trophies : Nat, high : Nat, rungs : [Rungs -> Nat], weapons : Nat]

TypeOK ==
    /\ match \in [Matches -> [state : MatchStates, pair : SUBSET Characters,
                              card : SUBSET Characters]]
    /\ finished \in Seq(Matches)
    /\ queue \in Seq(Outcomes)
    /\ writer \in [pc : WriterSteps, o : Outcomes \cup {NoOutcome}]
    /\ writer.pc = "idle" <=> writer.o = NoOutcome
    /\ row \in [Characters -> Rows]
    /\ fights \in [Users -> Nat]
    /\ gifts \subseteq [user : Users, milestone : Nat, c : Characters, granted : BOOLEAN]
    /\ audit \subseteq Matches \X Characters
    /\ rating \in [Characters -> Seq(Matches)]
    /\ faults \in 0..MaxFaults
    /\ paid \subseteq Matches \X Characters

(* However the live increment and the reconcile interleave, with updates    *)
(* that fail and audit rows of one side only, no match moves a rating       *)
(* twice, and only a match on record moves one ("One definition so the two *)
(* can never disagree", H2H_REPLAY_ROWS_CTE).                              *)
RatedAtMostOnce ==
    \A c \in Characters : \A i, j \in DOMAIN rating[c] :
        /\ rating[c][i] = rating[c][j] => i = j
        /\ OnRecord(rating[c][i]) /\ c \in match[rating[c][i]].pair

(* "the reward commits on its own, and the audit row is a separate          *)
(* statement afterwards": whatever failed or crashed between, a result pays *)
(* once, no other step moves a trophy, and none is on record, and so on a   *)
(* board, that was not paid.                                                *)
Ledger == INSTANCE ResultLedger
              WITH trophies <- [c \in Characters |-> row[c].trophies], recorded <- audit
ImplementsLedger == Ledger!Spec

GiftsOf(u) == {g \in gifts : g.user = u}
WeaponsOf(u, n) == Cardinality({g \in GiftsOf(u) : g.milestone = n})

(* The account's GiftEvery-th fights pay one weapon each, in the backpack   *)
(* or as a gift to claim, whatever count the cards were made from, with     *)
(* fights of several characters of an account in flight and claims racing   *)
(* the writer.                                                              *)
EveryMilestonePaysOnce ==
    /\ \A u \in Users, n \in 1..(2 * MaxMatches) :
          WeaponsOf(u, n) = IF n <= fights[u] /\ Milestone(n) THEN 1 ELSE 0
    /\ \A c \in Characters :
          row[c].weapons = Cardinality({g \in gifts : g.c = c /\ g.granted})

(* A rung of the ladder pays once: falling back and climbing again, with    *)
(* rewards lost in between, never pays it twice and never skips one.        *)
EveryRungPaysOnce ==
    \A c \in Characters, k \in Rungs : row[c].rungs[k] = IF k <= row[c].high THEN 1 ELSE 0

(* Live increments may be lost or come in another order than recorded_at:   *)
(* in the end every rating is the replay of the record.                     *)
RatingsFollowTheRecord == <>[](rating = [c \in Characters |-> Replay(c)])
=============================================================================
