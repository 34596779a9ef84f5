------------------------- MODULE MatchEconomyProofs -------------------------
(***************************************************************************)
(* Proofs about MatchEconomy for any characters, accounts, pairings, ladder  *)
(* length, gift period and number of failures: what is on record was paid,  *)
(* a rung pays once, a milestone pays once, a match rates a pair once.      *)
(***************************************************************************)
EXTENDS MatchEconomy, FiniteSetTheorems, TLAPS

Gifts == [user : Users, milestone : Nat, c : Characters, granted : BOOLEAN]

(* The part of the type invariant the three results rest on.                *)
PayTypeOK ==
    /\ queue \in Seq(Outcomes)
    /\ writer \in [pc : WriterSteps, o : Outcomes \cup {NoOutcome}]
    /\ writer.pc # "idle" => writer.o \in Outcomes
    /\ row \in [Characters -> Rows]
    /\ fights \in [Users -> Nat]
    /\ gifts \subseteq Gifts

LEMMA InitPayType == Init => PayTypeOK
<1> SUFFICES ASSUME Init PROVE PayTypeOK
  OBVIOUS
<1>1. NewRow \in Rows
  BY DEF NewRow, Rows
<1>2. row \in [Characters -> Rows]
  BY <1>1 DEF Init
<1> QED BY <1>2 DEF Init, PayTypeOK, WriterSteps

LEMMA RewardedType ==
  ASSUME NEW r \in Rows, NEW win \in BOOLEAN
  PROVE  Rewarded(r, win) \in Rows
<1> DEFINE t == NonNegative(r.trophies + (IF win THEN 1 ELSE -1))
<1>1. t \in Nat
  BY DEF Rows, NonNegative
<1>2. Higher(r.high, t) \in Nat
  BY <1>1 DEF Rows, Higher
<1>3. Promoted(r, t) \in [Rungs -> Nat]
  BY <1>1 DEF Rows, Promoted
<1> HIDE DEF t
<1>4. [r EXCEPT !.trophies = t, !.high = Higher(r.high, t), !.rungs = Promoted(r, t)] \in Rows
  BY <1>1, <1>2, <1>3 DEF Rows
<1> QED BY <1>4 DEF Rewarded, t

LEMMA OutcomeType ==
  ASSUME NEW m \in Matches, NEW c \in Characters, NEW w, NEW q
  PROVE  OutcomeOf(m, c, w, q) \in Outcomes
BY DEF OutcomeOf, Outcomes

(* The three ways a reward transaction ends.                                *)
LEMMA CountedType ==
  ASSUME PayTypeOK, NEW o \in Outcomes, Counted(o)
  PROVE  row' \in [Characters -> Rows] /\ fights' \in [Users -> Nat] /\ gifts' \subseteq Gifts
<1> DEFINE u == UserOf[o.c]
           n == fights[u] + 1
           R == Rewarded(row[o.c], o.win)
<1>1. o.c \in Characters /\ u \in Users /\ n \in Nat
  BY EconomyAssumption DEF PayTypeOK, Outcomes, Users
<1>2. R \in Rows
  BY <1>1, RewardedType DEF PayTypeOK, Outcomes
<1>3. GiftRow(o, n) \in Gifts
  BY <1>1 DEF GiftRow, Gifts, Delivered, Milestone, Outcomes
<1>4. [R EXCEPT !.weapons = R.weapons + (IF Delivered(o, n) THEN 1 ELSE 0)] \in Rows
  <2> HIDE DEF R
  <2> DEFINE x == IF Delivered(o, n) THEN 1 ELSE 0
  <2>1. x \in Nat
    OBVIOUS
  <2> HIDE DEF x
  <2>2. [R EXCEPT !.weapons = R.weapons + x] \in Rows
    BY <1>2, <2>1 DEF Rows
  <2> QED BY <2>2 DEF x
<1>5. row' \in [Characters -> Rows]
  BY <1>4 DEF Counted, PayTypeOK
<1>6. fights' \in [Users -> Nat]
  BY <1>1 DEF Counted, PayTypeOK
<1>7. gifts' \subseteq Gifts
  BY <1>3 DEF Counted, PayTypeOK
<1> QED BY <1>5, <1>6, <1>7

LEMMA NotCountedType ==
  ASSUME PayTypeOK, NEW o \in Outcomes, NotCounted(o)
  PROVE  row' \in [Characters -> Rows] /\ fights' \in [Users -> Nat] /\ gifts' \subseteq Gifts
<1>1. o.c \in Characters /\ o.win \in BOOLEAN
  BY DEF Outcomes
<1>2. Rewarded(row[o.c], o.win) \in Rows
  BY <1>1, RewardedType DEF PayTypeOK
<1> QED BY <1>1, <1>2 DEF NotCounted, PayTypeOK

LEMMA PayTypeStep == PayTypeOK /\ [Next]_vars => PayTypeOK'
<1> SUFFICES ASSUME PayTypeOK, [Next]_vars PROVE PayTypeOK'
  OBVIOUS
<1>1. ASSUME NEW m \in Matches, NEW a \in Characters, NEW b \in Characters, Open(m, a, b)
      PROVE  PayTypeOK'
  BY <1>1 DEF Open, PayTypeOK
<1>2. ASSUME NEW m \in Matches, NEW a \in Characters, NEW b \in Characters,
             NEW w \in {a, b}, NEW q \in {0, a, b}, Finish(m, a, b, w, q)
      PROVE  PayTypeOK'
  <2>1. OutcomeOf(m, a, w, q) \in Outcomes /\ OutcomeOf(m, b, w, q) \in Outcomes
    BY OutcomeType
  <2>2. queue' \in Seq(Outcomes)
    BY <1>2, <2>1 DEF Finish, PayTypeOK
  <2> QED BY <1>2, <2>2 DEF Finish, PayTypeOK
<1>3. CASE PayTx
  <2> DEFINE o == Head(queue)
  <2>1. o \in Outcomes /\ queue' \in Seq(Outcomes)
    BY <1>3 DEF PayTx, PayTypeOK
  <2>2. CASE Counted(o) /\ writer' = [pc |-> "auditing", o |-> o]
    BY <2>1, <2>2, CountedType DEF PayTypeOK, WriterSteps
  <2>3. CASE NotCounted(o) /\ writer' = [pc |-> "auditing", o |-> o]
    BY <2>1, <2>3, NotCountedType DEF PayTypeOK, WriterSteps
  <2>4. CASE UNCHANGED <<writer, row, fights, gifts, paid>>
    BY <2>1, <2>4 DEF PayTypeOK
  <2> QED BY <1>3, <2>2, <2>3, <2>4 DEF PayTx
<1>4. CASE Audit
  BY <1>4 DEF Audit, PayTypeOK, WriterSteps
<1>5. CASE Rate
  BY <1>5 DEF Rate, PayTypeOK, WriterSteps
<1>6. CASE Reconcile
  BY <1>6 DEF Reconcile, PayTypeOK
<1>7. ASSUME NEW g \in gifts, Claim(g) PROVE PayTypeOK'
  <2>1. g \in Gifts /\ g.c \in Characters
    BY DEF PayTypeOK, Gifts
  <2>2. [g EXCEPT !.granted = TRUE] \in Gifts
    BY <2>1 DEF Gifts
  <2>3. gifts' \subseteq Gifts
    BY <1>7, <2>2 DEF Claim, PayTypeOK
  <2>4. row[g.c] \in Rows
    BY <2>1 DEF PayTypeOK
  <2>5. [row[g.c] EXCEPT !.weapons = row[g.c].weapons + 1] \in Rows
    BY <2>4 DEF Rows
  <2>6. row' = [row EXCEPT ![g.c] = [row[g.c] EXCEPT !.weapons = row[g.c].weapons + 1]]
    BY <1>7 DEF Claim
  <2>7. row' \in [Characters -> Rows]
    BY <2>1, <2>5, <2>6 DEF PayTypeOK
  <2> QED BY <1>7, <2>3, <2>7 DEF Claim, PayTypeOK
<1>8. CASE Crash
  BY <1>8 DEF Crash, PayTypeOK, WriterSteps
<1>9. CASE UNCHANGED vars
  BY <1>9 DEF vars, PayTypeOK
<1> QED BY <1>1, <1>2, <1>3, <1>4, <1>5, <1>6, <1>7, <1>8, <1>9 DEF Next

----------------------------------------------------------------------------
(* The rest of the type invariant.                                          *)
RestTypeOK ==
    /\ match \in [Matches -> [state : MatchStates, pair : SUBSET Characters,
                              card : SUBSET Characters]]
    /\ finished \in Seq(Matches)
    /\ writer.pc = "idle" => writer.o = NoOutcome
    /\ audit \subseteq Matches \X Characters
    /\ rating \in [Characters -> Seq(Matches)]
    /\ faults \in 0..MaxFaults
    /\ paid \subseteq Matches \X Characters

(* The replay: the matches on record, once each, in the order they ended.   *)

(* Of a set of n numbers there is a k-th smallest one for every k in 1..n.  *)
LEMMA NthOfASet ==
  ASSUME NEW S \in SUBSET Nat, IsFiniteSet(S), NEW k \in 1..Cardinality(S)
  PROVE  Nth(S, k) \in S /\ Cardinality({j \in S : j <= Nth(S, k)}) = k
<1> DEFINE Below(i) == {j \in S : j <= i}
           n == Cardinality(S)
           f == [i \in S |-> Cardinality(Below(i))]
<1>1. n \in Nat /\ IsFiniteSet(1..n) /\ Cardinality(1..n) = n
  BY FS_CardinalityType, FS_Interval
<1>2. ASSUME NEW i \in S
      PROVE  IsFiniteSet(Below(i)) /\ Cardinality(Below(i)) \in 1..n
  <2>1. IsFiniteSet(Below(i)) /\ Cardinality(Below(i)) <= n
    BY FS_Subset
  <2>2. i \in Below(i)
    OBVIOUS
  <2>3. Cardinality(Below(i)) \in Nat /\ Cardinality(Below(i)) # 0
    BY <2>1, <2>2, FS_CardinalityType, FS_EmptySet
  <2> QED BY <1>1, <2>1, <2>3
<1>3. ASSUME NEW i \in S, NEW j \in S, i < j
      PROVE  Cardinality(Below(i)) # Cardinality(Below(j))
  <2>1. \A x \in S : x \in Nat
    OBVIOUS
  <2>2. Below(i) \in SUBSET Below(j)
    <3>1. \A x \in S : x <= i => x <= j
      BY <1>3, <2>1
    <3> QED BY <3>1
  <2>3. j \in Below(j) /\ j \notin Below(i)
    BY <1>3, <2>1
  <2>4. Below(i) # Below(j)
    BY <2>3
  <2> HIDE DEF Below
  <2> QED BY <1>2, <2>2, <2>4, FS_Subset
<1>4. f \in [S -> 1..n]
  BY <1>2
<1>5. \A i, j \in S : f[i] = f[j] => i = j
  BY <1>3
<1>6. f \in Injection(S, 1..n)
  BY <1>4, <1>5 DEF Injection, IsInjective
<1> HIDE DEF f
<1>7. f \in Surjection(S, 1..n)
  BY <1>1, <1>6, FS_Injection
<1>8. PICK i \in S : f[i] = k
  BY <1>7 DEF Surjection
<1>9. Cardinality({j \in S : j <= i}) = k
  BY <1>8 DEF f
<1> QED BY <1>9 DEF Nth

LEMMA CountingIsFinite ==
  ASSUME RestTypeOK, NEW c \in Characters
  PROVE  /\ IsFiniteSet(Counting(c)) /\ Counting(c) \in SUBSET Nat
         /\ Cardinality(Counting(c)) \in Nat
<1>1. DOMAIN finished = 1..Len(finished) /\ Len(finished) \in Nat
  BY DEF RestTypeOK
<1>2. IsFiniteSet(1..Len(finished))
  BY <1>1, FS_Interval
<1>3. Counting(c) \in SUBSET (1..Len(finished))
  BY <1>1 DEF Counting
<1> QED BY <1>2, <1>3, FS_Subset, FS_CardinalityType

(* A replay lists matches on record of its character; none of them twice,   *)
(* for a match ends once.                                                   *)
LEMMA ReplayOnce ==
  ASSUME RestTypeOK, NEW c \in Characters
  PROVE  /\ Replay(c) \in Seq(Matches)
         /\ \A i \in DOMAIN Replay(c) :
                OnRecord(Replay(c)[i]) /\ c \in match[Replay(c)[i]].pair
         /\ (\A i, j \in DOMAIN finished : finished[i] = finished[j] => i = j)
             => \A i, j \in DOMAIN Replay(c) : Replay(c)[i] = Replay(c)[j] => i = j
<1> DEFINE S == Counting(c)
           n == Cardinality(S)
<1>1. IsFiniteSet(S) /\ S \in SUBSET Nat /\ n \in Nat
  BY CountingIsFinite
<1>2. \A i \in S : /\ i \in DOMAIN finished /\ finished[i] \in Matches
                   /\ OnRecord(finished[i]) /\ c \in match[finished[i]].pair
  BY DEF RestTypeOK, Counting
<1>3. Replay(c) = [k \in 1..n |-> finished[Nth(S, k)]]
  BY DEF Replay
<1> HIDE DEF S
<1>4. \A k \in 1..n : Nth(S, k) \in S /\ Cardinality({j \in S : j <= Nth(S, k)}) = k
  BY <1>1, NthOfASet
<1>5. \A k, l \in 1..n : Nth(S, k) = Nth(S, l) => k = l
  BY <1>4
<1> HIDE DEF n
<1>6. DOMAIN Replay(c) = 1..n /\ \A k \in 1..n : Replay(c)[k] = finished[Nth(S, k)]
  BY <1>3
<1>7. Replay(c) \in Seq(Matches)
  <2>1. Replay(c) \in [1..n -> Matches]
    BY <1>2, <1>3, <1>4
  <2> QED BY <1>1, <2>1
<1>8. \A i \in DOMAIN Replay(c) : OnRecord(Replay(c)[i]) /\ c \in match[Replay(c)[i]].pair
  BY <1>2, <1>4, <1>6
<1>9. (\A i, j \in DOMAIN finished : finished[i] = finished[j] => i = j)
       => \A i, j \in DOMAIN Replay(c) : Replay(c)[i] = Replay(c)[j] => i = j
  BY <1>2, <1>4, <1>5, <1>6
<1> QED BY <1>7, <1>8, <1>9

LEMMA InitTypes == Init => PayTypeOK /\ RestTypeOK
<1>1. NoMatch \in [state : MatchStates, pair : SUBSET Characters, card : SUBSET Characters]
  BY DEF NoMatch, MatchStates
<1> QED BY <1>1, InitPayType, EconomyAssumption DEF Init, RestTypeOK

LEMMA RestTypeStep == PayTypeOK /\ RestTypeOK /\ [Next]_vars => RestTypeOK'
<1> SUFFICES ASSUME PayTypeOK, RestTypeOK, [Next]_vars PROVE RestTypeOK'
  OBVIOUS
<1>0. (Fault \/ NoFault) => faults' \in 0..MaxFaults
  BY EconomyAssumption DEF Fault, NoFault, RestTypeOK
<1>1. ASSUME NEW m \in Matches, NEW a \in Characters, NEW b \in Characters, Open(m, a, b)
      PROVE  RestTypeOK'
  <2>1. PICK card \in SUBSET {a, b} :
            match' = [match EXCEPT ![m] = [state |-> "running", pair |-> {a, b}, card |-> card]]
    BY <1>1 DEF Open
  <2>2. match' \in [Matches -> [state : MatchStates, pair : SUBSET Characters,
                               card : SUBSET Characters]]
    BY <2>1 DEF RestTypeOK, MatchStates
  <2> QED BY <1>1, <2>2 DEF Open, RestTypeOK
<1>2. ASSUME NEW m \in Matches, NEW a \in Characters, NEW b \in Characters,
             NEW w \in {a, b}, NEW q \in {0, a, b}, Finish(m, a, b, w, q)
      PROVE  RestTypeOK'
  <2>1. match' = [match EXCEPT ![m].state = "finished"] /\ finished' = Append(finished, m)
    BY <1>2 DEF Finish
  <2>2. match' \in [Matches -> [state : MatchStates, pair : SUBSET Characters,
                               card : SUBSET Characters]]
    BY <2>1 DEF RestTypeOK, MatchStates
  <2>3. finished' \in Seq(Matches)
    BY <2>1 DEF RestTypeOK
  <2>4. UNCHANGED <<writer, audit, rating, faults, paid>>
    BY <1>2 DEF Finish
  <2>5. /\ writer'.pc = "idle" => writer'.o = NoOutcome
        /\ audit' \subseteq Matches \X Characters
        /\ rating' \in [Characters -> Seq(Matches)]
        /\ faults' \in 0..MaxFaults
        /\ paid' \subseteq Matches \X Characters
    BY <2>4 DEF RestTypeOK
  <2> QED BY <2>2, <2>3, <2>5 DEF RestTypeOK
<1>3. CASE PayTx
  <2>0. Head(queue) \in Outcomes
    BY <1>3 DEF PayTx, PayTypeOK
  <2>1. Head(queue).m \in Matches /\ Head(queue).c \in Characters
    BY <2>0 DEF Outcomes
  <2>2. paid' \subseteq Matches \X Characters
    BY <1>3, <2>1 DEF PayTx, RestTypeOK
  <2>3. faults' \in 0..MaxFaults
    BY <1>0, <1>3 DEF PayTx
  <2>4. writer'.pc = "idle" => writer'.o = NoOutcome
    BY <1>3 DEF PayTx, RestTypeOK
  <2> QED BY <1>3, <2>2, <2>3, <2>4 DEF PayTx, RestTypeOK
<1>4. CASE Audit
  <2>1. writer.o.m \in Matches /\ writer.o.c \in Characters
    BY <1>4 DEF Audit, PayTypeOK, Outcomes
  <2>2. audit' \subseteq Matches \X Characters
    BY <1>4, <2>1 DEF Audit, RestTypeOK
  <2>3. faults' \in 0..MaxFaults
    BY <1>0, <1>4 DEF Audit
  <2>4. writer'.pc = "idle" => writer'.o = NoOutcome
    BY <1>4 DEF Audit, PayTypeOK
  <2> QED BY <1>4, <2>2, <2>3, <2>4 DEF Audit, RestTypeOK
<1>5. CASE Rate
  <2>1. faults' \in 0..MaxFaults
    BY <1>0, <1>5 DEF Rate
  <2>2. writer.o.m \in Matches
    BY <1>5 DEF Rate, PayTypeOK, Outcomes
  <2>3. \A c \in Characters : rating[c] \in Seq(Matches)
                             /\ Append(rating[c], writer.o.m) \in Seq(Matches)
    BY <2>2 DEF RestTypeOK
  <2>4. rating' \in [Characters -> Seq(Matches)]
    BY <1>5, <2>3 DEF Rate, RestTypeOK
  <2> QED BY <1>5, <2>1, <2>4 DEF Rate, RestTypeOK
<1>6. CASE Reconcile
  <2>1. \A c \in Characters : Replay(c) \in Seq(Matches)
    BY ReplayOnce
  <2>2. rating' \in [Characters -> Seq(Matches)]
    BY <1>6, <2>1 DEF Reconcile
  <2> QED BY <1>6, <2>2 DEF Reconcile, RestTypeOK
<1>7. ASSUME NEW g \in gifts, Claim(g) PROVE RestTypeOK'
  BY <1>7 DEF Claim, RestTypeOK
<1>8. CASE Crash
  <2>1. NoMatch \in [state : MatchStates, pair : SUBSET Characters, card : SUBSET Characters]
    BY DEF NoMatch, MatchStates
  <2>2. match' = [m \in Matches |-> IF match[m].state = "running" THEN NoMatch ELSE match[m]]
    BY <1>8 DEF Crash
  <2>3. match' \in [Matches -> [state : MatchStates, pair : SUBSET Characters,
                               card : SUBSET Characters]]
    BY <2>1, <2>2 DEF RestTypeOK
  <2> QED BY <1>0, <1>8, <2>3 DEF Crash, RestTypeOK
<1>9. CASE UNCHANGED vars
  BY <1>9 DEF vars, RestTypeOK
<1> QED BY <1>1, <1>2, <1>3, <1>4, <1>5, <1>6, <1>7, <1>8, <1>9 DEF Next

(* Matches, outcomes, rows, counts, gifts and the record keep their types,  *)
(* and the writer holds an outcome exactly while it is at one.              *)
THEOREM TypeCorrect == Spec => []TypeOK
<1>1. Init => PayTypeOK /\ RestTypeOK
  BY InitTypes
<1>2. PayTypeOK /\ RestTypeOK /\ [Next]_vars => PayTypeOK' /\ RestTypeOK'
  BY PayTypeStep, RestTypeStep
<1>3. PayTypeOK /\ RestTypeOK => TypeOK
  <2>1. NoOutcome \notin Outcomes
    BY EconomyAssumption DEF NoOutcome, Outcomes, Matches
  <2> QED BY <2>1 DEF PayTypeOK, RestTypeOK, TypeOK, Gifts
<1> QED BY <1>1, <1>2, <1>3, PTL DEF Spec

----------------------------------------------------------------------------
(* No result is on record that was not paid.                                *)
OnRecordWasPaid == audit \subseteq paid

(* The outcome the writer is at was paid before it goes any further.        *)
PaidFirst ==
    /\ writer.pc # "idle" => <<writer.o.m, writer.o.c>> \in paid
    /\ OnRecordWasPaid

LEMMA PaidFirstStep == PayTypeOK /\ PaidFirst /\ [Next]_vars => PaidFirst'
<1> SUFFICES ASSUME PayTypeOK, PaidFirst, [Next]_vars PROVE PaidFirst'
  OBVIOUS
<1> USE DEF PaidFirst, OnRecordWasPaid
<1>1. ASSUME NEW m \in Matches, NEW a \in Characters, NEW b \in Characters, Open(m, a, b)
      PROVE  PaidFirst'
  BY <1>1 DEF Open
<1>2. ASSUME NEW m \in Matches, NEW a \in Characters, NEW b \in Characters,
             NEW w \in {a, b}, NEW q \in {0, a, b}, Finish(m, a, b, w, q)
      PROVE  PaidFirst'
  BY <1>2 DEF Finish
<1>3. CASE PayTx
  BY <1>3 DEF PayTx, PayTypeOK
<1>4. CASE Audit
  <2>1. audit' \subseteq paid
    BY <1>4 DEF Audit
  <2>2. writer' = [writer EXCEPT !.pc = "rating"] \/ writer'.pc = "idle"
    BY <1>4 DEF Audit
  <2>3. writer'.pc # "idle" => writer'.o = writer.o /\ writer.pc # "idle"
    BY <1>4, <2>2 DEF Audit, PayTypeOK
  <2> QED BY <1>4, <2>1, <2>3 DEF Audit
<1>5. CASE Rate
  BY <1>5 DEF Rate, PayTypeOK
<1>6. CASE Reconcile
  BY <1>6 DEF Reconcile
<1>7. ASSUME NEW g \in gifts, Claim(g) PROVE PaidFirst'
  BY <1>7 DEF Claim
<1>8. CASE Crash
  BY <1>8 DEF Crash, PayTypeOK
<1>9. CASE UNCHANGED vars
  BY <1>9 DEF vars
<1> QED BY <1>1, <1>2, <1>3, <1>4, <1>5, <1>6, <1>7, <1>8, <1>9 DEF Next

LEMMA InitPaidFirst == Init => PaidFirst
  BY DEF Init, PaidFirst, OnRecordWasPaid

(* Whatever fails or crashes between the two commits, a result on record    *)
(* was paid.                                                                *)
THEOREM PaidBeforeRecord == Spec => []OnRecordWasPaid
<1>1. Init => PayTypeOK /\ PaidFirst
  BY InitPayType, InitPaidFirst
<1>2. PayTypeOK /\ PaidFirst /\ [Next]_vars => PayTypeOK' /\ PaidFirst'
  BY PayTypeStep, PaidFirstStep
<1>3. PaidFirst => OnRecordWasPaid
  BY DEF PaidFirst
<1> QED BY <1>1, <1>2, <1>3, PTL DEF Spec

----------------------------------------------------------------------------
RungsOf(r) == \A k \in Rungs : r.rungs[k] = IF k <= r.high THEN 1 ELSE 0

LEMMA RewardedRungs ==
  ASSUME NEW r \in Rows, NEW win \in BOOLEAN, RungsOf(r)
  PROVE  RungsOf(Rewarded(r, win))
<1> DEFINE t == NonNegative(r.trophies + (IF win THEN 1 ELSE -1))
           h == Higher(r.high, t)
<1>1. t \in Nat /\ r.high \in Nat
  BY DEF Rows, NonNegative
<1>2. Rewarded(r, win).rungs = Promoted(r, t) /\ Rewarded(r, win).high = h
  BY DEF Rewarded, Rows
<1> HIDE DEF t
<1>3. ASSUME NEW k \in Rungs PROVE Promoted(r, t)[k] = IF k <= h THEN 1 ELSE 0
  <2>1. k \in Nat
    BY EconomyAssumption DEF Rungs
  <2>2. Promoted(r, t)[k] = r.rungs[k] + (IF r.high < k /\ k <= t THEN 1 ELSE 0)
    BY DEF Promoted
  <2> QED BY <1>1, <2>1, <2>2 DEF RungsOf, Higher
<1> HIDE DEF h
<1> QED BY <1>2, <1>3 DEF RungsOf

(* One step of the writer keeps the rungs of every row.                     *)
LEMMA RungsStep == PayTypeOK /\ EveryRungPaysOnce /\ [Next]_vars => EveryRungPaysOnce'
<1> SUFFICES ASSUME PayTypeOK, EveryRungPaysOnce, [Next]_vars PROVE EveryRungPaysOnce'
  OBVIOUS
<1>1. \A c \in Characters : row[c] \in Rows /\ RungsOf(row[c])
  BY DEF PayTypeOK, EveryRungPaysOnce, RungsOf
<1>2. ASSUME \A c \in Characters : RungsOf(row'[c]) PROVE EveryRungPaysOnce'
  BY <1>2 DEF EveryRungPaysOnce, RungsOf
<1>3. CASE UNCHANGED row
  BY <1>3 DEF EveryRungPaysOnce
<1>4. ASSUME NEW o \in Outcomes, NEW x \in Nat,
             row' = [row EXCEPT ![o.c] = [Rewarded(row[o.c], o.win) EXCEPT !.weapons = x]]
      PROVE  EveryRungPaysOnce'
  <2>1. o.c \in Characters /\ o.win \in BOOLEAN
    BY DEF Outcomes
  <2> DEFINE R == Rewarded(row[o.c], o.win)
  <2>2. RungsOf(R) /\ R \in Rows
    BY <1>1, <2>1, RewardedRungs, RewardedType
  <2> HIDE DEF R
  <2>3. [R EXCEPT !.weapons = x].rungs = R.rungs /\ [R EXCEPT !.weapons = x].high = R.high
    BY <2>2 DEF Rows
  <2>4. RungsOf([R EXCEPT !.weapons = x])
    BY <2>2, <2>3 DEF RungsOf
  <2>5. row' = [row EXCEPT ![o.c] = [R EXCEPT !.weapons = x]]
    BY <1>4 DEF R
  <2> QED BY <1>1, <1>2, <2>1, <2>4, <2>5 DEF PayTypeOK
<1>5. ASSUME NEW o \in Outcomes, Counted(o) PROVE EveryRungPaysOnce'
  <2> DEFINE n == fights[UserOf[o.c]] + 1
             R == Rewarded(row[o.c], o.win)
             x == R.weapons + (IF Delivered(o, n) THEN 1 ELSE 0)
  <2>1. R \in Rows
    BY <1>1, RewardedType DEF Outcomes
  <2>2. x \in Nat
    <3> HIDE DEF R
    <3> QED BY <2>1 DEF Rows
  <2>3. row' = [row EXCEPT ![o.c] = [Rewarded(row[o.c], o.win) EXCEPT !.weapons = x]]
    BY <1>5 DEF Counted
  <2> HIDE DEF x
  <2> QED BY <1>4, <2>2, <2>3
<1>6. ASSUME NEW o \in Outcomes, NotCounted(o) PROVE EveryRungPaysOnce'
  <2>1. o.c \in Characters /\ o.win \in BOOLEAN
    BY DEF Outcomes
  <2>2. RungsOf(Rewarded(row[o.c], o.win))
    BY <1>1, <2>1, RewardedRungs
  <2> QED BY <1>1, <1>2, <1>6, <2>1, <2>2 DEF NotCounted, PayTypeOK
<1>7. CASE PayTx
  <2>1. Head(queue) \in Outcomes
    BY <1>7 DEF PayTx, PayTypeOK
  <2> QED BY <1>3, <1>5, <1>6, <1>7, <2>1 DEF PayTx
<1>8. ASSUME NEW g \in gifts, Claim(g) PROVE EveryRungPaysOnce'
  <2>1. g.c \in Characters
    BY DEF PayTypeOK, Gifts
  <2>2. RungsOf([row[g.c] EXCEPT !.weapons = row[g.c].weapons + 1])
    BY <1>1, <2>1 DEF RungsOf, Rows
  <2>3. row' = [row EXCEPT ![g.c] = [row[g.c] EXCEPT !.weapons = row[g.c].weapons + 1]]
    BY <1>8 DEF Claim
  <2> QED BY <1>1, <1>2, <2>1, <2>2, <2>3 DEF PayTypeOK
<1>9. ASSUME NEW m \in Matches, NEW a \in Characters, NEW b \in Characters, Open(m, a, b)
      PROVE  UNCHANGED row
  BY <1>9 DEF Open
<1>10. ASSUME NEW m \in Matches, NEW a \in Characters, NEW b \in Characters,
              NEW w \in {a, b}, NEW q \in {0, a, b}, Finish(m, a, b, w, q)
       PROVE  UNCHANGED row
  BY <1>10 DEF Finish
<1>11. CASE Audit \/ Rate \/ Reconcile \/ Crash \/ UNCHANGED vars
  BY <1>3, <1>11 DEF Audit, Rate, Reconcile, Crash, vars
<1> QED BY <1>3, <1>7, <1>8, <1>9, <1>10, <1>11 DEF Next

(* No sequence of wins, losses and lost rewards pays a rung of the ladder   *)
(* twice or climbs past one unpaid.                                         *)
THEOREM RungsPayOnce == Spec => []EveryRungPaysOnce
<1>1. Init => PayTypeOK /\ EveryRungPaysOnce
  BY InitPayType, EconomyAssumption DEF Init, EveryRungPaysOnce, NewRow, Rungs
<1>2. PayTypeOK /\ EveryRungPaysOnce /\ [Next]_vars => PayTypeOK' /\ EveryRungPaysOnce'
  BY PayTypeStep, RungsStep
<1> QED BY <1>1, <1>2, PTL DEF Spec

----------------------------------------------------------------------------
Handed(c, S) == {g \in S : g.c = c /\ g.granted}

(* The gifts on file are those of the milestones passed, one each, and a    *)
(* character's weapons are the gifts handed to it.                          *)
GiftsMatchFights ==
    /\ IsFiniteSet(gifts)
    /\ \A g \in gifts : g.milestone <= fights[g.user] /\ Milestone(g.milestone)
    /\ \A g, h \in gifts : g.user = h.user /\ g.milestone = h.milestone => g = h
    /\ \A u \in Users, n \in Nat : n <= fights[u] /\ Milestone(n) =>
          \E g \in gifts : g.user = u /\ g.milestone = n
    /\ \A c \in Characters : row[c].weapons = Cardinality(Handed(c, gifts))

LEMMA MilestonesFromGifts == PayTypeOK /\ GiftsMatchFights => EveryMilestonePaysOnce
<1> SUFFICES ASSUME PayTypeOK, GiftsMatchFights PROVE EveryMilestonePaysOnce
  OBVIOUS
<1>1. ASSUME NEW u \in Users, NEW n \in 1..(2 * MaxMatches)
      PROVE  WeaponsOf(u, n) = IF n <= fights[u] /\ Milestone(n) THEN 1 ELSE 0
  <2> DEFINE G == {g \in GiftsOf(u) : g.milestone = n}
  <2>1. n \in Nat
    BY EconomyAssumption
  <2>2. CASE n <= fights[u] /\ Milestone(n)
    <3>1. PICK g \in gifts : g.user = u /\ g.milestone = n
      BY <2>1, <2>2 DEF GiftsMatchFights
    <3>2. G = {g}
      BY <3>1 DEF GiftsMatchFights, GiftsOf
    <3> QED BY <2>2, <3>2, FS_Singleton DEF WeaponsOf
  <2>3. CASE ~(n <= fights[u] /\ Milestone(n))
    <3>1. G = {}
      BY <2>3 DEF GiftsMatchFights, GiftsOf
    <3> QED BY <2>3, <3>1, FS_EmptySet DEF WeaponsOf
  <2> QED BY <2>2, <2>3
<1>2. \A c \in Characters :
          row[c].weapons = Cardinality({g \in gifts : g.c = c /\ g.granted})
  BY DEF GiftsMatchFights, Handed
<1> QED BY <1>1, <1>2 DEF EveryMilestonePaysOnce

LEMMA RewardedWeapons ==
  ASSUME NEW r \in Rows, NEW win \in BOOLEAN
  PROVE  Rewarded(r, win).weapons = r.weapons
BY DEF Rewarded, Rows

(* A fight counted: its gift, if the count is a milestone, is a new one.    *)
LEMMA CountedGifts ==
  ASSUME PayTypeOK, GiftsMatchFights, NEW o \in Outcomes, Counted(o)
  PROVE  GiftsMatchFights'
<1> DEFINE u == UserOf[o.c]
           n == fights[u] + 1
           g == GiftRow(o, n)
           R == Rewarded(row[o.c], o.win)
<1>1. o.c \in Characters /\ u \in Users /\ n \in Nat /\ o.win \in BOOLEAN
  BY EconomyAssumption DEF PayTypeOK, Outcomes, Users
<1>2. fights' = [fights EXCEPT ![u] = n]
  BY DEF Counted
<1>3. g.user = u /\ g.milestone = n /\ g.c = o.c /\ g.granted = Delivered(o, n)
  BY DEF GiftRow
<1>4. R.weapons = row[o.c].weapons /\ R \in Rows
  BY <1>1, RewardedWeapons, RewardedType DEF PayTypeOK
<1>5. row' = [row EXCEPT ![o.c] = [R EXCEPT !.weapons =
                  R.weapons + (IF Delivered(o, n) THEN 1 ELSE 0)]]
  BY DEF Counted
<1>6. \A c \in Characters : row'[c].weapons =
          row[c].weapons + (IF c = o.c /\ Delivered(o, n) THEN 1 ELSE 0)
  <2> HIDE DEF R
  <2> DEFINE x == R.weapons + (IF Delivered(o, n) THEN 1 ELSE 0)
  <2>1. [R EXCEPT !.weapons = x].weapons = x
    BY <1>4 DEF Rows
  <2>2. row'[o.c].weapons = x
    BY <1>1, <1>5, <2>1 DEF PayTypeOK
  <2>3. \A c \in Characters : row[c].weapons \in Nat
    BY DEF PayTypeOK, Rows
  <2>4. \A c \in Characters : c # o.c => row'[c] = row[c]
    BY <1>5 DEF PayTypeOK
  <2> QED BY <1>1, <1>4, <2>2, <2>3, <2>4
<1>7. \A h \in gifts : h.user \in Users /\ h.milestone \in Nat /\ h.milestone <= fights[h.user]
  BY DEF PayTypeOK, Gifts, GiftsMatchFights
<1>8. \A v \in Users : fights[v] \in Nat /\ fights'[v] = IF v = u THEN n ELSE fights[v]
  BY <1>1, <1>2 DEF PayTypeOK
<1>9. CASE Milestone(n)
  <2>1. gifts' = gifts \cup {g}
    BY <1>9 DEF Counted
  <2>2. g \notin gifts
    BY <1>1, <1>3, <1>7 DEF PayTypeOK
  <2>3. IsFiniteSet(gifts')
    BY <2>1, FS_AddElement DEF GiftsMatchFights
  <2>4. \A h \in gifts' : h.milestone <= fights'[h.user] /\ Milestone(h.milestone)
    <3>1. g.milestone <= fights'[g.user] /\ Milestone(g.milestone)
      BY <1>1, <1>3, <1>8, <1>9
    <3>2. \A h \in gifts : h.milestone <= fights'[h.user]
      BY <1>1, <1>7, <1>8
    <3> QED BY <2>1, <3>1, <3>2 DEF GiftsMatchFights
  <2>5. \A h, k \in gifts' : h.user = k.user /\ h.milestone = k.milestone => h = k
    <3>1. \A h \in gifts : ~(h.user = g.user /\ h.milestone = g.milestone)
      BY <1>1, <1>3, <1>7, <1>8
    <3> HIDE DEF g
    <3> QED BY <2>1, <3>1 DEF GiftsMatchFights
  <2>6. ASSUME NEW v \in Users, NEW k \in Nat, k <= fights'[v], Milestone(k)
        PROVE  \E h \in gifts' : h.user = v /\ h.milestone = k
    <3>1. CASE v = u /\ k = n
      BY <1>3, <2>1, <3>1
    <3>2. CASE ~(v = u /\ k = n)
      <4>1. k <= fights[v]
        BY <1>1, <1>8, <2>6, <3>2
      <4> QED BY <2>1, <2>6, <4>1 DEF GiftsMatchFights
    <3> QED BY <3>1, <3>2
  <2>7. ASSUME NEW c \in Characters
        PROVE  row'[c].weapons = Cardinality(Handed(c, gifts'))
    <3>1. IsFiniteSet(Handed(c, gifts)) /\ row[c].weapons = Cardinality(Handed(c, gifts))
      BY FS_Subset DEF GiftsMatchFights, Handed
    <3>2. g \notin Handed(c, gifts)
      BY <2>2 DEF Handed
    <3>3. CASE c = o.c /\ Delivered(o, n)
      <4>1. Handed(c, gifts') = Handed(c, gifts) \cup {g}
        BY <1>3, <2>1, <3>3 DEF Handed
      <4>2. Cardinality(Handed(c, gifts')) = Cardinality(Handed(c, gifts)) + 1
        BY <3>1, <3>2, <4>1, FS_AddElement
      <4> QED BY <1>6, <3>1, <3>3, <4>2
    <3>4. CASE ~(c = o.c /\ Delivered(o, n))
      <4>1. Handed(c, gifts') = Handed(c, gifts)
        BY <1>3, <2>1, <3>4 DEF Handed
      <4>2. row[c].weapons \in Nat
        BY DEF PayTypeOK, Rows
      <4> QED BY <1>6, <3>1, <3>4, <4>1, <4>2
    <3> QED BY <3>3, <3>4
  <2> QED BY <2>3, <2>4, <2>5, <2>6, <2>7 DEF GiftsMatchFights
<1>10. CASE ~Milestone(n)
  <2>1. gifts' = gifts /\ ~Delivered(o, n)
    BY <1>10 DEF Counted, Delivered
  <2>2. \A h \in gifts : h.milestone <= fights'[h.user]
    BY <1>1, <1>7, <1>8
  <2>3. ASSUME NEW v \in Users, NEW k \in Nat, k <= fights'[v], Milestone(k)
        PROVE  \E h \in gifts : h.user = v /\ h.milestone = k
    <3>1. k <= fights[v]
      BY <1>1, <1>8, <1>10, <2>3
    <3> QED BY <2>3, <3>1 DEF GiftsMatchFights
  <2>4. \A c \in Characters : row'[c].weapons = row[c].weapons
    <3>1. \A c \in Characters : row[c].weapons \in Nat
      BY DEF PayTypeOK, Rows
    <3> QED BY <1>6, <2>1, <3>1
  <2> QED BY <2>1, <2>2, <2>3, <2>4 DEF GiftsMatchFights
<1> QED BY <1>9, <1>10

LEMMA NotCountedGifts ==
  ASSUME PayTypeOK, GiftsMatchFights, NEW o \in Outcomes, NotCounted(o)
  PROVE  GiftsMatchFights'
<1>1. o.c \in Characters /\ o.win \in BOOLEAN
  BY DEF Outcomes
<1>2. Rewarded(row[o.c], o.win).weapons = row[o.c].weapons
  BY <1>1, RewardedWeapons DEF PayTypeOK
<1>3. \A c \in Characters : row'[c].weapons = row[c].weapons
  BY <1>1, <1>2 DEF NotCounted, PayTypeOK
<1> QED BY <1>3 DEF NotCounted, GiftsMatchFights

(* A claim marks a gift and hands it over.                                  *)
LEMMA ClaimGifts ==
  ASSUME PayTypeOK, GiftsMatchFights, NEW g \in gifts, Claim(g)
  PROVE  GiftsMatchFights'
<1> DEFINE h == [g EXCEPT !.granted = TRUE]
<1>1. g \in Gifts /\ g.c \in Characters
  BY DEF PayTypeOK, Gifts
<1>2. h.user = g.user /\ h.milestone = g.milestone /\ h.c = g.c /\ h.granted = TRUE
  BY <1>1 DEF Gifts
<1>3. gifts' = (gifts \ {g}) \cup {h} /\ UNCHANGED fights /\ ~g.granted
  BY DEF Claim
<1>4. row' = [row EXCEPT ![g.c] = [row[g.c] EXCEPT !.weapons = row[g.c].weapons + 1]]
  BY DEF Claim
<1>5. h \notin gifts
  BY <1>2, <1>3 DEF GiftsMatchFights
<1> HIDE DEF h
<1>6. IsFiniteSet(gifts')
  <2>1. IsFiniteSet(gifts \ {g})
    BY FS_Subset DEF GiftsMatchFights
  <2> QED BY <1>3, <2>1, FS_AddElement
<1>7. \A x \in gifts' : x.milestone <= fights'[x.user] /\ Milestone(x.milestone)
  BY <1>2, <1>3 DEF GiftsMatchFights
<1>8. \A x, y \in gifts' : x.user = y.user /\ x.milestone = y.milestone => x = y
  BY <1>2, <1>3 DEF GiftsMatchFights
<1>9. \A u \in Users, n \in Nat : n <= fights'[u] /\ Milestone(n) =>
          \E x \in gifts' : x.user = u /\ x.milestone = n
  BY <1>2, <1>3 DEF GiftsMatchFights
<1>10. ASSUME NEW c \in Characters
       PROVE  row'[c].weapons = Cardinality(Handed(c, gifts'))
  <2>1. IsFiniteSet(Handed(c, gifts)) /\ row[c].weapons = Cardinality(Handed(c, gifts))
    BY FS_Subset DEF GiftsMatchFights, Handed
  <2>2. CASE c = g.c
    <3>1. Handed(c, gifts') = Handed(c, gifts) \cup {h} /\ h \notin Handed(c, gifts)
      BY <1>2, <1>3, <1>5, <2>2 DEF Handed
    <3>2. Cardinality(Handed(c, gifts')) = Cardinality(Handed(c, gifts)) + 1
      BY <2>1, <3>1, FS_AddElement
    <3>3. row'[c].weapons = row[c].weapons + 1
      BY <1>4, <2>2 DEF PayTypeOK, Rows
    <3> QED BY <2>1, <3>2, <3>3
  <2>3. CASE c # g.c
    <3>1. Handed(c, gifts') = Handed(c, gifts)
      BY <1>2, <1>3, <2>3 DEF Handed
    <3>2. row'[c] = row[c]
      BY <1>4, <2>3 DEF PayTypeOK
    <3> QED BY <2>1, <3>1, <3>2
  <2> QED BY <2>2, <2>3
<1> QED BY <1>6, <1>7, <1>8, <1>9, <1>10 DEF GiftsMatchFights

LEMMA GiftsStep == PayTypeOK /\ GiftsMatchFights /\ [Next]_vars => GiftsMatchFights'
<1> SUFFICES ASSUME PayTypeOK, GiftsMatchFights, [Next]_vars PROVE GiftsMatchFights'
  OBVIOUS
<1>1. CASE UNCHANGED <<row, fights, gifts>>
  BY <1>1 DEF GiftsMatchFights, Handed
<1>2. ASSUME NEW m \in Matches, NEW a \in Characters, NEW b \in Characters, Open(m, a, b)
      PROVE  UNCHANGED <<row, fights, gifts>>
  BY <1>2 DEF Open
<1>3. ASSUME NEW m \in Matches, NEW a \in Characters, NEW b \in Characters,
             NEW w \in {a, b}, NEW q \in {0, a, b}, Finish(m, a, b, w, q)
      PROVE  UNCHANGED <<row, fights, gifts>>
  BY <1>3 DEF Finish
<1>4. CASE PayTx
  <2>1. Head(queue) \in Outcomes
    BY <1>4 DEF PayTx, PayTypeOK
  <2> QED BY <1>1, <1>4, <2>1, CountedGifts, NotCountedGifts DEF PayTx
<1>5. ASSUME NEW g \in gifts, Claim(g) PROVE GiftsMatchFights'
  BY <1>5, ClaimGifts
<1>6. CASE Audit \/ Rate \/ Reconcile \/ Crash \/ UNCHANGED vars
  BY <1>1, <1>6 DEF Audit, Rate, Reconcile, Crash, vars
<1> QED BY <1>1, <1>2, <1>3, <1>4, <1>5, <1>6 DEF Next

(* Every GiftEvery-th fight of an account pays one weapon, whatever counts  *)
(* the cards were made from and however claims race the writer.             *)
THEOREM MilestonesPayOnce == Spec => []EveryMilestonePaysOnce
<1>1. Init => PayTypeOK /\ GiftsMatchFights
  <2>1. ASSUME Init PROVE GiftsMatchFights
    <3>1. gifts = {} /\ \A c \in Characters : row[c].weapons = 0 /\ Handed(c, gifts) = {}
      BY <2>1 DEF Init, NewRow, Handed
    <3>2. \A u \in Users : fights[u] = 0
      BY <2>1 DEF Init
    <3>3. \A u \in Users, n \in Nat : ~(n <= fights[u] /\ Milestone(n))
      BY <3>2 DEF Milestone
    <3> QED BY <3>1, <3>3, FS_EmptySet DEF GiftsMatchFights
  <2> QED BY <2>1, InitPayType
<1>2. PayTypeOK /\ GiftsMatchFights /\ [Next]_vars => PayTypeOK' /\ GiftsMatchFights'
  BY PayTypeStep, GiftsStep
<1>3. PayTypeOK /\ GiftsMatchFights => EveryMilestonePaysOnce
  BY MilestonesFromGifts
<1> QED BY <1>1, <1>2, <1>3, PTL DEF Spec

----------------------------------------------------------------------------
(* A match rates its pair once.  What makes the live increment and the      *)
(* reconcile agree is the order of the writer's work: the two outcomes of a *)
(* match follow each other in the queue, so while one that rates its pair   *)
(* is pending, a match can only be in a rating already if its other outcome *)
(* put it on record and a reconcile counted it.  Until the writer has dealt *)
(* with it, every rating counts exactly the matches on record.              *)

(* What has ended, is on record or is pending is a finished match.          *)
FinishedOnce ==
    /\ \A i, j \in DOMAIN finished : finished[i] = finished[j] => i = j
    /\ \A i \in DOMAIN finished : match[finished[i]].state = "finished"
    /\ \A m \in Matches : OnRecord(m) => match[m].state = "finished"

(* An outcome is of a finished match, for one of its characters.            *)
OfItsMatch(o) == match[o.m].state = "finished" /\ o.c \in match[o.m].pair

(* The queue holds the outcomes of a match side by side; one of a match on  *)
(* record is the very next, after the one the writer is at.                 *)
InOrder ==
    /\ \A i \in DOMAIN queue : OfItsMatch(queue[i])
    /\ \A i, j \in DOMAIN queue : i < j /\ queue[i].m = queue[j].m =>
          j = i + 1 /\ queue[i].c # queue[j].c
    /\ \A i \in DOMAIN queue : OnRecord(queue[i].m) =>
          i = 1 /\ (writer.pc # "idle" => queue[i].m = writer.o.m)

WriterInOrder ==
    writer.pc # "idle" =>
        /\ OfItsMatch(writer.o)
        /\ \A i \in DOMAIN queue : queue[i].m = writer.o.m =>
              i = 1 /\ queue[i].c # writer.o.c
        /\ writer.pc = "rating" => RatesThePair(writer.o) /\ OnRecord(writer.o.m)

(* Every rating counts as many matches as are on record.                    *)
Current == \A c \in Characters : Len(rating[c]) = Len(Replay(c))

Rated(m) == \E c \in Characters : \E i \in DOMAIN rating[c] : rating[c][i] = m

PendingUnrated ==
    /\ \A i \in DOMAIN queue : RatesThePair(queue[i]) /\ Rated(queue[i].m) => Current
    /\ writer.pc # "idle" /\ RatesThePair(writer.o) /\ Rated(writer.o.m) => Current

RatingInv == FinishedOnce /\ InOrder /\ WriterInOrder /\ PendingUnrated /\ RatedAtMostOnce

TypesOK == PayTypeOK /\ RestTypeOK

(* What a step does that leaves the record of the finished matches alone.   *)
RecordKept ==
    /\ \A i \in DOMAIN finished : i \in DOMAIN finished' /\ finished'[i] = finished[i]
    /\ \A i \in DOMAIN finished' : i \notin DOMAIN finished => ~OnRecord(finished'[i])
    /\ \A m \in Matches : match[m].state = "finished" =>
          match'[m].state = "finished" /\ match'[m].pair = match[m].pair
    /\ \A m : OnRecord(m)' <=> OnRecord(m)

LEMMA ReplayKept ==
  ASSUME TypesOK, FinishedOnce, RecordKept
  PROVE  \A c \in Characters : Replay(c)' = Replay(c)
<1> SUFFICES ASSUME NEW c \in Characters PROVE Replay(c)' = Replay(c)
  OBVIOUS
<1>1. \A i \in DOMAIN finished : finished[i] \in Matches
  BY DEF TypesOK, RestTypeOK
<1>2. Counting(c)' = {i \in DOMAIN finished' :
                          OnRecord(finished[i])' /\ c \in match'[finished'[i]].pair}
  BY DEF Counting
<1>2a. \A i \in DOMAIN finished' : OnRecord(finished[i])' <=> OnRecord(finished'[i])
  BY DEF RecordKept, OnRecord
<1>3. \A i \in DOMAIN finished : i \in Counting(c)' <=> i \in Counting(c)
  <2>1. ASSUME NEW i \in DOMAIN finished PROVE i \in Counting(c)' <=> i \in Counting(c)
    <3>1. i \in DOMAIN finished' /\ finished'[i] = finished[i]
      BY DEF RecordKept
    <3>2. match'[finished[i]].pair = match[finished[i]].pair
      BY <1>1 DEF RecordKept, FinishedOnce
    <3> QED BY <1>2, <1>2a, <3>1, <3>2 DEF Counting
  <2> QED BY <2>1
<1>4. \A i \in DOMAIN finished' : i \notin DOMAIN finished => i \notin Counting(c)'
  BY <1>2, <1>2a DEF RecordKept
<1>5. Counting(c)' = Counting(c)
  BY <1>2, <1>3, <1>4 DEF Counting, RecordKept
<1>6. \A i \in Counting(c) : finished'[i] = finished[i]
  BY DEF RecordKept, Counting
<1> DEFINE S == Counting(c)
<1>7. IsFiniteSet(S) /\ S \in SUBSET Nat
  BY CountingIsFinite DEF TypesOK
<1>8. Replay(c)' = [k \in 1..Cardinality(S) |-> finished'[Nth(S, k)]]
  BY <1>5 DEF Replay
<1>9. \A k \in 1..Cardinality(S) : Nth(S, k) \in S
  BY <1>7, NthOfASet
<1> QED BY <1>6, <1>8, <1>9 DEF Replay

LEMMA OutcomeKept ==
  ASSUME TypesOK, RecordKept, NEW o \in Outcomes, OfItsMatch(o)
  PROVE  OfItsMatch(o)' /\ (RatesThePair(o)' <=> RatesThePair(o))
<1>1. o.m \in Matches
  BY DEF Outcomes
<1>2. match[o.m].state = "finished" /\ o.c \in match[o.m].pair
  BY DEF OfItsMatch
<1>3. match'[o.m].state = "finished" /\ match'[o.m].pair = match[o.m].pair
  BY <1>1, <1>2 DEF RecordKept
<1> QED BY <1>2, <1>3 DEF OfItsMatch, RatesThePair

(* A step that moves neither the record nor a rating.                       *)
LEMMA RatingsKept ==
  ASSUME TypesOK, FinishedOnce, RatedAtMostOnce, RecordKept, rating' = rating
  PROVE  RatedAtMostOnce' /\ (Current' <=> Current) /\ \A m : Rated(m)' <=> Rated(m)
<1>1. \A c \in Characters : Replay(c)' = Replay(c)
  BY ReplayKept
<1>2. Current' <=> Current
  BY <1>1 DEF Current
<1>3. \A m : Rated(m)' <=> Rated(m)
  BY DEF Rated
<1>4. ASSUME NEW c \in Characters, NEW i \in DOMAIN rating[c]
      PROVE  OnRecord(rating[c][i])' /\ c \in match'[rating[c][i]].pair
  <2>1. OnRecord(rating[c][i]) /\ c \in match[rating[c][i]].pair
    BY DEF RatedAtMostOnce
  <2>2. rating[c][i] \in Matches
    BY DEF TypesOK, RestTypeOK
  <2> QED BY <2>1, <2>2 DEF RecordKept, FinishedOnce
<1>5. RatedAtMostOnce'
  BY <1>4 DEF RatedAtMostOnce
<1> QED BY <1>2, <1>3, <1>5

(* A step that leaves the pending outcomes and the ratings alone.           *)
LEMMA QuietStep ==
  ASSUME TypesOK, RatingInv, RecordKept, FinishedOnce', UNCHANGED <<queue, writer, rating>>
  PROVE  RatingInv'
<1> USE DEF RatingInv
<1>1. RatedAtMostOnce' /\ (Current' <=> Current) /\ \A m : Rated(m)' <=> Rated(m)
  BY RatingsKept
<1>2. \A i \in DOMAIN queue : queue[i] \in Outcomes
  BY DEF TypesOK, PayTypeOK
<1>3. \A i \in DOMAIN queue : OfItsMatch(queue[i])' /\ (RatesThePair(queue[i])' <=> RatesThePair(queue[i]))
  <2>1. ASSUME NEW i \in DOMAIN queue
        PROVE  OfItsMatch(queue[i])' /\ (RatesThePair(queue[i])' <=> RatesThePair(queue[i]))
    <3>1. OfItsMatch(queue[i]) /\ queue[i] \in Outcomes
      BY <1>2 DEF InOrder
    <3> DEFINE o == queue[i]
    <3>2. o' = o
      OBVIOUS
    <3> QED BY <3>1, <3>2, OutcomeKept DEF OfItsMatch, RatesThePair
  <2> QED BY <2>1
<1>4. writer.pc # "idle" =>
          OfItsMatch(writer.o)' /\ (RatesThePair(writer.o)' <=> RatesThePair(writer.o))
  <2> SUFFICES ASSUME writer.pc # "idle"
               PROVE  OfItsMatch(writer.o)' /\ (RatesThePair(writer.o)' <=> RatesThePair(writer.o))
    OBVIOUS
  <2>1. OfItsMatch(writer.o) /\ writer.o \in Outcomes
    BY DEF WriterInOrder, TypesOK, PayTypeOK
  <2> QED BY <2>1, OutcomeKept DEF OfItsMatch, RatesThePair
<1>5. \A m : OnRecord(m)' <=> OnRecord(m)
  BY DEF RecordKept
<1>6. InOrder'
  BY <1>3, <1>5 DEF InOrder, OnRecord
<1>7. WriterInOrder'
  BY <1>4, <1>5 DEF WriterInOrder, OnRecord
<1>8. PendingUnrated'
  BY <1>1, <1>2, <1>3, <1>4 DEF PendingUnrated, Rated
<1> QED BY <1>1, <1>6, <1>7, <1>8

LEMMA OpenRating ==
  ASSUME TypesOK, RatingInv, NEW m \in Matches, NEW a \in Characters, NEW b \in Characters,
         Open(m, a, b)
  PROVE  RatingInv'
<1>1. \A n \in Matches : n # m => match'[n] = match[n]
  BY DEF Open, TypesOK, RestTypeOK
<1>2. match[m].state # "finished"
  BY DEF Open
<1>3. UNCHANGED <<finished, audit, queue, writer, rating>>
  BY DEF Open
<1>4. \A n : OnRecord(n)' <=> OnRecord(n)
  BY <1>3 DEF OnRecord
<1>5. RecordKept
  BY <1>1, <1>2, <1>3, <1>4 DEF RecordKept
<1>6. \A i \in DOMAIN finished : finished[i] \in Matches
  BY DEF TypesOK, RestTypeOK
<1>7. FinishedOnce'
  BY <1>3, <1>4, <1>5, <1>6 DEF RatingInv, FinishedOnce, RecordKept
<1> QED BY <1>3, <1>5, <1>7, QuietStep

LEMMA FinishRating ==
  ASSUME TypesOK, RatingInv, NEW m \in Matches, NEW a \in Characters, NEW b \in Characters,
         NEW w \in {a, b}, NEW q \in {0, a, b}, Finish(m, a, b, w, q)
  PROVE  RatingInv'
<1> DEFINE oa == OutcomeOf(m, a, w, q)
           ob == OutcomeOf(m, b, w, q)
           n == Len(queue)
<1>1. /\ finished' = Append(finished, m) /\ UNCHANGED <<audit, writer, rating>>
      /\ match' = [match EXCEPT ![m].state = "finished"]
      /\ match[m].state = "running" /\ match[m].pair = {a, b}
  BY DEF Finish
<1>2. a # b
  BY EconomyAssumption DEF Finish
<1>3. oa \in Outcomes /\ ob \in Outcomes /\ oa.m = m /\ ob.m = m /\ oa.c = a /\ ob.c = b
  <2>1. oa.m = m /\ ob.m = m /\ oa.c = a /\ ob.c = b
    BY DEF OutcomeOf
  <2>2. oa \in Outcomes /\ ob \in Outcomes
    BY OutcomeType
  <2> QED BY <2>1, <2>2
<1> HIDE DEF oa, ob
<1>4. /\ n \in Nat /\ DOMAIN queue = 1..n /\ DOMAIN queue' = 1..(n + 2)
      /\ \A i \in 1..n : queue'[i] = queue[i]
      /\ queue'[n + 1] = oa /\ queue'[n + 2] = ob
  <2>1. queue \in Seq(Outcomes)
    BY DEF TypesOK, PayTypeOK
  <2>2. queue' = queue \o <<oa, ob>>
    BY DEF Finish, oa, ob
  <2> QED BY <1>3, <2>1, <2>2
<1> HIDE DEF n
<1>5. match \in [Matches -> [state : MatchStates, pair : SUBSET Characters,
                             card : SUBSET Characters]]
  BY DEF TypesOK, RestTypeOK
<1>6. /\ match'[m].state = "finished" /\ match'[m].pair = {a, b}
      /\ \A k \in Matches : k # m => match'[k] = match[k]
  BY <1>1, <1>5
<1>7. ~OnRecord(m) /\ (\A k : OnRecord(k)' <=> OnRecord(k))
  BY <1>1 DEF OnRecord, RatingInv, FinishedOnce
<1>8. finished \in Seq(Matches)
  BY DEF TypesOK, RestTypeOK
<1>9. /\ \A i \in DOMAIN finished : i \in DOMAIN finished' /\ finished'[i] = finished[i]
      /\ \A i \in DOMAIN finished' : i \in DOMAIN finished \/ (i = Len(finished) + 1 /\ finished'[i] = m)
  BY <1>1, <1>8
<1>10. RecordKept
  BY <1>1, <1>6, <1>7, <1>9 DEF RecordKept
<1>11. FinishedOnce'
  <2>1. \A i \in DOMAIN finished : finished[i] # m /\ finished[i] \in Matches
    BY <1>1, <1>8 DEF RatingInv, FinishedOnce
  <2>2. \A i, j \in DOMAIN finished' : finished'[i] = finished'[j] => i = j
    BY <1>9, <2>1 DEF RatingInv, FinishedOnce
  <2>3. \A i \in DOMAIN finished' : match'[finished'[i]].state = "finished"
    BY <1>6, <1>9, <2>1 DEF RatingInv, FinishedOnce
  <2>4. \A k \in Matches : OnRecord(k)' => match'[k].state = "finished"
    BY <1>6, <1>7 DEF RatingInv, FinishedOnce
  <2> QED BY <2>2, <2>3, <2>4 DEF FinishedOnce
<1>12. RatedAtMostOnce' /\ (Current' <=> Current) /\ \A k : Rated(k)' <=> Rated(k)
  BY <1>1, <1>10, RatingsKept DEF RatingInv
<1>13. ~Rated(m)
  BY <1>7 DEF Rated, RatingInv, RatedAtMostOnce
<1>14. \A i \in 1..n : /\ queue[i].m \in Matches /\ queue[i].m # m /\ match'[queue[i].m] = match[queue[i].m]
                       /\ OfItsMatch(queue[i])
  <2>1. \A i \in 1..n : OfItsMatch(queue[i])
    BY <1>4 DEF RatingInv, InOrder
  <2>2. \A i \in 1..n : queue[i] \in Outcomes
    BY <1>4 DEF TypesOK, PayTypeOK
  <2>3. \A i \in 1..n : queue[i].m \in Matches
    BY <2>2 DEF Outcomes
  <2>4. \A i \in 1..n : queue[i].m # m
    BY <1>1, <2>1 DEF OfItsMatch
  <2> QED BY <1>6, <2>1, <2>3, <2>4
<1>15. writer.pc # "idle" => /\ writer.o.m \in Matches /\ writer.o.m # m
                            /\ match'[writer.o.m] = match[writer.o.m]
  BY <1>1, <1>6 DEF TypesOK, PayTypeOK, Outcomes, RatingInv, WriterInOrder, OfItsMatch
<1>16. \A i \in 1..(n + 2) : i \in 1..n \/ i = n + 1 \/ i = n + 2
  BY <1>4
<1>17. InOrder'
  <2>1. \A i \in DOMAIN queue' : OfItsMatch(queue[i])'
    BY <1>3, <1>4, <1>6, <1>14, <1>16 DEF OfItsMatch
  <2>2. \A i, j \in DOMAIN queue' : i < j /\ queue'[i].m = queue'[j].m =>
            j = i + 1 /\ queue'[i].c # queue'[j].c
    <3> SUFFICES ASSUME NEW i \in 1..(n + 2), NEW j \in 1..(n + 2), i < j, queue'[i].m = queue'[j].m
                 PROVE  j = i + 1 /\ queue'[i].c # queue'[j].c
      BY <1>4
    <3>1. CASE i \in 1..n /\ j \in 1..n
      BY <1>4, <3>1 DEF RatingInv, InOrder
    <3>2. CASE ~(i \in 1..n /\ j \in 1..n)
      <4>1. queue'[j].m = m /\ i \notin 1..n
        BY <1>3, <1>4, <1>14, <1>16, <3>2
      <4> QED BY <1>2, <1>3, <1>4, <1>16, <4>1
    <3> QED BY <3>1, <3>2
  <2>3. ASSUME NEW i \in DOMAIN queue', OnRecord(queue[i].m)'
        PROVE  i = 1 /\ (writer.pc # "idle" => queue'[i].m = writer.o.m)
    <3>1. OnRecord(queue'[i].m)
      BY <1>1, <2>3 DEF OnRecord
    <3>2. i \in 1..n
      BY <1>3, <1>4, <1>7, <1>16, <3>1
    <3> QED BY <1>4, <3>1, <3>2 DEF RatingInv, InOrder
  <2> QED BY <1>1, <2>1, <2>2, <2>3 DEF InOrder
<1>18. WriterInOrder'
  <2> SUFFICES ASSUME writer.pc # "idle" PROVE WriterInOrder'
    BY <1>1 DEF WriterInOrder
  <2>1. OfItsMatch(writer.o)' /\ (RatesThePair(writer.o)' <=> RatesThePair(writer.o))
    BY <1>1, <1>15 DEF RatingInv, WriterInOrder, OfItsMatch, RatesThePair
  <2>2. \A i \in DOMAIN queue' : queue'[i].m = writer.o.m => i = 1 /\ queue'[i].c # writer.o.c
    BY <1>3, <1>4, <1>15, <1>16 DEF RatingInv, WriterInOrder
  <2>3. OnRecord(writer.o.m)' <=> OnRecord(writer.o.m)
    BY <1>1 DEF OnRecord
  <2> QED BY <1>1, <2>1, <2>2, <2>3 DEF RatingInv, WriterInOrder
<1>19. PendingUnrated'
  <2>1. ASSUME NEW i \in DOMAIN queue', RatesThePair(queue[i])', Rated(queue'[i].m)
        PROVE  Current
    <3>1. i \in 1..n
      BY <1>3, <1>4, <1>13, <1>16, <2>1
    <3>2. RatesThePair(queue[i])
      BY <1>4, <1>14, <2>1, <3>1 DEF RatesThePair
    <3> QED BY <1>4, <2>1, <3>1, <3>2 DEF RatingInv, PendingUnrated
  <2>2. ASSUME writer.pc # "idle", RatesThePair(writer.o)', Rated(writer.o.m)
        PROVE  Current
    <3>1. RatesThePair(writer.o)
      BY <1>1, <1>15, <2>2 DEF RatesThePair
    <3> QED BY <2>2, <3>1 DEF RatingInv, PendingUnrated
  <2>3. \A k : Rated(k)' <=> Rated(k)
    BY <1>12
  <2> QED BY <1>1, <1>12, <2>1, <2>2, <2>3 DEF PendingUnrated, Rated
<1> QED BY <1>11, <1>12, <1>17, <1>18, <1>19 DEF RatingInv

LEMMA SameRecord ==
  ASSUME UNCHANGED <<match, finished, audit>>
  PROVE  /\ RecordKept /\ (FinishedOnce' <=> FinishedOnce)
         /\ \A m : OnRecord(m)' <=> OnRecord(m)
         /\ \A o : (OfItsMatch(o)' <=> OfItsMatch(o)) /\ (RatesThePair(o)' <=> RatesThePair(o))
<1>1. \A m : OnRecord(m)' <=> OnRecord(m)
  BY DEF OnRecord
<1>2. FinishedOnce' <=> FinishedOnce
  BY <1>1 DEF FinishedOnce
<1>3. \A o : (OfItsMatch(o)' <=> OfItsMatch(o)) /\ (RatesThePair(o)' <=> RatesThePair(o))
  BY DEF OfItsMatch, RatesThePair
<1>4. RecordKept
  BY <1>1 DEF RecordKept
<1> QED BY <1>1, <1>2, <1>3, <1>4

LEMMA PayRating == ASSUME TypesOK, RatingInv, PayTx PROVE RatingInv'
<1> DEFINE n == Len(queue)
<1>1. UNCHANGED <<match, finished, audit, rating>> /\ queue # << >> /\ writer.pc = "idle"
  BY DEF PayTx
<1>2. writer' = [pc |-> "auditing", o |-> queue[1]] \/ writer' = writer
  BY DEF PayTx
<1>3. /\ n \in Nat /\ 1 \in DOMAIN queue /\ DOMAIN queue = 1..n
      /\ \A i \in DOMAIN queue' : i + 1 \in DOMAIN queue /\ i \in Nat \ {0}
      /\ \A i \in DOMAIN queue' : queue'[i] = queue[i + 1]
  BY <1>1 DEF PayTx, TypesOK, PayTypeOK
<1>4. /\ RecordKept /\ (FinishedOnce' <=> FinishedOnce)
      /\ \A m : OnRecord(m)' <=> OnRecord(m)
      /\ \A o : (OfItsMatch(o)' <=> OfItsMatch(o)) /\ (RatesThePair(o)' <=> RatesThePair(o))
  BY <1>1, SameRecord
<1>5. RatedAtMostOnce' /\ (Current' <=> Current) /\ \A m : Rated(m)' <=> Rated(m)
  BY <1>1, <1>4, RatingsKept DEF RatingInv
<1>6. ASSUME NEW i \in DOMAIN queue'
      PROVE  ~OnRecord(queue'[i].m)
  BY <1>3 DEF RatingInv, InOrder
<1>7. InOrder'
  <2>1. ASSUME NEW i \in DOMAIN queue'
        PROVE  OfItsMatch(queue[i])' /\ ~OnRecord(queue[i].m)'
    <3>1. OfItsMatch(queue'[i])
      BY <1>3 DEF RatingInv, InOrder
    <3> QED BY <1>1, <1>6, <3>1 DEF OfItsMatch, OnRecord
  <2>2. \A i, j \in DOMAIN queue' : i < j /\ queue'[i].m = queue'[j].m =>
            j = i + 1 /\ queue'[i].c # queue'[j].c
    <3> SUFFICES ASSUME NEW i \in DOMAIN queue', NEW j \in DOMAIN queue', i < j,
                        queue'[i].m = queue'[j].m
                 PROVE  j = i + 1 /\ queue'[i].c # queue'[j].c
      OBVIOUS
    <3>1. i + 1 \in DOMAIN queue /\ j + 1 \in DOMAIN queue /\ i + 1 < j + 1
      BY <1>3
    <3>2. queue[i + 1].m = queue[j + 1].m
      BY <1>3
    <3>3. j + 1 = (i + 1) + 1 /\ queue[i + 1].c # queue[j + 1].c
      BY <3>1, <3>2 DEF RatingInv, InOrder
    <3> QED BY <1>3, <3>3
  <2> QED BY <2>1, <2>2 DEF InOrder
<1>8. WriterInOrder'
  <2> SUFFICES ASSUME writer'.pc # "idle" PROVE WriterInOrder'
    BY DEF WriterInOrder
  <2>1. writer'.pc = "auditing" /\ writer'.o = queue[1]
    BY <1>1, <1>2
  <2>2. OfItsMatch(queue[1])
    BY <1>3 DEF RatingInv, InOrder
  <2>3. OfItsMatch(writer.o)'
    BY <1>1, <2>1, <2>2 DEF OfItsMatch
  <2>4. ASSUME NEW i \in DOMAIN queue', queue'[i].m = writer'.o.m
        PROVE  i = 1 /\ queue'[i].c # writer'.o.c
    <3>1. i + 1 \in DOMAIN queue /\ 1 < i + 1 /\ queue[1].m = queue[i + 1].m
      BY <1>3, <2>1, <2>4
    <3>2. i + 1 = 1 + 1 /\ queue[1].c # queue[i + 1].c
      BY <1>3, <3>1 DEF RatingInv, InOrder
    <3> QED BY <1>3, <2>1, <3>2
  <2> QED BY <2>1, <2>3, <2>4 DEF WriterInOrder
<1>9. PendingUnrated'
  <2>1. ASSUME NEW i \in DOMAIN queue', RatesThePair(queue[i])', Rated(queue'[i].m)
        PROVE  Current
    <3>1. RatesThePair(queue[i + 1])
      BY <1>1, <1>3, <2>1 DEF RatesThePair
    <3> QED BY <1>3, <2>1, <3>1 DEF RatingInv, PendingUnrated
  <2>2. ASSUME writer'.pc # "idle", RatesThePair(writer.o)', Rated(writer'.o.m)
        PROVE  Current
    <3>1. writer'.o = queue[1]
      BY <1>1, <1>2, <2>2
    <3>2. RatesThePair(queue[1])
      BY <1>1, <2>2, <3>1 DEF RatesThePair
    <3> QED BY <1>3, <2>2, <3>1, <3>2 DEF RatingInv, PendingUnrated
  <2> QED BY <1>1, <1>5, <2>1, <2>2 DEF PendingUnrated, Rated
<1> QED BY <1>4, <1>5, <1>7, <1>8, <1>9 DEF RatingInv

(* The audit row: another outcome of a match that is in a rating has        *)
(* already put it on record, so the record does not change.                 *)
LEMMA AuditRating == ASSUME TypesOK, RatingInv, Audit PROVE RatingInv'
<1> DEFINE o == writer.o
<1>1. UNCHANGED <<match, finished, queue, rating>> /\ writer.pc = "auditing"
  BY DEF Audit
<1>2. o \in Outcomes /\ o.m \in Matches /\ o.c \in Characters /\ OfItsMatch(o)
  BY <1>1 DEF TypesOK, PayTypeOK, Outcomes, RatingInv, WriterInOrder
<1>3. /\ \A m : OnRecord(m) => OnRecord(m)'
      /\ \A m : OnRecord(m)' => OnRecord(m) \/ m = o.m
  BY DEF Audit, OnRecord
<1>4. writer'.pc # "idle" =>
          writer'.pc = "rating" /\ writer'.o = o /\ RatesThePair(o) /\ OnRecord(o.m)'
  <2> SUFFICES ASSUME writer'.pc # "idle"
               PROVE  writer'.pc = "rating" /\ writer'.o = o /\ RatesThePair(o) /\ OnRecord(o.m)'
    OBVIOUS
  <2>1. writer' = [writer EXCEPT !.pc = "rating"] /\ RatesThePair(o)
        /\ audit' = audit \cup {<<o.m, o.c>>}
    BY DEF Audit
  <2> QED BY <1>2, <2>1 DEF OnRecord, TypesOK, PayTypeOK
<1>5. \A q : (OfItsMatch(q)' <=> OfItsMatch(q)) /\ (RatesThePair(q)' <=> RatesThePair(q))
  BY <1>1 DEF OfItsMatch, RatesThePair
<1>6. FinishedOnce'
  BY <1>1, <1>2, <1>3 DEF RatingInv, FinishedOnce, OfItsMatch
<1>7. RatedAtMostOnce'
  BY <1>1, <1>3 DEF RatingInv, RatedAtMostOnce
<1>8. InOrder'
  <2>1. ASSUME NEW i \in DOMAIN queue, OnRecord(queue[i].m)'
        PROVE  i = 1 /\ (writer'.pc # "idle" => queue[i].m = writer'.o.m)
    <3>1. OnRecord(queue[i].m) \/ queue[i].m = o.m
      BY <1>1, <1>3, <2>1 DEF OnRecord
    <3>2. i = 1 /\ queue[i].m = o.m
      BY <1>1, <3>1 DEF RatingInv, InOrder, WriterInOrder
    <3> QED BY <1>4, <3>2
  <2>2. \A i \in DOMAIN queue : OfItsMatch(queue[i])'
    BY <1>1 DEF OfItsMatch, RatingInv, InOrder
  <2> QED BY <1>1, <2>1, <2>2 DEF RatingInv, InOrder
<1>9. WriterInOrder'
  <2> SUFFICES ASSUME writer'.pc # "idle" PROVE WriterInOrder'
    BY DEF WriterInOrder
  <2>1. OfItsMatch(writer.o)' /\ RatesThePair(writer.o)' /\ OnRecord(writer.o.m)'
    BY <1>1, <1>2, <1>4 DEF OfItsMatch, RatesThePair, OnRecord
  <2>2. \A i \in DOMAIN queue : queue[i].m = o.m => i = 1 /\ queue[i].c # o.c
    BY <1>1 DEF RatingInv, WriterInOrder
  <2> QED BY <1>1, <1>4, <2>1, <2>2 DEF WriterInOrder
<1>10. ASSUME OnRecord(o.m) PROVE Current' <=> Current
  <2>1. RecordKept
    BY <1>1, <1>3, <1>10 DEF RecordKept
  <2> QED BY <1>1, <2>1, RatingsKept DEF RatingInv
<1>11. \A m : (Rated(m)' <=> Rated(m)) /\ (Rated(m) => OnRecord(m))
  BY <1>1 DEF Rated, RatingInv, RatedAtMostOnce
<1>12. PendingUnrated'
  <2>1. ASSUME NEW i \in DOMAIN queue, RatesThePair(queue[i])', Rated(queue[i].m)
        PROVE  Current'
    <3>1. RatesThePair(queue[i])
      BY <1>1, <2>1 DEF RatesThePair
    <3>2. Current
      BY <2>1, <3>1 DEF RatingInv, PendingUnrated
    <3>3. OnRecord(o.m)
      BY <1>1, <1>11, <2>1 DEF RatingInv, InOrder
    <3> QED BY <1>10, <3>2, <3>3
  <2>2. ASSUME writer'.pc # "idle", Rated(writer'.o.m)
        PROVE  Current'
    <3>1. RatesThePair(o) /\ Rated(o.m) /\ OnRecord(o.m)
      BY <1>4, <1>11, <2>2
    <3> QED BY <1>1, <1>10, <3>1 DEF RatingInv, PendingUnrated
  <2> QED BY <1>1, <1>11, <2>1, <2>2 DEF PendingUnrated, Rated
<1> QED BY <1>6, <1>7, <1>8, <1>9, <1>12 DEF RatingInv

(* The live increment: a rating that counts fewer matches than are on       *)
(* record has not counted this one, and no other pending outcome is of a    *)
(* match that is in a rating.                                               *)
LEMMA RateRating == ASSUME TypesOK, RatingInv, Rate PROVE RatingInv'
<1> DEFINE o == writer.o
<1>1. /\ UNCHANGED <<match, finished, queue, audit>> /\ writer.pc = "rating"
      /\ writer'.pc = "idle"
  BY DEF Rate
<1>2. /\ o \in Outcomes /\ o.m \in Matches /\ OfItsMatch(o)
      /\ RatesThePair(o) /\ OnRecord(o.m)
  BY <1>1 DEF TypesOK, PayTypeOK, Outcomes, RatingInv, WriterInOrder
<1>3. /\ RecordKept /\ (FinishedOnce' <=> FinishedOnce)
      /\ \A m : OnRecord(m)' <=> OnRecord(m)
      /\ \A q : (OfItsMatch(q)' <=> OfItsMatch(q)) /\ (RatesThePair(q)' <=> RatesThePair(q))
  BY <1>1, SameRecord
<1>4. InOrder'
  <2>1. \A i \in DOMAIN queue : OfItsMatch(queue[i])'
    BY <1>1 DEF OfItsMatch, RatingInv, InOrder
  <2>2. \A i \in DOMAIN queue : OnRecord(queue[i].m)' => i = 1
    BY <1>1 DEF OnRecord, RatingInv, InOrder
  <2> QED BY <1>1, <2>1, <2>2 DEF RatingInv, InOrder
<1>5. WriterInOrder'
  BY <1>1 DEF WriterInOrder
<1>6. CASE rating' = rating
  <2>1. RatedAtMostOnce' /\ (Current' <=> Current) /\ \A m : Rated(m)' <=> Rated(m)
    BY <1>3, <1>6, RatingsKept DEF RatingInv
  <2>2. ASSUME NEW i \in DOMAIN queue, RatesThePair(queue[i])', Rated(queue[i].m)
        PROVE  Current
    <3>1. RatesThePair(queue[i])
      BY <1>1, <2>2 DEF RatesThePair
    <3> QED BY <2>2, <3>1 DEF RatingInv, PendingUnrated
  <2>3. PendingUnrated'
    BY <1>1, <1>6, <2>1, <2>2 DEF PendingUnrated, Rated
  <2> QED BY <1>3, <1>4, <1>5, <2>1, <2>3 DEF RatingInv
<1>7. CASE rating' # rating
  <2>1. /\ NeedsIncrement(o.m)
        /\ rating' = [c \in Characters |->
                        IF NeedsIncrement(o.m) /\ c \in match[o.m].pair
                        THEN Append(rating[c], o.m) ELSE rating[c]]
    <3>1. rating = [c \in Characters |-> rating[c]]
      BY DEF TypesOK, RestTypeOK
    <3> QED BY <1>7, <3>1 DEF Rate
  <2>2. \A c \in Characters : rating'[c] = IF c \in match[o.m].pair
                                           THEN Append(rating[c], o.m) ELSE rating[c]
    BY <2>1
  <2>3. ~Current
    <3>1. \A m \in Matches : match[m].pair \subseteq Characters
      BY DEF TypesOK, RestTypeOK
    <3>2. PICK c \in Characters : Len(rating[c]) < Len(Replay(c))
      BY <1>2, <2>1, <3>1 DEF NeedsIncrement
    <3>3. Len(rating[c]) \in Nat /\ Len(Replay(c)) \in Nat
      BY ReplayOnce DEF TypesOK, RestTypeOK
    <3> QED BY <3>2, <3>3 DEF Current
  <2>4. ~Rated(o.m)
    BY <1>1, <1>2, <2>3 DEF RatingInv, PendingUnrated
  <2>5. ASSUME NEW c \in Characters
        PROVE  \A i \in DOMAIN rating'[c] :
                  \/ i \in DOMAIN rating[c] /\ rating'[c][i] = rating[c][i]
                  \/ i = Len(rating[c]) + 1 /\ rating'[c][i] = o.m /\ c \in match[o.m].pair
    <3>1. rating[c] \in Seq(Matches)
      BY DEF TypesOK, RestTypeOK
    <3>2. CASE c \in match[o.m].pair
      <4> DEFINE s == rating[c]
                 m == o.m
      <4>1. s \in Seq(Matches) /\ m \in Matches /\ rating'[c] = Append(s, m)
        BY <1>2, <2>2, <3>1, <3>2
      <4> HIDE DEF s, m
      <4>2. \A i \in DOMAIN Append(s, m) :
                \/ i \in DOMAIN s /\ Append(s, m)[i] = s[i]
                \/ i = Len(s) + 1 /\ Append(s, m)[i] = m
        BY <4>1
      <4> QED BY <3>2, <4>1, <4>2 DEF s, m
    <3>3. CASE c \notin match[o.m].pair
      BY <2>2, <3>3
    <3> QED BY <3>2, <3>3
  <2>6. RatedAtMostOnce'
    <3>1. ASSUME NEW c \in Characters, NEW i \in DOMAIN rating'[c]
          PROVE  OnRecord(rating[c][i])' /\ c \in match'[rating'[c][i]].pair
      <4>1. OnRecord(rating'[c][i]) /\ c \in match[rating'[c][i]].pair
        BY <1>2, <2>5 DEF RatingInv, RatedAtMostOnce
      <4> QED BY <1>1, <4>1 DEF OnRecord
    <3>2. ASSUME NEW c \in Characters, NEW i \in DOMAIN rating'[c], NEW j \in DOMAIN rating'[c],
                 rating'[c][i] = rating'[c][j]
          PROVE  i = j
      <4>1. \A k \in DOMAIN rating[c] : rating[c][k] # o.m
        BY <2>4 DEF Rated
      <4> QED BY <2>5, <3>2, <4>1 DEF RatingInv, RatedAtMostOnce
    <3> QED BY <3>1, <3>2 DEF RatedAtMostOnce
  <2>7. ASSUME NEW i \in DOMAIN queue, RatesThePair(queue[i])'
        PROVE  ~Rated(queue[i].m)'
    <3>1. RatesThePair(queue[i]) /\ queue[i] \in Outcomes /\ OfItsMatch(queue[i])
      BY <1>1, <2>7 DEF RatesThePair, TypesOK, PayTypeOK, RatingInv, InOrder
    <3>2. ~Rated(queue[i].m)
      BY <2>3, <3>1 DEF RatingInv, PendingUnrated
    <3>3. queue[i].m # o.m
      <4> SUFFICES ASSUME queue[i].m = o.m PROVE FALSE
        OBVIOUS
      <4>1. queue[i].c # o.c
        BY <1>1 DEF RatingInv, WriterInOrder
      <4>2. queue[i].c <= o.c /\ o.c <= queue[i].c
        BY <1>2, <3>1 DEF RatesThePair, OfItsMatch
      <4>3. queue[i].c \in Int /\ o.c \in Int
        BY <1>2, <3>1 DEF Outcomes, Characters
      <4> QED BY <4>1, <4>2, <4>3
    <3>4. \A c \in Characters : \A k \in DOMAIN rating'[c] : rating'[c][k] # queue[i].m
      BY <2>5, <3>2, <3>3 DEF Rated
    <3> QED BY <1>1, <3>4 DEF Rated
  <2>8. PendingUnrated'
    BY <1>1, <2>7 DEF PendingUnrated
  <2> QED BY <1>3, <1>4, <1>5, <2>6, <2>8 DEF RatingInv
<1> QED BY <1>6, <1>7

(* The reconcile counts every match on record, whoever is still pending.    *)
LEMMA ReconcileRating == ASSUME TypesOK, RatingInv, Reconcile PROVE RatingInv'
<1>1. UNCHANGED <<match, finished, queue, writer, audit>>
  BY DEF Reconcile
<1>2. \A c \in Characters : rating'[c] = Replay(c)
  BY DEF Reconcile
<1>3. RecordKept /\ (FinishedOnce' <=> FinishedOnce)
  BY <1>1, SameRecord
<1>4. \A c \in Characters : Replay(c)' = Replay(c)
  BY <1>3, ReplayKept DEF RatingInv
<1>5. Current'
  BY <1>2, <1>4 DEF Current
<1>6. InOrder' /\ WriterInOrder'
  <2>1. InOrder'
    BY <1>1 DEF InOrder, OfItsMatch, OnRecord, RatingInv
  <2>2. WriterInOrder'
    BY <1>1 DEF WriterInOrder, OfItsMatch, RatesThePair, OnRecord, RatingInv
  <2> QED BY <2>1, <2>2
<1>7. RatedAtMostOnce'
  <2>1. ASSUME NEW c \in Characters
        PROVE  \A i, j \in DOMAIN rating'[c] :
                  /\ rating'[c][i] = rating'[c][j] => i = j
                  /\ OnRecord(rating[c][i])' /\ c \in match'[rating'[c][i]].pair
    <3>1. \A i \in DOMAIN Replay(c) :
              OnRecord(Replay(c)[i]) /\ c \in match[Replay(c)[i]].pair
      BY ReplayOnce DEF TypesOK
    <3>2. \A i, j \in DOMAIN Replay(c) : Replay(c)[i] = Replay(c)[j] => i = j
      BY ReplayOnce DEF TypesOK, RatingInv, FinishedOnce
    <3>3. \A x : OnRecord(x) => \E d \in Characters : <<x, d>> \in audit'
      BY <1>1 DEF OnRecord
    <3>4. \A i \in DOMAIN rating'[c] : OnRecord(rating[c][i])'
      BY <1>2, <3>1, <3>3 DEF OnRecord
    <3> QED BY <1>1, <1>2, <3>1, <3>2, <3>4
  <2> QED BY <2>1 DEF RatedAtMostOnce
<1>8. PendingUnrated'
  BY <1>5 DEF PendingUnrated
<1> QED BY <1>3, <1>5, <1>6, <1>7, <1>8 DEF RatingInv

LEMMA CrashRating == ASSUME TypesOK, RatingInv, Crash PROVE RatingInv'
<1>1. /\ UNCHANGED <<finished, audit, rating>> /\ queue' = << >> /\ writer'.pc = "idle"
      /\ match' = [m \in Matches |-> IF match[m].state = "running" THEN NoMatch ELSE match[m]]
  BY DEF Crash
<1>2. \A m \in Matches : match[m].state = "finished" => match'[m] = match[m]
  BY <1>1
<1>3. \A m : OnRecord(m)' <=> OnRecord(m)
  BY <1>1 DEF OnRecord
<1>4. RecordKept
  BY <1>1, <1>2, <1>3 DEF RecordKept
<1>5. \A i \in DOMAIN finished : finished[i] \in Matches
  BY DEF TypesOK, RestTypeOK
<1>6. FinishedOnce'
  BY <1>1, <1>2, <1>3, <1>5 DEF RatingInv, FinishedOnce
<1>7. RatedAtMostOnce'
  BY <1>1, <1>4, RatingsKept DEF RatingInv
<1>8. InOrder' /\ WriterInOrder' /\ PendingUnrated'
  BY <1>1 DEF InOrder, WriterInOrder, PendingUnrated
<1> QED BY <1>6, <1>7, <1>8 DEF RatingInv

LEMMA RatingStep == TypesOK /\ RatingInv /\ [Next]_vars => RatingInv'
<1> SUFFICES ASSUME TypesOK, RatingInv, [Next]_vars PROVE RatingInv'
  OBVIOUS
<1>1. ASSUME NEW m \in Matches, NEW a \in Characters, NEW b \in Characters, Open(m, a, b)
      PROVE  RatingInv'
  BY <1>1, OpenRating
<1>2. ASSUME NEW m \in Matches, NEW a \in Characters, NEW b \in Characters,
             NEW w \in {a, b}, NEW q \in {0, a, b}, Finish(m, a, b, w, q)
      PROVE  RatingInv'
  BY <1>2, FinishRating
<1>3. CASE PayTx
  BY <1>3, PayRating
<1>4. CASE Audit
  BY <1>4, AuditRating
<1>5. CASE Rate
  BY <1>5, RateRating
<1>6. CASE Reconcile
  BY <1>6, ReconcileRating
<1>7. CASE (\E g \in gifts : Claim(g)) \/ UNCHANGED vars
  <2>1. UNCHANGED <<match, finished, audit, queue, writer, rating>>
    BY <1>7 DEF Claim, vars
  <2>2. RecordKept /\ FinishedOnce'
    BY <2>1, SameRecord DEF RatingInv
  <2> QED BY <2>1, <2>2, QuietStep
<1>8. CASE Crash
  BY <1>8, CrashRating
<1> QED BY <1>1, <1>2, <1>3, <1>4, <1>5, <1>6, <1>7, <1>8 DEF Next

LEMMA InitRating == Init => RatingInv
<1> SUFFICES ASSUME Init PROVE RatingInv
  OBVIOUS
<1>1. /\ DOMAIN finished = {} /\ DOMAIN queue = {} /\ writer.pc = "idle" /\ audit = {}
      /\ \A c \in Characters : DOMAIN rating[c] = {}
  BY DEF Init
<1> QED BY <1>1 DEF RatingInv, FinishedOnce, InOrder, WriterInOrder, PendingUnrated,
                   RatedAtMostOnce, OnRecord

(* However the live increment and the reconcile interleave, with updates    *)
(* that fail, audit rows of one side only and crashes, no match moves a     *)
(* rating twice, and only a match on record moves one.                      *)
THEOREM RatingsCountOnce == Spec => []RatedAtMostOnce
<1>1. Init => TypesOK /\ RatingInv
  BY InitTypes, InitRating DEF TypesOK
<1>2. TypesOK /\ RatingInv /\ [Next]_vars => TypesOK' /\ RatingInv'
  BY PayTypeStep, RestTypeStep, RatingStep DEF TypesOK
<1>3. RatingInv => RatedAtMostOnce
  BY DEF RatingInv
<1> QED BY <1>1, <1>2, <1>3, PTL DEF Spec

----------------------------------------------------------------------------
(* The ledger.  An outcome in the queue has not been paid: the two of a     *)
(* match are of different characters, and a match ends once.                *)
QueuedUnpaid ==
    /\ \A i \in DOMAIN queue : <<queue[i].m, queue[i].c>> \notin paid
    /\ \A m \in Matches, c \in Characters :
          <<m, c>> \in paid => match[m].state = "finished"

Trophies == [c \in Characters |-> row[c].trophies]

LEMMA RewardedTrophies ==
  ASSUME NEW r \in Rows, NEW win \in BOOLEAN
  PROVE  Rewarded(r, win).trophies \in {r.trophies + 1, Ledger!Fallen(r.trophies)}
<1>1. r.trophies \in Nat
  BY DEF Rows
<1>2. Rewarded(r, win).trophies = NonNegative(r.trophies + (IF win THEN 1 ELSE -1))
  BY DEF Rewarded, Rows
<1> QED BY <1>1, <1>2 DEF NonNegative, Ledger!Fallen

(* A reward that committed moves the trophies of its character alone.       *)
LEMMA PaidTrophies ==
  ASSUME PayTypeOK, NEW o \in Outcomes, Counted(o) \/ NotCounted(o)
  PROVE  \E n \in {Trophies[o.c] + 1, Ledger!Fallen(Trophies[o.c])} :
             Trophies' = [Trophies EXCEPT ![o.c] = n]
<1> DEFINE R == Rewarded(row[o.c], o.win)
<1>1. o.c \in Characters /\ o.win \in BOOLEAN
  BY DEF Outcomes
<1>2. row \in [Characters -> Rows] /\ row[o.c] \in Rows
  BY <1>1 DEF PayTypeOK
<1>3. R \in Rows /\ R.trophies \in {row[o.c].trophies + 1, Ledger!Fallen(row[o.c].trophies)}
  BY <1>1, <1>2, RewardedType, RewardedTrophies
<1> DEFINE W == [R EXCEPT !.weapons =
                   R.weapons + (IF Delivered(o, fights[UserOf[o.c]] + 1) THEN 1 ELSE 0)]
<1>4. row' = [row EXCEPT ![o.c] = W] \/ row' = [row EXCEPT ![o.c] = R]
  BY DEF Counted, NotCounted
<1> HIDE DEF R
<1>5. W.trophies = R.trophies
  BY <1>3 DEF Rows
<1> HIDE DEF W
<1>6. row'[o.c].trophies = R.trophies /\ \A c \in Characters : c # o.c => row'[c] = row[c]
  BY <1>1, <1>2, <1>4, <1>5
<1>7. Trophies' = [c \in Characters |-> row'[c].trophies]
  BY DEF Trophies
<1>8. Trophies' = [Trophies EXCEPT ![o.c] = R.trophies]
  BY <1>1, <1>6, <1>7 DEF Trophies
<1> QED BY <1>1, <1>3, <1>8 DEF Trophies

LEMMA PayLedger ==
  ASSUME TypesOK, RatingInv, QueuedUnpaid, PayTx
  PROVE  (Ledger!Next \/ UNCHANGED Ledger!vars) /\ QueuedUnpaid'
<1> DEFINE o == queue[1]
<1>q. queue \in Seq(Outcomes) /\ queue # << >>
  BY DEF PayTx, TypesOK, PayTypeOK
<1>h. Head(queue) = o /\ 1 \in DOMAIN queue
  BY <1>q
<1>u. UNCHANGED <<match, audit>>
  BY DEF PayTx
<1>1. /\ queue \in Seq(Outcomes) /\ queue # << >> /\ Head(queue) = o
      /\ UNCHANGED <<match, audit>> /\ 1 \in DOMAIN queue
  BY <1>q, <1>h, <1>u
<1>2. o \in Outcomes /\ o.m \in Matches /\ o.c \in Characters
  <2>1. o \in Outcomes
    BY <1>q, <1>h
  <2> HIDE DEF o
  <2> QED BY <2>1 DEF Outcomes
<1>3. \A i \in DOMAIN queue' : i + 1 \in DOMAIN queue /\ queue'[i] = queue[i + 1] /\ 1 < i + 1
  BY <1>1 DEF PayTx
<1>4. \A i \in DOMAIN queue' :
          /\ <<queue'[i].m, queue'[i].c>> \notin paid
          /\ <<queue'[i].m, queue'[i].c>> # <<o.m, o.c>>
  BY <1>1, <1>3 DEF QueuedUnpaid, RatingInv, InOrder
<1>5. CASE UNCHANGED <<writer, row, fights, gifts, paid>>
  <2>1. UNCHANGED Ledger!vars
    BY <1>1, <1>5 DEF Ledger!vars
  <2> QED BY <1>1, <1>4, <1>5, <2>1 DEF QueuedUnpaid
<1>6. CASE (Counted(o) \/ NotCounted(o)) /\ paid' = paid \cup {<<o.m, o.c>>}
  <2>1. \E n \in {Trophies[o.c] + 1, Ledger!Fallen(Trophies[o.c])} :
            Trophies' = [Trophies EXCEPT ![o.c] = n]
    BY <1>2, <1>6, PaidTrophies DEF TypesOK
  <2>2. <<o.m, o.c>> \notin paid
    BY <1>1 DEF QueuedUnpaid
  <2>4. match[o.m].state = "finished"
    BY <1>1 DEF RatingInv, InOrder, OfItsMatch
  <2>5. QueuedUnpaid'
    BY <1>1, <1>4, <1>6, <2>4 DEF QueuedUnpaid
  <2>6. PICK m \in Matches, c \in Characters : m = o.m /\ c = o.c
    BY <1>2
  <2>7. Ledger!Pay(m, c)
    BY <1>1, <1>6, <2>1, <2>2, <2>6 DEF Ledger!Pay, Trophies
  <2>8. Ledger!Next
    BY <2>7 DEF Ledger!Next
  <2> QED BY <2>5, <2>8
<1>7. \/ UNCHANGED <<writer, row, fights, gifts, paid>>
      \/ /\ Counted(Head(queue)) \/ NotCounted(Head(queue))
         /\ paid' = paid \cup {<<Head(queue).m, Head(queue).c>>}
  BY ZenonT(30) DEF PayTx
<1>8. \/ UNCHANGED <<writer, row, fights, gifts, paid>>
      \/ (Counted(o) \/ NotCounted(o)) /\ paid' = paid \cup {<<o.m, o.c>>}
  <2> HIDE DEF o
  <2> QED BY <1>7, <1>h
<1> QED BY <1>5, <1>6, <1>8

LEMMA LedgerStep ==
  TypesOK /\ RatingInv /\ PaidFirst /\ QueuedUnpaid /\ [Next]_vars
      => [Ledger!Next]_(Ledger!vars) /\ QueuedUnpaid'
<1> SUFFICES ASSUME TypesOK, RatingInv, PaidFirst, QueuedUnpaid, [Next]_vars
             PROVE  (Ledger!Next \/ UNCHANGED Ledger!vars) /\ QueuedUnpaid'
  OBVIOUS
<1>1. ASSUME NEW m \in Matches, NEW a \in Characters, NEW b \in Characters, Open(m, a, b)
      PROVE  (Ledger!Next \/ UNCHANGED Ledger!vars) /\ QueuedUnpaid'
  <2>1. UNCHANGED Ledger!vars
    BY <1>1 DEF Open, Ledger!vars
  <2>2. \A n \in Matches : n # m => match'[n] = match[n]
    BY <1>1 DEF Open, TypesOK, RestTypeOK
  <2>3. match[m].state = "none" /\ UNCHANGED <<queue, paid>>
    BY <1>1 DEF Open
  <2> QED BY <2>1, <2>2, <2>3 DEF QueuedUnpaid
<1>2. ASSUME NEW m \in Matches, NEW a \in Characters, NEW b \in Characters,
             NEW w \in {a, b}, NEW q \in {0, a, b}, Finish(m, a, b, w, q)
      PROVE  (Ledger!Next \/ UNCHANGED Ledger!vars) /\ QueuedUnpaid'
  <2> DEFINE oa == OutcomeOf(m, a, w, q)
             ob == OutcomeOf(m, b, w, q)
  <2>1. UNCHANGED Ledger!vars
    BY <1>2 DEF Finish, Ledger!vars
  <2>2. oa.m = m /\ ob.m = m /\ oa.c = a /\ ob.c = b
    BY DEF OutcomeOf
  <2>3. queue' = queue \o <<oa, ob>> /\ queue \in Seq(Outcomes) /\ UNCHANGED paid
        /\ match' = [match EXCEPT ![m].state = "finished"] /\ match[m].state = "running"
    BY <1>2 DEF Finish, TypesOK, PayTypeOK
  <2>4. oa \in Outcomes /\ ob \in Outcomes
    BY OutcomeType
  <2> HIDE DEF oa, ob
  <2>5. \A i \in DOMAIN queue' : \/ i \in DOMAIN queue /\ queue'[i] = queue[i]
                                \/ queue'[i] \in {oa, ob}
    BY <2>3, <2>4
  <2>6. <<m, a>> \notin paid /\ <<m, b>> \notin paid
    BY <2>3 DEF QueuedUnpaid
  <2>7. \A i \in DOMAIN queue' : <<queue'[i].m, queue'[i].c>> \notin paid
    BY <2>2, <2>5, <2>6 DEF QueuedUnpaid
  <2>8. \A n \in Matches : match[n].state = "finished" => match'[n].state = "finished"
    BY <2>3 DEF TypesOK, RestTypeOK
  <2> QED BY <2>1, <2>3, <2>7, <2>8 DEF QueuedUnpaid
<1>3. CASE PayTx
  BY <1>3, PayLedger
<1>4. CASE Audit
  <2>1. writer.o.m \in Matches /\ writer.o.c \in Characters /\ <<writer.o.m, writer.o.c>> \in paid
    BY <1>4 DEF Audit, TypesOK, PayTypeOK, Outcomes, PaidFirst
  <2>2. Ledger!Record(writer.o.m, writer.o.c) \/ UNCHANGED Ledger!vars
    BY <1>4, <2>1 DEF Audit, Ledger!Record, Ledger!vars
  <2>3. QueuedUnpaid'
    BY <1>4 DEF Audit, QueuedUnpaid
  <2> QED BY <2>1, <2>2, <2>3 DEF Ledger!Next
<1>5. CASE Rate \/ Reconcile \/ UNCHANGED vars
  <2>1. UNCHANGED <<match, queue, row, audit, paid>>
    BY <1>5 DEF Rate, Reconcile, vars
  <2> QED BY <2>1 DEF QueuedUnpaid, Ledger!vars
<1>6. ASSUME NEW g \in gifts, Claim(g)
      PROVE  (Ledger!Next \/ UNCHANGED Ledger!vars) /\ QueuedUnpaid'
  <2>1. row \in [Characters -> Rows] /\ UNCHANGED <<match, queue, audit, paid>>
    BY <1>6 DEF Claim, TypesOK, PayTypeOK
  <2>2. row' = [row EXCEPT ![g.c] = [row[g.c] EXCEPT !.weapons = row[g.c].weapons + 1]]
    BY <1>6 DEF Claim
  <2>3. \A c \in Characters : row'[c].trophies = row[c].trophies
    BY <2>1, <2>2 DEF Rows
  <2>4. UNCHANGED Ledger!vars
    BY <2>1, <2>3 DEF Ledger!vars
  <2> QED BY <2>1, <2>4 DEF QueuedUnpaid
<1>7. CASE Crash
  <2>1. UNCHANGED <<row, audit, paid>> /\ queue' = << >>
    BY <1>7 DEF Crash
  <2>2. \A n \in Matches : match[n].state = "finished" => match'[n].state = "finished"
    BY <1>7 DEF Crash
  <2> QED BY <2>1, <2>2 DEF QueuedUnpaid, Ledger!vars
<1> QED BY <1>1, <1>2, <1>3, <1>4, <1>5, <1>6, <1>7 DEF Next

(* A result pays once, only a paid result is on record, and nothing else    *)
(* moves a trophy, whatever statement fails and whenever the server stops.  *)
THEOREM WriterImplementsLedger == Spec => ImplementsLedger
<1>1. Init => Ledger!Init /\ QueuedUnpaid
  BY DEF Init, NewRow, Ledger!Init, QueuedUnpaid
<1>2. Init => TypesOK /\ RatingInv /\ PaidFirst
  BY InitTypes, InitRating, InitPaidFirst DEF TypesOK
<1>3. TypesOK /\ RatingInv /\ PaidFirst /\ QueuedUnpaid /\ [Next]_vars
          => /\ [Ledger!Next]_(Ledger!vars)
             /\ TypesOK' /\ RatingInv' /\ PaidFirst' /\ QueuedUnpaid'
  BY PayTypeStep, RestTypeStep, RatingStep, PaidFirstStep, LedgerStep DEF TypesOK
<1> QED BY <1>1, <1>2, <1>3, PTL DEF Spec, ImplementsLedger, Ledger!Spec

=============================================================================
