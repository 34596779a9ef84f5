--------------------------- MODULE SessionsProofs ---------------------------
(***************************************************************************)
(* Proofs about Sessions, for any users, any number of sessions, and with   *)
(* or without restarts and failing statements.                              *)
(***************************************************************************)
EXTENDS Sessions, TLAPS

LEMMA InitTypeOK == Init => TypeOK
<1> SUFFICES ASSUME Init PROVE TypeOK
  OBVIOUS
<1>1. login \in [Sessions -> [pc : LoginSteps, user : Users \cup {NoUser},
                              keep : Sessions \cup {NoSession}]]
  BY DEF Init, Unminted, LoginSteps, InFlightSteps
<1>2. \A s \in Sessions : login[s].user = NoUser <=> login[s].pc = "unminted"
  BY DEF Init, Unminted
<1> QED BY <1>1, <1>2 DEF Init, TypeOK

LEMMA TypeStep == TypeOK /\ [Next]_vars => TypeOK'
<1> SUFFICES ASSUME TypeOK, [Next]_vars PROVE TypeOK'
  OBVIOUS
<1>1. ASSUME NEW s \in Sessions, NEW u \in Users,
             NEW k \in Sessions \cup {NoSession}, Ask(s, u, k)
      PROVE  TypeOK'
  BY <1>1, SessionAssumption DEF Ask, TypeOK, LoginSteps, InFlightSteps
<1>2. ASSUME NEW s \in Sessions, Store(s) PROVE TypeOK'
  BY <1>2 DEF Store, TypeOK, LoginSteps, InFlightSteps
<1>3. ASSUME NEW s \in Sessions, Persist(s) PROVE TypeOK'
  <2>1. login[s].user \in Users
    BY <1>3 DEF Persist, TypeOK
  <2> QED BY <1>3, <2>1, ZenonT(30) DEF Persist, TypeOK, LoginSteps, InFlightSteps
<1>4. ASSUME NEW s \in Sessions, Evict(s) PROVE TypeOK'
  BY <1>4 DEF Evict, TypeOK, LoginSteps, InFlightSteps, Answered
<1>5. ASSUME NEW s \in Sessions, DeleteRows(s) PROVE TypeOK'
  BY <1>5, ZenonT(30) DEF DeleteRows, TypeOK, LoginSteps, InFlightSteps, Answered
<1>11. ASSUME NEW s \in Sessions, Answer(s) PROVE TypeOK'
  BY <1>11, ZenonT(30) DEF Answer, TypeOK, LoginSteps, InFlightSteps, Answered
<1>6. ASSUME NEW s \in Sessions, Miss(s) PROVE TypeOK'
  BY <1>6 DEF Miss, TypeOK
<1>7. ASSUME NEW s \in Sessions, ReadRow(s) PROVE TypeOK'
  BY <1>7 DEF ReadRow, TypeOK
<1>8. ASSUME NEW s \in Sessions, Repopulate(s) PROVE TypeOK'
  BY <1>8 DEF Repopulate, TypeOK
<1>9. CASE Restart
  <2>1. stranded' \subseteq Users
    BY <1>9 DEF Restart, TypeOK
  <2> QED BY <1>9, <2>1 DEF Restart, TypeOK, LoginSteps, InFlightSteps
<1>10. CASE UNCHANGED vars
  BY <1>10 DEF vars, TypeOK
<1> QED BY <1>1, <1>2, <1>3, <1>4, <1>5, <1>6, <1>7, <1>8, <1>9, <1>10, <1>11 DEF Next

(* Every reachable map, table, login and lookup is of its type.             *)
THEOREM TypeCorrect == Spec => []TypeOK
<1>1. Init => TypeOK
  BY InitTypeOK
<1>2. TypeOK /\ [Next]_vars => TypeOK'
  BY TypeStep
<1> QED BY <1>1, <1>2, PTL DEF Spec

----------------------------------------------------------------------------
Claimed == {"claiming", "claimed", "done"}

(* Only minted sessions are held or have a row, and only answered ones are  *)
(* looked up.                                                               *)
HeldWasMinted ==
    /\ \A s \in live : login[s].pc \notin {"unminted", "asked"}
    /\ \A s \in rows : login[s].pc \in {"saved", "claiming", "claimed", "done", "lost"}
    /\ \A s \in Sessions : lookup[s] # "idle" => login[s].pc = "done"
    /\ ~mishap => \A s \in Sessions : login[s].pc # "lost"

(* A row outlives its session's eviction only while the login that evicted  *)
(* it still has to delete it.                                               *)
RowsAreHeldOrDoomed == ~mishap => \A s \in rows : s \in live \/ BeingDisplaced(s)

(* Of two rows of different devices, one is about to be deleted.            *)
RowsApart ==
    ~mishap => \A s, t \in rows :
        /\ login[s].user = login[t].user
        /\ login[s].pc \in Claimed /\ login[t].pc \in Claimed
        => SameDevice(s, t) \/ BeingDisplaced(s) \/ BeingDisplaced(t)

(* No two devices are held past their claims.                               *)
LiveApart ==
    ~mishap /\ ~raced => \A s, t \in live :
        /\ login[s].user = login[t].user
        /\ login[s].pc \in Claimed /\ login[t].pc \in Claimed
        => SameDevice(s, t)

DeviceInv == TypeOK /\ HeldWasMinted /\ RowsAreHeldOrDoomed /\ RowsApart /\ LiveApart

(* A login step of s that neither starts nor ends a claim leaves every      *)
(* claim as it was.                                                         *)
LEMMA ClaimsUnchanged ==
    ASSUME TypeOK,
           \A t \in Sessions : login'[t].user = login[t].user /\ login'[t].keep = login[t].keep
    PROVE  \A s \in Sessions : /\ Others(s)' = Others(s)
                               /\ Spared(s)' = Spared(s)
                               /\ \A t \in Sessions : SameDevice(s, t)' <=> SameDevice(s, t)
  BY DEF Others, Spared, Owns, SameDevice

LEMMA DeviceInit == Init => DeviceInv
<1> SUFFICES ASSUME Init PROVE DeviceInv
  OBVIOUS
<1>1. TypeOK
  BY InitTypeOK
<1> QED BY <1>1 DEF Init, DeviceInv, HeldWasMinted, RowsAreHeldOrDoomed, RowsApart,
                    LiveApart, Unminted

LEMMA AskStep ==
    ASSUME DeviceInv, NEW s \in Sessions, NEW u \in Users,
           NEW k \in Sessions \cup {NoSession}, Ask(s, u, k), TypeOK'
    PROVE  DeviceInv'
<1> USE DEF DeviceInv
<1>0. /\ login[s].pc = "unminted" /\ login'[s].pc = "asked"
      /\ \A t \in Sessions : t # s => login'[t] = login[t]
      /\ live' = live /\ rows' = rows /\ lookup' = lookup
      /\ mishap' = mishap /\ raced' = raced
  BY DEF Ask, TypeOK
<1>1. s \notin live /\ s \notin rows
  BY <1>0 DEF HeldWasMinted
<1>2. HeldWasMinted'
  <2>1. \A t \in live \cup rows : t \in Sessions /\ login'[t] = login[t]
    BY <1>0, <1>1 DEF TypeOK
  <2>2. lookup[s] = "idle"
    BY <1>0 DEF HeldWasMinted
  <2>3. \A t \in Sessions : lookup'[t] # "idle" => login'[t].pc = "done"
    BY <1>0, <2>2 DEF HeldWasMinted
  <2>4. ~mishap' => \A t \in Sessions : login'[t].pc # "lost"
    BY <1>0 DEF HeldWasMinted
  <2> QED BY <1>0, <2>1, <2>3, <2>4 DEF HeldWasMinted
<1>3. \A x \in rows : BeingDisplaced(x) => BeingDisplaced(x)'
  BY <1>0, <1>1 DEF BeingDisplaced, Others, Owns, Spared, TypeOK
<1>4. \A x, y \in Sessions : x # s /\ y # s /\ SameDevice(x, y) => SameDevice(x, y)'
  BY <1>0 DEF SameDevice, Spared
<1>5. RowsAreHeldOrDoomed'
  BY <1>0, <1>3 DEF RowsAreHeldOrDoomed
<1>6. RowsApart'
  BY <1>0, <1>1, <1>3, <1>4 DEF RowsApart, TypeOK
<1>7. LiveApart'
  BY <1>0, <1>1, <1>4 DEF LiveApart, TypeOK
<1> QED BY <1>2, <1>5, <1>6, <1>7

LEMMA StoreStep ==
    ASSUME DeviceInv, NEW s \in Sessions, Store(s), TypeOK'
    PROVE  DeviceInv'
<1> USE DEF DeviceInv
<1>0. /\ login[s].pc = "asked" /\ login'[s].pc = "stored"
      /\ \A t \in Sessions : t # s => login'[t] = login[t]
      /\ \A t \in Sessions : login'[t].user = login[t].user /\ login'[t].keep = login[t].keep
      /\ live' = live \cup {s} /\ rows' = rows /\ lookup' = lookup
      /\ mishap' = mishap /\ raced' = raced
  BY DEF Store, TypeOK
<1>1. s \notin live /\ s \notin rows
  BY <1>0 DEF HeldWasMinted
<1>2. HeldWasMinted'
  BY <1>0, <1>1, SMTT(20) DEF HeldWasMinted, TypeOK
<1>3. /\ \A x \in Sessions : BeingDisplaced(x) => BeingDisplaced(x)'
      /\ \A x, y \in Sessions : SameDevice(x, y)' <=> SameDevice(x, y)
  BY <1>0, ClaimsUnchanged DEF BeingDisplaced
<1>5. RowsAreHeldOrDoomed'
  BY <1>0, <1>3 DEF RowsAreHeldOrDoomed, TypeOK
<1>6. RowsApart'
  BY <1>0, <1>1, <1>3 DEF RowsApart, TypeOK
<1>7. LiveApart'
  BY <1>0, <1>1, <1>3 DEF LiveApart, TypeOK, Claimed
<1> QED BY <1>2, <1>5, <1>6, <1>7

LEMMA PersistStep ==
    ASSUME DeviceInv, NEW s \in Sessions, Persist(s), TypeOK'
    PROVE  DeviceInv'
<1> USE DEF DeviceInv
<1>0. /\ login[s].pc = "stored" /\ login'[s].pc = "saved"
      /\ \A t \in Sessions : t # s => login'[t] = login[t]
      /\ \A t \in Sessions : login'[t].user = login[t].user /\ login'[t].keep = login[t].keep
      /\ live' = live /\ rows' \subseteq rows \cup {s} /\ lookup' = lookup
      /\ raced' = raced /\ (mishap => mishap')
  BY DEF Persist, TypeOK
<1>1. ~mishap' => s \in live
  BY DEF Persist
<1>2. HeldWasMinted'
  <2>1. live \subseteq Sessions /\ rows \subseteq Sessions
    BY DEF TypeOK
  <2>2. lookup[s] = "idle"
    BY <1>0 DEF HeldWasMinted
  <2>3. \A t \in Sessions : lookup'[t] # "idle" => login'[t].pc = "done"
    BY <1>0, <2>2 DEF HeldWasMinted
  <2>4. ~mishap' => \A t \in Sessions : login'[t].pc # "lost"
    BY <1>0 DEF HeldWasMinted
  <2>5. \A t \in live' : login'[t].pc \notin {"unminted", "asked"}
    BY <1>0, <2>1 DEF HeldWasMinted
  <2>6. \A t \in rows' : login'[t].pc \in {"saved", "claiming", "claimed", "done", "lost"}
    BY <1>0, <2>1 DEF HeldWasMinted
  <2> QED BY <2>3, <2>4, <2>5, <2>6 DEF HeldWasMinted
<1>3. /\ \A x \in Sessions : BeingDisplaced(x) => BeingDisplaced(x)'
      /\ \A x, y \in Sessions : SameDevice(x, y)' <=> SameDevice(x, y)
  BY <1>0, ClaimsUnchanged DEF BeingDisplaced
<1>5. RowsAreHeldOrDoomed'
  BY <1>0, <1>1, <1>3 DEF RowsAreHeldOrDoomed, TypeOK
<1>6. RowsApart'
  BY <1>0, <1>3 DEF RowsApart, TypeOK, Claimed
<1>7. LiveApart'
  BY <1>0, <1>3 DEF LiveApart, TypeOK, Claimed
<1> QED BY <1>2, <1>5, <1>6, <1>7

LEMMA EvictStep ==
    ASSUME DeviceInv, NEW s \in Sessions, Evict(s), TypeOK'
    PROVE  DeviceInv'
<1> USE DEF DeviceInv
<1>0. /\ login[s].pc = "saved" /\ login'[s].pc \in Claimed
      /\ \A t \in Sessions : t # s => login'[t] = login[t]
      /\ \A t \in Sessions : login'[t].user = login[t].user /\ login'[t].keep = login[t].keep
      /\ live' = live \ Others(s) /\ rows' = rows /\ lookup' = lookup
      /\ raced' = raced /\ mishap' = mishap
      /\ live \cap Others(s) # {} => login'[s].pc = "claiming"
  BY SMTT(20) DEF Evict, TypeOK, Claimed
<1>2. HeldWasMinted'
  BY <1>0, SMTT(20) DEF HeldWasMinted, TypeOK, Claimed
<1>3. /\ \A x \in Sessions : BeingDisplaced(x) => BeingDisplaced(x)'
      /\ \A x, y \in Sessions : SameDevice(x, y)' <=> SameDevice(x, y)
  BY <1>0, ClaimsUnchanged DEF BeingDisplaced
<1>4. \A x \in live \cap Others(s) : BeingDisplaced(x)'
  BY <1>0, ClaimsUnchanged DEF BeingDisplaced
<1>5. RowsAreHeldOrDoomed'
  BY <1>0, <1>3, <1>4 DEF RowsAreHeldOrDoomed, TypeOK
<1>6. RowsApart'
  <2> SUFFICES ASSUME ~mishap, NEW x \in rows, NEW y \in rows,
                      login'[x].user = login'[y].user,
                      login'[x].pc \in Claimed, login'[y].pc \in Claimed
               PROVE  (SameDevice(x, y) \/ BeingDisplaced(x) \/ BeingDisplaced(y))'
    BY <1>0 DEF RowsApart
  <2>0. x \in Sessions /\ y \in Sessions
    BY DEF TypeOK
  <2>1. CASE x # s /\ y # s
    BY <1>0, <1>3, <2>0, <2>1 DEF RowsApart
  <2>2. ASSUME NEW z \in rows, z # s, login[z].user = login[s].user
        PROVE  z \in Spared(s) \/ BeingDisplaced(z)'
    BY <1>3, <1>4, <2>2 DEF RowsAreHeldOrDoomed, Others, Owns, TypeOK
  <2>3. CASE x = s \/ y = s
    <3>1. CASE x = y
      BY <2>0, <1>3, <3>1 DEF SameDevice, Spared
    <3>2. CASE x # y
      BY <1>0, <1>3, <2>0, <2>2, <2>3, <3>2 DEF SameDevice
    <3> QED BY <3>1, <3>2
  <2> QED BY <2>1, <2>3
<1>7. LiveApart'
  <2> SUFFICES ASSUME ~mishap, ~raced, NEW x \in live', NEW y \in live',
                      login'[x].user = login'[y].user,
                      login'[x].pc \in Claimed, login'[y].pc \in Claimed
               PROVE  SameDevice(x, y)'
    BY <1>0 DEF LiveApart
  <2>0. x \in Sessions /\ y \in Sessions /\ x \in live /\ y \in live
    BY <1>0 DEF TypeOK
  <2>1. CASE x # s /\ y # s
    BY <1>0, <1>3, <2>0, <2>1 DEF LiveApart
  <2>2. ASSUME NEW z \in live', login[z].user = login[s].user
        PROVE  z \in Spared(s)
    BY <1>0, <2>2 DEF Others, Owns, TypeOK
  <2>3. CASE x = s \/ y = s
    BY <1>0, <1>3, <2>0, <2>2, <2>3 DEF SameDevice
  <2> QED BY <2>1, <2>3
<1> QED BY <1>2, <1>5, <1>6, <1>7

LEMMA DeleteStep ==
    ASSUME DeviceInv, NEW s \in Sessions, DeleteRows(s), TypeOK'
    PROVE  DeviceInv'
<1> USE DEF DeviceInv
<1>0. /\ login[s].pc = "claiming" /\ login'[s].pc = "claimed"
      /\ \A t \in Sessions : t # s => login'[t] = login[t]
      /\ \A t \in Sessions : login'[t].user = login[t].user /\ login'[t].keep = login[t].keep
      /\ live' = live /\ rows' \subseteq rows /\ lookup' = lookup
      /\ raced' = raced /\ (mishap => mishap')
      /\ ~mishap' => rows' = rows \ Others(s)
  <2>1. /\ login[s].pc = "claiming" /\ login' = [login EXCEPT ![s].pc = "claimed"]
        /\ UNCHANGED <<live, lookup, raced>>
    BY DEF DeleteRows
  <2>2. /\ login'[s].pc = "claimed"
        /\ \A t \in Sessions : t # s => login'[t] = login[t]
        /\ \A t \in Sessions : login'[t].user = login[t].user /\ login'[t].keep = login[t].keep
    BY <2>1 DEF TypeOK
  <2>3. /\ rows' \subseteq rows /\ (mishap => mishap')
        /\ ~mishap' => rows' = rows \ Others(s)
    BY DEF DeleteRows
  <2> QED BY <2>1, <2>2, <2>3
<1>2. HeldWasMinted'
  <2>1. \A t \in Sessions : login'[t].pc = login[t].pc \/ t = s
    BY <1>0
  <2>2. live \subseteq Sessions /\ rows \subseteq Sessions
    BY DEF TypeOK
  <2>3. \A t \in live' : login'[t].pc \notin {"unminted", "asked"}
    BY <1>0, <2>1, <2>2 DEF HeldWasMinted
  <2>4. \A t \in rows' : login'[t].pc \in {"saved", "claiming", "claimed", "done", "lost"}
    BY <1>0, <2>1, <2>2 DEF HeldWasMinted
  <2>5. \A t \in Sessions : lookup'[t] # "idle" => login'[t].pc = "done"
    BY <1>0, <2>1 DEF HeldWasMinted
  <2>6. ~mishap' => \A t \in Sessions : login'[t].pc # "lost"
    BY <1>0, <2>1 DEF HeldWasMinted
  <2> QED BY <2>3, <2>4, <2>5, <2>6 DEF HeldWasMinted
<1>3. /\ \A x \in Sessions : BeingDisplaced(x) => BeingDisplaced(x)' \/ x \in Others(s)
      /\ \A x, y \in Sessions : SameDevice(x, y)' <=> SameDevice(x, y)
  BY <1>0, ClaimsUnchanged DEF BeingDisplaced
<1>5. RowsAreHeldOrDoomed'
  BY <1>0, <1>3 DEF RowsAreHeldOrDoomed, TypeOK
<1>6. RowsApart'
  BY <1>0, <1>3 DEF RowsApart, TypeOK, Claimed
<1>7. LiveApart'
  BY <1>0, <1>3 DEF LiveApart, TypeOK, Claimed
<1> QED BY <1>2, <1>5, <1>6, <1>7

LEMMA AnswerStep ==
    ASSUME DeviceInv, NEW s \in Sessions, Answer(s), TypeOK'
    PROVE  DeviceInv'
<1> USE DEF DeviceInv
<1>0. /\ login[s].pc = "claimed" /\ login'[s].pc = "done"
      /\ \A t \in Sessions : t # s => login'[t] = login[t]
      /\ \A t \in Sessions : login'[t].user = login[t].user /\ login'[t].keep = login[t].keep
      /\ live' = live /\ rows' = rows /\ lookup' = lookup
      /\ raced' = raced /\ mishap' = mishap
  BY DEF Answer, TypeOK
<1>2. HeldWasMinted'
  BY <1>0 DEF HeldWasMinted, TypeOK
<1>3. /\ \A x \in Sessions : BeingDisplaced(x) => BeingDisplaced(x)'
      /\ \A x, y \in Sessions : SameDevice(x, y)' <=> SameDevice(x, y)
  BY <1>0, ClaimsUnchanged DEF BeingDisplaced
<1>5. RowsAreHeldOrDoomed'
  BY <1>0, <1>3 DEF RowsAreHeldOrDoomed, TypeOK
<1>6. RowsApart'
  BY <1>0, <1>3 DEF RowsApart, TypeOK, Claimed
<1>7. LiveApart'
  BY <1>0, <1>3 DEF LiveApart, TypeOK, Claimed
<1> QED BY <1>2, <1>5, <1>6, <1>7

LEMMA LookupStep ==
    ASSUME DeviceInv, NEW s \in Sessions, Miss(s) \/ ReadRow(s) \/ Repopulate(s), TypeOK'
    PROVE  DeviceInv'
<1> USE DEF DeviceInv
<1>0. /\ login' = login /\ rows' = rows /\ mishap' = mishap
      /\ live \subseteq live' /\ live' \subseteq live \cup {s} /\ (raced => raced')
  <2>1. CASE Miss(s)
    BY <2>1 DEF Miss
  <2>2. CASE ReadRow(s)
    BY <2>2 DEF ReadRow
  <2>3. CASE Repopulate(s)
    BY <2>3 DEF Repopulate
  <2> QED BY <2>1, <2>2, <2>3
<1>1. s \in live' /\ s \notin live => login[s].pc = "done"
  BY DEF Miss, ReadRow, Repopulate, HeldWasMinted
<1>2. ~mishap /\ ~raced' => live' = live
  BY DEF Miss, ReadRow, Repopulate, RowsAreHeldOrDoomed
<1>3. HeldWasMinted'
  <2>1. \A t \in Sessions : lookup'[t] # "idle" => login[t].pc = "done"
    BY DEF Miss, ReadRow, Repopulate, HeldWasMinted, TypeOK
  <2> QED BY <2>1, <1>0, <1>1 DEF HeldWasMinted
<1>4. /\ \A x \in Sessions : BeingDisplaced(x)' <=> BeingDisplaced(x)
      /\ \A x, y \in Sessions : SameDevice(x, y)' <=> SameDevice(x, y)
  BY <1>0 DEF BeingDisplaced, Others, Owns, Spared, SameDevice
<1>5. RowsAreHeldOrDoomed'
  BY <1>0, <1>4 DEF RowsAreHeldOrDoomed, TypeOK
<1>6. RowsApart'
  BY <1>0, <1>4 DEF RowsApart, TypeOK
<1>7. LiveApart'
  BY <1>0, <1>2, <1>4 DEF LiveApart, TypeOK
<1> QED BY <1>3, <1>5, <1>6, <1>7

LEMMA RestartStep == ASSUME DeviceInv, Restart, TypeOK' PROVE DeviceInv'
<1> USE DEF DeviceInv
<1>0. live' = {} /\ rows' = rows /\ mishap' = TRUE /\ \A s \in Sessions : lookup'[s] = "idle"
  BY DEF Restart
<1>1. \A s \in Sessions : login'[s].pc = login[s].pc \/ login'[s].pc = "lost"
  BY DEF Restart, TypeOK
<1>2. HeldWasMinted'
  BY <1>0, <1>1 DEF HeldWasMinted, TypeOK
<1> QED BY <1>0, <1>2 DEF RowsAreHeldOrDoomed, RowsApart, LiveApart

THEOREM DeviceInvHolds == Spec => []DeviceInv
<1>1. Init => DeviceInv
  BY DeviceInit
<1>2. DeviceInv /\ [Next]_vars => DeviceInv'
  <2> SUFFICES ASSUME DeviceInv, [Next]_vars PROVE DeviceInv'
    OBVIOUS
  <2>0. TypeOK'
    BY TypeStep DEF DeviceInv
  <2> USE <2>0 DEF DeviceInv
  <2>1. ASSUME NEW s \in Sessions, NEW u \in Users,
               NEW k \in Sessions \cup {NoSession}, Ask(s, u, k)
        PROVE  DeviceInv'
    BY <2>1, AskStep
  <2>2. ASSUME NEW s \in Sessions, Store(s) PROVE DeviceInv'
    BY <2>2, StoreStep
  <2>3. ASSUME NEW s \in Sessions, Persist(s) PROVE DeviceInv'
    BY <2>3, PersistStep
  <2>4. ASSUME NEW s \in Sessions, Evict(s) PROVE DeviceInv'
    BY <2>4, EvictStep
  <2>5. ASSUME NEW s \in Sessions, DeleteRows(s) PROVE DeviceInv'
    BY <2>5, DeleteStep
  <2>9. ASSUME NEW s \in Sessions, Answer(s) PROVE DeviceInv'
    BY <2>9, AnswerStep
  <2>6. ASSUME NEW s \in Sessions, Miss(s) \/ ReadRow(s) \/ Repopulate(s)
        PROVE  DeviceInv'
    BY <2>6, LookupStep
  <2>7. CASE Restart
    BY <2>7, RestartStep
  <2>8. CASE UNCHANGED vars
    BY <2>8 DEF vars, HeldWasMinted, RowsAreHeldOrDoomed, RowsApart, LiveApart,
                BeingDisplaced, Others, Owns, Spared, SameDevice
  <2> QED BY <2>1, <2>2, <2>3, <2>4, <2>5, <2>6, <2>7, <2>8, <2>9 DEF Next
<1> QED BY <1>1, <1>2, PTL DEF Spec

LEMMA DoomedMeansInFlight ==
    ASSUME TypeOK, NEW u \in Users, Settled(u), NEW s \in Owns(u)
    PROVE  ~BeingDisplaced(s) /\ login[s].pc \notin InFlightSteps
  BY DEF Settled, InFlight, BeingDisplaced, Others, Owns, InFlightSteps

(* With every login answered, the table holds one device's rows.            *)
THEOREM OneDeviceInTheTable == Spec => []RowsOfOneDevice
<1>1. DeviceInv => RowsOfOneDevice
  <2> SUFFICES ASSUME DeviceInv, ~mishap, NEW u \in Users, Settled(u),
                      NEW s \in rows \cap Owns(u), NEW t \in rows \cap Owns(u)
               PROVE  SameDevice(s, t)
    BY DEF RowsOfOneDevice, OneDevice
  <2>1. /\ ~BeingDisplaced(s) /\ login[s].pc \notin InFlightSteps
        /\ ~BeingDisplaced(t) /\ login[t].pc \notin InFlightSteps
    BY DoomedMeansInFlight DEF DeviceInv
  <2>2. login[s].pc = "done" /\ login[t].pc = "done"
    BY <2>1 DEF DeviceInv, HeldWasMinted, InFlightSteps, Owns
  <2>3. login[s].user = login[t].user
    BY DEF Owns
  <2> QED BY <2>1, <2>2, <2>3 DEF DeviceInv, RowsApart, Claimed
<1> QED BY <1>1, DeviceInvHolds, PTL

(* With every login answered, the map holds one device's sessions.          *)
THEOREM OneDeviceInMemory == Spec => []LiveOnOneDevice
<1>1. DeviceInv => LiveOnOneDevice
  <2> SUFFICES ASSUME DeviceInv, ~mishap, ~raced, NEW u \in Users, Settled(u),
                      NEW s \in live \cap Owns(u), NEW t \in live \cap Owns(u)
               PROVE  SameDevice(s, t)
    BY DEF LiveOnOneDevice, OneDevice
  <2>1. login[s].pc \notin InFlightSteps /\ login[t].pc \notin InFlightSteps
    BY DoomedMeansInFlight DEF DeviceInv
  <2>2. login[s].pc = "done" /\ login[t].pc = "done"
    BY <2>1 DEF DeviceInv, HeldWasMinted, InFlightSteps, Owns, TypeOK, LoginSteps, InFlightSteps
  <2>3. login[s].user = login[t].user
    BY DEF Owns
  <2> QED BY <2>2, <2>3 DEF DeviceInv, LiveApart, Claimed
<1> QED BY <1>1, DeviceInvHolds, PTL

----------------------------------------------------------------------------
(* Of an account whose logins never overlapped: one login is in flight at   *)
(* most, what it saved is in the table, and so is whoever was answered,     *)
(* unless a later login deleted the row and has not answered yet, or was    *)
(* lost before it did.                                                      *)
AloneInFlight ==
    \A s, t \in Sessions :
        /\ login[s].pc \in InFlightSteps /\ login[t].pc \in InFlightSteps
        /\ login[s].user = login[t].user
        /\ login[s].user \notin overlapped
        => s = t

SavedHasRow ==
    \A s \in Sessions :
        login[s].pc \in {"saved", "claiming", "claimed"} /\ login[s].user \notin overlapped
            => s \in rows

(* A login of u deleted the other rows and is about to answer.              *)
Unanswered(u) == \E s \in Owns(u) : login[s].pc = "claimed"

OwnerHasRow ==
    \A u \in Users : owner[u] # NoSession =>
        /\ login[owner[u]].user = u
        /\ login[owner[u]].pc = "done"
        /\ u \in overlapped \cup stranded \/ Unanswered(u) \/ owner[u] \in rows

OwnerInv == TypeOK /\ AloneInFlight /\ SavedHasRow /\ OwnerHasRow

LEMMA OwnerStep == OwnerInv /\ [Next]_vars => OwnerInv'
<1> SUFFICES ASSUME OwnerInv, [Next]_vars PROVE OwnerInv'
  OBVIOUS
<1>0. TypeOK /\ TypeOK'
  BY TypeStep DEF OwnerInv
<1> USE <1>0, SessionAssumption DEF OwnerInv
<1>1. ASSUME NEW s \in Sessions, NEW u \in Users,
             NEW k \in Sessions \cup {NoSession}, Ask(s, u, k)
      PROVE  OwnerInv'
  <2>0. /\ login[s].pc = "unminted" /\ login'[s].pc = "asked" /\ login'[s].user = u
        /\ \A t \in Sessions : t # s => login'[t] = login[t]
        /\ owner' = owner /\ rows' = rows /\ overlapped \subseteq overlapped'
        /\ stranded' = stranded
        /\ \A t \in Sessions :
             login[t].user = u /\ login[t].pc \in InFlightSteps => u \in overlapped'
    BY <1>1 DEF Ask, TypeOK, InFlight, Owns
  <2>1. AloneInFlight'
    BY <2>0 DEF AloneInFlight
  <2>2. SavedHasRow'
    BY <2>0 DEF SavedHasRow
  <2>3. \A v \in Users : Unanswered(v) => Unanswered(v)'
    BY <2>0 DEF Unanswered, Owns
  <2>4. OwnerHasRow'
    BY <2>0, <2>3 DEF OwnerHasRow, TypeOK
  <2> QED BY <2>1, <2>2, <2>4
<1>2. ASSUME NEW s \in Sessions, Store(s) PROVE OwnerInv'
  <2>0. /\ login[s].pc = "asked" /\ login'[s].pc = "stored"
        /\ \A t \in Sessions : t # s => login'[t] = login[t]
        /\ \A t \in Sessions : login'[t].user = login[t].user
        /\ owner' = owner /\ rows' = rows
        /\ overlapped' = overlapped /\ stranded' = stranded
    BY <1>2 DEF Store, TypeOK
  <2>1. AloneInFlight' /\ SavedHasRow'
    BY <2>0 DEF AloneInFlight, SavedHasRow, InFlightSteps
  <2>2. \A u \in Users : Unanswered(u) => Unanswered(u)'
    BY <2>0 DEF Unanswered, Owns
  <2>3. OwnerHasRow'
    BY <2>0, <2>2 DEF OwnerHasRow, TypeOK
  <2> QED BY <2>1, <2>3
<1>3. ASSUME NEW s \in Sessions, Persist(s) PROVE OwnerInv'
  <2>0. /\ login[s].pc = "stored" /\ login'[s].pc = "saved"
        /\ \A t \in Sessions : t # s => login'[t] = login[t]
        /\ \A t \in Sessions : login'[t].user = login[t].user
        /\ owner' = owner /\ rows \subseteq rows' /\ overlapped \subseteq overlapped'
        /\ stranded' = stranded
        /\ s \in rows' \/ login[s].user \in overlapped'
    BY <1>3 DEF Persist, TypeOK
  <2>1. AloneInFlight'
    BY <2>0 DEF AloneInFlight, InFlightSteps
  <2>2. SavedHasRow'
    BY <2>0 DEF SavedHasRow
  <2>3. \A u \in Users : Unanswered(u) => Unanswered(u)'
    BY <2>0 DEF Unanswered, Owns
  <2>4. OwnerHasRow'
    BY <2>0, <2>3 DEF OwnerHasRow, TypeOK
  <2> QED BY <2>1, <2>2, <2>4
<1>4. ASSUME NEW s \in Sessions, Evict(s) \/ Answer(s) PROVE OwnerInv'
  <2>0. /\ login[s].pc \in {"saved", "claimed"}
        /\ \/ login'[s].pc = "claiming" /\ login[s].pc = "saved"
              /\ owner' = owner /\ stranded' = stranded
           \/ /\ login'[s].pc = "done"
              /\ owner' = [owner EXCEPT ![login[s].user] = s]
              /\ stranded' = stranded \ {login[s].user}
        /\ \A t \in Sessions : t # s => login'[t] = login[t]
        /\ \A t \in Sessions : login'[t].user = login[t].user
        /\ rows' = rows /\ overlapped' = overlapped
    BY <1>4 DEF Evict, Answer, TypeOK, Answered
  <2>1. AloneInFlight'
    BY <2>0 DEF AloneInFlight, InFlightSteps
  <2>2. SavedHasRow'
    BY <2>0 DEF SavedHasRow
  <2>3. login[s].user \in Users /\ (login[s].user \notin overlapped => s \in rows)
    BY <2>0 DEF SavedHasRow, TypeOK
  <2>4. OwnerHasRow'
    <3> SUFFICES ASSUME NEW u \in Users, owner'[u] # NoSession
                 PROVE  /\ login'[owner'[u]].user = u
                        /\ login'[owner'[u]].pc = "done"
                        /\ \/ u \in overlapped' \cup stranded' \/ Unanswered(u)'
                           \/ owner'[u] \in rows'
      BY DEF OwnerHasRow
    <3>1. CASE u = login[s].user /\ login'[s].pc = "done"
      BY <2>0, <2>3, <3>1 DEF TypeOK
    <3>2. CASE ~(u = login[s].user /\ login'[s].pc = "done")
      <4>1. owner'[u] = owner[u] /\ owner[u] \in Sessions /\ (u \in stranded => u \in stranded')
        BY <2>0, <2>3, <3>2 DEF TypeOK
      <4>2. Unanswered(u) => Unanswered(u)'
        BY <2>0, <3>2 DEF Unanswered, Owns
      <4>3. login[owner[u]].user = u /\ login[owner[u]].pc = "done"
        BY <4>1 DEF OwnerHasRow
      <4>4. owner[u] # s
        BY <2>0, <4>3
      <4> QED BY <2>0, <4>1, <4>2, <4>3, <4>4 DEF OwnerHasRow
    <3> QED BY <3>1, <3>2
  <2> QED BY <2>1, <2>2, <2>4
<1>5. ASSUME NEW s \in Sessions, DeleteRows(s) PROVE OwnerInv'
  <2>0. /\ login[s].pc = "claiming" /\ login'[s].pc = "claimed"
        /\ \A t \in Sessions : t # s => login'[t] = login[t]
        /\ \A t \in Sessions : login'[t].user = login[t].user
        /\ overlapped' = overlapped /\ stranded' = stranded /\ owner' = owner
        /\ \A t \in rows : t \notin rows' => login[t].user = login[s].user /\ t # s
    BY <1>5 DEF DeleteRows, TypeOK, Others, Owns, Spared
  <2>1. AloneInFlight'
    BY <2>0 DEF AloneInFlight, InFlightSteps
  <2>2. SavedHasRow'
    BY <2>0 DEF SavedHasRow, AloneInFlight, InFlightSteps
  <2>3. Unanswered(login[s].user)'
    BY <2>0 DEF Unanswered, Owns
  <2>4. \A u \in Users : Unanswered(u) => Unanswered(u)'
    BY <2>0 DEF Unanswered, Owns
  <2>5. OwnerHasRow'
    BY <2>0, <2>3, <2>4 DEF OwnerHasRow, TypeOK
  <2> QED BY <2>1, <2>2, <2>5
<1>6. ASSUME NEW s \in Sessions, Miss(s) \/ ReadRow(s) \/ Repopulate(s) PROVE OwnerInv'
  <2>1. /\ <<login, rows, owner>>' = <<login, rows, owner>>
        /\ <<overlapped, stranded>>' = <<overlapped, stranded>>
    BY <1>6 DEF Miss, ReadRow, Repopulate
  <2> QED BY <2>1 DEF AloneInFlight, SavedHasRow, OwnerHasRow, Unanswered, Owns
<1>7. CASE Restart
  <2>0. /\ rows' = rows /\ overlapped' = overlapped /\ owner' = owner
        /\ \A t \in Sessions : /\ login'[t].user = login[t].user
                               /\ login'[t].pc \notin InFlightSteps
                               /\ login[t].pc = "done" => login'[t].pc = "done"
        /\ stranded \subseteq stranded'
        /\ \A t \in Sessions : login[t].pc = "claimed" => login[t].user \in stranded'
    BY <1>7 DEF Restart, TypeOK, InFlightSteps
  <2>1. \A u \in Users : Unanswered(u) => u \in stranded'
    BY <2>0 DEF Unanswered, Owns
  <2> QED BY <2>0, <2>1 DEF AloneInFlight, SavedHasRow, OwnerHasRow, InFlightSteps, TypeOK
<1>8. CASE UNCHANGED vars
  BY <1>8 DEF vars, AloneInFlight, SavedHasRow, OwnerHasRow, Unanswered, Owns
<1> QED BY <1>1, <1>2, <1>3, <1>4, <1>5, <1>6, <1>7, <1>8 DEF Next

(* The player answered last keeps a row to come back with, through restarts *)
(* and other logins that crash, short of one that deleted the row and died  *)
(* before it answered.                                                      *)
THEOREM OwnerKeepsARow == Spec => []OwnerStaysSignedIn
<1>1. Init => OwnerInv
  BY InitTypeOK DEF Init, OwnerInv, AloneInFlight, SavedHasRow, OwnerHasRow, Unminted,
                    InFlightSteps
<1>2. OwnerInv => OwnerStaysSignedIn
  BY DEF OwnerInv, OwnerHasRow, OwnerStaysSignedIn, Unanswered, Settled, InFlight,
         InFlightSteps
<1> QED BY <1>1, <1>2, OwnerStep, PTL DEF Spec
=============================================================================
