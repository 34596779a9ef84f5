---------------------------- MODULE GuildsProofs ----------------------------
(***************************************************************************)
(* Proofs about Guilds for any users, guilds, caps and requests.            *)
(***************************************************************************)
EXTENDS Guilds, FiniteSetTheorems, TLAPS

(* What a request in progress says of itself.                               *)
RequestOK(r) ==
    /\ r.pc # "idle" => r.guild \in Guilds /\ r.about \in Users
    /\ r.pc = "idle" => r.kind = "none"
    /\ r.pc \in {"leave", "succeed"} => r.kind = "leave"
    /\ r.kind = "leave" => r.rank \in {"MEMBER", "GRANDMASTER"}
    /\ r.kind = "leave" => r.pc \in {"leave", "succeed"}
    /\ r.pc = "succeed" => r.rank = "GRANDMASTER" /\ r.heir # r.about
    /\ r.pc = "remove" => r.kind \in {"kick", "ban"}
    /\ r.pc = "found" => r.kind = "create"
    /\ r.kind = "create" => r.rank = "GRANDMASTER" /\ r.pc \in {"found", "seat"}
    /\ r.kind \in {"join", "approve"} => r.rank = "MEMBER"
    /\ r.pc = "seat" => r.kind \in {"create", "join", "approve"}

Typed == TypeOK /\ \A q \in Slots : RequestOK(req[q])

LEMMA IdleType == Idle \in Requests /\ RequestOK(Idle)
BY GuildsAssumption DEF Idle, Requests, RequestOK, Steps, Kinds, Ranks

LEMMA SeatType ==
  ASSUME TypeOK, NEW u \in Users
  PROVE  /\ seat[u] \in Seats
         /\ seat[u].guild \in Guilds \cup {None}
         /\ seat[u].rank \in Ranks
         /\ seat[u] = NoSeat <=> seat[u].guild = None
         /\ seat[u] # NoSeat => seat[u].guild \in Guilds /\ seat[u].rank \in {"MEMBER", "GRANDMASTER"}
         /\ seat[u].rank = "GRANDMASTER" => seat[u].guild \in Guilds
<1>1. seat[u] \in Seats
  BY DEF TypeOK
<1> QED BY <1>1, GuildsAssumption DEF Seats, NoSeat, Ranks

LEMMA InitTyped == Init => Typed
<1> SUFFICES ASSUME Init PROVE Typed
  OBVIOUS
<1>1. seat \in [Users -> Seats]
  BY DEF Init, Seats, NoSeat
<1>2. req \in [Slots -> Requests] /\ \A q \in Slots : RequestOK(req[q])
  BY IdleType DEF Init
<1>3. /\ guilds \subseteq Guilds /\ used \subseteq Guilds /\ led \subseteq Guilds
      /\ requests \in 0..MaxRequests /\ crowded \subseteq Guilds /\ missed \subseteq Guilds \X Users
  BY GuildsAssumption DEF Init
<1>4. /\ applied \in [Users -> Guilds \cup {None}]
      /\ removal \in [Guilds -> [Users -> Removals]]
      /\ overlap \in [Guilds -> Nat]
      /\ outlaws \in [Guilds -> SUBSET Users]
  BY DEF Init, Removals
<1> QED BY <1>1, <1>2, <1>3, <1>4 DEF Typed, TypeOK

(* A request replaced by one of its kind leaves the requests typed.         *)
LEMMA RequestReplaced ==
  ASSUME Typed, NEW q \in Slots, NEW r \in Requests, RequestOK(r),
         req' = [req EXCEPT ![q] = r]
  PROVE  req' \in [Slots -> Requests] /\ \A p \in Slots : RequestOK(req'[p])
BY DEF Typed, TypeOK

LEMMA BeginsTyped ==
  ASSUME Typed, NEW q \in Slots, NEW r \in Requests, RequestOK(r), Begins(q, r)
  PROVE  /\ req' \in [Slots -> Requests] /\ \A p \in Slots : RequestOK(req'[p])
         /\ requests' \in 0..MaxRequests
<1>1. req' = [req EXCEPT ![q] = r]
  BY DEF Begins
<1>2. requests' \in 0..MaxRequests
  BY GuildsAssumption DEF Begins, Typed, TypeOK
<1> QED BY <1>1, <1>2, RequestReplaced

LEMMA EndsTyped ==
  ASSUME Typed, NEW q \in Slots, Ends(q)
  PROVE  req' \in [Slots -> Requests] /\ \A p \in Slots : RequestOK(req'[p])
BY IdleType, RequestReplaced DEF Ends

LEMMA MovesTyped ==
  ASSUME Typed, NEW q \in Slots, NEW pc \in Steps,
         req' = [req EXCEPT ![q].pc = pc],
         RequestOK([req[q] EXCEPT !.pc = pc])
  PROVE  req' \in [Slots -> Requests] /\ \A p \in Slots : RequestOK(req'[p])
<1> DEFINE r == [req[q] EXCEPT !.pc = pc]
<1>1. req[q] \in Requests /\ req \in [Slots -> Requests]
  BY DEF Typed, TypeOK
<1>2. r \in Requests
  BY <1>1 DEF Requests
<1>3. req' = [req EXCEPT ![q] = r]
  BY <1>1
<1> HIDE DEF r
<1>4. RequestOK(r)
  BY DEF r
<1> QED BY <1>2, <1>3, <1>4, RequestReplaced

LEMMA AdmittingTyped ==
  ASSUME Typed, NEW g \in Guilds, Admitting(g), IsFiniteSet(InFlight(g))
  PROVE  overlap' \in [Guilds -> Nat]
<1>1. Cardinality(InFlight(g)) \in Nat
  BY FS_CardinalityType
<1> QED BY <1>1 DEF Admitting, Typed, TypeOK

LEMMA InFlightFinite ==
  ASSUME NEW g PROVE IsFiniteSet(InFlight(g))
<1>1. InFlight(g) \subseteq Slots
  BY DEF InFlight
<1> QED BY <1>1, FS_Subset, GuildsAssumption

LEMMA UnseatedType ==
  ASSUME TypeOK, NEW u \in Users, NEW g
  PROVE  Unseated(u, g) \in [Users -> Seats]
BY DEF TypeOK, Unseated, Seats

LEMMA TypedStep == Typed /\ [Next]_vars => Typed'
<1> SUFFICES ASSUME Typed, [Next]_vars PROVE Typed'
  OBVIOUS
<1>t. TypeOK
  BY DEF Typed
<1>1. ASSUME NEW q \in Slots, NEW u \in Users, NEW g \in Guilds, Create(q, u, g) PROVE Typed'
  <2> DEFINE r == [Idle EXCEPT !.pc = "found", !.kind = "create", !.user = u, !.guild = g,
                               !.about = u, !.rank = "GRANDMASTER"]
  <2>1. r \in Requests /\ RequestOK(r)
    BY DEF Idle, Requests, RequestOK, Steps, Kinds, Ranks
  <2>2. Begins(q, r)
    BY <1>1 DEF Create
  <2> HIDE DEF r
  <2>3. /\ req' \in [Slots -> Requests] /\ \A p \in Slots : RequestOK(req'[p])
        /\ requests' \in 0..MaxRequests
    BY <2>1, <2>2, BeginsTyped
  <2> QED BY <1>1, <2>3 DEF Create, Typed, TypeOK
<1>2. ASSUME NEW q \in Slots, CreateFounds(q) PROVE Typed'
  <2>1. req[q].guild \in Guilds /\ RequestOK([req[q] EXCEPT !.pc = "seat"])
    BY <1>2 DEF CreateFounds, Typed, TypeOK, RequestOK, Requests
  <2>2. req' \in [Slots -> Requests] /\ \A p \in Slots : RequestOK(req'[p])
    BY <1>2, <2>1, MovesTyped DEF CreateFounds, Steps
  <2>3. overlap' \in [Guilds -> Nat]
    BY <1>2, <2>1, AdmittingTyped, InFlightFinite DEF CreateFounds
  <2> QED BY <1>2, <2>1, <2>2, <2>3 DEF CreateFounds, Typed, TypeOK
<1>3. ASSUME NEW q \in Slots, NEW u \in Users, NEW g \in Guilds, NEW k \in Kinds, Ask(q, u, g, k)
      PROVE Typed'
  <2> DEFINE r == [Idle EXCEPT !.pc = "asked", !.kind = k, !.user = u, !.guild = g,
                               !.about = u, !.rank = "MEMBER"]
  <2>1. r \in Requests /\ RequestOK(r)
    BY <1>3 DEF Ask, Idle, Requests, RequestOK, Steps, Kinds, Ranks
  <2>2. Begins(q, r)
    BY <1>3 DEF Ask
  <2> HIDE DEF r
  <2>3. /\ req' \in [Slots -> Requests] /\ \A p \in Slots : RequestOK(req'[p])
        /\ requests' \in 0..MaxRequests
    BY <2>1, <2>2, BeginsTyped
  <2> QED BY <1>3, <2>3 DEF Ask, Typed, TypeOK
<1>4. ASSUME NEW q \in Slots, NEW u \in Users, NEW t \in Users, NEW k \in Kinds, Decide(q, u, t, k)
      PROVE Typed'
  <2> DEFINE r == [Idle EXCEPT !.pc = "asked", !.kind = k, !.user = u, !.guild = seat[u].guild,
                               !.about = t, !.rank = "MEMBER"]
  <2>1. seat[u].guild \in Guilds
    BY <1>4, <1>t, SeatType DEF Decide
  <2>2. r \in Requests /\ RequestOK(r)
    BY <1>4, <2>1 DEF Decide, Idle, Requests, RequestOK, Steps, Kinds, Ranks
  <2>3. Begins(q, r)
    BY <1>4 DEF Decide
  <2> HIDE DEF r
  <2>4. /\ req' \in [Slots -> Requests] /\ \A p \in Slots : RequestOK(req'[p])
        /\ requests' \in 0..MaxRequests
    BY <2>2, <2>3, BeginsTyped
  <2> QED BY <1>4, <2>4 DEF Decide, Typed, TypeOK
<1>5. ASSUME NEW q \in Slots, NEW u \in Users, NEW t \in Users, NEW k \in Kinds, Remove(q, u, t, k)
      PROVE Typed'
  <2> DEFINE r == [Idle EXCEPT !.pc = "asked", !.kind = k, !.user = u,
                               !.guild = seat[u].guild, !.about = t]
  <2>1. seat[u].guild \in Guilds
    BY <1>5, <1>t, SeatType DEF Remove
  <2>2. r \in Requests /\ RequestOK(r)
    BY <1>5, <2>1 DEF Remove, Idle, Requests, RequestOK, Steps, Kinds, Ranks
  <2>3. Begins(q, r)
    BY <1>5 DEF Remove
  <2> HIDE DEF r
  <2>4. /\ req' \in [Slots -> Requests] /\ \A p \in Slots : RequestOK(req'[p])
        /\ requests' \in 0..MaxRequests
    BY <2>2, <2>3, BeginsTyped
  <2> QED BY <1>5, <2>4 DEF Remove, Typed, TypeOK
<1>6. ASSUME NEW q \in Slots, NEW u \in Users, Leave(q, u) PROVE Typed'
  <2> DEFINE r == [Idle EXCEPT !.pc = "leave", !.kind = "leave", !.user = u,
                               !.guild = seat[u].guild, !.about = u, !.rank = seat[u].rank]
  <2>1. seat[u].guild \in Guilds /\ seat[u].rank \in {"MEMBER", "GRANDMASTER"}
    BY <1>6, <1>t, SeatType DEF Leave
  <2>2. r \in Requests /\ RequestOK(r)
    BY <2>1 DEF Idle, Requests, RequestOK, Steps, Kinds, Ranks
  <2>3. Begins(q, r)
    BY <1>6 DEF Leave
  <2> HIDE DEF r
  <2>4. /\ req' \in [Slots -> Requests] /\ \A p \in Slots : RequestOK(req'[p])
        /\ requests' \in 0..MaxRequests
    BY <2>2, <2>3, BeginsTyped
  <2> QED BY <1>6, <2>4 DEF Leave, Typed, TypeOK
<1>7. ASSUME NEW q \in Slots, JoinAdmits(q) \/ ApproveAdmits(q) PROVE Typed'
  <2>1. req[q].guild \in Guilds /\ RequestOK([req[q] EXCEPT !.pc = "seat"])
    BY <1>7 DEF JoinAdmits, ApproveAdmits, Typed, TypeOK, RequestOK, Requests
  <2>2. req' \in [Slots -> Requests] /\ \A p \in Slots : RequestOK(req'[p])
    BY <1>7, <2>1, MovesTyped DEF JoinAdmits, ApproveAdmits, Steps
  <2>3. overlap' \in [Guilds -> Nat]
    BY <1>7, <2>1, AdmittingTyped, InFlightFinite DEF JoinAdmits, ApproveAdmits
  <2> QED BY <1>7, <2>2, <2>3 DEF JoinAdmits, ApproveAdmits, Typed, TypeOK
<1>8. ASSUME NEW q \in Slots, ApplyAdmits(q) PROVE Typed'
  <2>1. RequestOK([req[q] EXCEPT !.pc = "file"])
    BY <1>8 DEF ApplyAdmits, Typed, TypeOK, RequestOK, Requests
  <2>2. req' \in [Slots -> Requests] /\ \A p \in Slots : RequestOK(req'[p])
    BY <1>8, <2>1, MovesTyped DEF ApplyAdmits, Steps
  <2> QED BY <1>8, <2>2 DEF ApplyAdmits, Typed, TypeOK
<1>9. ASSUME NEW q \in Slots, DenyFinds(q) PROVE Typed'
  <2>1. RequestOK([req[q] EXCEPT !.pc = "strike"])
    BY <1>9 DEF DenyFinds, Typed, TypeOK, RequestOK, Requests
  <2>2. req' \in [Slots -> Requests] /\ \A p \in Slots : RequestOK(req'[p])
    BY <1>9, <2>1, MovesTyped DEF DenyFinds, Steps
  <2> QED BY <1>9, <2>2 DEF DenyFinds, Typed, TypeOK
<1>10. ASSUME NEW q \in Slots, RemoveFinds(q) PROVE Typed'
  <2>1. RequestOK([req[q] EXCEPT !.pc = "remove"])
    BY <1>10 DEF RemoveFinds, Typed, TypeOK, RequestOK, Requests
  <2>2. req' \in [Slots -> Requests] /\ \A p \in Slots : RequestOK(req'[p])
    BY <1>10, <2>1, MovesTyped DEF RemoveFinds, Steps
  <2> QED BY <1>10, <2>2 DEF RemoveFinds, Typed, TypeOK
<1>11. ASSUME NEW q \in Slots, SuccessionReads(q) PROVE Typed'
  <2>1. PICK heir \in Heirs(q) :
            req' = [req EXCEPT ![q].pc = "succeed", ![q].heir = heir,
                               ![q].holds = seat[req[q].about].guild = req[q].guild]
    BY <1>11 DEF SuccessionReads
  <2>2. req[q] \in Requests /\ RequestOK(req[q]) /\ req \in [Slots -> Requests]
    BY DEF Typed, TypeOK
  <2>3. req[q].about \in Users /\ req[q].pc = "leave" /\ Succession(q)
    BY <1>11, <2>2 DEF SuccessionReads, RequestOK
  <2>4. heir \in Users \cup {None} /\ heir # req[q].about
    BY <2>1, <2>3, GuildsAssumption DEF Heirs, Remaining, MembersOf
  <2> DEFINE r == [req[q] EXCEPT !.pc = "succeed", !.heir = heir,
                                 !.holds = (seat[req[q].about].guild = req[q].guild)]
  <2>5. r \in Requests
    BY <2>2, <2>4 DEF Requests, Steps
  <2>6. RequestOK(r)
    BY <2>2, <2>3, <2>4 DEF RequestOK, Requests, Succession
  <2>7. req' = [req EXCEPT ![q] = r]
    BY <2>1, <2>2
  <2> HIDE DEF r
  <2>8. req' \in [Slots -> Requests] /\ \A p \in Slots : RequestOK(req'[p])
    BY <2>5, <2>6, <2>7, RequestReplaced
  <2> QED BY <1>11, <2>8 DEF SuccessionReads, Typed, TypeOK
<1>12. ASSUME NEW q \in Slots, Seated(q) PROVE Typed'
  <2>1. /\ req[q].about \in Users /\ req[q].guild \in Guilds
        /\ req[q].rank \in {"MEMBER", "GRANDMASTER"}
    BY <1>12 DEF Seated, Typed, RequestOK
  <2>2. seat' \in [Users -> Seats]
    BY <1>12, <2>1 DEF Seated, Typed, TypeOK, Seats
  <2>3. req' \in [Slots -> Requests] /\ \A p \in Slots : RequestOK(req'[p])
    BY <1>12, EndsTyped DEF Seated
  <2>4. applied' \in [Users -> Guilds \cup {None}]
    BY <1>12, <2>1 DEF Seated, Typed, TypeOK
  <2>5. removal' \in [Guilds -> [Users -> Removals]]
    <3>1. removal \in [Guilds -> [Users -> Removals]] /\ "none" \in Removals
      BY <1>t DEF TypeOK, Removals
    <3>2. \/ removal' = removal
          \/ removal' = [removal EXCEPT ![req[q].guild][req[q].about] = "none"]
      BY <1>12 DEF Seated
    <3> QED BY <2>1, <3>1, <3>2
  <2>6. led' \subseteq Guilds /\ crowded' \subseteq Guilds
    BY <1>12, <2>1 DEF Seated, Departing, Typed, TypeOK
  <2>7. outlaws' \in [Guilds -> SUBSET Users]
    <3>1. outlaws \in [Guilds -> SUBSET Users]
      BY <1>t DEF TypeOK
    <3>2. outlaws' = outlaws \/ outlaws' = [outlaws EXCEPT ![req[q].guild] = outlaws[req[q].guild] \ {req[q].about}]
      BY <1>12 DEF Seated
    <3> QED BY <2>1, <3>1, <3>2
  <2>8. /\ guilds' \subseteq Guilds /\ used' \subseteq Guilds
        /\ requests' \in 0..MaxRequests /\ overlap' \in [Guilds -> Nat]
        /\ missed' \subseteq Guilds \X Users
    BY <1>12 DEF Seated, Typed, TypeOK
  <2> QED BY <2>2, <2>3, <2>4, <2>5, <2>6, <2>7, <2>8 DEF Typed, TypeOK
<1>13. ASSUME NEW q \in Slots, ApplyFiles(q) PROVE Typed'
  <2>1. req' \in [Slots -> Requests] /\ \A p \in Slots : RequestOK(req'[p])
    BY <1>13, EndsTyped DEF ApplyFiles
  <2>2. req[q].guild \in Guilds
    BY <1>13 DEF ApplyFiles, Typed, RequestOK
  <2> QED BY <1>13, <2>1, <2>2 DEF ApplyFiles, Typed, TypeOK
<1>14. ASSUME NEW q \in Slots, DenyStrikes(q) PROVE Typed'
  <2>1. req' \in [Slots -> Requests] /\ \A p \in Slots : RequestOK(req'[p])
    BY <1>14, EndsTyped DEF DenyStrikes
  <2>2. applied' \in [Users -> Guilds \cup {None}]
    BY <1>14 DEF DenyStrikes, Typed, TypeOK
  <2> QED BY <1>14, <2>1, <2>2 DEF DenyStrikes, Typed, TypeOK
<1>15. ASSUME NEW q \in Slots, Removes(q) PROVE Typed'
  <2>1. req[q].about \in Users /\ req[q].guild \in Guilds
    BY <1>15 DEF Removes, Typed, RequestOK
  <2>2. seat' \in [Users -> Seats]
    BY <1>15, <1>t, <2>1, UnseatedType DEF Removes
  <2>3. req' \in [Slots -> Requests] /\ \A p \in Slots : RequestOK(req'[p])
    BY <1>15, EndsTyped DEF Removes
  <2>4. removal' \in [Guilds -> [Users -> Removals]]
    BY <1>15, <2>1 DEF Removes, Typed, TypeOK, Removals
  <2>5. crowded' \subseteq Guilds
    BY <1>15, <2>1 DEF Removes, Departing, Typed, TypeOK
  <2>6. outlaws' \in [Guilds -> SUBSET Users] /\ missed' \subseteq Guilds \X Users
    BY <1>15, <2>1 DEF Removes, Outlawed, Typed, TypeOK
  <2> QED BY <1>15, <2>2, <2>3, <2>4, <2>5, <2>6 DEF Removes, Typed, TypeOK
<1>16. ASSUME NEW q \in Slots, MemberLeaves(q) PROVE Typed'
  <2>1. req[q].about \in Users /\ req[q].guild \in Guilds
    BY <1>16 DEF MemberLeaves, Typed, RequestOK
  <2>2. seat' \in [Users -> Seats]
    BY <1>16, <1>t, <2>1, UnseatedType DEF MemberLeaves
  <2>3. req' \in [Slots -> Requests] /\ \A p \in Slots : RequestOK(req'[p])
    BY <1>16, EndsTyped DEF MemberLeaves
  <2>4. crowded' \subseteq Guilds
    BY <1>16, <2>1 DEF MemberLeaves, Departing, Typed, TypeOK
  <2> QED BY <1>16, <2>2, <2>3, <2>4 DEF MemberLeaves, Typed, TypeOK
<1>17. ASSUME NEW q \in Slots, Succeeds(q) \/ TornDown(q) PROVE Typed'
  <2>1. /\ req[q].about \in Users /\ req[q].guild \in Guilds /\ req[q].heir \in Users \cup {None}
        /\ req[q].heir # req[q].about
    BY <1>17 DEF Succeeds, TornDown, Typed, TypeOK, RequestOK, Requests
  <2>2. WithoutLeaver(q) \in [Users -> Seats]
    BY <1>t, <2>1, UnseatedType DEF WithoutLeaver, TypeOK
  <2>3. CASE Succeeds(q)
    <3>1. req[q].heir \in Users
      BY <2>1, <2>3 DEF Succeeds
    <3>2. seat[req[q].heir].guild = req[q].guild => WithoutLeaver(q)[req[q].heir] = seat[req[q].heir]
      BY <2>1, <3>1 DEF WithoutLeaver, Unseated, Typed, TypeOK
    <3>3. ASSUME seat[req[q].heir].guild = req[q].guild
          PROVE  [seat[req[q].heir] EXCEPT !.rank = "GRANDMASTER"] \in Seats
      <4>1. seat[req[q].heir] \in [guild : Guilds, rank : {"MEMBER", "GRANDMASTER"}]
        BY <1>t, <2>1, <3>1, <3>3, GuildsAssumption DEF TypeOK, Seats, NoSeat
      <4> QED BY <4>1 DEF Seats
    <3>4. HandedOn(q) \in [Users -> Seats]
      <4>1. CASE seat[req[q].heir].guild = req[q].guild
        <5>1. HandedOn(q) = [WithoutLeaver(q) EXCEPT ![req[q].heir] =
                                [seat[req[q].heir] EXCEPT !.rank = "GRANDMASTER"]]
          BY <3>2, <4>1 DEF HandedOn
        <5> QED BY <2>2, <3>3, <4>1, <5>1
      <4>2. CASE seat[req[q].heir].guild # req[q].guild
        BY <2>2, <4>2 DEF HandedOn
      <4> QED BY <4>1, <4>2
    <3>5. req' \in [Slots -> Requests] /\ \A p \in Slots : RequestOK(req'[p])
      BY <2>3, EndsTyped DEF Succeeds
    <3>6. crowded' \subseteq Guilds
      BY <2>1, <2>3 DEF Succeeds, Departing, Typed, TypeOK
    <3> QED BY <2>3, <3>4, <3>5, <3>6 DEF Succeeds, Typed, TypeOK
  <2>4. CASE TornDown(q)
    <3>1. req' \in [Slots -> Requests] /\ \A p \in Slots : RequestOK(req'[p])
      BY <2>4, EndsTyped DEF TornDown
    <3>2. crowded' \subseteq Guilds
      BY <2>1, <2>4 DEF TornDown, Departing, Typed, TypeOK
    <3>3. applied' \in [Users -> Guilds \cup {None}]
      BY <2>4 DEF TornDown, Typed, TypeOK
    <3> QED BY <2>2, <2>4, <3>1, <3>2, <3>3 DEF TornDown, Typed, TypeOK
  <2> QED BY <1>17, <2>3, <2>4
<1>18. ASSUME NEW q \in Slots, Refused(q) PROVE Typed'
  <2>1. req' \in [Slots -> Requests] /\ \A p \in Slots : RequestOK(req'[p])
    BY <1>18, EndsTyped DEF Refused
  <2> QED BY <1>18, <2>1 DEF Refused, Typed, TypeOK
<1>19. CASE UNCHANGED vars
  BY <1>19 DEF vars, Typed, TypeOK
<1> QED BY <1>1, <1>2, <1>3, <1>4, <1>5, <1>6, <1>7, <1>8, <1>9, <1>10, <1>11, <1>12, <1>13,
           <1>14, <1>15, <1>16, <1>17, <1>18, <1>19 DEF Next

(* Every reachable state of the guilds is of its type.                      *)
THEOREM TypeCorrect == Spec => []TypeOK
<1>1. Init => Typed
  BY InitTyped
<1>2. Typed /\ [Next]_vars => Typed'
  BY TypedStep
<1>3. Typed => TypeOK
  BY DEF Typed
<1> QED BY <1>1, <1>2, <1>3, PTL DEF Spec

----------------------------------------------------------------------------
(* Ids are given once: the requests and rows of a guild come after it.      *)
Busy(q, g) == req[q].pc # "idle" /\ req[q].guild = g
Unseen(g) == g \notin guilds /\ \A u \in Users : seat[u].guild # g

(* Only the Grand Master of a guild can ask some of the requests.           *)
LeadersOnly(r) ==
    r.kind \in {"approve", "deny", "kick", "ban"} \/ (r.kind = "leave" /\ r.rank = "GRANDMASTER")

\* The guild of a creation that has not inserted it is nobody's.
FoundIsUnseen(q) ==
    req[q].pc = "found" => /\ req[q].guild \notin guilds
                           /\ \A u \in Users : seat[u].guild # req[q].guild
                           /\ \A p \in Slots \ {q} : req[p].pc # "idle" => req[p].guild # req[q].guild

IdsOnce ==
    /\ guilds \subseteq used /\ led \subseteq used
    /\ \A g \in Guilds \ used : Unseen(g) /\ \A q \in Slots : ~Busy(q, g)
    /\ \A q \in Slots : req[q].kind = "create" => req[q].guild \in used \ led
    /\ \A q \in Slots : \A p \in Slots \ {q} :
           req[q].kind = "create" /\ req[p].kind = "create" => req[q].guild # req[p].guild
    /\ \A q \in Slots : FoundIsUnseen(q)

Leaders ==
    /\ \A q \in Slots : LeadersOnly(req[q]) => req[q].guild \in led
    /\ \A u \in Users : seat[u].rank = "GRANDMASTER" => seat[u].guild \in led
    /\ \A g \in Guilds \ led : \A u \in Users : removal[g][u] = "none"

Roles == IdsOnce /\ Leaders

LEMMA InitRoles == Init => Roles
<1> SUFFICES ASSUME Init PROVE Roles
  OBVIOUS
<1>1. PICK g \in Guilds, founder \in Users, members \in SUBSET Users :
          /\ guilds = {g} /\ used = {g} /\ led = {g}
          /\ seat = [u \in Users |->
                         IF u = founder THEN [guild |-> g, rank |-> "GRANDMASTER"]
                         ELSE IF u \in members THEN [guild |-> g, rank |-> "MEMBER"]
                         ELSE NoSeat]
  BY ZenonT(30) DEF Init
<1>2. req = [q \in Slots |-> Idle] /\ removal = [h \in Guilds |-> [u \in Users |-> "none"]]
  BY DEF Init
<1>3. IdsOnce
  BY <1>1, <1>2, GuildsAssumption DEF IdsOnce, FoundIsUnseen, Idle, Unseen, Busy, NoSeat
<1>4. Leaders
  BY <1>1, <1>2 DEF Leaders, Idle, LeadersOnly, NoSeat
<1> QED BY <1>3, <1>4 DEF Roles

(* A step that changes one request and no row keeps the roles, if what the  *)
(* request becomes does.                                                    *)
LEMMA RolesOfARequest ==
  ASSUME Typed, Roles, NEW q \in Slots, NEW r \in Requests, RequestOK(r),
         req' = [req EXCEPT ![q] = r],
         UNCHANGED <<guilds, used, seat, removal, led>>,
         r.pc # "idle" => r.guild \in used,
         r.kind = "create" => req[q].kind = "create" /\ r.guild = req[q].guild,
         r.pc # "found",
         \A p \in Slots \ {q} : req[p].pc = "found" /\ r.pc # "idle" => r.guild # req[p].guild,
         LeadersOnly(r) => r.guild \in led
  PROVE  Roles'
<1>1. /\ req'[q] = r
      /\ \A p \in Slots \ {q} : req'[p] = req[p]
  BY DEF Typed, TypeOK
<1>2. IdsOnce'
  <2>1. \A g \in Guilds \ used' : Unseen(g)' /\ \A p \in Slots : ~Busy(p, g)'
    BY <1>1 DEF Roles, IdsOnce, Unseen, Busy
  <2>2. \A p \in Slots : req'[p].kind = "create" => req'[p].guild \in used' \ led'
    BY <1>1 DEF Roles, IdsOnce
  <2>3. \A p \in Slots : \A o \in Slots \ {p} :
           req'[p].kind = "create" /\ req'[o].kind = "create" => req'[p].guild # req'[o].guild
    BY <1>1 DEF Roles, IdsOnce
  <2>4. \A p \in Slots : FoundIsUnseen(p)'
    <3> SUFFICES ASSUME NEW p \in Slots PROVE FoundIsUnseen(p)'
      OBVIOUS
    <3>1. CASE p = q
      BY <1>1, <3>1 DEF FoundIsUnseen
    <3>2. CASE p # q
      BY <1>1, <3>2 DEF FoundIsUnseen, Roles, IdsOnce
    <3> QED BY <3>1, <3>2
  <2> QED BY <2>1, <2>2, <2>3, <2>4 DEF Roles, IdsOnce
<1>3. Leaders'
  BY <1>1 DEF Roles, Leaders
<1> QED BY <1>2, <1>3 DEF Roles

LEMMA RolesAtTheEnd ==
  ASSUME Typed, Roles, NEW q \in Slots, Ends(q), req[q].pc # "idle",
         \A u \in Users : \/ seat'[u] \in {seat[u], NoSeat}
                          \/ seat'[u].guild = seat[u].guild /\ seat[u].guild \in led,
         guilds' \subseteq guilds, UNCHANGED <<used, led>>,
         \A g \in Guilds, u \in Users :
             removal'[g][u] = removal[g][u] \/ g \in led
  PROVE  Roles'
<1>1. /\ req'[q] = Idle
      /\ \A p \in Slots \ {q} : req'[p] = req[p]
  BY DEF Ends, Typed, TypeOK
<1>2. IdsOnce'
  <2>1. \A g \in Guilds : Unseen(g) => Unseen(g)'
    BY GuildsAssumption DEF Unseen, NoSeat
  <2>2. \A g : \A p \in Slots : Busy(p, g)' => Busy(p, g)
    BY <1>1 DEF Busy, Idle
  <2>3. \A p \in Slots : req'[p].pc = "found" => req[p].pc = "found" /\ req'[p] = req[p] /\ req[p].guild \in Guilds
    BY <1>1 DEF Idle, Typed, RequestOK
  <2>4. \A g \in Guilds \ used' : Unseen(g)' /\ \A p \in Slots : ~Busy(p, g)'
    BY <2>1, <2>2 DEF Roles, IdsOnce
  <2>5. \A p \in Slots : FoundIsUnseen(p)'
    <3> SUFFICES ASSUME NEW p \in Slots, req'[p].pc = "found" PROVE FoundIsUnseen(p)'
      BY DEF FoundIsUnseen
    <3>1. req[p].pc = "found" /\ req'[p] = req[p] /\ req[p].guild \in Guilds /\ FoundIsUnseen(p)
      BY <2>3 DEF Roles, IdsOnce
    <3>2. \A u \in Users : seat'[u].guild # req'[p].guild
      BY <3>1, GuildsAssumption DEF FoundIsUnseen, NoSeat
    <3> QED BY <1>1, <3>1, <3>2 DEF FoundIsUnseen, Idle
  <2>6. /\ \A p \in Slots : req'[p].kind = "create" => req'[p].guild \in used' \ led'
        /\ \A p \in Slots : \A o \in Slots \ {p} :
               req'[p].kind = "create" /\ req'[o].kind = "create" => req'[p].guild # req'[o].guild
    BY <1>1 DEF Roles, IdsOnce, Idle
  <2> QED BY <2>4, <2>5, <2>6 DEF Roles, IdsOnce
<1>3. Leaders'
  <2>1. \A p \in Slots : LeadersOnly(req'[p]) => req'[p].guild \in led'
    BY <1>1 DEF Roles, Leaders, LeadersOnly, Idle
  <2>2. \A u \in Users : seat'[u].rank = "GRANDMASTER" => seat'[u].guild \in led'
    BY DEF Roles, Leaders, NoSeat
  <2>3. \A g \in Guilds \ led' : \A u \in Users : removal'[g][u] = "none"
    BY DEF Roles, Leaders
  <2> QED BY <2>1, <2>2, <2>3 DEF Leaders
<1> QED BY <1>2, <1>3 DEF Roles

LEMMA RolesOfAMove ==
  ASSUME Typed, Roles, NEW q \in Slots, NEW r \in Requests, RequestOK(r),
         req' = [req EXCEPT ![q] = r],
         r.kind = req[q].kind, r.guild = req[q].guild, r.rank = req[q].rank,
         req[q].pc \notin {"idle", "found"}, r.pc # "found",
         UNCHANGED <<guilds, used, seat, removal, led>>
  PROVE  Roles'
<1>1. req[q].guild \in used
  BY DEF Roles, IdsOnce, Busy, Typed, RequestOK
<1>2. \A p \in Slots \ {q} : req[p].pc = "found" => req[q].guild # req[p].guild
  BY DEF Roles, IdsOnce, FoundIsUnseen
<1>3. LeadersOnly(r) => r.guild \in led
  BY DEF Roles, Leaders, LeadersOnly
<1> QED BY <1>1, <1>2, <1>3, RolesOfARequest

LEMMA RolesOfAPc ==
  ASSUME Typed, Roles, NEW q \in Slots, NEW pc \in Steps,
         req' = [req EXCEPT ![q].pc = pc], RequestOK([req[q] EXCEPT !.pc = pc]),
         req[q].pc \notin {"idle", "found"}, pc # "found",
         UNCHANGED <<guilds, used, seat, removal, led>>
  PROVE  Roles'
<1> DEFINE r == [req[q] EXCEPT !.pc = pc]
<1>1. req[q] \in Requests /\ req \in [Slots -> Requests]
  BY DEF Typed, TypeOK
<1>2. r \in Requests /\ r.kind = req[q].kind /\ r.guild = req[q].guild /\ r.rank = req[q].rank /\ r.pc = pc
  BY <1>1 DEF Requests
<1>3. req' = [req EXCEPT ![q] = r]
  BY <1>1
<1>4. RequestOK(r)
  OBVIOUS
<1> HIDE DEF r
<1> QED BY <1>2, <1>3, <1>4, RolesOfAMove

LEMMA RolesStep == Typed /\ Roles /\ [Next]_vars => Roles'
<1> SUFFICES ASSUME Typed, Roles, [Next]_vars PROVE Roles'
  OBVIOUS
<1>t. TypeOK
  BY DEF Typed
<1>1. ASSUME NEW q \in Slots, NEW u \in Users, NEW g \in Guilds, Create(q, u, g) PROVE Roles'
  <2> DEFINE r == [Idle EXCEPT !.pc = "found", !.kind = "create", !.user = u, !.guild = g,
                               !.about = u, !.rank = "GRANDMASTER"]
  <2>1. r.pc = "found" /\ r.kind = "create" /\ r.guild = g
    BY DEF Idle
  <2>2. req' = [req EXCEPT ![q] = r] /\ g \notin used /\ used' = used \cup {g}
    BY <1>1 DEF Create, Begins
  <2> HIDE DEF r
  <2>3. req'[q] = r /\ \A p \in Slots \ {q} : req'[p] = req[p]
    BY <2>2 DEF Typed, TypeOK
  <2>4. UNCHANGED <<guilds, seat, removal, led>>
    BY <1>1 DEF Create
  <2>5. Unseen(g) /\ \A p \in Slots : ~Busy(p, g)
    BY <2>2 DEF Roles, IdsOnce
  <2>6. \A h \in Guilds \ used' : Unseen(h)' /\ \A p \in Slots : ~Busy(p, h)'
    BY <2>1, <2>2, <2>3, <2>4 DEF Roles, IdsOnce, Unseen, Busy
  <2>7. \A p \in Slots : req'[p].kind = "create" => req'[p].guild \in used' \ led'
    BY <2>1, <2>2, <2>3, <2>4 DEF Roles, IdsOnce
  <2>8. \A p \in Slots : req[p].kind = "create" => req[p].guild # g
    BY <2>2 DEF Roles, IdsOnce
  <2>9. \A p \in Slots : \A o \in Slots \ {p} :
            req'[p].kind = "create" /\ req'[o].kind = "create" => req'[p].guild # req'[o].guild
    BY <2>1, <2>3, <2>8 DEF Roles, IdsOnce
  <2>10. \A p \in Slots : FoundIsUnseen(p)'
    <3> SUFFICES ASSUME NEW p \in Slots PROVE FoundIsUnseen(p)'
      OBVIOUS
    <3>1. CASE p = q
      BY <2>1, <2>3, <2>4, <2>5, <3>1 DEF FoundIsUnseen, Unseen, Busy
    <3>2. CASE p # q
      <4>1. req[p].pc = "found" => req[p].guild # g
        BY <2>8 DEF Typed, RequestOK
      <4> QED BY <2>1, <2>3, <2>4, <3>2, <4>1 DEF FoundIsUnseen, Roles, IdsOnce
    <3> QED BY <3>1, <3>2
  <2>11. Leaders'
    BY <2>1, <2>3, <2>4 DEF Roles, Leaders, LeadersOnly
  <2>12. guilds' \subseteq used' /\ led' \subseteq used'
    BY <2>2, <2>4 DEF Roles, IdsOnce
  <2> QED BY <2>6, <2>7, <2>9, <2>10, <2>11, <2>12 DEF Roles, IdsOnce
<1>2. ASSUME NEW q \in Slots, CreateFounds(q) PROVE Roles'
  <2>1. /\ req[q].pc = "found" /\ req[q].kind = "create" /\ req[q].guild \in Guilds
        /\ req[q].guild \in used /\ FoundIsUnseen(q)
    BY <1>2 DEF CreateFounds, Typed, RequestOK, Roles, IdsOnce
  <2>2. /\ \A p \in Slots : /\ req'[p].kind = req[p].kind /\ req'[p].guild = req[p].guild
                            /\ req'[p].rank = req[p].rank
                            /\ p # q => req'[p] = req[p]
        /\ req'[q].pc = "seat"
    BY <1>2 DEF CreateFounds, Typed, TypeOK, Requests
  <2>3. guilds' = guilds \cup {req[q].guild} /\ UNCHANGED <<used, seat, removal, led>>
    BY <1>2 DEF CreateFounds
  <2>4. \A h \in Guilds \ used' : Unseen(h)' /\ \A p \in Slots : ~Busy(p, h)'
    <3> SUFFICES ASSUME NEW h \in Guilds \ used PROVE Unseen(h)' /\ \A p \in Slots : ~Busy(p, h)'
      BY <2>3
    <3>1. Unseen(h) /\ \A p \in Slots : ~Busy(p, h)
      BY DEF Roles, IdsOnce
    <3>2. \A p \in Slots : ~(req'[p].pc # "idle" /\ req'[p].guild = h)
      BY <2>1, <2>2, <3>1 DEF Busy
    <3> QED BY <2>1, <2>3, <3>1, <3>2 DEF Unseen, Busy
  <2>5. /\ \A p \in Slots : req'[p].kind = "create" => req'[p].guild \in used' \ led'
        /\ \A p \in Slots : \A o \in Slots \ {p} :
               req'[p].kind = "create" /\ req'[o].kind = "create" => req'[p].guild # req'[o].guild
    BY <2>2, <2>3 DEF Roles, IdsOnce
  <2>6. \A p \in Slots : FoundIsUnseen(p)'
    <3> SUFFICES ASSUME NEW p \in Slots, req'[p].pc = "found" PROVE FoundIsUnseen(p)'
      BY DEF FoundIsUnseen
    <3>1. p # q /\ req'[p] = req[p] /\ FoundIsUnseen(p)
      BY <2>2 DEF Roles, IdsOnce
    <3>2. req[p].guild # req[q].guild
      BY <2>1, <3>1 DEF FoundIsUnseen
    <3>3. \A o \in Slots \ {p} : req'[o].pc # "idle" => req[o].pc # "idle"
      BY <2>1, <2>2
    <3> QED BY <2>2, <2>3, <3>1, <3>2, <3>3 DEF FoundIsUnseen
  <2>7. Leaders'
    BY <2>2, <2>3 DEF Roles, Leaders, LeadersOnly
  <2>8. guilds' \subseteq used' /\ led' \subseteq used'
    BY <2>1, <2>3 DEF Roles, IdsOnce
  <2> QED BY <2>4, <2>5, <2>6, <2>7, <2>8 DEF Roles, IdsOnce
<1>3. ASSUME NEW q \in Slots, NEW u \in Users, NEW g \in Guilds, NEW k \in Kinds, Ask(q, u, g, k)
      PROVE Roles'
  <2> DEFINE r == [Idle EXCEPT !.pc = "asked", !.kind = k, !.user = u, !.guild = g,
                               !.about = u, !.rank = "MEMBER"]
  <2>1. r \in Requests /\ RequestOK(r) /\ r.guild = g /\ r.kind \in {"join", "apply"} /\ r.pc = "asked"
    BY <1>3 DEF Ask, Idle, Requests, RequestOK, Steps, Kinds, Ranks
  <2>2. req' = [req EXCEPT ![q] = r] /\ g \in guilds /\ UNCHANGED <<guilds, used, seat, removal, led>>
    BY <1>3 DEF Ask, Begins
  <2> HIDE DEF r
  <2>3. g \in used /\ \A p \in Slots : req[p].pc = "found" => g # req[p].guild
    BY <2>2 DEF Roles, IdsOnce, FoundIsUnseen
  <2>4. ~LeadersOnly(r)
    BY <2>1 DEF LeadersOnly
  <2> QED BY <2>1, <2>2, <2>3, <2>4, RolesOfARequest
<1>4. ASSUME NEW u \in Users, seat[u] # NoSeat
      PROVE  /\ seat[u].guild \in used
             /\ \A p \in Slots : req[p].pc = "found" => seat[u].guild # req[p].guild
  BY <1>4, <1>t, SeatType DEF Roles, IdsOnce, Unseen, FoundIsUnseen
<1>5. ASSUME NEW q \in Slots, NEW u \in Users, NEW t \in Users, NEW k \in Kinds,
             Decide(q, u, t, k) \/ Remove(q, u, t, k)
      PROVE Roles'
  <2>1. /\ seat[u].guild \in Guilds /\ seat[u].guild \in led /\ seat[u] # NoSeat
        /\ k \in {"approve", "deny", "kick", "ban"}
        /\ UNCHANGED <<guilds, used, seat, removal, led>>
    BY <1>5, <1>t, SeatType DEF Decide, Remove, Roles, Leaders, NoSeat
  <2>2. PICK r \in Requests : /\ RequestOK(r) /\ req' = [req EXCEPT ![q] = r]
                              /\ r.guild = seat[u].guild /\ r.kind = k /\ r.pc = "asked"
    <3>1. CASE Decide(q, u, t, k)
      <4> DEFINE r == [Idle EXCEPT !.pc = "asked", !.kind = k, !.user = u, !.guild = seat[u].guild,
                                   !.about = t, !.rank = "MEMBER"]
      <4>1. /\ r \in Requests /\ RequestOK(r) /\ r.guild = seat[u].guild /\ r.kind = k
            /\ r.pc = "asked"
        BY <2>1, <3>1 DEF Decide, Idle, Requests, RequestOK, Steps, Kinds, Ranks
      <4>2. req' = [req EXCEPT ![q] = r]
        BY <3>1 DEF Decide, Begins
      <4> QED BY <4>1, <4>2
    <3>2. CASE Remove(q, u, t, k)
      <4> DEFINE r == [Idle EXCEPT !.pc = "asked", !.kind = k, !.user = u, !.guild = seat[u].guild,
                                   !.about = t]
      <4>1. /\ r \in Requests /\ RequestOK(r) /\ r.guild = seat[u].guild /\ r.kind = k
            /\ r.pc = "asked"
        BY <2>1, <3>2 DEF Remove, Idle, Requests, RequestOK, Steps, Kinds, Ranks
      <4>2. req' = [req EXCEPT ![q] = r]
        BY <3>2 DEF Remove, Begins
      <4> QED BY <4>1, <4>2
    <3> QED BY <1>5, <3>1, <3>2
  <2> QED BY <2>1, <2>2, <1>4, RolesOfARequest, ZenonT(30)
<1>6. ASSUME NEW q \in Slots, NEW u \in Users, Leave(q, u) PROVE Roles'
  <2> DEFINE r == [Idle EXCEPT !.pc = "leave", !.kind = "leave", !.user = u,
                               !.guild = seat[u].guild, !.about = u, !.rank = seat[u].rank]
  <2>1. /\ seat[u].guild \in Guilds /\ seat[u].rank \in {"MEMBER", "GRANDMASTER"} /\ seat[u] # NoSeat
        /\ UNCHANGED <<guilds, used, seat, removal, led>>
    BY <1>6, <1>t, SeatType DEF Leave
  <2>2. /\ r \in Requests /\ RequestOK(r) /\ r.guild = seat[u].guild /\ r.kind = "leave"
        /\ r.rank = seat[u].rank /\ r.pc = "leave"
    BY <2>1 DEF Idle, Requests, RequestOK, Steps, Kinds, Ranks
  <2>3. req' = [req EXCEPT ![q] = r]
    BY <1>6 DEF Leave, Begins
  <2> HIDE DEF r
  <2>4. LeadersOnly(r) => r.guild \in led
    BY <2>2 DEF LeadersOnly, Roles, Leaders
  <2> QED BY <2>1, <2>2, <2>3, <2>4, <1>4, RolesOfARequest
<1>7. ASSUME NEW q \in Slots, JoinAdmits(q) \/ ApproveAdmits(q) PROVE Roles'
  <2>1. RequestOK([req[q] EXCEPT !.pc = "seat"])
    BY <1>7 DEF JoinAdmits, ApproveAdmits, Typed, TypeOK, RequestOK, Requests
  <2> QED BY <1>7, <2>1, RolesOfAPc DEF JoinAdmits, ApproveAdmits, Steps
<1>8. ASSUME NEW q \in Slots, ApplyAdmits(q) PROVE Roles'
  <2>1. RequestOK([req[q] EXCEPT !.pc = "file"])
    BY <1>8 DEF ApplyAdmits, Typed, TypeOK, RequestOK, Requests
  <2> QED BY <1>8, <2>1, RolesOfAPc DEF ApplyAdmits, Steps
<1>9. ASSUME NEW q \in Slots, DenyFinds(q) PROVE Roles'
  <2>1. RequestOK([req[q] EXCEPT !.pc = "strike"])
    BY <1>9 DEF DenyFinds, Typed, TypeOK, RequestOK, Requests
  <2> QED BY <1>9, <2>1, RolesOfAPc DEF DenyFinds, Steps
<1>10. ASSUME NEW q \in Slots, RemoveFinds(q) PROVE Roles'
  <2>1. RequestOK([req[q] EXCEPT !.pc = "remove"])
    BY <1>10 DEF RemoveFinds, Typed, TypeOK, RequestOK, Requests
  <2> QED BY <1>10, <2>1, RolesOfAPc DEF RemoveFinds, Steps
<1>11. ASSUME NEW q \in Slots, SuccessionReads(q) PROVE Roles'
  <2>1. PICK heir \in Heirs(q) :
            req' = [req EXCEPT ![q].pc = "succeed", ![q].heir = heir,
                               ![q].holds = seat[req[q].about].guild = req[q].guild]
    BY <1>11 DEF SuccessionReads
  <2>2. req[q] \in Requests /\ RequestOK(req[q]) /\ req \in [Slots -> Requests]
    BY DEF Typed, TypeOK
  <2>3. req[q].about \in Users /\ req[q].pc = "leave" /\ Succession(q)
    BY <1>11, <2>2 DEF SuccessionReads, RequestOK
  <2>4. heir \in Users \cup {None} /\ heir # req[q].about
    BY <2>1, <2>3, GuildsAssumption DEF Heirs, Remaining, MembersOf
  <2> DEFINE r == [req[q] EXCEPT !.pc = "succeed", !.heir = heir,
                                 !.holds = (seat[req[q].about].guild = req[q].guild)]
  <2>5. /\ r \in Requests /\ r.kind = req[q].kind /\ r.guild = req[q].guild /\ r.rank = req[q].rank
        /\ r.pc = "succeed"
    BY <2>2, <2>4 DEF Requests, Steps
  <2>6. RequestOK(r)
    BY <2>2, <2>3, <2>4 DEF RequestOK, Requests, Succession
  <2>7. req' = [req EXCEPT ![q] = r]
    BY <2>1, <2>2
  <2>8. UNCHANGED <<guilds, used, seat, removal, led>>
    BY <1>11 DEF SuccessionReads
  <2> HIDE DEF r
  <2> QED BY <2>3, <2>5, <2>6, <2>7, <2>8, RolesOfAMove
<1>12. ASSUME NEW q \in Slots, Seated(q) PROVE Roles'
  <2> DEFINE u == req[q].about
             g == req[q].guild
  <2>1. /\ u \in Users /\ g \in Guilds /\ req[q].pc = "seat"
        /\ req[q].kind \in {"create", "join", "approve"}
        /\ req[q].kind # "create" => req[q].rank = "MEMBER"
    BY <1>12 DEF Seated, Typed, RequestOK
  <2>2. g \in used /\ \A p \in Slots \ {q} : req[p].pc = "found" => req[p].guild # g
    BY <2>1 DEF Roles, IdsOnce, Busy, FoundIsUnseen
  <2>3. /\ req'[q] = Idle
        /\ \A p \in Slots \ {q} : req'[p] = req[p]
    BY <1>12 DEF Seated, Ends, Typed, TypeOK
  <2>4. /\ seat'[u] = [guild |-> g, rank |-> req[q].rank]
        /\ \A v \in Users \ {u} : seat'[v] = seat[v]
    BY <1>12, <2>1 DEF Seated, Typed, TypeOK
  <2>5. led' = IF req[q].kind = "create" THEN led \cup {g} ELSE led
    BY <1>12 DEF Seated
  <2>6. \A h \in Guilds, v \in Users :
            removal'[h][v] = removal[h][v] \/ removal'[h][v] = "none"
    BY <1>12, <2>1 DEF Seated, Typed, TypeOK
  <2>7. UNCHANGED <<guilds, used>>
    BY <1>12 DEF Seated
  <2> HIDE DEF u, g
  <2>8. \A h \in Guilds \ used' : Unseen(h)' /\ \A p \in Slots : ~Busy(p, h)'
    <3> SUFFICES ASSUME NEW h \in Guilds \ used PROVE Unseen(h)' /\ \A p \in Slots : ~Busy(p, h)'
      BY <2>7
    <3>1. Unseen(h) /\ \A p \in Slots : ~Busy(p, h)
      BY DEF Roles, IdsOnce
    <3>2. \A v \in Users : seat'[v].guild # h
      BY <2>2, <2>4, <3>1 DEF Unseen
    <3>3. \A p \in Slots : ~(req'[p].pc # "idle" /\ req'[p].guild = h)
      BY <2>3, <3>1 DEF Busy, Idle
    <3> QED BY <2>7, <3>1, <3>2, <3>3 DEF Unseen, Busy
  <2>9. \A p \in Slots : FoundIsUnseen(p)'
    <3> SUFFICES ASSUME NEW p \in Slots, req'[p].pc = "found" PROVE FoundIsUnseen(p)'
      BY DEF FoundIsUnseen
    <3>1. p # q /\ req'[p] = req[p] /\ FoundIsUnseen(p) /\ req[p].guild # g
      BY <2>2, <2>3 DEF Roles, IdsOnce, Idle
    <3>2. \A v \in Users : seat'[v].guild # req[p].guild
      BY <2>3, <2>4, <3>1 DEF FoundIsUnseen
    <3> QED BY <2>3, <2>7, <3>1, <3>2 DEF FoundIsUnseen, Idle
  <2>10. \A p \in Slots : req'[p].kind = "create" => req'[p].guild \in used' \ led'
    <3> SUFFICES ASSUME NEW p \in Slots, req'[p].kind = "create" PROVE req'[p].guild \in used' \ led'
      OBVIOUS
    <3>1. p # q /\ req'[p] = req[p]
      BY <2>3 DEF Idle
    <3>2. req[q].kind = "create" => req[p].guild # g
      BY <3>1 DEF Roles, IdsOnce, g
    <3> QED BY <2>5, <2>7, <3>1, <3>2 DEF Roles, IdsOnce
  <2>11. \A p \in Slots : \A o \in Slots \ {p} :
             req'[p].kind = "create" /\ req'[o].kind = "create" => req'[p].guild # req'[o].guild
    BY <2>3 DEF Roles, IdsOnce, Idle
  <2>12. Leaders'
    <3>1. \A p \in Slots : LeadersOnly(req'[p]) => req'[p].guild \in led'
      BY <2>3, <2>5 DEF Roles, Leaders, LeadersOnly, Idle
    <3>2. \A v \in Users : seat'[v].rank = "GRANDMASTER" => seat'[v].guild \in led'
      BY <2>1, <2>4, <2>5 DEF Roles, Leaders
    <3>3. \A h \in Guilds \ led' : \A v \in Users : removal'[h][v] = "none"
      BY <2>5, <2>6 DEF Roles, Leaders
    <3> QED BY <3>1, <3>2, <3>3 DEF Leaders
  <2>13. guilds' \subseteq used' /\ led' \subseteq used'
    BY <2>2, <2>5, <2>7 DEF Roles, IdsOnce
  <2> QED BY <2>8, <2>9, <2>10, <2>11, <2>12, <2>13 DEF Roles, IdsOnce
<1>13. ASSUME NEW q \in Slots, ApplyFiles(q) \/ DenyStrikes(q) \/ Refused(q) PROVE Roles'
  <2>1. Ends(q) /\ req[q].pc # "idle" /\ UNCHANGED <<guilds, used, seat, removal, led>>
    BY <1>13 DEF ApplyFiles, DenyStrikes, Refused
  <2> QED BY <2>1, RolesAtTheEnd
<1>14. ASSUME NEW v \in Users, NEW g, NEW u \in Users
       PROVE  Unseated(v, g)[u] \in {seat[u], NoSeat}
  BY <1>t DEF Unseated, TypeOK
<1>15. ASSUME NEW q \in Slots, Removes(q) PROVE Roles'
  <2>1. /\ Ends(q) /\ req[q].pc = "remove" /\ UNCHANGED <<guilds, used, led>>
        /\ seat' = Unseated(req[q].about, req[q].guild)
        /\ req[q].about \in Users /\ req[q].guild \in Guilds
        /\ req[q].kind \in {"kick", "ban"}
    BY <1>15 DEF Removes, Typed, RequestOK
  <2>2. req[q].guild \in led
    BY <2>1 DEF Roles, Leaders, LeadersOnly
  <2>3. \A g \in Guilds, u \in Users : removal'[g][u] = removal[g][u] \/ g \in led
    BY <1>15, <2>1, <2>2 DEF Removes, Typed, TypeOK
  <2>4. \A u \in Users : seat'[u] \in {seat[u], NoSeat}
    BY <2>1, <1>14
  <2> QED BY <2>1, <2>3, <2>4, RolesAtTheEnd
<1>16. ASSUME NEW q \in Slots, MemberLeaves(q) PROVE Roles'
  <2>1. /\ Ends(q) /\ req[q].pc = "leave" /\ UNCHANGED <<guilds, used, led, removal>>
        /\ seat' = Unseated(req[q].about, req[q].guild) /\ req[q].about \in Users
    BY <1>16 DEF MemberLeaves, Typed, RequestOK
  <2>2. \A u \in Users : seat'[u] \in {seat[u], NoSeat}
    BY <2>1, <1>14
  <2> QED BY <2>1, <2>2, RolesAtTheEnd
<1>17. ASSUME NEW q \in Slots, TornDown(q) PROVE Roles'
  <2>1. /\ Ends(q) /\ req[q].pc = "succeed" /\ UNCHANGED <<used, led, removal>>
        /\ seat' = WithoutLeaver(q) /\ req[q].about \in Users /\ guilds' \subseteq guilds
    BY <1>17 DEF TornDown, Typed, RequestOK
  <2>2. \A u \in Users : seat'[u] \in {seat[u], NoSeat}
    BY <2>1, <1>14 DEF WithoutLeaver
  <2> QED BY <2>1, <2>2, RolesAtTheEnd
<1>18. ASSUME NEW q \in Slots, Succeeds(q) PROVE Roles'
  <2>1. /\ Ends(q) /\ req[q].pc = "succeed" /\ UNCHANGED <<guilds, used, led, removal>>
        /\ seat' = HandedOn(q) /\ req[q].about \in Users
        /\ req[q].kind = "leave" /\ req[q].rank = "GRANDMASTER"
        /\ req[q].heir \in Users /\ req[q].heir # req[q].about
    BY <1>18 DEF Succeeds, Typed, TypeOK, RequestOK, Requests
  <2>2. req[q].guild \in led
    BY <2>1 DEF Roles, Leaders, LeadersOnly
  <2>3. \A u \in Users : WithoutLeaver(q)[u] \in {seat[u], NoSeat}
    BY <2>1, <1>14 DEF WithoutLeaver
  <2>4. WithoutLeaver(q) \in [Users -> Seats]
    BY <1>t, <2>1, UnseatedType DEF WithoutLeaver, TypeOK
  <2>5. WithoutLeaver(q)[req[q].heir] = seat[req[q].heir]
    BY <1>t, <2>1 DEF WithoutLeaver, Unseated, TypeOK
  <2>6. ASSUME NEW u \in Users
        PROVE  \/ seat'[u] \in {seat[u], NoSeat}
               \/ seat'[u].guild = seat[u].guild /\ seat[u].guild \in led
    <3>1. CASE seat[req[q].heir].guild = req[q].guild /\ u = req[q].heir
      <4>1. seat'[u] = [seat[u] EXCEPT !.rank = "GRANDMASTER"]
        BY <2>1, <2>4, <2>5, <3>1 DEF HandedOn
      <4>2. seat[u] \in Seats
        BY <1>t DEF TypeOK
      <4>3. seat'[u].guild = seat[u].guild
        BY <4>1, <4>2 DEF Seats, NoSeat
      <4> QED BY <2>2, <3>1, <4>3
    <3>2. CASE ~(seat[req[q].heir].guild = req[q].guild /\ u = req[q].heir)
      <4>1. seat'[u] = WithoutLeaver(q)[u]
        BY <2>1, <2>4, <3>2 DEF HandedOn
      <4> QED BY <2>3, <4>1
    <3> QED BY <3>1, <3>2
  <2> QED BY <2>1, <2>6, RolesAtTheEnd
<1>19. CASE UNCHANGED vars
  BY <1>19 DEF vars, Roles, IdsOnce, Leaders, FoundIsUnseen, Unseen, Busy
<1> QED BY <1>1, <1>2, <1>3, <1>5, <1>6, <1>7, <1>8, <1>9, <1>10, <1>11, <1>12, <1>13, <1>15,
           <1>16, <1>17, <1>18, <1>19 DEF Next

----------------------------------------------------------------------------
(* A request that would let u back into g, or overwrite the record of u's   *)
(* ban: an admission that is no approval, and a kick.                       *)
Undoing(r, g, u) ==
    /\ r.guild = g /\ r.about = u
    /\ \/ r.pc = "seat" /\ r.kind \in {"join", "create"}
       \/ r.pc = "remove" /\ r.kind = "kick"

(* u's ban from g stands: it was no race, and nobody approved u since.      *)
Standing(g, u) == u \in outlaws[g] /\ <<g, u>> \notin missed

Bans ==
    \A u \in Users, g \in Guilds :
        Standing(g, u) =>
            /\ removal[g][u] = "banned"
            /\ seat[u].guild # g
            /\ \A q \in Slots : ~Undoing(req[q], g, u)

LEMMA InitBans == Init => Bans
BY DEF Init, Bans, Standing

(* What neither records a removal, seats nor decides an admission or a kick *)
(* keeps the bans.                                                          *)
LEMMA BansKept ==
  ASSUME Bans, UNCHANGED <<removal, outlaws, missed>>,
         \A u \in Users : seat'[u].guild = None \/ seat'[u].guild = seat[u].guild,
         \A q \in Slots, u \in Users, g \in Guilds :
             Undoing(req'[q], g, u) => Undoing(req[q], g, u)
  PROVE  Bans'
<1> SUFFICES ASSUME NEW u \in Users, NEW g \in Guilds, Standing(g, u)
             PROVE  /\ removal'[g][u] = "banned"
                    /\ seat'[u].guild # g
                    /\ \A q \in Slots : ~Undoing(req'[q], g, u)
  BY DEF Bans, Standing, Undoing
<1>1. /\ removal[g][u] = "banned"
      /\ seat[u].guild # g
      /\ \A q \in Slots : ~Undoing(req[q], g, u)
  BY DEF Bans
<1>2. g # None
  BY GuildsAssumption
<1> QED BY <1>1, <1>2

LEMMA BansOfARequest ==
  ASSUME Typed, Bans, NEW q \in Slots, NEW r, req' = [req EXCEPT ![q] = r],
         \A u \in Users, g \in Guilds : Undoing(r, g, u) => ~Standing(g, u),
         UNCHANGED <<seat, removal, outlaws, missed>>
  PROVE  Bans'
<1>1. req'[q] = r /\ \A p \in Slots \ {q} : req'[p] = req[p]
  BY DEF Typed, TypeOK
<1> QED BY <1>1 DEF Bans, Undoing, Standing

LEMMA BansStep == Typed /\ Roles /\ Bans /\ [Next]_vars => Bans'
<1> SUFFICES ASSUME Typed, Roles, Bans, [Next]_vars PROVE Bans'
  OBVIOUS
<1>t. TypeOK
  BY DEF Typed
<1>1. ASSUME NEW q \in Slots, NEW r, Begins(q, r), r.pc \notin {"seat", "remove"},
             UNCHANGED <<seat, removal, outlaws, missed>>
      PROVE  Bans'
  BY <1>1, BansOfARequest DEF Begins, Undoing
<1>2. ASSUME NEW q \in Slots, NEW u \in Users,
             \/ \E g \in Guilds : Create(q, u, g)
             \/ \E g \in Guilds, k \in Kinds : Ask(q, u, g, k)
             \/ \E t \in Users, k \in Kinds : Decide(q, u, t, k)
             \/ \E t \in Users, k \in Kinds : Remove(q, u, t, k)
             \/ Leave(q, u)
      PROVE  Bans'
  <2>1. ASSUME NEW g, Create(q, u, g) PROVE Bans'
    <3> DEFINE r == [Idle EXCEPT !.pc = "found", !.kind = "create", !.user = u, !.guild = g,
                                 !.about = u, !.rank = "GRANDMASTER"]
    <3>1. Begins(q, r) /\ UNCHANGED <<seat, removal, outlaws, missed>>
      BY <2>1 DEF Create
    <3>2. r.pc = "found"
      BY DEF Idle
    <3> HIDE DEF r
    <3> QED BY <1>1, <3>1, <3>2
  <2>2. ASSUME NEW g, NEW k, Ask(q, u, g, k) PROVE Bans'
    <3> DEFINE r == [Idle EXCEPT !.pc = "asked", !.kind = k, !.user = u, !.guild = g,
                                 !.about = u, !.rank = "MEMBER"]
    <3>1. Begins(q, r) /\ UNCHANGED <<seat, removal, outlaws, missed>>
      BY <2>2 DEF Ask
    <3>2. r.pc = "asked"
      BY DEF Idle
    <3> HIDE DEF r
    <3> QED BY <1>1, <3>1, <3>2
  <2>3. ASSUME NEW t, NEW k, Decide(q, u, t, k) PROVE Bans'
    <3> DEFINE r == [Idle EXCEPT !.pc = "asked", !.kind = k, !.user = u, !.guild = seat[u].guild,
                                 !.about = t, !.rank = "MEMBER"]
    <3>1. Begins(q, r) /\ UNCHANGED <<seat, removal, outlaws, missed>>
      BY <2>3 DEF Decide
    <3>2. r.pc = "asked"
      BY DEF Idle
    <3> HIDE DEF r
    <3> QED BY <1>1, <3>1, <3>2
  <2>4. ASSUME NEW t, NEW k, Remove(q, u, t, k) PROVE Bans'
    <3> DEFINE r == [Idle EXCEPT !.pc = "asked", !.kind = k, !.user = u, !.guild = seat[u].guild,
                                 !.about = t]
    <3>1. Begins(q, r) /\ UNCHANGED <<seat, removal, outlaws, missed>>
      BY <2>4 DEF Remove
    <3>2. r.pc = "asked"
      BY DEF Idle
    <3> HIDE DEF r
    <3> QED BY <1>1, <3>1, <3>2
  <2>5. CASE Leave(q, u)
    <3> DEFINE r == [Idle EXCEPT !.pc = "leave", !.kind = "leave", !.user = u,
                                 !.guild = seat[u].guild, !.about = u, !.rank = seat[u].rank]
    <3>1. Begins(q, r) /\ UNCHANGED <<seat, removal, outlaws, missed>>
      BY <2>5 DEF Leave
    <3>2. r.pc = "leave"
      BY DEF Idle
    <3> HIDE DEF r
    <3> QED BY <1>1, <3>1, <3>2
  <2> QED BY <1>2, <2>1, <2>2, <2>3, <2>4, <2>5
<1>3. ASSUME NEW q \in Slots, CreateFounds(q) \/ JoinAdmits(q) \/ ApproveAdmits(q) PROVE Bans'
  <2> DEFINE r == [req[q] EXCEPT !.pc = "seat"]
  <2>1. req[q] \in Requests /\ RequestOK(req[q]) /\ req \in [Slots -> Requests]
    BY DEF Typed, TypeOK
  <2>2. req' = [req EXCEPT ![q] = r] /\ UNCHANGED <<seat, removal, outlaws, missed>>
    BY <1>3, <2>1 DEF CreateFounds, JoinAdmits, ApproveAdmits
  <2>3. r.guild = req[q].guild /\ r.about = req[q].about /\ r.kind = req[q].kind
    BY <2>1 DEF Requests
  <2>5. r.pc = "seat"
    BY <2>1 DEF Requests
  <2> HIDE DEF r
  <2>4. ASSUME NEW u \in Users, NEW g \in Guilds, Undoing(r, g, u) PROVE ~Standing(g, u)
    <3>0. Standing(g, u) => removal[g][u] = "banned"
      BY DEF Bans
    <3>1. g = req[q].guild /\ u = req[q].about /\ req[q].kind \in {"join", "create"}
      BY <2>3, <2>4, <2>5 DEF Undoing
    <3>2. CASE req[q].kind = "join"
      BY <1>3, <2>1, <3>0, <3>1, <3>2 DEF CreateFounds, JoinAdmits, ApproveAdmits, Barred, RequestOK
    <3>3. CASE req[q].kind = "create"
      BY <3>0, <3>1, <3>3 DEF Roles, IdsOnce, Leaders
    <3> QED BY <3>1, <3>2, <3>3
  <2> QED BY <2>2, <2>4, BansOfARequest
<1>4. ASSUME NEW q \in Slots, NEW pc \in Steps, pc \notin {"seat", "remove"}, req' = [req EXCEPT ![q].pc = pc],
             UNCHANGED <<seat, removal, outlaws, missed>>
      PROVE  Bans'
  <2> DEFINE r == [req[q] EXCEPT !.pc = pc]
  <2>1. req[q] \in Requests /\ req \in [Slots -> Requests]
    BY DEF Typed, TypeOK
  <2>2. r.pc = pc /\ req' = [req EXCEPT ![q] = r]
    BY <1>4, <2>1 DEF Requests
  <2> HIDE DEF r
  <2> QED BY <1>4, <2>2, BansOfARequest DEF Undoing
<1>5. ASSUME NEW q \in Slots, ApplyAdmits(q) \/ DenyFinds(q) PROVE Bans'
  BY <1>4, <1>5 DEF ApplyAdmits, DenyFinds, Steps
<1>15. ASSUME NEW q \in Slots, RemoveFinds(q) PROVE Bans'
  <2> DEFINE r == [req[q] EXCEPT !.pc = "remove"]
  <2>1. req[q] \in Requests /\ req \in [Slots -> Requests]
    BY DEF Typed, TypeOK
  <2>2. req' = [req EXCEPT ![q] = r] /\ UNCHANGED <<seat, removal, outlaws, missed>>
    BY <1>15, <2>1 DEF RemoveFinds
  <2>3. r.guild = req[q].guild /\ r.about = req[q].about
    BY <2>1 DEF Requests
  <2> HIDE DEF r
  <2>4. seat[req[q].about].guild = req[q].guild
    BY <1>15 DEF RemoveFinds
  <2>5. ASSUME NEW u \in Users, NEW g \in Guilds, Undoing(r, g, u) PROVE ~Standing(g, u)
    <3>1. seat[u].guild = g
      BY <2>3, <2>4, <2>5 DEF Undoing
    <3> QED BY <3>1 DEF Bans
  <2> QED BY <2>2, <2>5, BansOfARequest
<1>6. ASSUME NEW q \in Slots, SuccessionReads(q) PROVE Bans'
  <2>1. PICK heir \in Heirs(q) :
            req' = [req EXCEPT ![q].pc = "succeed", ![q].heir = heir,
                               ![q].holds = seat[req[q].about].guild = req[q].guild]
    BY <1>6 DEF SuccessionReads
  <2> DEFINE r == [req[q] EXCEPT !.pc = "succeed", !.heir = heir,
                                 !.holds = (seat[req[q].about].guild = req[q].guild)]
  <2>2. req[q] \in Requests /\ req \in [Slots -> Requests]
    BY DEF Typed, TypeOK
  <2>3. r.pc = "succeed"
    BY <2>2 DEF Requests
  <2>4. req' = [req EXCEPT ![q] = r]
    BY <2>1, <2>2
  <2> HIDE DEF r
  <2> QED BY <1>6, <2>3, <2>4, BansOfARequest DEF SuccessionReads, Undoing
<1>7. ASSUME NEW q \in Slots, Seated(q) PROVE Bans'
  <2>1. /\ req[q].about \in Users /\ req[q].guild \in Guilds /\ req[q].pc = "seat"
        /\ req[q].kind \in {"create", "join", "approve"}
    BY <1>7 DEF Seated, Typed, RequestOK
  <2>2. req'[q] = Idle /\ \A p \in Slots \ {q} : req'[p] = req[p]
    BY <1>7 DEF Seated, Ends, Typed, TypeOK
  <2>3. /\ seat'[req[q].about].guild = req[q].guild
        /\ \A v \in Users \ {req[q].about} : seat'[v] = seat[v]
    BY <1>7, <2>1 DEF Seated, Typed, TypeOK
  <2>4. ASSUME NEW u \in Users, NEW g \in Guilds, u \in outlaws'[g]
        PROVE  /\ u \in outlaws[g] /\ removal'[g][u] = removal[g][u]
               /\ g = req[q].guild /\ u = req[q].about => req[q].kind # "approve"
    BY <1>7, <2>1, <2>4 DEF Seated, Typed, TypeOK
  <2>5. UNCHANGED missed
    BY <1>7 DEF Seated
  <2> SUFFICES ASSUME NEW u \in Users, NEW g \in Guilds, u \in outlaws'[g], <<g, u>> \notin missed
               PROVE  /\ removal'[g][u] = "banned"
                      /\ seat'[u].guild # g
                      /\ \A p \in Slots : ~Undoing(req'[p], g, u)
    BY <2>5 DEF Bans, Standing, Undoing
  <2>6. /\ removal'[g][u] = "banned"
        /\ seat[u].guild # g
        /\ \A p \in Slots : ~Undoing(req[p], g, u)
    BY <2>4 DEF Bans, Standing
  <2>7. \A p \in Slots : ~Undoing(req'[p], g, u)
    BY <2>2, <2>6 DEF Undoing, Idle
  <2>8. ~(u = req[q].about /\ g = req[q].guild)
    BY <2>1, <2>4, <2>6 DEF Undoing
  <2>9. seat'[u].guild # g
    BY <2>3, <2>6, <2>8
  <2> QED BY <2>6, <2>7, <2>9
<1>8. ASSUME NEW q \in Slots, Ends(q) PROVE
          /\ req'[q] = Idle /\ \A p \in Slots \ {q} : req'[p] = req[p]
          /\ \A p \in Slots, u \in Users, g \in Guilds :
                 Undoing(req'[p], g, u) => Undoing(req[p], g, u)
  BY <1>8 DEF Ends, Typed, TypeOK, Undoing, Idle
<1>9. ASSUME NEW v \in Users, NEW g
      PROVE  \A u \in Users : Unseated(v, g)[u].guild \in {None, seat[u].guild}
  BY <1>t DEF Unseated, TypeOK, NoSeat
<1>10. ASSUME NEW q \in Slots, Removes(q) PROVE Bans'
  <2> DEFINE a == req[q].about
             h == req[q].guild
  <2>1. a \in Users /\ h \in Guilds /\ Ends(q) /\ seat' = Unseated(a, h)
    BY <1>10 DEF Removes, Typed, RequestOK
  <2>2. seat'[a].guild # h
    BY <1>t, <2>1, GuildsAssumption DEF Unseated, TypeOK, NoSeat
  <2>3. \A g \in Guilds, u \in Users :
            removal'[g][u] = IF g = h /\ u = a
                             THEN IF req[q].kind = "ban" THEN "banned" ELSE "kicked"
                             ELSE removal[g][u]
    BY <1>10, <2>1 DEF Removes, Typed, TypeOK
  <2>4. IF req[q].kind = "ban" THEN Outlawed(q, h, a) ELSE UNCHANGED <<outlaws, missed>>
    BY <1>10 DEF Removes
  <2>k. req[q].kind # "ban" => Undoing(req[q], h, a)
    BY <1>10 DEF Removes, Undoing, Typed, RequestOK
  <2> HIDE DEF a, h
  <2> SUFFICES ASSUME NEW u \in Users, NEW g \in Guilds, u \in outlaws'[g], <<g, u>> \notin missed'
               PROVE  /\ removal'[g][u] = "banned"
                      /\ seat'[u].guild # g
                      /\ \A p \in Slots : ~Undoing(req'[p], g, u)
    BY DEF Bans, Standing, Undoing
  <2>5. CASE g = h /\ u = a /\ req[q].kind = "ban"
    <3>1. ~Racing(q, g, u)
      BY <2>4, <2>5 DEF Outlawed
    <3>2. \A p \in Slots \ {q} : ~Undoing(req[p], g, u)
      BY <3>1 DEF Racing, Undoing
    <3>3. \A p \in Slots : ~Undoing(req'[p], g, u)
      BY <1>8, <2>1, <3>2 DEF Undoing, Idle
    <3> QED BY <2>2, <2>3, <2>5, <3>3
  <2>6. CASE ~(g = h /\ u = a /\ req[q].kind = "ban")
    <3>0. Standing(g, u)
      <4>1. CASE req[q].kind = "ban"
        BY <1>t, <2>1, <2>4, <2>6, <4>1 DEF Outlawed, Standing, TypeOK
      <4>2. CASE req[q].kind # "ban"
        BY <2>4, <4>2 DEF Standing
      <4> QED BY <4>1, <4>2
    <3>1. /\ removal[g][u] = "banned"
          /\ seat[u].guild # g
          /\ \A p \in Slots : ~Undoing(req[p], g, u)
      BY <3>0 DEF Bans
    <3>2. ~(g = h /\ u = a)
      BY <2>6, <2>k, <3>1
    <3>3. removal'[g][u] = "banned"
      BY <2>3, <3>1, <3>2
    <3>4. seat'[u].guild \in {None, seat[u].guild} /\ g # None
      BY <1>9, <2>1, GuildsAssumption
    <3> QED BY <1>8, <2>1, <3>1, <3>3, <3>4
  <2> QED BY <2>5, <2>6
<1>11. ASSUME NEW q \in Slots, ApplyFiles(q) \/ DenyStrikes(q) \/ Refused(q) PROVE Bans'
  <2>1. Ends(q) /\ UNCHANGED <<seat, removal, outlaws, missed>>
    BY <1>11 DEF ApplyFiles, DenyStrikes, Refused
  <2> QED BY <2>1, <1>8, BansKept
<1>12. ASSUME NEW q \in Slots, MemberLeaves(q) \/ TornDown(q) PROVE Bans'
  <2>1. /\ Ends(q) /\ UNCHANGED <<removal, outlaws, missed>> /\ req[q].about \in Users
        /\ seat' \in {seat, Unseated(req[q].about, req[q].guild)}
    BY <1>12 DEF MemberLeaves, TornDown, WithoutLeaver, Typed, RequestOK
  <2>2. \A u \in Users : seat'[u].guild \in {None, seat[u].guild}
    BY <2>1, <1>9
  <2> QED BY <2>1, <2>2, <1>8, BansKept
<1>13. ASSUME NEW q \in Slots, Succeeds(q) PROVE Bans'
  <2>1. /\ Ends(q) /\ UNCHANGED <<removal, outlaws, missed>> /\ req[q].about \in Users /\ req[q].heir \in Users
        /\ seat' = HandedOn(q)
    BY <1>13 DEF Succeeds, Typed, TypeOK, RequestOK, Requests
  <2>2. WithoutLeaver(q) \in [Users -> Seats]
    BY <1>t, <2>1, UnseatedType DEF WithoutLeaver, TypeOK
  <2>3. \A u \in Users : WithoutLeaver(q)[u].guild \in {None, seat[u].guild}
    BY <2>1, <1>9 DEF WithoutLeaver
  <2>4. \A u \in Users : seat'[u].guild = WithoutLeaver(q)[u].guild
    <3> SUFFICES ASSUME NEW u \in Users PROVE HandedOn(q)[u].guild = WithoutLeaver(q)[u].guild
      BY <2>1
    <3>1. WithoutLeaver(q)[u] \in Seats
      BY <2>2
    <3>2. HandedOn(q)[u] \in {WithoutLeaver(q)[u], [WithoutLeaver(q)[u] EXCEPT !.rank = "GRANDMASTER"]}
      BY <2>2 DEF HandedOn
    <3> QED BY <3>1, <3>2 DEF Seats, NoSeat
  <2> QED BY <2>1, <2>3, <2>4, <1>8, BansKept
<1>14. CASE UNCHANGED vars
  BY <1>14 DEF vars, Bans, Standing, Undoing
<1> QED BY <1>2, <1>3, <1>5, <1>6, <1>7, <1>10, <1>11, <1>12, <1>13, <1>14, <1>15 DEF Next

(* "A ban never expires": for any users, guilds and overlap of requests, a  *)
(* player banned, and not approved since, stays recorded as banned and out  *)
(* of the guild, unless the ban was written beside an admission or a kick   *)
(* of them that was decided before it.                                      *)
THEOREM BansHold == Spec => []BannedStaysOut
<1>1. Init => Typed /\ Roles /\ Bans
  BY InitTyped, InitRoles, InitBans
<1>2. Typed /\ Roles /\ Bans /\ [Next]_vars => (Typed /\ Roles /\ Bans)'
  BY TypedStep, RolesStep, BansStep
<1>3. Typed /\ Bans => BannedStaysOut
  BY DEF Bans, BannedStaysOut, Standing, Typed, TypeOK
<1> QED BY <1>1, <1>2, <1>3, PTL DEF Spec

----------------------------------------------------------------------------
(* A guild none of whose departures was decided beside a change of Grand    *)
(* Master: it has one, and each of its departures has the rank right.       *)
Lead(g) == [guild |-> g, rank |-> "GRANDMASTER"]
OneLeader(g) == \E u \in Users : \A v \in Users : seat[v] = Lead(g) <=> v = u

RightRank(q) ==
    /\ req[q].pc = "leave" /\ req[q].rank = "MEMBER" => seat[req[q].about] # Lead(req[q].guild)
    /\ req[q].pc = "remove" => seat[req[q].about] # Lead(req[q].guild)
    /\ req[q].pc \in {"leave", "succeed"} /\ req[q].rank = "GRANDMASTER"
           => seat[req[q].about] = Lead(req[q].guild)
    /\ req[q].pc = "succeed" => req[q].holds /\ (req[q].heir # None => seat[req[q].heir].guild = req[q].guild)

LedBy(g) == OneLeader(g) /\ \A q \in Slots : req[q].guild = g => RightRank(q)

Calm(g) == g \in guilds /\ g \in led /\ g \notin crowded

Led == \A g \in Guilds : Calm(g) => LedBy(g)

LEMMA InitLed == Init => Led
<1> SUFFICES ASSUME Init, NEW h \in Guilds, Calm(h) PROVE LedBy(h)
  BY DEF Led
<1>0. PICK g \in Guilds, founder \in Users :
          \E members \in SUBSET (Users \ {founder}) :
              /\ guilds = {g} /\ used = {g} /\ led = {g}
              /\ Cardinality(members) < MaxMembers
              /\ seat = [u \in Users |->
                             IF u = founder THEN [guild |-> g, rank |-> "GRANDMASTER"]
                             ELSE IF u \in members THEN [guild |-> g, rank |-> "MEMBER"]
                             ELSE NoSeat]
  BY Zenon DEF Init
<1>1. PICK members \in SUBSET (Users \ {founder}) :
          /\ guilds = {g}
          /\ seat = [u \in Users |->
                         IF u = founder THEN [guild |-> g, rank |-> "GRANDMASTER"]
                         ELSE IF u \in members THEN [guild |-> g, rank |-> "MEMBER"]
                         ELSE NoSeat]
  BY <1>0, Zenon
<1>2. h = g
  BY <1>1 DEF Calm
<1>3. \A v \in Users : seat[v] = Lead(h) <=> v = founder
  BY <1>1, <1>2 DEF Lead, NoSeat
<1>4. \A q \in Slots : RightRank(q)
  BY DEF Init, Idle, RightRank
<1> QED BY <1>3, <1>4 DEF LedBy, OneLeader

(* A guild whose seats stay, but for members who come in, keeps its leader. *)
LEMMA LedKept ==
  ASSUME NEW g, LedBy(g), Typed,
         \A v \in Users : seat'[v] = Lead(g) <=> seat[v] = Lead(g),
         \A v \in Users : seat[v].guild = g => seat'[v].guild = g,
         \A q \in Slots : req'[q].guild = g /\ req'[q].pc \in {"leave", "succeed", "remove"}
                              => req'[q] = req[q]
  PROVE  LedBy(g)'
<1>1. OneLeader(g)'
  BY DEF LedBy, OneLeader, Lead
<1>2. ASSUME NEW q \in Slots, req'[q].guild = g PROVE RightRank(q)'
  <2>1. CASE req'[q].pc \in {"leave", "succeed", "remove"}
    <3>1. req'[q] = req[q] /\ RightRank(q)
      BY <1>2, <2>1 DEF LedBy
    <3>2. req[q].about \in Users /\ req[q].heir \in Users \cup {None}
      BY <2>1, <3>1 DEF Typed, TypeOK, RequestOK, Requests
    <3> QED BY <1>2, <3>1, <3>2 DEF RightRank, Lead
  <2>2. CASE req'[q].pc \notin {"leave", "succeed", "remove"}
    BY <2>2 DEF RightRank
  <2> QED BY <2>1, <2>2
<1> QED BY <1>1, <1>2 DEF LedBy

(* A step that writes one request and no row.                               *)
LEMMA LedOfARequest ==
  ASSUME Typed, Led, NEW q \in Slots, NEW r, req' = [req EXCEPT ![q] = r],
         UNCHANGED <<guilds, seat, led, crowded>>,
         r.pc \in {"leave", "succeed", "remove"} /\ Calm(r.guild) => RightRank(q)'
  PROVE  Led'
<1>1. req'[q] = r /\ \A p \in Slots \ {q} : req'[p] = req[p]
  BY DEF Typed, TypeOK
<1> SUFFICES ASSUME NEW g \in Guilds, Calm(g) PROVE LedBy(g)'
  BY DEF Led, Calm
<1>2. LedBy(g)
  BY DEF Led
<1>3. OneLeader(g)'
  BY <1>2 DEF LedBy, OneLeader, Lead
<1>4. ASSUME NEW p \in Slots, req'[p].guild = g PROVE RightRank(p)'
  <2>1. CASE p = q
    BY <1>1, <1>4, <2>1 DEF RightRank
  <2>2. CASE p # q
    BY <1>1, <1>2, <1>4, <2>2 DEF LedBy, RightRank, Lead
  <2> QED BY <2>1, <2>2
<1> QED BY <1>3, <1>4 DEF LedBy

(* The end of a request that wrote rows of its own guild h only.            *)
LEMMA LedOfAnEnd ==
  ASSUME Typed, Led, NEW q \in Slots, Ends(q), NEW h,
         \A v \in Users : seat'[v] = seat[v] \/ (/\ seat[v].guild \in {h, None}
                                                 /\ seat'[v].guild \in {h, None}),
         crowded \subseteq crowded',
         \A g \in Guilds \ {h} : (g \in guilds' <=> g \in guilds) /\ (g \in led' <=> g \in led),
         h \in Guilds /\ Calm(h)' => LedBy(h)'
  PROVE  Led'
<1>1. req'[q] = Idle /\ \A p \in Slots \ {q} : req'[p] = req[p]
  BY DEF Ends, Typed, TypeOK
<1> SUFFICES ASSUME NEW g \in Guilds \ {h}, Calm(g)' PROVE LedBy(g)'
  BY DEF Led
<1>2. LedBy(g)
  BY DEF Led, Calm
<1>3. g # None
  BY GuildsAssumption
<1>4. \A v \in Users : seat'[v] = Lead(g) <=> seat[v] = Lead(g)
  BY <1>3 DEF Lead
<1>5. \A v \in Users : seat[v].guild = g => seat'[v].guild = g
  BY <1>3
<1>6. \A p \in Slots : req'[p].guild = g /\ req'[p].pc \in {"leave", "succeed", "remove"}
                           => req'[p] = req[p]
  BY <1>1 DEF Idle
<1> QED BY <1>2, <1>4, <1>5, <1>6, LedKept

LEMMA LedStep == Typed /\ Roles /\ Led /\ [Next]_vars => Led'
<1> SUFFICES ASSUME Typed, Roles, Led, [Next]_vars PROVE Led'
  OBVIOUS
<1>t. TypeOK
  BY DEF Typed
<1>u. ASSUME NEW q \in Slots, NEW r, req' = [req EXCEPT ![q] = r] PROVE req'[q] = r
  BY <1>u DEF Typed, TypeOK
<1>1. ASSUME NEW q \in Slots, NEW r, Begins(q, r), r.pc \in {"found", "asked"},
             UNCHANGED <<guilds, seat, led, crowded>>
      PROVE  Led'
  BY <1>1, LedOfARequest DEF Begins
<1>2. ASSUME NEW q \in Slots, NEW u \in Users,
             \/ \E g \in Guilds : Create(q, u, g)
             \/ \E g \in Guilds, k \in Kinds : Ask(q, u, g, k)
             \/ \E t \in Users, k \in Kinds : Decide(q, u, t, k)
             \/ \E t \in Users, k \in Kinds : Remove(q, u, t, k)
      PROVE  Led'
  <2>1. ASSUME NEW g, Create(q, u, g) PROVE Led'
    <3> DEFINE r == [Idle EXCEPT !.pc = "found", !.kind = "create", !.user = u, !.guild = g,
                                 !.about = u, !.rank = "GRANDMASTER"]
    <3>1. Begins(q, r) /\ UNCHANGED <<guilds, seat, led, crowded>>
      BY <2>1 DEF Create
    <3>2. r.pc = "found"
      BY DEF Idle
    <3> HIDE DEF r
    <3> QED BY <1>1, <3>1, <3>2
  <2>2. ASSUME NEW g, NEW k, Ask(q, u, g, k) PROVE Led'
    <3> DEFINE r == [Idle EXCEPT !.pc = "asked", !.kind = k, !.user = u, !.guild = g,
                                 !.about = u, !.rank = "MEMBER"]
    <3>1. Begins(q, r) /\ UNCHANGED <<guilds, seat, led, crowded>>
      BY <2>2 DEF Ask
    <3>2. r.pc = "asked"
      BY DEF Idle
    <3> HIDE DEF r
    <3> QED BY <1>1, <3>1, <3>2
  <2>3. ASSUME NEW t, NEW k, Decide(q, u, t, k) PROVE Led'
    <3> DEFINE r == [Idle EXCEPT !.pc = "asked", !.kind = k, !.user = u, !.guild = seat[u].guild,
                                 !.about = t, !.rank = "MEMBER"]
    <3>1. Begins(q, r) /\ UNCHANGED <<guilds, seat, led, crowded>>
      BY <2>3 DEF Decide
    <3>2. r.pc = "asked"
      BY DEF Idle
    <3> HIDE DEF r
    <3> QED BY <1>1, <3>1, <3>2
  <2>4. ASSUME NEW t, NEW k, Remove(q, u, t, k) PROVE Led'
    <3> DEFINE r == [Idle EXCEPT !.pc = "asked", !.kind = k, !.user = u, !.guild = seat[u].guild,
                                 !.about = t]
    <3>1. Begins(q, r) /\ UNCHANGED <<guilds, seat, led, crowded>>
      BY <2>4 DEF Remove
    <3>2. r.pc = "asked"
      BY DEF Idle
    <3> HIDE DEF r
    <3> QED BY <1>1, <3>1, <3>2
  <2> QED BY <1>2, <2>1, <2>2, <2>3, <2>4
<1>3. ASSUME NEW q \in Slots, NEW u \in Users, Leave(q, u) PROVE Led'
  <2> DEFINE r == [Idle EXCEPT !.pc = "leave", !.kind = "leave", !.user = u,
                               !.guild = seat[u].guild, !.about = u, !.rank = seat[u].rank]
  <2>1. seat[u] \in [guild : Guilds, rank : {"MEMBER", "GRANDMASTER"}]
    BY <1>t, <1>3 DEF Leave, TypeOK, Seats
  <2>2. r.pc = "leave" /\ r.guild = seat[u].guild /\ r.about = u /\ r.rank = seat[u].rank
    BY DEF Idle
  <2>3. req' = [req EXCEPT ![q] = r] /\ UNCHANGED <<guilds, seat, led, crowded>>
    BY <1>3 DEF Leave, Begins
  <2> HIDE DEF r
  <2>r. req'[q] = r
    BY <1>u, <2>3
  <2>4. RightRank(q)'
    BY <2>r, <2>1, <2>2, <2>3 DEF RightRank, Lead
  <2> QED BY <2>3, <2>4, LedOfARequest
<1>4. ASSUME NEW q \in Slots, CreateFounds(q) PROVE Led'
  <2>1. req[q].kind = "create" /\ req[q].guild \notin led
    BY <1>4 DEF CreateFounds, Typed, RequestOK, Roles, IdsOnce
  <2>2. /\ guilds' = guilds \cup {req[q].guild} /\ UNCHANGED <<seat, led, crowded>>
        /\ req' = [req EXCEPT ![q].pc = "seat"]
    BY <1>4 DEF CreateFounds
  <2>3. req'[q].pc = "seat" /\ \A p \in Slots \ {q} : req'[p] = req[p]
    BY <2>2 DEF Typed, TypeOK, Requests
  <2> SUFFICES ASSUME NEW g \in Guilds, Calm(g)' PROVE LedBy(g)'
    BY DEF Led
  <2>4. LedBy(g)
    BY <2>1, <2>2 DEF Led, Calm
  <2> QED BY <2>2, <2>3, <2>4, LedKept
<1>5. ASSUME NEW q \in Slots, NEW pc \in {"seat", "file", "strike"},
             req' = [req EXCEPT ![q].pc = pc],
             UNCHANGED <<guilds, seat, led, crowded>>
      PROVE  Led'
  <2> DEFINE r == [req[q] EXCEPT !.pc = pc]
  <2>1. req[q] \in Requests /\ req \in [Slots -> Requests]
    BY DEF Typed, TypeOK
  <2>2. r.pc = pc /\ req' = [req EXCEPT ![q] = r]
    BY <1>5, <2>1 DEF Requests
  <2> HIDE DEF r
  <2> QED BY <1>5, <2>2, LedOfARequest
<1>6. ASSUME NEW q \in Slots, JoinAdmits(q) \/ ApproveAdmits(q) \/ ApplyAdmits(q) \/ DenyFinds(q)
      PROVE Led'
  BY <1>5, <1>6 DEF JoinAdmits, ApproveAdmits, ApplyAdmits, DenyFinds
<1>7. ASSUME NEW q \in Slots, RemoveFinds(q) PROVE Led'
  <2> DEFINE r == [req[q] EXCEPT !.pc = "remove"]
  <2>1. req[q] \in Requests /\ req \in [Slots -> Requests] /\ req[q].pc = "asked"
    BY <1>7 DEF RemoveFinds, Typed, TypeOK
  <2>2. /\ r.pc = "remove" /\ r.about = req[q].about /\ req' = [req EXCEPT ![q] = r]
    BY <1>7, <2>1 DEF RemoveFinds, Requests
  <2>3. UNCHANGED <<guilds, seat, led, crowded>> /\ Outranked(req[q].about)
    BY <1>7 DEF RemoveFinds
  <2> HIDE DEF r
  <2>r. req'[q] = r
    BY <1>u, <2>2
  <2>4. RightRank(q)'
    BY <2>r, <2>2, <2>3 DEF RightRank, Lead, Outranked
  <2> QED BY <2>2, <2>3, <2>4, LedOfARequest
<1>8. ASSUME NEW q \in Slots, SuccessionReads(q) PROVE Led'
  <2>1. PICK heir \in Heirs(q) :
            req' = [req EXCEPT ![q].pc = "succeed", ![q].heir = heir,
                               ![q].holds = seat[req[q].about].guild = req[q].guild]
    BY <1>8 DEF SuccessionReads
  <2>2. req[q] \in Requests /\ RequestOK(req[q]) /\ req \in [Slots -> Requests]
    BY DEF Typed, TypeOK
  <2>3. /\ req[q].pc = "leave" /\ req[q].rank = "GRANDMASTER" /\ req[q].guild \in Guilds
        /\ UNCHANGED <<guilds, seat, led, crowded>>
    BY <1>8, <2>2 DEF SuccessionReads, Succession, RequestOK
  <2>4. heir # None => seat[heir].guild = req[q].guild
    BY <2>1 DEF Heirs, Remaining, MembersOf
  <2> DEFINE r == [req[q] EXCEPT !.pc = "succeed", !.heir = heir,
                                 !.holds = (seat[req[q].about].guild = req[q].guild)]
  <2>5. /\ r.pc = "succeed" /\ r.guild = req[q].guild /\ r.about = req[q].about
        /\ r.rank = req[q].rank /\ r.heir = heir
        /\ seat[req[q].about].guild = req[q].guild => r.holds
    BY <2>2 DEF Requests
  <2>6. req' = [req EXCEPT ![q] = r]
    BY <2>1, <2>2
  <2> HIDE DEF r
  <2>r. req'[q] = r
    BY <1>u, <2>6
  <2>7. ASSUME Calm(r.guild) PROVE RightRank(q)'
    <3>1. seat[req[q].about] = Lead(req[q].guild)
      BY <2>3, <2>5, <2>7 DEF Led, LedBy, RightRank
    <3>a. r.holds
      BY <2>5, <3>1 DEF Lead
    <3>b. r.heir # None => seat[r.heir].guild = r.guild
      BY <2>4, <2>5
    <3>2. seat' = seat /\ r.holds /\ (r.heir # None => seat'[r.heir].guild = r.guild)
      BY <2>3, <3>a, <3>b
    <3>3. seat'[r.about] = Lead(r.guild)
      BY <2>5, <3>1, <3>2
    <3> QED BY <2>r, <2>3, <2>5, <3>2, <3>3 DEF RightRank, Lead
  <2> QED BY <2>3, <2>6, <2>7, LedOfARequest
<1>9. ASSUME NEW q \in Slots, Ends(q)
      PROVE  req'[q] = Idle /\ \A p \in Slots \ {q} : req'[p] = req[p]
  BY <1>9 DEF Ends, Typed, TypeOK
<1>10. ASSUME NEW q \in Slots, Seated(q) PROVE Led'
  <2>0. PICK u, h : u = req[q].about /\ h = req[q].guild
    OBVIOUS
  <2>1. /\ u \in Users /\ h \in Guilds /\ req[q].pc = "seat" /\ Ends(q) /\ UNCHANGED guilds
        /\ req[q].kind # "create" => req[q].rank = "MEMBER"
        /\ req[q].kind = "create" => req[q].rank = "GRANDMASTER"
        /\ req[q].kind \in {"create", "join", "approve"}
    BY <2>0, <1>10 DEF Seated, Typed, RequestOK
  <2>2. /\ seat[u] = NoSeat /\ seat'[u] = [guild |-> h, rank |-> req[q].rank]
        /\ \A v \in Users \ {u} : seat'[v] = seat[v]
    BY <2>0, <1>10, <2>1 DEF Seated, Typed, TypeOK
  <2>3. led' = IF req[q].kind = "create" THEN led \cup {h} ELSE led
    BY <2>0, <1>10 DEF Seated
  <2>4. IF req[q].kind = "create" THEN Departing(q) ELSE UNCHANGED crowded
    BY <2>0, <1>10 DEF Seated
  <2>5. req'[q] = Idle /\ \A p \in Slots \ {q} : req'[p] = req[p]
    BY <2>0, <1>9, <2>1
  <2>6. crowded \subseteq crowded'
    BY <2>0, <2>4 DEF Departing
  <2>7. req[q].kind = "create" => h \notin led
    BY <2>0 DEF Roles, IdsOnce
  <2>8. req[q].kind = "create" /\ h \notin crowded' =>
            \A p \in Slots \ {q} : ~(Departs(p) /\ req[p].guild = h)
    BY <2>0, <2>4 DEF Departing, ChangesLeader
  <2>9. h \in Guilds /\ h # None
    BY <2>0, <2>1, GuildsAssumption
  <2>10. ASSUME Calm(h)' PROVE LedBy(h)'
    <3>1. CASE req[q].kind = "create"
      <4>1. \A v \in Users : seat[v] # Lead(h)
        BY <2>0, <2>7, <3>1 DEF Roles, Leaders, Lead
      <4>2. \A v \in Users : seat'[v] = Lead(h) <=> v = u
        BY <2>0, <2>1, <2>2, <3>1, <4>1 DEF Lead
      <4>3. \A p \in Slots : req'[p].guild = h => req'[p].pc \notin {"leave", "succeed", "remove"}
        BY <2>0, <2>5, <2>8, <2>10, <3>1 DEF Idle, Departs, Calm
      <4>4. \A p \in Slots : req'[p].guild = h => RightRank(p)'
        BY <2>0, <4>3 DEF RightRank
      <4>5. OneLeader(h)'
        BY <2>0, <2>1, <4>2 DEF OneLeader, Lead
      <4> QED BY <2>0, <4>4, <4>5 DEF LedBy
    <3>2. CASE req[q].kind # "create"
      <4>1. LedBy(h)
        BY <2>0, <2>1, <2>3, <2>4, <2>9, <2>10, <3>2 DEF Led, Calm
      <4>2. \A v \in Users : seat'[v] = Lead(h) <=> seat[v] = Lead(h)
        BY <2>0, <2>1, <2>2, <3>2 DEF Lead, NoSeat
      <4>3. \A v \in Users : seat[v].guild = h => seat'[v].guild = h
        BY <2>0, <2>2
      <4>4. \A p \in Slots : req'[p].guild = h /\ req'[p].pc \in {"leave", "succeed", "remove"}
                                 => req'[p] = req[p]
        BY <2>0, <2>5 DEF Idle
      <4> QED BY <2>0, <4>1, <4>2, <4>3, <4>4, LedKept
    <3> QED BY <2>0, <3>1, <3>2
  <2>11. \A v \in Users : seat'[v] = seat[v] \/ (/\ seat[v].guild \in {h, None}
                                                 /\ seat'[v].guild \in {h, None})
    BY <2>0, <2>2 DEF NoSeat
  <2>12. \A g \in Guilds \ {h} : (g \in guilds' <=> g \in guilds) /\ (g \in led' <=> g \in led)
    BY <2>0, <2>1, <2>3
  <2> QED BY <2>0, <2>1, <2>6, <2>10, <2>11, <2>12, LedOfAnEnd
<1>11. ASSUME NEW q \in Slots, ApplyFiles(q) \/ DenyStrikes(q) \/ Refused(q) PROVE Led'
  <2>1. req' = [req EXCEPT ![q] = Idle] /\ UNCHANGED <<guilds, seat, led, crowded>>
    BY <1>11 DEF ApplyFiles, DenyStrikes, Refused, Ends
  <2> QED BY <2>1, LedOfARequest DEF Idle
<1>12. ASSUME NEW q \in Slots, Removes(q) \/ MemberLeaves(q) PROVE Led'
  <2>0. PICK a, h : a = req[q].about /\ h = req[q].guild
    OBVIOUS
  <2>1. /\ a \in Users /\ h \in Guilds /\ Ends(q) /\ UNCHANGED <<guilds, led>> /\ Departing(q)
        /\ seat' = Unseated(a, h)
        /\ req[q].pc = "remove" \/ (req[q].pc = "leave" /\ req[q].rank = "MEMBER")
    BY <2>0, <1>12 DEF Removes, MemberLeaves, Typed, RequestOK, Succession
  <2>2. /\ \A v \in Users \ {a} : seat'[v] = seat[v]
        /\ seat'[a] = IF seat[a].guild = h THEN NoSeat ELSE seat[a]
    BY <2>0, <1>t, <2>1 DEF Unseated, TypeOK
  <2>3. crowded \subseteq crowded'
    BY <2>0, <2>1 DEF Departing
  <2>4. h \notin crowded' =>
            \A p \in Slots \ {q} : ~(Departs(p) /\ req[p].guild = h /\ ChangesLeader(p))
    BY <2>0, <2>1 DEF Departing
  <2>5. req'[q] = Idle /\ \A p \in Slots \ {q} : req'[p] = req[p]
    BY <2>0, <1>9, <2>1
  <2>6. h # None
    BY <2>0, <2>1, GuildsAssumption
  <2>7. Calm(h)' => Calm(h) /\ RightRank(q)
    BY <2>0, <2>1, <2>3 DEF Calm, Led, LedBy
  <2>8. RightRank(q) => seat[a] # Lead(h)
    BY <2>0, <2>1 DEF RightRank
  <2>9. ASSUME Calm(h)' PROVE LedBy(h)'
    <3>1. LedBy(h) /\ seat[a] # Lead(h)
      BY <2>0, <2>1, <2>7, <2>8, <2>9 DEF Led
    <3>2. \A v \in Users : seat'[v] = Lead(h) <=> seat[v] = Lead(h)
      BY <2>0, <2>2, <2>6, <3>1 DEF Lead, NoSeat
    <3>3. ASSUME NEW p \in Slots, req'[p].guild = h PROVE RightRank(p)'
      <4>1. CASE req'[p].pc \in {"leave", "succeed", "remove"}
        <5>1. p # q /\ req'[p] = req[p] /\ RightRank(p) /\ RequestOK(req[p])
          BY <2>0, <2>5, <3>1, <3>3, <4>1 DEF Idle, LedBy, Typed
        <5>2. ~ChangesLeader(p)
          BY <2>0, <2>4, <2>9, <3>3, <4>1, <5>1 DEF Departs, Calm
        <5>3. req[p].about \in Users /\ req[p].pc # "succeed" /\ ~(req[p].pc = "leave" /\ req[p].rank = "GRANDMASTER")
          BY <2>0, <4>1, <5>1, <5>2 DEF RequestOK, ChangesLeader, Succession
        <5> QED BY <2>0, <3>2, <3>3, <5>1, <5>3 DEF RightRank, Lead
      <4>2. CASE req'[p].pc \notin {"leave", "succeed", "remove"}
        BY <2>0, <4>2 DEF RightRank
      <4> QED BY <2>0, <4>1, <4>2
    <3>4. OneLeader(h)'
      BY <2>0, <3>1, <3>2 DEF LedBy, OneLeader, Lead
    <3> QED BY <2>0, <3>3, <3>4 DEF LedBy
  <2>10. \A v \in Users : seat'[v] = seat[v] \/ (/\ seat[v].guild \in {h, None}
                                                 /\ seat'[v].guild \in {h, None})
    BY <2>0, <2>2 DEF NoSeat
  <2> QED BY <2>0, <2>1, <2>3, <2>9, <2>10, LedOfAnEnd
<1>13. ASSUME NEW q \in Slots, req[q].pc = "succeed"
       PROVE  LET a == req[q].about   h == req[q].guild IN
              /\ \A v \in Users \ {a} : WithoutLeaver(q)[v] = seat[v]
              /\ WithoutLeaver(q)[a] = IF req[q].holds /\ seat[a].guild = h THEN NoSeat ELSE seat[a]
              /\ WithoutLeaver(q) \in [Users -> Seats]
  <2>1. req[q].about \in Users
    BY <1>13 DEF Typed, RequestOK
  <2> QED BY <1>t, <2>1, UnseatedType DEF WithoutLeaver, Unseated, TypeOK
<1>14. ASSUME NEW q \in Slots, TornDown(q) PROVE Led'
  <2>0. PICK a, h : a = req[q].about /\ h = req[q].guild
    OBVIOUS
  <2>1. /\ a \in Users /\ Ends(q) /\ UNCHANGED led /\ guilds' = guilds \ {h} /\ Departing(q)
        /\ seat' = WithoutLeaver(q) /\ req[q].pc = "succeed"
    BY <2>0, <1>14 DEF TornDown, Typed, RequestOK
  <2>2. /\ \A v \in Users \ {a} : seat'[v] = seat[v]
        /\ seat'[a] = IF req[q].holds /\ seat[a].guild = h THEN NoSeat ELSE seat[a]
    BY <2>0, <1>13, <2>1
  <2>3. crowded \subseteq crowded'
    BY <2>0, <2>1 DEF Departing
  <2>4. ~Calm(h)'
    BY <2>0, <2>1 DEF Calm
  <2>5. \A v \in Users : seat'[v] = seat[v] \/ (/\ seat[v].guild \in {h, None}
                                                /\ seat'[v].guild \in {h, None})
    BY <2>0, <2>2 DEF NoSeat
  <2> QED BY <2>0, <2>1, <2>3, <2>4, <2>5, LedOfAnEnd
<1>15. ASSUME NEW q \in Slots, Succeeds(q) PROVE Led'
  <2>0. PICK a, h, b : a = req[q].about /\ h = req[q].guild /\ b = req[q].heir
    OBVIOUS
  <2> DEFINE W == WithoutLeaver(q)
  <2>1. /\ a \in Users /\ h \in Guilds /\ b \in Users /\ a # b /\ Ends(q) /\ UNCHANGED <<guilds, led>>
        /\ Departing(q) /\ seat' = HandedOn(q) /\ req[q].pc = "succeed"
        /\ req[q].kind = "leave" /\ req[q].rank = "GRANDMASTER"
    BY <2>0, <1>15 DEF Succeeds, Typed, TypeOK, RequestOK, Requests
  <2>2. /\ \A v \in Users \ {a} : W[v] = seat[v]
        /\ W[a] = IF req[q].holds /\ seat[a].guild = h THEN NoSeat ELSE seat[a]
        /\ W \in [Users -> Seats]
    BY <2>0, <1>13, <2>1
  <2>3. seat' = IF seat[b].guild = h THEN [W EXCEPT ![b].rank = "GRANDMASTER"] ELSE W
    BY <2>0, <2>1 DEF HandedOn
  <2>4. crowded \subseteq crowded'
    BY <2>0, <2>1 DEF Departing
  <2>5. h \notin crowded' => \A p \in Slots \ {q} : ~(Departs(p) /\ req[p].guild = h)
    BY <2>0, <2>1 DEF Departing, ChangesLeader, Succession
  <2>6. req'[q] = Idle /\ \A p \in Slots \ {q} : req'[p] = req[p]
    BY <2>0, <1>9, <2>1
  <2>7. h # None
    BY <2>0, <2>1, GuildsAssumption
  <2>8. Calm(h)' => Calm(h) /\ LedBy(h) /\ RightRank(q)
    BY <2>0, <2>1, <2>4 DEF Calm, Led, LedBy
  <2>9. RightRank(q) => seat[a] = Lead(h) /\ req[q].holds /\ seat[b].guild = h
    BY <2>0, <2>1, GuildsAssumption DEF RightRank
  <2> HIDE DEF W
  <2>10. /\ \A v \in Users \ {a, b} : seat'[v] = seat[v]
         /\ seat'[a] = W[a]
    BY <2>0, <2>1, <2>2, <2>3
  <2>11. seat'[b].guild = seat[b].guild
    <3>1. seat[b] = W[b] /\ W[b] \in Seats
      BY <2>0, <2>1, <2>2
    <3>2. seat'[b] \in {W[b], [W[b] EXCEPT !.rank = "GRANDMASTER"]}
      BY <2>0, <2>1, <2>2, <2>3
    <3> QED BY <2>0, <3>1, <3>2 DEF Seats, NoSeat
  <2>12. ASSUME Calm(h)' PROVE LedBy(h)'
    <3>1. LedBy(h) /\ seat[a] = Lead(h) /\ req[q].holds /\ seat[b].guild = h
      BY <2>0, <2>8, <2>9, <2>12
    <3>2. seat'[a] = NoSeat
      BY <2>0, <2>2, <2>10, <3>1 DEF Lead
    <3>3. seat'[b] = Lead(h)
      <4>1. seat[b] = W[b] /\ W[b] \in [guild : Guilds, rank : {"MEMBER", "GRANDMASTER"}]
        BY <2>0, <2>1, <2>2, <2>7, <3>1 DEF Seats, NoSeat
      <4>2. seat'[b] = [W[b] EXCEPT !.rank = "GRANDMASTER"]
        BY <2>0, <2>1, <2>2, <2>3, <3>1
      <4> QED BY <2>0, <3>1, <4>1, <4>2 DEF Lead
    <3>4. \A v \in Users : seat[v] = Lead(h) <=> v = a
      BY <2>0, <2>1, <3>1 DEF LedBy, OneLeader
    <3>5. \A v \in Users : seat'[v] = Lead(h) <=> v = b
      BY <2>0, <2>1, <2>7, <2>10, <3>2, <3>3, <3>4 DEF NoSeat, Lead
    <3>6. \A p \in Slots : req'[p].guild = h => req'[p].pc \notin {"leave", "succeed", "remove"}
      BY <2>0, <2>5, <2>6, <2>12 DEF Idle, Departs, Calm
    <3>7. \A p \in Slots : req'[p].guild = h => RightRank(p)'
      BY <2>0, <3>6 DEF RightRank
    <3>8. OneLeader(h)'
      BY <2>0, <2>1, <3>5 DEF OneLeader, Lead
    <3> QED BY <2>0, <3>7, <3>8 DEF LedBy
  <2>13. ASSUME NEW v \in Users
         PROVE  seat'[v] = seat[v] \/ (/\ seat[v].guild \in {h, None}
                                       /\ seat'[v].guild \in {h, None})
    <3>1. CASE v = a
      BY <2>0, <2>1, <2>2, <2>10, <3>1 DEF NoSeat
    <3>2. CASE v = b
      BY <2>0, <2>1, <2>2, <2>3, <2>11, <3>2
    <3>3. CASE v \notin {a, b}
      BY <2>0, <2>10, <3>3
    <3> QED BY <2>0, <3>1, <3>2, <3>3
  <2> QED BY <2>0, <2>1, <2>4, <2>12, <2>13, LedOfAnEnd
<1>16. CASE UNCHANGED vars
  <2> SUFFICES ASSUME NEW g \in Guilds, Calm(g) PROVE LedBy(g)'
    BY <1>16 DEF vars, Led, Calm
  <2>1. LedBy(g)
    BY DEF Led
  <2> QED BY <1>16, <2>1, LedKept DEF vars
<1> QED BY <1>2, <1>3, <1>4, <1>6, <1>7, <1>8, <1>10, <1>11, <1>12, <1>14, <1>15, <1>16 DEF Next

(* A guild whose departures never ran beside a change of Grand Master has   *)
(* exactly one, for any users, guilds and overlap of the other requests.    *)
THEOREM GuildsAreLed == Spec => []AlwaysLed
<1>1. Init => Typed /\ Roles /\ Led
  BY InitTyped, InitRoles, InitLed
<1>2. Typed /\ Roles /\ Led /\ [Next]_vars => (Typed /\ Roles /\ Led)'
  BY TypedStep, RolesStep, LedStep
<1>3. Typed /\ Led => AlwaysLed
  <2> SUFFICES ASSUME Typed, Led, NEW g \in guilds \cap led, g \notin crowded
               PROVE  \E u \in Users : GrandMasters(g) = {u}
    BY DEF AlwaysLed
  <2>1. OneLeader(g)
    BY DEF Led, LedBy, Calm, Typed, TypeOK
  <2> QED BY <2>1 DEF OneLeader, GrandMasters, Lead
<1> QED BY <1>1, <1>2, <1>3, PTL DEF Spec

----------------------------------------------------------------------------
(* Every admission in flight was counted when the guild still had room.     *)
Capped ==
    \A g \in Guilds :
        Cardinality(MembersOf(g)) + Cardinality(InFlight(g)) < MaxMembers + overlap[g]

LEMMA Counts ==
  ASSUME NEW g
  PROVE  /\ IsFiniteSet(MembersOf(g)) /\ Cardinality(MembersOf(g)) \in Nat
         /\ IsFiniteSet(InFlight(g)) /\ Cardinality(InFlight(g)) \in Nat
<1>1. MembersOf(g) \subseteq Users
  BY DEF MembersOf
<1> QED BY <1>1, InFlightFinite, FS_Subset, FS_CardinalityType, GuildsAssumption

LEMMA InitCapped == Init => Capped
<1> SUFFICES ASSUME Init, NEW h \in Guilds
             PROVE  Cardinality(MembersOf(h)) + Cardinality(InFlight(h)) < MaxMembers + overlap[h]
  BY DEF Capped
<1>0. PICK g \in Guilds, founder \in Users :
          \E members \in SUBSET (Users \ {founder}) :
              /\ guilds = {g} /\ used = {g} /\ led = {g}
              /\ Cardinality(members) < MaxMembers
              /\ seat = [u \in Users |->
                             IF u = founder THEN [guild |-> g, rank |-> "GRANDMASTER"]
                             ELSE IF u \in members THEN [guild |-> g, rank |-> "MEMBER"]
                             ELSE NoSeat]
  BY Zenon DEF Init
<1>1. PICK members \in SUBSET (Users \ {founder}) :
          /\ Cardinality(members) < MaxMembers
          /\ seat = [u \in Users |->
                         IF u = founder THEN [guild |-> g, rank |-> "GRANDMASTER"]
                         ELSE IF u \in members THEN [guild |-> g, rank |-> "MEMBER"]
                         ELSE NoSeat]
  BY <1>0, Zenon
<1>2. IsFiniteSet(members) /\ Cardinality(members) \in Nat
  BY FS_Subset, FS_CardinalityType, GuildsAssumption
<1>3. MembersOf(h) \subseteq members \cup {founder}
  BY <1>1, GuildsAssumption DEF MembersOf, NoSeat
<1>4. /\ IsFiniteSet(members \cup {founder})
      /\ Cardinality(members \cup {founder}) <= Cardinality(members) + 1
  BY <1>2, FS_AddElement
<1>5. Cardinality(MembersOf(h)) <= Cardinality(members \cup {founder})
  BY <1>3, <1>4, FS_Subset
<1>6. InFlight(h) = {}
  BY DEF Init, InFlight, Idle
<1>7. Cardinality(InFlight(h)) = 0
  BY <1>6, FS_EmptySet
<1>8. overlap[h] = 1
  BY DEF Init
<1>9. Cardinality(MembersOf(h)) \in Nat /\ Cardinality(members \cup {founder}) \in Nat /\ MaxMembers \in Nat
  BY <1>4, Counts, FS_CardinalityType, GuildsAssumption
<1> QED BY <1>1, <1>2, <1>4, <1>5, <1>7, <1>8, <1>9

(* Neither members nor admissions are added.                                *)
LEMMA CappedKept ==
  ASSUME Typed, Capped, UNCHANGED overlap,
         \A u \in Users : seat'[u].guild \in {None, seat[u].guild},
         \A p \in Slots : req'[p].pc = "seat" => req[p].pc = "seat" /\ req'[p].guild = req[p].guild
  PROVE  Capped'
<1> SUFFICES ASSUME NEW g \in Guilds
             PROVE  Cardinality(MembersOf(g)') + Cardinality(InFlight(g)') < MaxMembers + overlap[g]
  BY DEF Capped
<1>1. MembersOf(g)' \subseteq MembersOf(g)
  BY GuildsAssumption DEF MembersOf
<1>2. InFlight(g)' \subseteq InFlight(g)
  BY DEF InFlight
<1> DEFINE m == Cardinality(MembersOf(g))
          f == Cardinality(InFlight(g))
          n == Cardinality(MembersOf(g)')
          k == Cardinality(InFlight(g)')
<1>3. m \in Nat /\ f \in Nat /\ n <= m /\ k <= f /\ n \in Nat /\ k \in Nat
  BY <1>1, <1>2, Counts, FS_Subset, FS_CardinalityType
<1>4. m + f < MaxMembers + overlap[g] /\ overlap[g] \in Nat /\ MaxMembers \in Nat
  BY GuildsAssumption DEF Capped, Typed, TypeOK
<1> HIDE DEF m, f, n, k
<1>5. n + k < MaxMembers + overlap[g]
  BY <1>3, <1>4
<1> QED BY <1>5 DEF n, k

(* A decision taken while there is room.                                    *)
LEMMA CappedAdmitting ==
  ASSUME Typed, Capped, NEW q \in Slots, NEW h \in Guilds,
         h = req[q].guild, Cardinality(MembersOf(h)) < MaxMembers,
         Admitting(h), req' = [req EXCEPT ![q].pc = "seat"], req[q].pc # "seat", UNCHANGED seat
  PROVE  Capped'
<1>1. /\ req'[q].pc = "seat" /\ req'[q].guild = h
      /\ \A p \in Slots \ {q} : req'[p] = req[p]
  BY DEF Typed, TypeOK, Requests
<1> SUFFICES ASSUME NEW g \in Guilds
             PROVE  Cardinality(MembersOf(g)') + Cardinality(InFlight(g)') < MaxMembers + overlap'[g]
  BY DEF Capped
<1>2. MembersOf(g)' = MembersOf(g)
  BY DEF MembersOf
<1>3. Cardinality(MembersOf(g)) + Cardinality(InFlight(g)) < MaxMembers + overlap[g]
  BY DEF Capped
<1>4. CASE g # h
  <2>1. InFlight(g)' = InFlight(g)
    BY <1>1, <1>4 DEF InFlight
  <2>2. overlap'[g] = overlap[g]
    BY <1>4 DEF Admitting, Typed, TypeOK
  <2> QED BY <1>2, <1>3, <2>1, <2>2
<1>5. CASE g = h
  <2>1. InFlight(g)' = InFlight(g) \cup {q} /\ q \notin InFlight(g)
    BY <1>1, <1>5 DEF InFlight
  <2> DEFINE f == Cardinality(InFlight(g))
             m == Cardinality(MembersOf(g))
  <2>2. Cardinality(InFlight(g)') = f + 1 /\ f \in Nat /\ m \in Nat
    BY <2>1, Counts, FS_AddElement
  <2>3. overlap'[g] = IF f + 1 > overlap[g] THEN f + 1 ELSE overlap[g]
    BY <1>5 DEF Admitting, Typed, TypeOK
  <2>4. m < MaxMembers /\ overlap[g] \in Nat /\ MaxMembers \in Nat
    BY <1>5, GuildsAssumption DEF Typed, TypeOK
  <2> HIDE DEF f, m
  <2>5. m + (f + 1) < MaxMembers + overlap'[g]
    BY <2>2, <2>3, <2>4
  <2> QED BY <1>2, <2>2, <2>5 DEF m
<1> QED BY <1>4, <1>5

LEMMA CappedStep == Typed /\ Roles /\ Capped /\ [Next]_vars => Capped'
<1> SUFFICES ASSUME Typed, Roles, Capped, [Next]_vars PROVE Capped'
  OBVIOUS
<1>t. TypeOK
  BY DEF Typed
<1>1. ASSUME NEW q \in Slots, NEW r, Begins(q, r), r.pc # "seat", UNCHANGED <<seat, overlap>>
      PROVE  Capped'
  <2>1. req'[q] = r /\ \A p \in Slots \ {q} : req'[p] = req[p]
    BY <1>1 DEF Begins, Typed, TypeOK
  <2> QED BY <1>1, <2>1, CappedKept
<1>2. ASSUME NEW q \in Slots, NEW u \in Users,
             \/ \E g \in Guilds : Create(q, u, g)
             \/ \E g \in Guilds, k \in Kinds : Ask(q, u, g, k)
             \/ \E t \in Users, k \in Kinds : Decide(q, u, t, k)
             \/ \E t \in Users, k \in Kinds : Remove(q, u, t, k)
             \/ Leave(q, u)
      PROVE  Capped'
  <2>1. ASSUME NEW g, Create(q, u, g) PROVE Capped'
    <3> DEFINE r == [Idle EXCEPT !.pc = "found", !.kind = "create", !.user = u, !.guild = g,
                                 !.about = u, !.rank = "GRANDMASTER"]
    <3>1. Begins(q, r) /\ UNCHANGED <<seat, overlap>>
      BY <2>1 DEF Create
    <3>2. r.pc = "found"
      BY DEF Idle
    <3> HIDE DEF r
    <3> QED BY <1>1, <3>1, <3>2
  <2>2. ASSUME NEW g, NEW k, Ask(q, u, g, k) PROVE Capped'
    <3> DEFINE r == [Idle EXCEPT !.pc = "asked", !.kind = k, !.user = u, !.guild = g,
                                 !.about = u, !.rank = "MEMBER"]
    <3>1. Begins(q, r) /\ UNCHANGED <<seat, overlap>>
      BY <2>2 DEF Ask
    <3>2. r.pc = "asked"
      BY DEF Idle
    <3> HIDE DEF r
    <3> QED BY <1>1, <3>1, <3>2
  <2>3. ASSUME NEW t, NEW k, Decide(q, u, t, k) PROVE Capped'
    <3> DEFINE r == [Idle EXCEPT !.pc = "asked", !.kind = k, !.user = u, !.guild = seat[u].guild,
                                 !.about = t, !.rank = "MEMBER"]
    <3>1. Begins(q, r) /\ UNCHANGED <<seat, overlap>>
      BY <2>3 DEF Decide
    <3>2. r.pc = "asked"
      BY DEF Idle
    <3> HIDE DEF r
    <3> QED BY <1>1, <3>1, <3>2
  <2>4. ASSUME NEW t, NEW k, Remove(q, u, t, k) PROVE Capped'
    <3> DEFINE r == [Idle EXCEPT !.pc = "asked", !.kind = k, !.user = u, !.guild = seat[u].guild,
                                 !.about = t]
    <3>1. Begins(q, r) /\ UNCHANGED <<seat, overlap>>
      BY <2>4 DEF Remove
    <3>2. r.pc = "asked"
      BY DEF Idle
    <3> HIDE DEF r
    <3> QED BY <1>1, <3>1, <3>2
  <2>5. CASE Leave(q, u)
    <3> DEFINE r == [Idle EXCEPT !.pc = "leave", !.kind = "leave", !.user = u,
                                 !.guild = seat[u].guild, !.about = u, !.rank = seat[u].rank]
    <3>1. Begins(q, r) /\ UNCHANGED <<seat, overlap>>
      BY <2>5 DEF Leave
    <3>2. r.pc = "leave"
      BY DEF Idle
    <3> HIDE DEF r
    <3> QED BY <1>1, <3>1, <3>2
  <2> QED BY <1>2, <2>1, <2>2, <2>3, <2>4, <2>5
<1>3. ASSUME NEW q \in Slots, CreateFounds(q) PROVE Capped'
  <2>0. PICK h : h = req[q].guild
    OBVIOUS
  <2>1. /\ h \in Guilds /\ req[q].pc = "found" /\ Admitting(h) /\ UNCHANGED seat
        /\ req' = [req EXCEPT ![q].pc = "seat"] /\ FoundIsUnseen(q)
    BY <1>3, <2>0 DEF CreateFounds, Typed, RequestOK, Roles, IdsOnce
  <2>2. MembersOf(h) = {}
    BY <2>0, <2>1 DEF MembersOf, FoundIsUnseen
  <2>3. Cardinality(MembersOf(h)) < MaxMembers
    BY <2>2, FS_EmptySet, GuildsAssumption
  <2> QED BY <2>0, <2>1, <2>3, CappedAdmitting
<1>4. ASSUME NEW q \in Slots, JoinAdmits(q) \/ ApproveAdmits(q) PROVE Capped'
  <2>0. PICK h : h = req[q].guild
    OBVIOUS
  <2>1. /\ h \in Guilds /\ req[q].pc = "asked" /\ Admitting(h) /\ UNCHANGED seat
        /\ req' = [req EXCEPT ![q].pc = "seat"] /\ Cardinality(MembersOf(h)) < MaxMembers
    BY <1>4, <2>0 DEF JoinAdmits, ApproveAdmits, HasRoom, Typed, RequestOK
  <2> QED BY <2>0, <2>1, CappedAdmitting
<1>5. ASSUME NEW q \in Slots, NEW pc \in {"file", "strike", "remove"},
             req' = [req EXCEPT ![q].pc = pc], UNCHANGED <<seat, overlap>>
      PROVE  Capped'
  <2>1. req'[q].pc = pc /\ \A p \in Slots \ {q} : req'[p] = req[p]
    BY <1>5 DEF Typed, TypeOK, Requests
  <2> QED BY <1>5, <2>1, CappedKept
<1>6. ASSUME NEW q \in Slots, ApplyAdmits(q) \/ DenyFinds(q) \/ RemoveFinds(q) PROVE Capped'
  BY <1>5, <1>6 DEF ApplyAdmits, DenyFinds, RemoveFinds
<1>7. ASSUME NEW q \in Slots, SuccessionReads(q) PROVE Capped'
  <2>1. /\ req'[q].pc = "succeed" /\ \A p \in Slots \ {q} : req'[p] = req[p]
        /\ UNCHANGED <<seat, overlap>>
    BY <1>7 DEF SuccessionReads, Typed, TypeOK, Requests
  <2> QED BY <2>1, CappedKept
<1>8. ASSUME NEW q \in Slots, Ends(q)
      PROVE  req'[q] = Idle /\ \A p \in Slots \ {q} : req'[p] = req[p]
  BY <1>8 DEF Ends, Typed, TypeOK
<1>9. ASSUME NEW q \in Slots, Seated(q) PROVE Capped'
  <2>0. PICK u, h : u = req[q].about /\ h = req[q].guild
    OBVIOUS
  <2>1. u \in Users /\ h \in Guilds /\ req[q].pc = "seat" /\ UNCHANGED overlap
    BY <1>9, <2>0 DEF Seated, Typed, RequestOK
  <2>2. req'[q] = Idle /\ \A p \in Slots \ {q} : req'[p] = req[p]
    BY <1>8, <1>9 DEF Seated
  <2>3. /\ seat[u].guild = None /\ seat'[u].guild = h
        /\ \A v \in Users \ {u} : seat'[v] = seat[v]
    BY <1>9, <2>0, <2>1 DEF Seated, Typed, TypeOK, NoSeat
  <2> SUFFICES ASSUME NEW g \in Guilds
               PROVE  Cardinality(MembersOf(g)') + Cardinality(InFlight(g)') < MaxMembers + overlap'[g]
    BY DEF Capped
  <2>4. Cardinality(MembersOf(g)) + Cardinality(InFlight(g)) < MaxMembers + overlap[g]
    BY DEF Capped
  <2>5. CASE g # h
    <3>1. MembersOf(g)' = MembersOf(g)
      BY <2>3, <2>5, GuildsAssumption DEF MembersOf
    <3>2. InFlight(g)' = InFlight(g)
      BY <2>0, <2>2, <2>5 DEF InFlight, Idle
    <3> QED BY <2>1, <2>4, <3>1, <3>2
  <2>6. CASE g = h
    <3>1. MembersOf(g)' = MembersOf(g) \cup {u} /\ u \notin MembersOf(g)
      BY <2>1, <2>3, <2>6, GuildsAssumption DEF MembersOf
    <3>2. InFlight(g)' = InFlight(g) \ {q} /\ q \in InFlight(g)
      BY <2>0, <2>1, <2>2, <2>6 DEF InFlight, Idle
    <3>3. Cardinality(MembersOf(g)') = Cardinality(MembersOf(g)) + 1
      BY <3>1, Counts, FS_AddElement
    <3>4. Cardinality(InFlight(g)') = Cardinality(InFlight(g)) - 1
      BY <3>2, Counts, FS_RemoveElement
    <3> QED BY <2>1, <2>4, <3>3, <3>4, Counts
  <2> QED BY <2>5, <2>6
<1>10. ASSUME NEW q \in Slots, Ends(q), UNCHANGED overlap,
              \A u \in Users : seat'[u].guild \in {None, seat[u].guild}
       PROVE  Capped'
  BY <1>8, <1>10, CappedKept DEF Idle
<1>11. ASSUME NEW q \in Slots, ApplyFiles(q) \/ DenyStrikes(q) \/ Refused(q) PROVE Capped'
  BY <1>10, <1>11 DEF ApplyFiles, DenyStrikes, Refused
<1>12. ASSUME NEW v \in Users, NEW g
       PROVE  \A u \in Users : Unseated(v, g)[u].guild \in {None, seat[u].guild}
  BY <1>t DEF Unseated, TypeOK, NoSeat
<1>13. ASSUME NEW q \in Slots, Removes(q) \/ MemberLeaves(q) \/ TornDown(q) PROVE Capped'
  <2>1. /\ Ends(q) /\ UNCHANGED overlap /\ req[q].about \in Users
        /\ seat' \in {seat, Unseated(req[q].about, req[q].guild)}
    BY <1>13 DEF Removes, MemberLeaves, TornDown, WithoutLeaver, Typed, RequestOK
  <2>2. \A u \in Users : seat'[u].guild \in {None, seat[u].guild}
    BY <2>1, <1>12
  <2> QED BY <2>1, <2>2, <1>10
<1>14. ASSUME NEW q \in Slots, Succeeds(q) PROVE Capped'
  <2>1. /\ Ends(q) /\ UNCHANGED overlap /\ req[q].about \in Users /\ req[q].heir \in Users
        /\ seat' = HandedOn(q)
    BY <1>14 DEF Succeeds, Typed, TypeOK, RequestOK, Requests
  <2>2. WithoutLeaver(q) \in [Users -> Seats]
    BY <1>t, <2>1, UnseatedType DEF WithoutLeaver, TypeOK
  <2>3. \A u \in Users : WithoutLeaver(q)[u].guild \in {None, seat[u].guild}
    BY <2>1, <1>12 DEF WithoutLeaver
  <2>4. \A u \in Users : seat'[u].guild = WithoutLeaver(q)[u].guild
    <3> SUFFICES ASSUME NEW u \in Users PROVE HandedOn(q)[u].guild = WithoutLeaver(q)[u].guild
      BY <2>1
    <3>1. WithoutLeaver(q)[u] \in Seats
      BY <2>2
    <3>2. HandedOn(q)[u] \in {WithoutLeaver(q)[u], [WithoutLeaver(q)[u] EXCEPT !.rank = "GRANDMASTER"]}
      BY <2>2 DEF HandedOn
    <3> QED BY <3>1, <3>2 DEF Seats, NoSeat
  <2> QED BY <2>1, <2>3, <2>4, <1>10
<1>15. CASE UNCHANGED vars
  BY <1>15, CappedKept DEF vars
<1> QED BY <1>2, <1>3, <1>4, <1>6, <1>7, <1>9, <1>11, <1>13, <1>14, <1>15 DEF Next

(* For any cap and any overlap, a guild has at most one member beyond the   *)
(* cap for each admission in flight together besides the first.             *)
THEOREM CapHolds == Spec => []CapExceededOnlyByOverlap
<1>1. Init => Typed /\ Roles /\ Capped
  BY InitTyped, InitRoles, InitCapped
<1>2. Typed /\ Roles /\ Capped /\ [Next]_vars => (Typed /\ Roles /\ Capped)'
  BY TypedStep, RolesStep, CappedStep
<1>3. Typed /\ Capped => CapExceededOnlyByOverlap
  <2> SUFFICES ASSUME Typed, Capped, NEW g \in Guilds
               PROVE  Cardinality(MembersOf(g)) < MaxMembers + overlap[g]
    BY DEF CapExceededOnlyByOverlap
  <2>1. Cardinality(MembersOf(g)) + Cardinality(InFlight(g)) < MaxMembers + overlap[g]
    BY DEF Capped
  <2>2. overlap[g] \in Nat /\ MaxMembers \in Nat
    BY GuildsAssumption DEF Typed, TypeOK
  <2> QED BY <2>1, <2>2, Counts
<1> QED BY <1>1, <1>2, <1>3, PTL DEF Spec

=============================================================================
