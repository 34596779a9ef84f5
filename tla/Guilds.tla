------------------------------- MODULE Guilds -------------------------------
(***************************************************************************)
(* Guild membership (guild.rs, guild_policy.rs) under overlapping requests. *)
(* Every handler reads memberships, ranks and counts in statements of their *)
(* own, decides, and only then writes; the reads take no lock.  What the    *)
(* database itself keeps is one row per user in guild_members and in        *)
(* guild_applications (unique indexes), and nothing between the tables.     *)
(*                                                                         *)
(* A guild's type is not kept: the Grand Master may edit it at any moment,  *)
(* so that any guild may be joined or applied to.  Ranks nobody is given    *)
(* (MASTER, ELDER), levels, chat and exchanges are left out.                *)
(***************************************************************************)
EXTENDS Integers, FiniteSets

CONSTANTS
    Users,
    Guilds,           \* the ids a guild may be given
    None,
    Slots,            \* bound: requests in progress
    MaxMembers,       \* MAX_MEMBERS
    MaxApplications,  \* MAX_APPLICATIONS
    MaxRequests       \* bound: requests altogether

ASSUME GuildsAssumption ==
    /\ None \notin Users \cup Guilds
    /\ IsFiniteSet(Users) /\ IsFiniteSet(Slots)
    /\ MaxMembers \in Nat \ {0} /\ MaxApplications \in Nat /\ MaxRequests \in Nat

VARIABLES
    guilds,      \* the guilds there are
    used,        \* ids given so far
    seat,        \* guild_members: each user's guild and rank
    applied,     \* guild_applications: the guild each user applied to
    removal,     \* guild_removals
    req,         \* the requests in progress
    requests,
    led,         \* history: guilds whose founder was seated
    crowded,     \* history: guilds with a departure decided beside a change of Grand Master
    overlap,     \* history: most admissions of each guild in flight together
    outlaws,     \* history: users each guild has banned and not approved since
    missed       \* history: bans written beside an admission or a kick decided before

vars == <<guilds, used, seat, applied, removal, req, requests, led, crowded, overlap, outlaws,
          missed>>

Ranks == {"NONE", "MEMBER", "GRANDMASTER"}
NoSeat == [guild |-> None, rank |-> "NONE"]
Seats == [guild : Guilds, rank : {"MEMBER", "GRANDMASTER"}] \cup {NoSeat}
Removals == {"none", "kicked", "banned"}

Kinds == {"none", "create", "join", "apply", "approve", "deny", "leave", "kick", "ban"}
Steps == {"idle", "found", "asked", "seat", "file", "strike", "leave", "succeed", "remove"}

\* actor user, guild, the user it is about, the rank and the heir it read,
\* and whether it holds the row it deletes.
Requests == [pc : Steps, kind : Kinds, user : Users \cup {None}, guild : Guilds \cup {None},
             about : Users \cup {None}, rank : Ranks, heir : Users \cup {None}, holds : BOOLEAN]
Idle == [pc |-> "idle", kind |-> "none", user |-> None, guild |-> None, about |-> None,
         rank |-> "NONE", heir |-> None, holds |-> FALSE]

MembersOf(g) == {u \in Users : seat[u].guild = g}
GrandMasters(g) == {u \in Users : seat[u] = [guild |-> g, rank |-> "GRANDMASTER"]}
Applicants(g) == {u \in Users : applied[u] = g}

(* The admissions of a guild that were decided and are still to be written. *)
InFlight(g) == {q \in Slots : req[q].pc = "seat" /\ req[q].guild = g}

(* A guild with its founder and some members, as creation and joins leave   *)
(* it.                                                                      *)
Init ==
    /\ \E g \in Guilds, founder \in Users : \E members \in SUBSET (Users \ {founder}) :
           /\ guilds = {g} /\ used = {g} /\ led = {g}
           /\ Cardinality(members) < MaxMembers
           /\ seat = [u \in Users |->
                         IF u = founder THEN [guild |-> g, rank |-> "GRANDMASTER"]
                         ELSE IF u \in members THEN [guild |-> g, rank |-> "MEMBER"]
                         ELSE NoSeat]
    /\ applied = [u \in Users |-> None]
    /\ removal = [g \in Guilds |-> [u \in Users |-> "none"]]
    /\ req = [q \in Slots |-> Idle]
    /\ requests = 0
    /\ crowded = {}
    /\ overlap = [g \in Guilds |-> 1]
    /\ outlaws = [g \in Guilds |-> {}]
    /\ missed = {}

----------------------------------------------------------------------------
(* One request's steps.                                                     *)
Begins(q, r) ==
    /\ req[q].pc = "idle"
    /\ requests < MaxRequests
    /\ requests' = requests + 1
    /\ req' = [req EXCEPT ![q] = r]

Ends(q) == req' = [req EXCEPT ![q] = Idle]

(* The row of a user whose departure has deleted it and not committed.      *)
Held(u) == \E q \in Slots : req[q].pc = "succeed" /\ req[q].holds /\ req[q].user = u

(* One more admission to g is in flight from here on.                       *)
Admitting(g) ==
    overlap' = [overlap EXCEPT ![g] =
                   IF Cardinality(InFlight(g)) + 1 > @ THEN Cardinality(InFlight(g)) + 1 ELSE @]

(* A request that removes somebody and has read their rank.                 *)
Departs(q) == req[q].pc \in {"leave", "succeed", "remove"}
Succession(q) == req[q].kind = "leave" /\ req[q].rank = "GRANDMASTER"
ChangesLeader(q) == Succession(q) \/ req[q].kind = "create"

\* q is written while a departure is decided, and one of them changes the Grand Master.
Departing(q) ==
    crowded' = IF \E p \in Slots \ {q} : /\ Departs(p)
                                         /\ req[p].guild = req[q].guild
                                         /\ ChangesLeader(p) \/ ChangesLeader(q)
               THEN crowded \cup {req[q].guild} ELSE crowded

(* The guild's type refuses, the user is in a guild or has applied, the     *)
(* rank is too low, a cap is reached: the request ends with an error.  So   *)
(* it does when its connection or a statement fails, and what was not       *)
(* committed is undone.                                                     *)
Refused(q) ==
    /\ req[q].pc # "idle"
    /\ Ends(q)
    /\ UNCHANGED <<guilds, used, seat, applied, removal, requests, led, crowded, overlap, outlaws, missed>>

----------------------------------------------------------------------------
(* create_guild: the guild and its founder are inserted in two statements,  *)
(* each committed by itself.                                                *)
Create(q, u, g) ==
    /\ seat[u] = NoSeat
    /\ g \notin used
    /\ Begins(q, [Idle EXCEPT !.pc = "found", !.kind = "create", !.user = u, !.guild = g,
                              !.about = u, !.rank = "GRANDMASTER"])
    /\ used' = used \cup {g}
    /\ UNCHANGED <<guilds, seat, applied, removal, led, crowded, overlap, outlaws, missed>>

CreateFounds(q) ==
    /\ req[q].pc = "found"
    /\ guilds' = guilds \cup {req[q].guild}
    /\ Admitting(req[q].guild)
    /\ req' = [req EXCEPT ![q].pc = "seat"]
    /\ UNCHANGED <<used, seat, applied, removal, requests, led, crowded, outlaws, missed>>

(* build_join_context reads the guild, the membership and the application   *)
(* before the counts.                                                       *)
Ask(q, u, g, kind) ==
    /\ kind \in {"join", "apply"}
    /\ g \in guilds
    /\ seat[u] = NoSeat
    /\ applied[u] = None
    /\ Begins(q, [Idle EXCEPT !.pc = "asked", !.kind = kind, !.user = u, !.guild = g,
                              !.about = u, !.rank = "MEMBER"])
    /\ UNCHANGED <<guilds, used, seat, applied, removal, led, crowded, overlap, outlaws, missed>>

(* approve_application and deny_application read the actor's membership     *)
(* first.                                                                   *)
Decide(q, u, t, kind) ==
    /\ kind \in {"approve", "deny"}
    /\ seat[u].rank = "GRANDMASTER"
    /\ Begins(q, [Idle EXCEPT !.pc = "asked", !.kind = kind, !.user = u, !.guild = seat[u].guild,
                              !.about = t, !.rank = "MEMBER"])
    /\ UNCHANGED <<guilds, used, seat, applied, removal, led, crowded, overlap, outlaws, missed>>

\* Mutant: the cap is tested with one seat too many.
HasRoomAtTheCap(g) == Cardinality(MembersOf(g)) <= MaxMembers

HasRoom(g) == Cardinality(MembersOf(g)) < MaxMembers

\* Mutant: a ban lapses like a kick.
BarredForAWeek(g, u) == FALSE

(* A kick lapses after seven days, a ban never.                             *)
Barred(g, u) == removal[g][u] = "banned"

(* evaluate_join; evaluate_approval and the application.                    *)
JoinAdmits(q) ==
    /\ req[q].pc = "asked" /\ req[q].kind = "join"
    /\ HasRoom(req[q].guild)
    /\ ~Barred(req[q].guild, req[q].about)
    /\ Admitting(req[q].guild)
    /\ req' = [req EXCEPT ![q].pc = "seat"]
    /\ UNCHANGED <<guilds, used, seat, applied, removal, requests, led, crowded, outlaws, missed>>

ApproveAdmits(q) ==
    /\ req[q].pc = "asked" /\ req[q].kind = "approve"
    /\ HasRoom(req[q].guild)
    /\ applied[req[q].about] = req[q].guild
    /\ Admitting(req[q].guild)
    /\ req' = [req EXCEPT ![q].pc = "seat"]
    /\ UNCHANGED <<guilds, used, seat, applied, removal, requests, led, crowded, outlaws, missed>>

ApplyAdmits(q) ==
    /\ req[q].pc = "asked" /\ req[q].kind = "apply"
    /\ Cardinality(Applicants(req[q].guild)) < MaxApplications
    /\ ~Barred(req[q].guild, req[q].about)
    /\ req' = [req EXCEPT ![q].pc = "file"]
    /\ UNCHANGED <<guilds, used, seat, applied, removal, requests, led, crowded, overlap, outlaws, missed>>

DenyFinds(q) ==
    /\ req[q].pc = "asked" /\ req[q].kind = "deny"
    /\ applied[req[q].about] = req[q].guild
    /\ req' = [req EXCEPT ![q].pc = "strike"]
    /\ UNCHANGED <<guilds, used, seat, applied, removal, requests, led, crowded, overlap, outlaws, missed>>

(* The member is inserted if the user has no row yet; an approval clears    *)
(* the application and any earlier removal in the same transaction.         *)
Seated(q) ==
    LET u == req[q].about   g == req[q].guild IN
    /\ req[q].pc = "seat"
    /\ ~Held(u)
    /\ seat[u] = NoSeat
    /\ seat' = [seat EXCEPT ![u] = [guild |-> g, rank |-> req[q].rank]]
    /\ led' = IF req[q].kind = "create" THEN led \cup {g} ELSE led
    /\ applied' = IF req[q].kind = "approve" /\ applied[u] = g
                  THEN [applied EXCEPT ![u] = None] ELSE applied
    /\ IF req[q].kind = "approve"
       THEN /\ removal' = [removal EXCEPT ![g][u] = "none"]
            /\ outlaws' = [outlaws EXCEPT ![g] = outlaws[g] \ {u}]
       ELSE UNCHANGED <<removal, outlaws>>
    /\ IF req[q].kind = "create" THEN Departing(q) ELSE UNCHANGED crowded
    /\ Ends(q)
    /\ UNCHANGED <<guilds, used, requests, overlap, missed>>

ApplyFiles(q) ==
    /\ req[q].pc = "file"
    /\ applied[req[q].about] = None
    /\ applied' = [applied EXCEPT ![req[q].about] = req[q].guild]
    /\ Ends(q)
    /\ UNCHANGED <<guilds, used, seat, removal, requests, led, crowded, overlap, outlaws, missed>>

DenyStrikes(q) ==
    /\ req[q].pc = "strike"
    /\ applied' = IF applied[req[q].about] = req[q].guild
                  THEN [applied EXCEPT ![req[q].about] = None] ELSE applied
    /\ Ends(q)
    /\ UNCHANGED <<guilds, used, seat, removal, requests, led, crowded, overlap, outlaws, missed>>

----------------------------------------------------------------------------
(* leave_guild: the membership and rank are read before the transaction.    *)
Leave(q, u) ==
    /\ seat[u] # NoSeat
    /\ Begins(q, [Idle EXCEPT !.pc = "leave", !.kind = "leave", !.user = u,
                              !.guild = seat[u].guild, !.about = u, !.rank = seat[u].rank])
    /\ UNCHANGED <<guilds, used, seat, applied, removal, led, crowded, overlap, outlaws, missed>>

(* remove_other_member: the actor's membership, then the target's.          *)
Remove(q, u, t, kind) ==
    /\ kind \in {"kick", "ban"}
    /\ seat[u].rank = "GRANDMASTER"
    /\ Begins(q, [Idle EXCEPT !.pc = "asked", !.kind = kind, !.user = u,
                              !.guild = seat[u].guild, !.about = t])
    /\ UNCHANGED <<guilds, used, seat, applied, removal, led, crowded, overlap, outlaws, missed>>

(* can_kick and can_ban: a Grand Master outranks everybody but another.     *)
Outranked(t) == seat[t].rank # "GRANDMASTER"

RemoveFinds(q) ==
    /\ req[q].pc = "asked" /\ req[q].kind \in {"kick", "ban"}
    /\ seat[req[q].about].guild = req[q].guild
    /\ Outranked(req[q].about)
    /\ req' = [req EXCEPT ![q].pc = "remove"]
    /\ UNCHANGED <<guilds, used, seat, applied, removal, requests, led, crowded, overlap, outlaws, missed>>

Unseated(u, g) == IF seat[u].guild = g THEN [seat EXCEPT ![u] = NoSeat] ELSE seat

(* Another request that has decided to admit or to kick u, and has yet to   *)
(* write it.                                                                *)
Racing(q, g, u) ==
    \E p \in Slots \ {q} : /\ req[p].guild = g /\ req[p].about = u
                           /\ \/ req[p].pc = "seat"
                              \/ req[p].pc = "remove" /\ req[p].kind = "kick"

(* A ban is written.                                                        *)
Outlawed(q, g, u) ==
    /\ outlaws' = [outlaws EXCEPT ![g] = outlaws[g] \cup {u}]
    /\ missed' = IF Racing(q, g, u) THEN missed \cup {<<g, u>>} ELSE missed \ {<<g, u>>}

(* The member is deleted by guild and user, whatever their rank is by now,  *)
(* and the removal is recorded over any earlier one.                        *)
Removes(q) ==
    LET u == req[q].about   g == req[q].guild IN
    /\ req[q].pc = "remove"
    /\ ~Held(u)
    /\ seat' = Unseated(u, g)
    /\ removal' = [removal EXCEPT ![g][u] = IF req[q].kind = "ban" THEN "banned" ELSE "kicked"]
    /\ IF req[q].kind = "ban" THEN Outlawed(q, g, u) ELSE UNCHANGED <<outlaws, missed>>
    /\ Departing(q)
    /\ Ends(q)
    /\ UNCHANGED <<guilds, used, applied, requests, led, overlap>>

MemberLeaves(q) ==
    /\ req[q].pc = "leave" /\ ~Succession(q)
    /\ ~Held(req[q].about)
    /\ seat' = Unseated(req[q].about, req[q].guild)
    /\ Departing(q)
    /\ Ends(q)
    /\ UNCHANGED <<guilds, used, applied, removal, requests, led, overlap, outlaws, missed>>

\* Mutant: those who remain are read before the row is deleted.
RemainingWithLeaver(q) == MembersOf(req[q].guild)

(* remove_member_and_succeed for a Grand Master: the row is deleted, those  *)
(* who remain are read, and the most senior is to inherit: a Grand Master   *)
(* before members, of whom the longest-serving (join dates are not kept).   *)
Remaining(q) == MembersOf(req[q].guild) \ {req[q].about}

Heirs(q) ==
    IF Remaining(q) = {} THEN {None}
    ELSE IF Remaining(q) \cap GrandMasters(req[q].guild) # {}
         THEN Remaining(q) \cap GrandMasters(req[q].guild)
    ELSE Remaining(q)

SuccessionReads(q) ==
    /\ req[q].pc = "leave" /\ Succession(q)
    /\ ~Held(req[q].about)
    /\ \E heir \in Heirs(q) :
           req' = [req EXCEPT ![q].pc = "succeed", ![q].heir = heir,
                              ![q].holds = seat[req[q].about].guild = req[q].guild]
    /\ UNCHANGED <<guilds, used, seat, applied, removal, requests, led, crowded, overlap, outlaws, missed>>

WithoutLeaver(q) == IF req[q].holds THEN Unseated(req[q].about, req[q].guild) ELSE seat

(* The heir's row is updated, if it is still there.                         *)
HandedOn(q) ==
    IF seat[req[q].heir].guild = req[q].guild
    THEN [WithoutLeaver(q) EXCEPT ![req[q].heir].rank = "GRANDMASTER"]
    ELSE WithoutLeaver(q)

Succeeds(q) ==
    /\ req[q].pc = "succeed"
    /\ req[q].heir # None
    /\ ~\E p \in Slots \ {q} : req[p].pc = "succeed" /\ req[p].holds /\ req[p].user = req[q].heir
    /\ seat' = HandedOn(q)
    /\ Departing(q)
    /\ Ends(q)
    /\ UNCHANGED <<guilds, used, applied, removal, requests, led, overlap, outlaws, missed>>

(* Nobody remained: the guild and its applications are deleted.             *)
TornDown(q) ==
    LET g == req[q].guild IN
    /\ req[q].pc = "succeed"
    /\ req[q].heir = None
    /\ seat' = WithoutLeaver(q)
    /\ guilds' = guilds \ {g}
    /\ applied' = [u \in Users |-> IF applied[u] = g THEN None ELSE applied[u]]
    /\ Departing(q)
    /\ Ends(q)
    /\ UNCHANGED <<used, removal, requests, led, overlap, outlaws, missed>>

----------------------------------------------------------------------------
Next ==
    \E q \in Slots :
        \/ \E u \in Users : \/ \E g \in Guilds : Create(q, u, g)
                            \/ \E g \in Guilds, k \in Kinds : Ask(q, u, g, k)
                            \/ \E t \in Users, k \in Kinds : Decide(q, u, t, k)
                            \/ \E t \in Users, k \in Kinds : Remove(q, u, t, k)
                            \/ Leave(q, u)
        \/ CreateFounds(q) \/ JoinAdmits(q) \/ ApproveAdmits(q) \/ ApplyAdmits(q) \/ DenyFinds(q)
        \/ Seated(q) \/ ApplyFiles(q) \/ DenyStrikes(q)
        \/ RemoveFinds(q) \/ Removes(q) \/ MemberLeaves(q)
        \/ SuccessionReads(q) \/ Succeeds(q) \/ TornDown(q)
        \/ Refused(q)

Spec == Init /\ [][Next]_vars

----------------------------------------------------------------------------
TypeOK ==
    /\ guilds \subseteq Guilds /\ used \subseteq Guilds
    /\ seat \in [Users -> Seats]
    /\ applied \in [Users -> Guilds \cup {None}]
    /\ removal \in [Guilds -> [Users -> Removals]]
    /\ req \in [Slots -> Requests]
    /\ requests \in 0..MaxRequests
    /\ led \subseteq Guilds /\ crowded \subseteq Guilds
    /\ overlap \in [Guilds -> Nat]
    /\ outlaws \in [Guilds -> SUBSET Users]
    /\ missed \subseteq Guilds \X Users

(* "a guild that lost theirs with no successor would be permanently frozen" *)
(* (guild_policy.rs): as long as no departure was decided beside a change   *)
(* of Grand Master, a guild has exactly one, however joins, approvals and   *)
(* applications fall between the statements of its departures.              *)
AlwaysLed ==
    \A g \in guilds \cap led :
        g \notin crowded => \E u \in Users : GrandMasters(g) = {u}

(* "A guild is up to 20 players" (guilds.md) although the count is read     *)
(* before the insert: a guild exceeds the cap by no more than the           *)
(* admissions that were in flight together, less one.                       *)
CapExceededOnlyByOverlap ==
    \A g \in Guilds : Cardinality(MembersOf(g)) < MaxMembers + overlap[g]

(* "A ban never expires" (guild_policy.rs): a player a guild has banned, and *)
(* not approved since, is recorded as banned and stays out, whatever joins,  *)
(* kicks and applications follow.  Excepted are the bans that lost a race: an *)
(* admission decided before the ban and written after it seats the player,   *)
(* and a kick decided before it and written after it records a mere kick.    *)
BannedStaysOut ==
    \A g \in Guilds : \A u \in outlaws[g] :
        <<g, u>> \notin missed => removal[g][u] = "banned" /\ seat[u].guild # g
=============================================================================
