------------------------------ MODULE Sessions ------------------------------
(***************************************************************************)
(* Who is signed in: the in-memory session map and the `sessions` table     *)
(* behind it (server/src/session.rs), the login handlers that mint a        *)
(* session and claim the account for its device (authentification.rs), the  *)
(* cold lookup of a request whose token the map does not know, and the      *)
(* restarts that empty the map.  A step ends where the code awaits.         *)
(*                                                                         *)
(* A session is known by its id; ids are never reused, and a run is shorter *)
(* than the time to live, so nothing expires.                               *)
(***************************************************************************)
CONSTANTS
    Users,
    NoUser,
    Sessions,      \* bound: the ids minted in one behaviour
    NoSession,
    DbMayFail,     \* statements of the sessions table may fail
    MayRestart     \* the server process may be replaced

ASSUME SessionAssumption ==
    /\ NoSession \notin Sessions
    /\ NoUser \notin Users
    /\ DbMayFail \in BOOLEAN
    /\ MayRestart \in BOOLEAN

VARIABLES
    live,       \* SessionStore.map: the ids it holds
    rows,       \* the ids in the sessions table
    login,      \* the login handler that mints each session
    lookup,     \* a request with each session's token, inside FromRequest
    \* History, read by the properties only:
    owner,      \* each user's session that was answered last
    overlapped, \* users with a login while another was in flight, or unsaved
    stranded,   \* users whose last claim deleted the rows and was never answered
    mishap,     \* a restart, a failed statement, or a row written too late
    raced       \* a lookup put back a session that was being displaced

vars == <<live, rows, login, lookup, owner, overlapped, stranded, mishap, raced>>

InFlightSteps == {"asked", "stored", "saved", "claiming", "claimed"}
LoginSteps == {"unminted", "done", "lost"} \cup InFlightSteps

Unminted == [pc |-> "unminted", user |-> NoUser, keep |-> NoSession]

Owns(u) == {s \in Sessions : login[s].user = u}
InFlight(u) == {s \in Owns(u) : login[s].pc \in InFlightSteps}

(* What a login leaves alone: its own session and the caller's.             *)
Spared(s) == {s, login[s].keep}

(* What evict_other_sessions_for_user_keeping and the DELETE take: every    *)
(* session of the user but the spared ones.                                 *)
Others(s) == Owns(login[s].user) \ Spared(s)

(* s has left memory to a login whose DELETE is still to come.              *)
BeingDisplaced(s) == \E t \in Sessions : login[t].pc = "claiming" /\ s \in Others(t)

Init ==
    /\ live = {}
    /\ rows = {}
    /\ login = [s \in Sessions |-> Unminted]
    /\ lookup = [s \in Sessions |-> "idle"]
    /\ owner = [u \in Users |-> NoSession]
    /\ overlapped = {}
    /\ stranded = {}
    /\ mishap = FALSE
    /\ raced = FALSE

(* A login request is read.  The session of its Authorization header, when  *)
(* the map knows it and it is of the same account, will be spared (only     *)
(* bnet_log_in does this; the other paths spare nothing).                   *)
Ask(s, u, k) ==
    /\ login[s].pc = "unminted"
    /\ k = NoSession \/ (k \in live /\ login[k].user = u /\ login[k].pc = "done")
    /\ login' = [login EXCEPT ![s] = [pc |-> "asked", user |-> u, keep |-> k]]
    /\ overlapped' = IF InFlight(u) = {} THEN overlapped ELSE overlapped \cup {u}
    /\ UNCHANGED <<live, rows, lookup, owner, stranded, mishap, raced>>

(* store_new_session.                                                       *)
Store(s) ==
    /\ login[s].pc = "asked"
    /\ login' = [login EXCEPT ![s].pc = "stored"]
    /\ live' = live \cup {s}
    /\ UNCHANGED <<rows, lookup, owner, overlapped, stranded, mishap, raced>>

\* Mutant: the session is not written to the table.
PersistNothing(s) ==
    /\ login[s].pc = "stored"
    /\ login' = [login EXCEPT ![s].pc = "saved"]
    /\ UNCHANGED <<live, rows, lookup, owner, overlapped, stranded, mishap, raced>>

(* persist_session: a failure is logged and the login goes on.              *)
Persist(s) ==
    /\ login[s].pc = "stored"
    /\ login' = [login EXCEPT ![s].pc = "saved"]
    /\ \/ /\ rows' = rows \cup {s}
          /\ mishap' = (mishap \/ s \notin live)
          /\ UNCHANGED overlapped
       \/ /\ DbMayFail
          /\ mishap' = TRUE
          /\ overlapped' = overlapped \cup {login[s].user}
          /\ UNCHANGED rows
    /\ UNCHANGED <<live, lookup, owner, stranded, raced>>

(* The login answers with the session's token.                              *)
Answered(s) ==
    /\ owner' = [owner EXCEPT ![login[s].user] = s]
    /\ stranded' = stranded \ {login[s].user}

\* Mutant: a login displaces nobody from memory.
EvictNobody(s) ==
    /\ login[s].pc = "saved"
    /\ login' = [login EXCEPT ![s].pc = "done"]
    /\ Answered(s)
    /\ UNCHANGED <<live, rows, lookup, overlapped, mishap, raced>>

(* The first half of claim_account_for_this_device_keeping: a login that    *)
(* finds nobody to displace in memory answers at once.                      *)
Evict(s) ==
    /\ login[s].pc = "saved"
    /\ live' = live \ Others(s)
    /\ \/ /\ live \cap Others(s) = {}
          /\ login' = [login EXCEPT ![s].pc = "done"]
          /\ Answered(s)
       \/ /\ live \cap Others(s) # {}
          /\ login' = [login EXCEPT ![s].pc = "claiming"]
          /\ UNCHANGED <<owner, stranded>>
    /\ UNCHANGED <<rows, lookup, overlapped, mishap, raced>>

\* Mutant: the map is cleaned and the table is not.
DeleteNothing(s) ==
    /\ login[s].pc = "claiming"
    /\ login' = [login EXCEPT ![s].pc = "claimed"]
    /\ UNCHANGED <<live, rows, lookup, owner, overlapped, stranded, mishap, raced>>

(* Its second half: the DELETE, or a warning when the database fails.       *)
DeleteRows(s) ==
    /\ login[s].pc = "claiming"
    /\ login' = [login EXCEPT ![s].pc = "claimed"]
    /\ \/ rows' = rows \ Others(s) /\ UNCHANGED mishap
       \/ DbMayFail /\ UNCHANGED rows /\ mishap' = TRUE
    /\ UNCHANGED <<live, lookup, owner, overlapped, stranded, raced>>

(* The handler, back from the claim, answers.                               *)
Answer(s) ==
    /\ login[s].pc = "claimed"
    /\ login' = [login EXCEPT ![s].pc = "done"]
    /\ Answered(s)
    /\ UNCHANGED <<live, rows, lookup, overlapped, mishap, raced>>

(* FromRequest with a token some login answered.  The map knows the session *)
(* (nothing changes), or it is looked for in the table: the two reads and   *)
(* the insert are separate steps.  One lookup per token at a time, since    *)
(* insert_existing is idempotent.                                           *)
Miss(s) ==
    /\ login[s].pc = "done"
    /\ s \notin live
    /\ lookup[s] = "idle"
    /\ lookup' = [lookup EXCEPT ![s] = "missed"]
    /\ UNCHANGED <<live, rows, login, owner, overlapped, stranded, mishap, raced>>

(* load_persisted_session: the row, or none (and the request gets its 401). *)
ReadRow(s) ==
    /\ lookup[s] = "missed"
    /\ \/ /\ s \in rows
          /\ lookup' = [lookup EXCEPT ![s] = "found"]
       \/ /\ s \notin rows \/ DbMayFail
          /\ lookup' = [lookup EXCEPT ![s] = "idle"]
    /\ UNCHANGED <<live, rows, login, owner, overlapped, stranded, mishap, raced>>

(* insert_existing.                                                         *)
Repopulate(s) ==
    /\ lookup[s] = "found"
    /\ lookup' = [lookup EXCEPT ![s] = "idle"]
    /\ live' = live \cup {s}
    /\ raced' = (raced \/ s \notin rows \/ BeingDisplaced(s))
    /\ UNCHANGED <<rows, login, owner, overlapped, stranded, mishap>>

(* The process is replaced: the map and every request in flight are gone,   *)
(* the table stays.                                                         *)
Restart ==
    /\ MayRestart
    /\ live # {} \/ \E s \in Sessions : login[s].pc \in InFlightSteps
    /\ live' = {}
    /\ login' = [s \in Sessions |->
                    IF login[s].pc \in InFlightSteps THEN [login[s] EXCEPT !.pc = "lost"]
                                                     ELSE login[s]]
    /\ lookup' = [s \in Sessions |-> "idle"]
    /\ mishap' = TRUE
    /\ stranded' = stranded \cup {login[s].user : s \in {t \in Sessions : login[t].pc = "claimed"}}
    /\ UNCHANGED <<rows, owner, overlapped, raced>>

Next ==
    \/ \E s \in Sessions, u \in Users, k \in Sessions \cup {NoSession} : Ask(s, u, k)
    \/ \E s \in Sessions :
        \/ Store(s) \/ Persist(s) \/ Evict(s) \/ DeleteRows(s) \/ Answer(s)
        \/ Miss(s) \/ ReadRow(s) \/ Repopulate(s)
    \/ Restart

Spec == Init /\ [][Next]_vars

----------------------------------------------------------------------------
TypeOK ==
    /\ live \subseteq Sessions
    /\ rows \subseteq Sessions
    /\ login \in [Sessions -> [pc : LoginSteps, user : Users \cup {NoUser},
                               keep : Sessions \cup {NoSession}]]
    /\ \A s \in Sessions : login[s].user = NoUser <=> login[s].pc = "unminted"
    /\ lookup \in [Sessions -> {"idle", "missed", "found"}]
    /\ owner \in [Users -> Sessions \cup {NoSession}]
    /\ overlapped \subseteq Users
    /\ stranded \subseteq Users
    /\ mishap \in BOOLEAN
    /\ raced \in BOOLEAN

(* Two sessions that may be held together: one login spared the other, its  *)
(* own device's.                                                            *)
SameDevice(s, t) == s \in Spared(t) \/ t \in Spared(s)

Settled(u) == InFlight(u) = {}

OneDevice(held, u) == \A s, t \in held \cap Owns(u) : SameDevice(s, t)

(* "Make `session_id` the only live session for this user, in memory and in *)
(* the `sessions` table" (session.rs), the table's half: once every login   *)
(* of an account is answered, the rows left are of one device, so no        *)
(* restart brings a displaced one back.  It needs the early return of a     *)
(* claim that evicts nobody to leave no row behind, under any overlap of    *)
(* logins and lookups; a restart, a failed statement, or a row that lands   *)
(* after its session was displaced breaks it.                               *)
RowsOfOneDevice == ~mishap => \A u \in Users : Settled(u) => OneDevice(rows, u)

(* The memory's half: sessions of one account held together are of one      *)
(* device, unless one of the above happened or a cold lookup that read its  *)
(* row before the DELETE put a displaced session back.                      *)
LiveOnOneDevice ==
    ~mishap /\ ~raced => \A u \in Users : Settled(u) => OneDevice(live, u)

(* "So an arena-server rebuild no longer logs everyone out": whoever was    *)
(* answered last can use the token, from memory or from the table, through  *)
(* any restarts, crashes of other logins, evictions and lookups, if the     *)
(* account's logins never overlapped and its rows were written.  The one    *)
(* crash it does not survive is of a later login between the DELETE of the  *)
(* other rows and its own answer: until a login of the account is answered  *)
(* again, the last token is in neither place and the new one was never sent.*)
OwnerStaysSignedIn ==
    \A u \in Users \ (overlapped \cup stranded) :
        Settled(u) /\ owner[u] # NoSession => owner[u] \in live \cup rows

(* "they cannot both be active" and the displaced device's next request     *)
(* "presents a token this store no longer knows, gets a 401" (session.rs,   *)
(* evict_other_sessions_for_user): no two devices hold one account.         *)
NeverBothActive == \A u \in Users : Settled(u) => OneDevice(live, u)
=============================================================================
