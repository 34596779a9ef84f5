---------------------------- MODULE Matchmaker ----------------------------
(***************************************************************************)
(* The arena matchmaker: server/src/arena/matchmaker.rs.  HTTP handlers     *)
(* (create_match, cancel_match) run concurrently with each other and with   *)
(* one actor (matchmaker_loop), which owns the queue and is the only one to *)
(* resolve tickets into matches.  They share `ActiveTickets` (one live      *)
(* ticket per user) and the actor's command channel.                        *)
(*                                                                          *)
(* The actor awaits inside an iteration - the database, each session's      *)
(* lock - and every await is a step boundary here, so a handler can run in  *)
(* the middle of a resolution.  Handlers run on several threads; a cancel   *)
(* is four steps, one per piece of shared state it touches.                 *)
(*                                                                          *)
(* Abstracted: a deadline may fire whenever a ticket waits, any two users   *)
(* may or may not be compatible, the feeds found gone by one pass over the  *)
(* queue are read at one instant, and a match is only a phase.              *)
(***************************************************************************)
EXTENDS Integers, SequencesExt

CONSTANTS
    Users,
    Tickets,       \* bound: the tickets that can be minted, numbered
    OwnerOf,       \* the user each ticket is minted for
    NumMatches,    \* bound: the matches that can be allocated
    Capacity,      \* max_concurrent_matches
    Cancellable,   \* bound: the tickets whose client may cancel
    Fickle,        \* bound: the users whose feed may stay down
    MayDrain       \* bound: whether a deployment may drain the actor

ASSUME TicketsAssumption ==
    /\ Tickets \subseteq Nat \ {0}
    /\ OwnerOf \in [Tickets -> Users]
    /\ Cancellable \subseteq Tickets /\ Fickle \subseteq Users /\ MayDrain \in BOOLEAN
ASSUME MatchesAssumption == NumMatches \in Nat /\ Capacity \in Nat

NoTicket == 0
NoMatch == 0
Matches == 1..NumMatches

NoReservation == [ticket |-> NoTicket, match |-> NoMatch]
Reservations == [ticket : Tickets, match : Matches \cup {NoMatch}]

Enqueue(t) == [kind |-> "enqueue", ticket |-> t]
CancelTicket(t) == [kind |-> "cancel", ticket |-> t]
Drain == [kind |-> "drain", ticket |-> NoTicket]
Resume == [kind |-> "resume", ticket |-> NoTicket]
Commands == [kind : {"enqueue", "cancel"}, ticket : Tickets] \cup {Drain, Resume}

VARIABLES
    \* --- the HTTP side
    minted,      \* tickets a fresh create has reserved
    loading,     \* fresh creates inside load_skill, before their Enqueue
    known,       \* tickets some create answered with
    cancel,      \* progress of each ticket's cancel_match
    gone,        \* users without an rms feed for longer than the grace
    pending,     \* the Succeeded each session remembers
    \* --- shared
    active,      \* ActiveTickets.by_user
    queue,       \* the actor's command channel
    matches,     \* the registry's matches
    \* --- the actor
    waiting,     \* tickets in the queue
    ahead,       \* the queue's order: <<s, t>> when s stands before t
    draining,
    actor,       \* where in its loop body the actor is
    \* --- what became of each ticket
    outcome

httpVars == <<minted, loading, known, cancel>>
actorVars == <<waiting, ahead, draining, actor>>
vars == <<minted, loading, known, cancel, gone, pending, active, queue, matches,
          waiting, ahead, draining, actor, outcome>>

MatchPhases == {"free", "filling", "full", "decided", "removed"}

Outcomes == {"none", "duplicate", "succeeded", "failed", "unresolved", "dropped"}

CancelSteps == {"none", "forgot", "abandoned", "released", "sent"}

IdleActor == [pc |-> "idle", tickets |-> << >>, match |-> NoMatch, told |-> 0]

Placing == [pc : {"placing"}, tickets : {<<t>> : t \in Tickets}, match : {NoMatch}, told : {0}]
Resolvable == {<<t>> : t \in Tickets} \cup {<<s, t>> : s, t \in Tickets}
Actors == {IdleActor} \cup Placing
          \cup [pc : {"loading"}, tickets : Resolvable, match : {NoMatch}, told : {0}]
          \cup [pc : {"delivering"}, tickets : Resolvable, match : Matches, told : 0..2]

InActor == ToSet(actor.tickets)

InQueue == {t \in Tickets : Enqueue(t) \in ToSet(queue)}

(* Someone still holds the ticket and will act on it: its create handler,   *)
(* the channel, the queue, or a resolution in progress.                     *)
Held(t) == t \in loading \/ t \in InQueue \/ t \in waiting \/ t \in InActor

Undecided(m) == m \in Matches /\ matches[m].phase \in {"filling", "full"}

InRegistry == {m \in Matches : matches[m].phase \in {"filling", "full", "decided"}}

Init ==
    /\ minted = {} /\ loading = {} /\ known = {}
    /\ cancel = [t \in Tickets |-> "none"]
    /\ gone = {}
    /\ pending = [u \in Users |-> NoTicket]
    /\ active = [u \in Users |-> NoReservation]
    /\ queue = << >>
    /\ matches = [m \in Matches |-> [phase |-> "free", tickets |-> {}]]
    /\ waiting = {} /\ ahead = {}
    /\ draining = FALSE
    /\ actor = IdleActor
    /\ outcome = [t \in Tickets |-> "none"]

-----------------------------------------------------------------------------
(* ActiveTickets.  prune_locked runs at the head of every reservation and   *)
(* drops the reservations, of all users, whose match no longer needs them.  *)

\* Mutant: a matched reservation is dropped as soon as its match has filled.
PrunedOnceFull ==
    [u \in Users |-> IF active[u].match # NoMatch /\ matches[active[u].match].phase # "filling"
                     THEN NoReservation ELSE active[u]]

Pruned ==
    [u \in Users |-> IF active[u].match # NoMatch /\ ~Undecided(active[u].match)
                     THEN NoReservation ELSE active[u]]

ReserveOrExisting(u, t) ==
    IF Pruned[u] = NoReservation
    THEN [Pruned EXCEPT ![u] = [ticket |-> t, match |-> NoMatch]]
    ELSE Pruned

Marked(ts, m) ==
    [u \in Users |-> IF active[u].ticket \in ts
                     THEN [active[u] EXCEPT !.match = m] ELSE active[u]]

RemovedQueued(t) ==
    [u \in Users |-> IF active[u].ticket = t /\ active[u].match = NoMatch
                     THEN NoReservation ELSE active[u]]

Removed(ts) ==
    [u \in Users |-> IF active[u].ticket \in ts THEN NoReservation ELSE active[u]]

-----------------------------------------------------------------------------
(* create_match.  `accepting_matches` only delays it: past DRAIN_CREATE_WAIT *)
(* the handler goes on as if matchmaking were open.  A user whose feed has  *)
(* been down for longer than the grace is refused (409).                    *)
\* Mutant: the match of an earlier search stays remembered.
FreshCreateRemembers(u, t) ==
    /\ u \notin gone
    /\ OwnerOf[t] = u /\ t \notin minted
    /\ \A s \in Tickets : OwnerOf[s] = u /\ s < t => s \in minted
    /\ Pruned[u] = NoReservation
    /\ minted' = minted \cup {t}
    /\ active' = ReserveOrExisting(u, t)
    /\ loading' = loading \cup {t}
    /\ UNCHANGED <<known, cancel, gone, pending, queue, matches, actorVars, outcome>>

FreshCreate(u, t) ==
    /\ u \notin gone
    /\ OwnerOf[t] = u /\ t \notin minted
    /\ \A s \in Tickets : OwnerOf[s] = u /\ s < t => s \in minted
    /\ Pruned[u] = NoReservation
    /\ minted' = minted \cup {t}
    /\ active' = ReserveOrExisting(u, t)
    /\ pending' = [pending EXCEPT ![u] = NoTicket]
    /\ loading' = loading \cup {t}
    /\ UNCHANGED <<known, cancel, gone, queue, matches, actorVars, outcome>>

(* The answer is the live ticket, "QUEUED".  The replay it attempts finds   *)
(* nothing to send (RmsFeedProofs!NothingToReplay).                         *)
RepeatedCreate(u) ==
    /\ u \notin gone
    /\ Pruned[u] # NoReservation
    /\ active' = Pruned
    /\ known' = known \cup {Pruned[u].ticket}
    /\ UNCHANGED <<minted, loading, cancel, gone, pending, queue, matches, actorVars, outcome>>

(* load_skill has returned: hand the ticket to the actor and answer.        *)
SendEnqueue(t) ==
    /\ t \in loading
    /\ loading' = loading \ {t}
    /\ known' = known \cup {t}
    /\ queue' = Append(queue, Enqueue(t))
    /\ UNCHANGED <<minted, cancel, gone, pending, active, matches, actorVars, outcome>>

(* cancel_match: the remembered Succeeded is forgotten ...                  *)
CancelForget(t) ==
    /\ t \in known \cap Cancellable /\ cancel[t] = "none"
    /\ cancel' = [cancel EXCEPT ![t] = "forgot"]
    /\ pending' = [pending EXCEPT ![OwnerOf[t]] = IF @ = t THEN NoTicket ELSE @]
    /\ UNCHANGED <<minted, loading, known, gone, active, queue, matches, actorVars, outcome>>

(* ... a match the ticket was resolved into is abandoned if it never       *)
(* filled, which frees the reservation and lets the sweep reclaim the match *)
(* (RemoveMatch) earlier ...                                                *)
Abandons(t) ==
    LET m == active[OwnerOf[t]].match
    IN  /\ active[OwnerOf[t]].ticket = t
        /\ m # NoMatch
        /\ matches[m].phase = "filling"

CancelAbandon(t) ==
    /\ cancel[t] = "forgot"
    /\ cancel' = [cancel EXCEPT ![t] = "abandoned"]
    /\ active' = IF Abandons(t) THEN Removed({t}) ELSE active
    /\ UNCHANGED <<minted, loading, known, gone, pending, queue, matches, actorVars, outcome>>

(* ... its queued reservation is released ...                               *)
CancelRelease(t) ==
    /\ cancel[t] = "abandoned"
    /\ cancel' = [cancel EXCEPT ![t] = "released"]
    /\ active' = RemovedQueued(t)
    /\ UNCHANGED <<minted, loading, known, gone, pending, queue, matches, actorVars, outcome>>

(* ... and the actor is told to dequeue it.                                 *)
CancelSend(t) ==
    /\ cancel[t] = "released"
    /\ cancel' = [cancel EXCEPT ![t] = "sent"]
    /\ queue' = Append(queue, CancelTicket(t))
    /\ UNCHANGED <<minted, loading, known, gone, pending, active, matches, actorVars, outcome>>

(* /healthz/arena-drain and /healthz/arena-resume (status.rs), at most one  *)
(* of each in the channel.                                                  *)
RequestDrain ==
    /\ ~draining /\ MayDrain /\ Drain \notin ToSet(queue)
    /\ queue' = Append(queue, Drain)
    /\ UNCHANGED <<httpVars, gone, pending, active, matches, actorVars, outcome>>

RequestResume ==
    /\ draining /\ Resume \notin ToSet(queue)
    /\ queue' = Append(queue, Resume)
    /\ UNCHANGED <<httpVars, gone, pending, active, matches, actorVars, outcome>>

(* The feed crosses the reconnect grace, or comes back.                     *)
LoseFeed(u) ==
    /\ u \in Fickle \ gone
    /\ gone' = gone \cup {u}
    /\ UNCHANGED <<httpVars, pending, active, queue, matches, actorVars, outcome>>

RegainFeed(u) ==
    /\ u \in gone
    /\ gone' = gone \ {u}
    /\ UNCHANGED <<httpVars, pending, active, queue, matches, actorVars, outcome>>

-----------------------------------------------------------------------------
(* The queue becomes the tickets W, which keep their order; or is joined.   *)
Leaves(W) == waiting' = W /\ ahead' = ahead \cap (W \X W)

Joins(W, t) ==
    /\ waiting' = W \cup {t}
    /\ ahead' = (ahead \cap (W \X W)) \cup (W \X {t})

Oldest(t) == t \in waiting /\ \A s \in waiting : <<s, t>> \notin ahead

-----------------------------------------------------------------------------
(* The actor takes its next command.                                        *)

(* An Enqueue reserves again: the user may have a different live ticket by  *)
(* now, and then this one is dropped.                                       *)
ReceiveEnqueue(t) ==
    /\ actor.pc = "idle"
    /\ queue # << >> /\ Head(queue) = Enqueue(t)
    /\ queue' = Tail(queue)
    /\ active' = ReserveOrExisting(OwnerOf[t], t)
    /\ IF ReserveOrExisting(OwnerOf[t], t)[OwnerOf[t]].ticket = t
       THEN /\ actor' = [IdleActor EXCEPT !.pc = "placing", !.tickets = <<t>>]
            /\ UNCHANGED outcome
       ELSE /\ outcome' = [outcome EXCEPT ![t] = "duplicate"]
            /\ UNCHANGED actor
    /\ UNCHANGED <<httpVars, gone, pending, matches, waiting, ahead, draining>>

\* Mutant: the cancel is acknowledged but nothing is dequeued.
ReceiveCancelNoOp(t) ==
    /\ actor.pc = "idle"
    /\ queue # << >> /\ Head(queue) = CancelTicket(t)
    /\ queue' = Tail(queue)
    /\ active' = IF t \in waiting THEN RemovedQueued(t) ELSE active
    /\ UNCHANGED <<httpVars, gone, pending, matches, actorVars, outcome>>

ReceiveCancel(t) ==
    /\ actor.pc = "idle"
    /\ queue # << >> /\ Head(queue) = CancelTicket(t)
    /\ queue' = Tail(queue)
    /\ Leaves(waiting \ {t})
    /\ active' = IF t \in waiting THEN RemovedQueued(t) ELSE active
    /\ UNCHANGED <<httpVars, gone, pending, matches, draining, actor, outcome>>

ReceiveDrain ==
    /\ actor.pc = "idle"
    /\ queue # << >> /\ Head(queue) = Drain
    /\ queue' = Tail(queue)
    /\ draining' = TRUE
    /\ UNCHANGED <<httpVars, gone, pending, active, matches, waiting, ahead, actor, outcome>>

ReceiveResume ==
    /\ actor.pc = "idle"
    /\ queue # << >> /\ Head(queue) = Resume
    /\ queue' = Tail(queue)
    /\ draining' = FALSE
    /\ UNCHANGED <<httpVars, gone, pending, active, matches, waiting, ahead, actor, outcome>>

-----------------------------------------------------------------------------
(* Waiting tickets whose client has gone are dropped before every pairing,  *)
(* without releasing their reservation.                                     *)
Present == {t \in waiting : OwnerOf[t] \notin gone}

PassedOver == [t \in Tickets |-> IF t \in waiting \ Present THEN "dropped" ELSE outcome[t]]

(* A new ticket is held while a drain is on, paired with a compatible       *)
(* waiting ticket of another user, or joins the queue.                      *)
\* Mutant: the single waiting slot the queue once was.
JoinSingleSlot(t) ==
    /\ Joins({}, t)
    /\ actor' = IdleActor
    /\ outcome' = IF draining THEN outcome ELSE PassedOver

Join(t) ==
    /\ Joins(IF draining THEN waiting ELSE Present, t)
    /\ actor' = IdleActor
    /\ outcome' = IF draining THEN outcome ELSE PassedOver

PairWith(t, s) ==
    /\ Leaves(Present \ {s})
    /\ actor' = [actor EXCEPT !.pc = "loading", !.tickets = <<s, t>>]
    /\ outcome' = PassedOver

\* Mutant: an account can be paired with itself.
PlaceAnyUser(t) ==
    /\ actor.pc = "placing" /\ actor.tickets = <<t>>
    /\ \/ Join(t)
       \/ ~draining /\ \E s \in Present : PairWith(t, s)
    /\ UNCHANGED <<httpVars, gone, pending, active, queue, matches, draining>>

Place(t) ==
    /\ actor.pc = "placing" /\ actor.tickets = <<t>>
    /\ \/ Join(t)
       \/ ~draining /\ \E s \in Present : OwnerOf[s] # OwnerOf[t] /\ PairWith(t, s)
    /\ UNCHANGED <<httpVars, gone, pending, active, queue, matches, draining>>

(* The oldest ticket's deadline fires.  It is dropped if its client is      *)
(* gone; else it is paired with whoever else waits (last call, whatever the *)
(* bracket), and only alone does it get a bot.                              *)
\* Mutant: a ticket whose client is gone goes back into the queue.
DropOldestKeeps(t) ==
    /\ OwnerOf[t] \in gone
    /\ UNCHANGED <<waiting, ahead, outcome, actor>>

DropOldest(t) ==
    /\ OwnerOf[t] \in gone
    /\ Leaves(waiting \ {t})
    /\ outcome' = [outcome EXCEPT ![t] = "dropped"]
    /\ UNCHANGED actor

LastCall(t, s) ==
    /\ OwnerOf[t] \notin gone
    /\ OwnerOf[s] # OwnerOf[t]
    /\ Leaves(Present \ {s, t})
    /\ actor' = [actor EXCEPT !.pc = "loading", !.tickets = <<s, t>>]
    /\ outcome' = PassedOver

SoloFallback(t) ==
    /\ OwnerOf[t] \notin gone
    /\ \A s \in Present : OwnerOf[s] = OwnerOf[t]
    /\ Leaves(Present \ {t})
    /\ actor' = [actor EXCEPT !.pc = "loading", !.tickets = <<t>>]
    /\ outcome' = PassedOver

DeadlineFires ==
    /\ actor.pc = "idle" /\ ~draining
    /\ \E t \in waiting :
          /\ Oldest(t)
          /\ \/ DropOldest(t)
             \/ \E s \in Present : LastCall(t, s)
             \/ SoloFallback(t)
    /\ UNCHANGED <<httpVars, gone, pending, active, queue, matches, draining>>

-----------------------------------------------------------------------------
(* resolve, from the loaded loadouts on.  A guard rejects the fighters      *)
(* (unrenderable bot, appearance collapse): every client is told, and the   *)
(* reservations go.                                                         *)
Unresolved(how) ==
    /\ outcome' = [t \in Tickets |-> IF t \in InActor THEN how ELSE outcome[t]]
    /\ active' = Removed(InActor)
    /\ actor' = IdleActor
    /\ UNCHANGED <<httpVars, gone, pending, queue, matches, waiting, ahead, draining>>

GuardRejects ==
    /\ actor.pc = "loading"
    /\ Unresolved("failed")

(* No permit left: nobody is told.                                          *)
\* Mutant: the reservations outlive the failed allocation.
AtCapacityKeeps ==
    /\ actor.pc = "loading"
    /\ Cardinality(InRegistry) >= Capacity
    /\ outcome' = [t \in Tickets |-> IF t \in InActor THEN "unresolved" ELSE outcome[t]]
    /\ actor' = IdleActor
    /\ UNCHANGED <<httpVars, gone, pending, active, queue, matches, waiting, ahead, draining>>

AtCapacity ==
    /\ actor.pc = "loading"
    /\ Cardinality(InRegistry) >= Capacity
    /\ Unresolved("unresolved")

Allocate(m) ==
    /\ actor.pc = "loading"
    /\ Cardinality(InRegistry) < Capacity
    /\ matches[m].phase = "free" /\ \A n \in Matches : n < m => matches[n].phase # "free"
    /\ matches' = [matches EXCEPT ![m] = [phase |-> "filling", tickets |-> InActor]]
    /\ actor' = [actor EXCEPT !.pc = "delivering", !.match = m]
    /\ UNCHANGED <<httpVars, gone, pending, active, queue, waiting, ahead, draining, outcome>>

(* Succeeded goes to one client after the other, remembered by its session  *)
(* (RmsFeedState!Sent).                                                     *)
Deliver ==
    /\ actor.pc = "delivering" /\ actor.told < Len(actor.tickets)
    /\ LET t == actor.tickets[actor.told + 1]
       IN  /\ pending' = [pending EXCEPT ![OwnerOf[t]] = t]
           /\ outcome' = [outcome EXCEPT ![t] = "succeeded"]
    /\ actor' = [actor EXCEPT !.told = @ + 1]
    /\ UNCHANGED <<httpVars, gone, active, queue, matches, waiting, ahead, draining>>

MarkMatched ==
    /\ actor.pc = "delivering" /\ actor.told = Len(actor.tickets)
    /\ active' = Marked(InActor, actor.match)
    /\ actor' = IdleActor
    /\ UNCHANGED <<httpVars, gone, pending, queue, matches, waiting, ahead, draining, outcome>>

-----------------------------------------------------------------------------
(* The registry and the ENet thread move matches on by themselves.          *)
MatchPhase(m, from, to) ==
    /\ matches[m].phase \in from
    /\ matches' = [matches EXCEPT ![m].phase = to]
    /\ UNCHANGED <<httpVars, gone, pending, active, queue, actorVars, outcome>>

Fill(m) == MatchPhase(m, {"filling"}, "full")
Decide(m) == MatchPhase(m, {"full"}, "decided")
RemoveMatch(m) == MatchPhase(m, {"filling", "full", "decided"}, "removed")

Receive == \/ \E t \in Tickets : ReceiveEnqueue(t) \/ ReceiveCancel(t)
           \/ ReceiveDrain \/ ReceiveResume

ResolveStep == \/ GuardRejects \/ AtCapacity
               \/ \E m \in Matches : Allocate(m)
               \/ Deliver \/ MarkMatched

Next ==
    \/ \E u \in Users : \/ \E t \in Tickets : FreshCreate(u, t)
                        \/ RepeatedCreate(u) \/ LoseFeed(u) \/ RegainFeed(u)
    \/ \E t \in Tickets : \/ SendEnqueue(t)
                          \/ CancelForget(t) \/ CancelAbandon(t) \/ CancelRelease(t) \/ CancelSend(t)
                          \/ Place(t)
    \/ RequestDrain \/ RequestResume
    \/ Receive \/ DeadlineFires
    \/ ResolveStep
    \/ \E m \in Matches : Fill(m) \/ Decide(m) \/ RemoveMatch(m)

Spec == Init /\ [][Next]_vars

(* The actor is one task that is always polled: it takes commands, its      *)
(* deadlines fire (every tier's delay is finite), and its awaits are all    *)
(* bounded by timeouts.  Nothing is assumed of clients, operators or        *)
(* matches.                                                                 *)
Fairness ==
    /\ WF_vars(Receive)
    /\ WF_vars(\E t \in Tickets : Place(t))
    /\ WF_vars(DeadlineFires)
    /\ WF_vars(ResolveStep)

FairSpec == Spec /\ Fairness

-----------------------------------------------------------------------------
TypeOK ==
    /\ minted \subseteq Tickets /\ loading \subseteq Tickets /\ known \subseteq Tickets
    /\ cancel \in [Tickets -> CancelSteps]
    /\ gone \subseteq Users
    /\ pending \in [Users -> Tickets \cup {NoTicket}]
    /\ active \in [Users -> Reservations \cup {NoReservation}]
    /\ queue \in Seq(Commands)
    /\ matches \in [Matches -> [phase : MatchPhases, tickets : SUBSET Tickets]]
    /\ waiting \subseteq Tickets /\ ahead \subseteq waiting \X waiting
    /\ draining \in BOOLEAN
    /\ actor \in Actors
    /\ outcome \in [Tickets -> Outcomes]

(* "Never pair an account with itself": a second ticket of one user can sit *)
(* in the queue beside the first (a cancel has released the reservation but *)
(* not yet reached the actor), and still no match seats the two together.   *)
NoSelfPair ==
    \A m \in Matches : \A s, t \in matches[m].tickets : OwnerOf[s] = OwnerOf[t] => s = t

(* A reservation without a match blocks its user's next search, so somebody *)
(* must still be going to act on its ticket.  The one exception is a ticket *)
(* the actor dropped because its client was gone.                           *)
ReservationHeldOrDropped ==
    \A u \in Users :
        LET t == active[u].ticket
        IN  t # NoTicket /\ active[u].match = NoMatch => Held(t) \/ outcome[t] = "dropped"

(* A ticket never just disappears and is never resolved twice: its fate is  *)
(* decided once, wherever a cancel, a second search, a drain or a lost feed *)
(* falls between the actor's steps.                                         *)
FateOf == [t \in Tickets |->
    IF outcome[t] # "none" THEN outcome[t]
    ELSE IF t \notin minted THEN "unminted"
    ELSE IF actor.pc = "delivering" /\ t \in InActor THEN "seated"
    ELSE IF Held(t) THEN "waiting" ELSE "withdrawn"]
Fates == INSTANCE TicketFate WITH fate <- FateOf, away <- gone,
             seats <- [m \in Matches |-> matches[m].tickets],
             cancelled <- {t \in Tickets : cancel[t] # "none"}
ImplementsFate == Fates!Spec

(* One fight at a time: a user sits in two undecided matches only if one of *)
(* the two tickets was cancelled while it was being resolved.               *)
OneFightAtATime ==
    \A m, n \in Matches : \A s \in matches[m].tickets, t \in matches[n].tickets :
        /\ m # n /\ Undecided(m) /\ Undecided(n)
        /\ OwnerOf[s] = OwnerOf[t]
        => cancel[s] # "none" \/ cancel[t] # "none"

(* "By the time this returns, the actor has stopped resolving queued        *)
(* tickets" (arena_drain).                                                  *)
DrainedMeansQuiet == draining => actor.pc \in {"idle", "placing"}

(* "A brand-new search: whatever match an earlier ticket was sent is not    *)
(* this one" (create_match): the match a session remembers for replay is    *)
(* never one of an older ticket, unless that ticket was cancelled.          *)
RemembersTheNewestSearch ==
    \A u \in Users : \A t \in minted :
        pending[u] # NoTicket /\ OwnerOf[t] = u /\ pending[u] < t
        => cancel[pending[u]] # "none"

(* A cancel that finds its ticket in the queue takes it out, in a drain     *)
(* too, when nothing else would.                                            *)
CancelDequeues ==
    \A t \in Tickets :
        (t \in waiting /\ CancelTicket(t) \in ToSet(queue))
            ~> t \notin waiting

(* Nobody waits for ever: outside a drain a waiting ticket is paired, given *)
(* a bot, cancelled or dropped.                                             *)
NobodyWaitsForEver == \A t \in Tickets : t \in waiting ~> t \notin waiting \/ draining
=============================================================================
