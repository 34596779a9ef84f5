-------------------------- MODULE MatchmakerProofs --------------------------
(***************************************************************************)
(* Proofs about Matchmaker for any users, tickets, matches and capacity.    *)
(* The invariants rest on two arguments.  A ticket is in one place at a     *)
(* time (OnePlace): with its create handler, in the channel, in the queue,  *)
(* at the actor, or in one match.  And while a ticket is held and nobody    *)
(* cancels it, its user's reservation is that ticket's (Bookings), so that  *)
(* no second search of the user begins.                                     *)
(***************************************************************************)
EXTENDS Matchmaker, SequenceTheorems, TLAPS

LEMMA AppendSet ==
  ASSUME NEW S, NEW s \in Seq(S), NEW e \in S
  PROVE  /\ Append(s, e) \in Seq(S)
         /\ ToSet(Append(s, e)) = ToSet(s) \cup {e}
<1>1. /\ Append(s, e) \in Seq(S) /\ Len(s) \in Nat /\ Len(Append(s, e)) = Len(s) + 1
      /\ DOMAIN s = 1..Len(s) /\ DOMAIN Append(s, e) = 1..(Len(s) + 1)
      /\ Append(s, e)[Len(s) + 1] = e
      /\ \A i \in 1..Len(s) : Append(s, e)[i] = s[i]
  OBVIOUS
<1>2. ToSet(Append(s, e)) \subseteq ToSet(s) \cup {e}
  BY <1>1 DEF ToSet
<1>3. ToSet(s) \cup {e} \subseteq ToSet(Append(s, e))
  BY <1>1 DEF ToSet
<1> QED BY <1>1, <1>2, <1>3

LEMMA TailSet ==
  ASSUME NEW S, NEW s \in Seq(S), s # << >>
  PROVE  /\ Tail(s) \in Seq(S)
         /\ ToSet(s) = {Head(s)} \cup ToSet(Tail(s))
<1>1. /\ Tail(s) \in Seq(S) /\ Len(s) \in Nat \ {0}
      /\ DOMAIN s = 1..Len(s) /\ DOMAIN Tail(s) = 1..(Len(s) - 1)
      /\ Head(s) = s[1]
      /\ \A i \in 1..(Len(s) - 1) : Tail(s)[i] = s[i + 1]
  OBVIOUS
<1>2. ToSet(s) \subseteq {Head(s)} \cup ToSet(Tail(s))
  <2>1. ASSUME NEW i \in 1..Len(s), i # 1 PROVE s[i] \in ToSet(Tail(s))
    <3>1. i - 1 \in 1..(Len(s) - 1) /\ Tail(s)[i - 1] = s[i]
      BY <1>1, <2>1
    <3> QED BY <1>1, <3>1 DEF ToSet
  <2> QED BY <1>1, <2>1 DEF ToSet
<1>3. {Head(s)} \cup ToSet(Tail(s)) \subseteq ToSet(s)
  <2>1. ASSUME NEW i \in 1..(Len(s) - 1) PROVE Tail(s)[i] \in ToSet(s)
    <3>1. i + 1 \in 1..Len(s)
      BY <1>1, <2>1
    <3> QED BY <1>1, <3>1 DEF ToSet
  <2> QED BY <1>1, <2>1 DEF ToSet
<1> QED BY <1>1, <1>2, <1>3

LEMMA CommandKinds ==
  ASSUME NEW t \in Tickets
  PROVE  /\ Enqueue(t) \in Commands /\ CancelTicket(t) \in Commands
         /\ Enqueue(t) \notin {Drain, Resume} /\ CancelTicket(t) \notin {Drain, Resume}
         /\ \A s \in Tickets : Enqueue(s) # CancelTicket(t)
         /\ \A s \in Tickets : Enqueue(s) = Enqueue(t) => s = t
         /\ \A s \in Tickets : CancelTicket(s) = CancelTicket(t) => s = t
BY DEF Enqueue, CancelTicket, Drain, Resume, Commands


LEMMA RequestKinds == Drain \in Commands /\ Resume \in Commands
BY DEF Commands

----------------------------------------------------------------------------
ActiveTickets == [Users -> Reservations \cup {NoReservation}]

(* What the reservation operators return.                                   *)
LEMMA ReservationTypes ==
  ASSUME TypeOK
  PROVE  /\ Pruned \in ActiveTickets
         /\ \A u \in Users, t \in Tickets : ReserveOrExisting(u, t) \in ActiveTickets
         /\ \A S \in SUBSET Tickets, m \in Matches : Marked(S, m) \in ActiveTickets
         /\ \A S \in SUBSET Tickets : Removed(S) \in ActiveTickets
         /\ \A t \in Tickets : RemovedQueued(t) \in ActiveTickets
<1> USE DEF ActiveTickets
<1>1. active \in ActiveTickets
  BY DEF TypeOK
<1>2. Pruned \in ActiveTickets
  BY <1>1 DEF Pruned
<1>3. ASSUME NEW u \in Users, NEW t \in Tickets PROVE ReserveOrExisting(u, t) \in ActiveTickets
  <2>1. [ticket |-> t, match |-> NoMatch] \in Reservations
    BY DEF Reservations
  <2> QED BY <1>2, <2>1 DEF ReserveOrExisting
<1>4. ASSUME NEW S \in SUBSET Tickets, NEW m \in Matches PROVE Marked(S, m) \in ActiveTickets
  <2>1. ASSUME NEW u \in Users, active[u].ticket \in S
        PROVE  [active[u] EXCEPT !.match = m] \in Reservations
    <3>1. active[u] \in Reservations \/ active[u] = NoReservation
      BY <1>1
    <3>2. active[u] \in Reservations
      BY <2>1, <3>1, TicketsAssumption DEF NoReservation, NoTicket
    <3> QED BY <3>2 DEF Reservations
  <2> QED BY <1>1, <2>1 DEF Marked
<1>5. ASSUME NEW S \in SUBSET Tickets PROVE Removed(S) \in ActiveTickets
  BY <1>1 DEF Removed
<1>6. ASSUME NEW t \in Tickets PROVE RemovedQueued(t) \in ActiveTickets
  BY <1>1 DEF RemovedQueued
<1> QED BY <1>2, <1>3, <1>4, <1>5, <1>6

LEMMA PassedOverType ==
  ASSUME TypeOK PROVE PassedOver \in [Tickets -> Outcomes]
BY DEF TypeOK, PassedOver, Outcomes

LEMMA ActorTypes ==
  ASSUME TypeOK
  PROVE  /\ IdleActor \in Actors
         /\ \A t \in Tickets : [IdleActor EXCEPT !.pc = "placing", !.tickets = <<t>>] \in Actors
         /\ \A t \in Tickets : actor.pc \in {"idle", "placing"}
                => [actor EXCEPT !.pc = "loading", !.tickets = <<t>>] \in Actors
         /\ \A s, t \in Tickets : actor.pc \in {"idle", "placing"}
                => [actor EXCEPT !.pc = "loading", !.tickets = <<s, t>>] \in Actors
         /\ InActor \subseteq Tickets
         /\ actor.pc = "idle" => actor = IdleActor /\ InActor = {}
<1>1. IdleActor \in Actors
  BY DEF Actors
<1>2. ASSUME NEW t \in Tickets
      PROVE  [IdleActor EXCEPT !.pc = "placing", !.tickets = <<t>>] \in Actors
  <2>1. IdleActor \in [pc : {"idle"}, tickets : {<< >>}, match : {NoMatch}, told : {0}]
    BY DEF IdleActor
  <2>2. ASSUME NEW T \in {<<t>>}
        PROVE  [IdleActor EXCEPT !.pc = "placing", !.tickets = T] \in
                  [pc : {"placing"}, tickets : {<<t>>}, match : {NoMatch}, told : {0}]
    BY <2>1
  <2>3. [IdleActor EXCEPT !.pc = "placing", !.tickets = <<t>>] \in Placing
    BY <2>2 DEF Placing
  <2> QED BY <2>3 DEF Actors
<1>3. actor.pc = "idle" => actor = IdleActor
  BY DEF TypeOK, Actors, Placing
<1>4. ASSUME actor.pc \in {"idle", "placing"}
      PROVE  actor \in [pc : {"idle", "placing"}, tickets : Resolvable \cup {<< >>},
                        match : {NoMatch}, told : {0}]
  BY <1>4 DEF TypeOK, Actors, Placing, IdleActor, Resolvable
<1>5. ASSUME NEW T \in Resolvable, actor.pc \in {"idle", "placing"}
      PROVE  [actor EXCEPT !.pc = "loading", !.tickets = T] \in Actors
  <2>1. [actor EXCEPT !.pc = "loading", !.tickets = T] \in
          [pc : {"loading"}, tickets : Resolvable, match : {NoMatch}, told : {0}]
    BY <1>4, <1>5
  <2> QED BY <2>1 DEF Actors
<1>6. ASSUME NEW s \in Tickets, NEW t \in Tickets
      PROVE  <<t>> \in Resolvable /\ <<s, t>> \in Resolvable
  BY DEF Resolvable
<1>7. actor.tickets \in Resolvable \/ actor.tickets = << >>
  BY DEF TypeOK, Actors, Placing, IdleActor, Resolvable
<1>8. InActor \subseteq Tickets
  BY <1>7 DEF InActor, Resolvable, ToSet
<1>9. actor = IdleActor => InActor = {}
  BY DEF IdleActor, InActor, ToSet
<1> QED BY <1>1, <1>2, <1>3, <1>5, <1>6, <1>8, <1>9


----------------------------------------------------------------------------
(* Type correctness, the steps of the handlers and of the feeds first.      *)
LEMMA UserTypes ==
  ASSUME TypeOK, NEW u \in Users,
         RepeatedCreate(u) \/ LoseFeed(u) \/ RegainFeed(u)
  PROVE  TypeOK'
<1> USE DEF httpVars, actorVars
<1>1. CASE RepeatedCreate(u)
  <2>1. active' \in ActiveTickets /\ active' = Pruned
    BY <1>1, ReservationTypes DEF RepeatedCreate
  <2>2. Pruned[u].ticket \in Tickets
    BY <1>1, <2>1 DEF RepeatedCreate, ActiveTickets, Reservations
  <2> QED BY <1>1, <2>1, <2>2 DEF RepeatedCreate, TypeOK, ActiveTickets
<1>2. CASE LoseFeed(u)
  BY <1>2 DEF LoseFeed, TypeOK
<1>3. CASE RegainFeed(u)
  BY <1>3 DEF RegainFeed, TypeOK
<1> QED BY <1>1, <1>2, <1>3

LEMMA SearchTypes ==
  ASSUME TypeOK, NEW u \in Users, NEW t \in Tickets,
         FreshCreate(u, t) \/ SendEnqueue(t)
  PROVE  TypeOK'
<1> USE DEF httpVars, actorVars
<1>1. CASE FreshCreate(u, t)
  <2>1. active' \in ActiveTickets
    BY <1>1, ReservationTypes DEF FreshCreate
  <2>2. minted' \subseteq Tickets /\ loading' \subseteq Tickets
    BY <1>1 DEF FreshCreate, TypeOK
  <2>3. pending' \in [Users -> Tickets \cup {NoTicket}]
    BY <1>1 DEF FreshCreate, TypeOK
  <2> QED BY <1>1, <2>1, <2>2, <2>3 DEF FreshCreate, TypeOK, ActiveTickets
<1>2. CASE SendEnqueue(t)
  <2>1. queue' \in Seq(Commands)
    BY <1>2, AppendSet, CommandKinds DEF SendEnqueue, TypeOK
  <2> QED BY <1>2, <2>1 DEF SendEnqueue, TypeOK
<1> QED BY <1>1, <1>2

LEMMA CancelTypes ==
  ASSUME TypeOK, NEW t \in Tickets,
         CancelForget(t) \/ CancelAbandon(t) \/ CancelRelease(t) \/ CancelSend(t)
  PROVE  TypeOK'
<1> USE DEF httpVars, actorVars
<1>1. CASE CancelForget(t)
  <2>1. cancel' \in [Tickets -> CancelSteps]
    BY <1>1 DEF CancelForget, TypeOK, CancelSteps
  <2>2. pending' \in [Users -> Tickets \cup {NoTicket}]
    BY <1>1 DEF CancelForget, TypeOK
  <2> QED BY <1>1, <2>1, <2>2 DEF CancelForget, TypeOK
<1>2. CASE CancelAbandon(t)
  <2>1. active' \in ActiveTickets
    <3>1. active \in ActiveTickets
      BY DEF TypeOK, ActiveTickets
    <3> QED BY <1>2, <3>1, ReservationTypes DEF CancelAbandon
  <2>2. cancel' \in [Tickets -> CancelSteps]
    BY <1>2 DEF CancelAbandon, TypeOK, CancelSteps
  <2> QED BY <1>2, <2>1, <2>2 DEF CancelAbandon, TypeOK, ActiveTickets
<1>3. CASE CancelRelease(t)
  <2>1. active' \in ActiveTickets
    BY <1>3, ReservationTypes DEF CancelRelease
  <2>2. cancel' \in [Tickets -> CancelSteps]
    BY <1>3 DEF CancelRelease, TypeOK, CancelSteps
  <2> QED BY <1>3, <2>1, <2>2 DEF CancelRelease, TypeOK, ActiveTickets
<1>4. CASE CancelSend(t)
  <2>1. queue' \in Seq(Commands)
    BY <1>4, AppendSet, CommandKinds DEF CancelSend, TypeOK
  <2>2. cancel' \in [Tickets -> CancelSteps]
    BY <1>4 DEF CancelSend, TypeOK, CancelSteps
  <2> QED BY <1>4, <2>1, <2>2 DEF CancelSend, TypeOK
<1> QED BY <1>1, <1>2, <1>3, <1>4

LEMMA RequestTypes ==
  ASSUME TypeOK,
         RequestDrain \/ RequestResume
  PROVE  TypeOK'
<1> USE DEF httpVars, actorVars
<1>1. CASE RequestDrain
  <2>1. queue' \in Seq(Commands)
    BY <1>1, AppendSet, RequestKinds DEF RequestDrain, TypeOK
  <2> QED BY <1>1, <2>1 DEF RequestDrain, TypeOK
<1>2. CASE RequestResume
  <2>1. queue' \in Seq(Commands)
    BY <1>2, AppendSet, RequestKinds DEF RequestResume, TypeOK
  <2> QED BY <1>2, <2>1 DEF RequestResume, TypeOK
<1> QED BY <1>1, <1>2

LEMMA ReceiveTypes ==
  ASSUME TypeOK, Receive
  PROVE  TypeOK'
<1> USE DEF httpVars, actorVars
<1>0. queue # << >> /\ queue' = Tail(queue)
  BY DEF Receive, ReceiveEnqueue, ReceiveCancel, ReceiveDrain, ReceiveResume
<1>1. queue' \in Seq(Commands)
  BY <1>0, TailSet DEF TypeOK
<1>2. ASSUME NEW t \in Tickets, ReceiveEnqueue(t) PROVE TypeOK'
  <2>1. active' \in ActiveTickets
    BY <1>2, ReservationTypes, TicketsAssumption DEF ReceiveEnqueue
  <2>2. actor' \in Actors
    BY <1>2, ActorTypes DEF ReceiveEnqueue, TypeOK
  <2>3. outcome' \in [Tickets -> Outcomes]
    BY <1>2 DEF ReceiveEnqueue, TypeOK, Outcomes
  <2> QED BY <1>1, <1>2, <2>1, <2>2, <2>3 DEF ReceiveEnqueue, TypeOK, ActiveTickets
<1>3. ASSUME NEW t \in Tickets, ReceiveCancel(t) PROVE TypeOK'
  <2>1. active' \in ActiveTickets
    <3>1. active \in ActiveTickets
      BY DEF TypeOK, ActiveTickets
    <3> QED BY <1>3, <3>1, ReservationTypes DEF ReceiveCancel
  <2>2. waiting' \subseteq Tickets /\ ahead' \subseteq waiting' \X waiting'
    BY <1>3 DEF ReceiveCancel, Leaves, TypeOK
  <2> QED BY <1>1, <1>3, <2>1, <2>2 DEF ReceiveCancel, TypeOK, ActiveTickets
<1>4. CASE ReceiveDrain
  BY <1>1, <1>4 DEF ReceiveDrain, TypeOK
<1>5. CASE ReceiveResume
  BY <1>1, <1>5 DEF ReceiveResume, TypeOK
<1> QED BY <1>2, <1>3, <1>4, <1>5 DEF Receive

LEMMA QueueTypes ==
  ASSUME TypeOK, NEW W \in SUBSET waiting, NEW t \in Tickets,
         Leaves(W) \/ Joins(W, t)
  PROVE  waiting' \subseteq Tickets /\ ahead' \subseteq waiting' \X waiting'
BY DEF TypeOK, Leaves, Joins

LEMMA PlaceTypes ==
  ASSUME TypeOK, NEW t \in Tickets, Place(t)
  PROVE  TypeOK'
<1> USE DEF httpVars, actorVars
<1>1. Present \subseteq waiting /\ waiting \subseteq Tickets
  BY DEF Present, TypeOK
<1>2. actor.pc \in {"idle", "placing"}
  BY DEF Place
<1>3. CASE Join(t)
  <2>1. waiting' \subseteq Tickets /\ ahead' \subseteq waiting' \X waiting'
    BY <1>1, <1>3, QueueTypes DEF Join
  <2>2. outcome' \in [Tickets -> Outcomes]
    BY <1>3, PassedOverType DEF Join, TypeOK
  <2> QED BY <1>3, <2>1, <2>2, ActorTypes DEF Place, Join, TypeOK
<1>4. ASSUME NEW s \in Present, PairWith(t, s)
      PROVE  TypeOK'
  <2>1. waiting' \subseteq Tickets /\ ahead' \subseteq waiting' \X waiting'
    BY <1>1, <1>4, QueueTypes DEF PairWith
  <2>2. actor' \in Actors
    BY <1>1, <1>2, <1>4, ActorTypes DEF PairWith
  <2> QED BY <1>4, <2>1, <2>2, PassedOverType DEF Place, PairWith, TypeOK
<1> QED BY <1>3, <1>4 DEF Place

LEMMA DeadlineTypes ==
  ASSUME TypeOK, DeadlineFires
  PROVE  TypeOK'
<1> USE DEF httpVars, actorVars
<1>1. Present \subseteq waiting /\ waiting \subseteq Tickets
  BY DEF Present, TypeOK
<1>2. actor.pc \in {"idle", "placing"}
  BY DEF DeadlineFires
<1>3. PICK t \in waiting : DropOldest(t) \/ (\E s \in Present : LastCall(t, s)) \/ SoloFallback(t)
  BY DEF DeadlineFires
<1>4. waiting' \subseteq Tickets /\ ahead' \subseteq waiting' \X waiting'
  BY <1>1, <1>3, QueueTypes DEF DropOldest, LastCall, SoloFallback
<1>5. outcome' \in [Tickets -> Outcomes]
  <2>1. CASE DropOldest(t)
    BY <2>1 DEF DropOldest, TypeOK, Outcomes
  <2>2. CASE outcome' = PassedOver
    BY <2>2, PassedOverType
  <2> QED BY <1>3, <2>1, <2>2 DEF LastCall, SoloFallback
<1>6. actor' \in Actors
  <2>1. t \in Tickets
    BY <1>1
  <2>2. ASSUME NEW s \in Present, LastCall(t, s) PROVE actor' \in Actors
    BY <1>1, <1>2, <2>1, <2>2, ActorTypes DEF LastCall
  <2>3. CASE SoloFallback(t)
    BY <1>2, <2>1, <2>3, ActorTypes DEF SoloFallback
  <2>4. CASE DropOldest(t)
    BY <2>4 DEF DropOldest, TypeOK
  <2> QED BY <1>3, <2>2, <2>3, <2>4
<1> QED BY <1>4, <1>5, <1>6 DEF DeadlineFires, TypeOK

LEMMA ResolveTypes ==
  ASSUME TypeOK, ResolveStep
  PROVE  TypeOK'
<1> USE DEF httpVars, actorVars
<1>1. InActor \subseteq Tickets
  BY ActorTypes
<1>2. ASSUME NEW how \in Outcomes, Unresolved(how) PROVE TypeOK'
  <2>1. outcome' \in [Tickets -> Outcomes]
    BY <1>2 DEF Unresolved, TypeOK
  <2>2. active' \in ActiveTickets
    BY <1>1, <1>2, ReservationTypes DEF Unresolved
  <2> QED BY <1>2, <2>1, <2>2, ActorTypes DEF Unresolved, TypeOK, ActiveTickets
<1>3. CASE GuardRejects \/ AtCapacity
  BY <1>2, <1>3 DEF GuardRejects, AtCapacity, Outcomes
<1>4. ASSUME NEW m \in Matches, Allocate(m) PROVE TypeOK'
  <2>1. matches' \in [Matches -> [phase : MatchPhases, tickets : SUBSET Tickets]]
    BY <1>1, <1>4 DEF Allocate, TypeOK, MatchPhases
  <2>2. actor \in [pc : {"loading"}, tickets : Resolvable, match : {NoMatch}, told : {0}]
    BY <1>4 DEF Allocate, TypeOK, Actors, Placing, IdleActor
  <2>3. actor' = [actor EXCEPT !.pc = "delivering", !.match = m]
    BY <1>4 DEF Allocate
  <2>4. actor' \in [pc : {"delivering"}, tickets : Resolvable, match : Matches, told : {0}]
    BY <2>2, <2>3
  <2>5. actor' \in [pc : {"delivering"}, tickets : Resolvable, match : Matches, told : 0..2]
    BY <2>4
  <2> QED BY <1>4, <2>1, <2>5 DEF Allocate, TypeOK, Actors
<1>5. CASE Deliver
  <2>1. actor \in [pc : {"delivering"}, tickets : Resolvable, match : Matches, told : 0..2]
    BY <1>5 DEF Deliver, TypeOK, Actors, Placing, IdleActor
  <2>2. Len(actor.tickets) \in 1..2 /\ actor.tickets \in Seq(Tickets)
    <3>1. CASE \E t \in Tickets : actor.tickets = <<t>>
      BY <3>1
    <3>2. CASE \E s, t \in Tickets : actor.tickets = <<s, t>>
      BY <3>2
    <3> QED BY <2>1, <3>1, <3>2 DEF Resolvable
  <2>3. actor' \in [pc : {"delivering"}, tickets : Resolvable, match : Matches, told : 0..2]
    BY <1>5, <2>1, <2>2 DEF Deliver
  <2>4. actor.tickets[actor.told + 1] \in Tickets
    BY <1>5, <2>1, <2>2 DEF Deliver
  <2>5. pending' \in [Users -> Tickets \cup {NoTicket}]
    BY <1>5, <2>4 DEF Deliver, TypeOK
  <2>6. outcome' \in [Tickets -> Outcomes]
    BY <1>5, <2>4 DEF Deliver, TypeOK, Outcomes
  <2> QED BY <1>5, <2>3, <2>5, <2>6 DEF Deliver, TypeOK, Actors
<1>6. CASE MarkMatched
  <2>1. actor.match \in Matches
    BY <1>6 DEF MarkMatched, TypeOK, Actors, Placing, IdleActor
  <2>2. active' \in ActiveTickets
    BY <1>1, <1>6, <2>1, ReservationTypes DEF MarkMatched
  <2> QED BY <1>6, <2>2, ActorTypes DEF MarkMatched, TypeOK, ActiveTickets
<1> QED BY <1>3, <1>4, <1>5, <1>6 DEF ResolveStep

LEMMA PhaseTypes ==
  ASSUME TypeOK, NEW m \in Matches, Fill(m) \/ Decide(m) \/ RemoveMatch(m)
  PROVE  TypeOK'
<1>1. PICK to \in MatchPhases : matches' = [matches EXCEPT ![m].phase = to]
  BY DEF Fill, Decide, RemoveMatch, MatchPhase, MatchPhases
<1>2. matches' \in [Matches -> [phase : MatchPhases, tickets : SUBSET Tickets]]
  BY <1>1 DEF TypeOK
<1>3. UNCHANGED <<httpVars, gone, pending, active, queue, actorVars, outcome>>
  BY DEF Fill, Decide, RemoveMatch, MatchPhase
<1> QED BY <1>2, <1>3 DEF TypeOK, httpVars, actorVars

LEMMA TypeStep == TypeOK /\ [Next]_vars => TypeOK'
<1> SUFFICES ASSUME TypeOK, [Next]_vars PROVE TypeOK'
  OBVIOUS
<1>1. ASSUME NEW u \in Users, NEW t \in Tickets, FreshCreate(u, t) PROVE TypeOK'
  BY <1>1, SearchTypes
<1>2. ASSUME NEW u \in Users, RepeatedCreate(u) \/ LoseFeed(u) \/ RegainFeed(u)
      PROVE  TypeOK'
  BY <1>2, UserTypes
<1>3. ASSUME NEW t \in Tickets, SendEnqueue(t) PROVE TypeOK'
  <2>1. OwnerOf[t] \in Users
    BY TicketsAssumption
  <2> QED BY <1>3, <2>1, SearchTypes
<1>4. ASSUME NEW t \in Tickets,
             CancelForget(t) \/ CancelAbandon(t) \/ CancelRelease(t) \/ CancelSend(t)
      PROVE  TypeOK'
  BY <1>4, CancelTypes
<1>5. ASSUME NEW t \in Tickets, Place(t) PROVE TypeOK'
  BY <1>5, PlaceTypes
<1>6. CASE RequestDrain \/ RequestResume
  BY <1>6, RequestTypes
<1>7. CASE Receive
  BY <1>7, ReceiveTypes
<1>8. CASE DeadlineFires
  BY <1>8, DeadlineTypes
<1>9. CASE ResolveStep
  BY <1>9, ResolveTypes
<1>10. ASSUME NEW m \in Matches, Fill(m) \/ Decide(m) \/ RemoveMatch(m) PROVE TypeOK'
  BY <1>10, PhaseTypes
<1>11. CASE UNCHANGED vars
  BY <1>11 DEF vars, TypeOK
<1> QED BY <1>1, <1>2, <1>3, <1>4, <1>5, <1>6, <1>7, <1>8, <1>9, <1>10, <1>11 DEF Next

LEMMA InitType == Init => TypeOK
<1> SUFFICES ASSUME Init PROVE TypeOK
  OBVIOUS
<1>1. NoReservation \in Reservations \cup {NoReservation} /\ IdleActor \in Actors
  BY DEF Actors
<1>2. /\ cancel \in [Tickets -> CancelSteps] /\ outcome \in [Tickets -> Outcomes]
      /\ pending \in [Users -> Tickets \cup {NoTicket}]
  BY DEF Init, CancelSteps, Outcomes
<1>3. active \in [Users -> Reservations \cup {NoReservation}]
  BY <1>1 DEF Init
<1>4. matches \in [Matches -> [phase : MatchPhases, tickets : SUBSET Tickets]]
  BY DEF Init, MatchPhases
<1>5. queue \in Seq(Commands)
  BY DEF Init
<1> QED BY <1>1, <1>2, <1>3, <1>4, <1>5 DEF Init, TypeOK

(* Tickets, reservations, commands, matches and the actor keep their types, *)
(* and the order of the queue is one of the tickets in it.                  *)
THEOREM TypeCorrect == Spec => []TypeOK
BY InitType, TypeStep, PTL DEF Spec


----------------------------------------------------------------------------
(* Where a ticket is: with its create handler, in the channel, in the       *)
(* queue, at the actor, or in the one match it was resolved into.           *)
EnqueuedOnce ==
    \A i, j \in DOMAIN queue : \A t \in Tickets :
        queue[i] = Enqueue(t) /\ queue[j] = Enqueue(t) => i = j

OnePlace ==
    /\ loading \subseteq minted /\ InQueue \subseteq minted
    /\ waiting \subseteq minted /\ InActor \subseteq minted
    /\ loading \cap InQueue = {} /\ loading \cap waiting = {} /\ loading \cap InActor = {}
    /\ InQueue \cap waiting = {} /\ InQueue \cap InActor = {} /\ waiting \cap InActor = {}
    /\ \A m \in Matches : matches[m].tickets \subseteq minted \ (loading \cup InQueue \cup waiting)
    /\ \A m \in Matches : \A t \in matches[m].tickets \cap InActor :
          actor.pc = "delivering" /\ actor.match = m
    /\ actor.pc = "delivering" => /\ InActor \subseteq matches[actor.match].tickets
                                  /\ matches[actor.match].phase # "free"
    /\ \A m \in Matches : matches[m].phase = "free" => matches[m].tickets = {}

LEMMA QueueAppend ==
  ASSUME TypeOK, EnqueuedOnce, NEW c \in Commands, queue' = Append(queue, c),
         \A t \in InQueue : c # Enqueue(t)
  PROVE  /\ InQueue' = InQueue \cup {t \in Tickets : c = Enqueue(t)}
         /\ EnqueuedOnce'
<1>1. ToSet(queue') = ToSet(queue) \cup {c}
  BY AppendSet DEF TypeOK
<1>2. InQueue' = InQueue \cup {t \in Tickets : c = Enqueue(t)}
  BY <1>1 DEF InQueue
<1>3. /\ Len(queue) \in Nat /\ DOMAIN queue = 1..Len(queue)
      /\ DOMAIN queue' = 1..(Len(queue) + 1) /\ queue'[Len(queue) + 1] = c
      /\ \A i \in 1..Len(queue) : queue'[i] = queue[i]
  BY DEF TypeOK
<1>4. ASSUME NEW i \in DOMAIN queue, NEW t \in Tickets, queue[i] = Enqueue(t)
      PROVE  c # Enqueue(t)
  BY <1>4 DEF InQueue, ToSet
<1>5. ASSUME NEW i \in DOMAIN queue', NEW j \in DOMAIN queue', NEW t \in Tickets,
             queue'[i] = Enqueue(t), queue'[j] = Enqueue(t)
      PROVE  i = j
  <2>1. CASE i \in DOMAIN queue /\ j \in DOMAIN queue
    BY <1>3, <1>5, <2>1 DEF EnqueuedOnce
  <2>2. CASE i \notin DOMAIN queue
    BY <1>3, <1>4, <1>5, <2>2
  <2>3. CASE j \notin DOMAIN queue
    BY <1>3, <1>4, <1>5, <2>3
  <2> QED BY <2>1, <2>2, <2>3
<1> QED BY <1>2, <1>5 DEF EnqueuedOnce

LEMMA QueueTail ==
  ASSUME TypeOK, EnqueuedOnce, queue # << >>, queue' = Tail(queue)
  PROVE  /\ InQueue' = InQueue \ {t \in Tickets : Head(queue) = Enqueue(t)}
         /\ EnqueuedOnce'
<1>1. ToSet(queue) = {Head(queue)} \cup ToSet(queue')
  BY TailSet DEF TypeOK
<1>2. /\ Len(queue) \in Nat \ {0} /\ DOMAIN queue = 1..Len(queue)
      /\ DOMAIN queue' = 1..(Len(queue) - 1) /\ Head(queue) = queue[1]
      /\ \A i \in 1..(Len(queue) - 1) : queue'[i] = queue[i + 1]
  BY DEF TypeOK
<1>3. ASSUME NEW i \in DOMAIN queue', NEW t \in Tickets, queue'[i] = Enqueue(t)
      PROVE  Head(queue) # Enqueue(t)
  <2>1. i + 1 \in DOMAIN queue /\ 1 \in DOMAIN queue /\ i + 1 # 1 /\ queue[i + 1] = Enqueue(t)
    BY <1>2, <1>3
  <2> QED BY <1>2, <2>1 DEF EnqueuedOnce
<1>4. \A t \in Tickets : Head(queue) = Enqueue(t) => Enqueue(t) \notin ToSet(queue')
  BY <1>3 DEF ToSet
<1>5. InQueue' = InQueue \ {t \in Tickets : Head(queue) = Enqueue(t)}
  BY <1>1, <1>4 DEF InQueue
<1>6. ASSUME NEW i \in DOMAIN queue', NEW j \in DOMAIN queue', NEW t \in Tickets,
             queue'[i] = Enqueue(t), queue'[j] = Enqueue(t)
      PROVE  i = j
  <2>1. i + 1 \in DOMAIN queue /\ queue[i + 1] = Enqueue(t)
    BY <1>2, <1>6
  <2>2. j + 1 \in DOMAIN queue /\ queue[j + 1] = Enqueue(t)
    BY <1>2, <1>6
  <2>3. i + 1 = j + 1
    BY <2>1, <2>2 DEF EnqueuedOnce
  <2> QED BY <1>2, <2>3
<1> QED BY <1>5, <1>6 DEF EnqueuedOnce

LEMMA ActorMoves ==
  ASSUME TypeOK
  PROVE  /\ \A t \in Tickets : actor' = [IdleActor EXCEPT !.pc = "placing", !.tickets = <<t>>]
               => actor'.pc = "placing" /\ InActor' = {t}
         /\ \A t \in Tickets : actor' = [actor EXCEPT !.pc = "loading", !.tickets = <<t>>]
               => actor'.pc = "loading" /\ InActor' = {t}
         /\ \A s, t \in Tickets : actor' = [actor EXCEPT !.pc = "loading", !.tickets = <<s, t>>]
               => actor'.pc = "loading" /\ InActor' = {s, t}
         /\ actor' = IdleActor => actor'.pc = "idle" /\ InActor' = {}
<1>1. ASSUME NEW T, actor' = [actor EXCEPT !.pc = "loading", !.tickets = T]
      PROVE  actor'.pc = "loading" /\ actor'.tickets = T
  <2>1. DOMAIN actor = {"pc", "tickets", "match", "told"}
    <3>1. CASE actor = IdleActor
      BY <3>1 DEF IdleActor
    <3>2. CASE actor # IdleActor
      BY <3>2 DEF TypeOK, Actors, Placing
    <3> QED BY <3>1, <3>2
  <2> QED BY <1>1, <2>1
<1>2. ASSUME NEW T, actor' = [IdleActor EXCEPT !.pc = "placing", !.tickets = T]
      PROVE  actor'.pc = "placing" /\ actor'.tickets = T
  BY <1>2 DEF IdleActor
<1>3. \A s, t \in Tickets : ToSet(<<t>>) = {t} /\ ToSet(<<s, t>>) = {s, t}
  BY DEF ToSet
<1>4. InActor' = ToSet(actor'.tickets)
  BY DEF InActor
<1>5. actor' = IdleActor => actor'.pc = "idle" /\ actor'.tickets = << >>
  BY DEF IdleActor
<1>6. ToSet(<< >>) = {}
  BY DEF ToSet
<1>7. ASSUME NEW t \in Tickets, actor' = [IdleActor EXCEPT !.pc = "placing", !.tickets = <<t>>]
      PROVE  actor'.pc = "placing" /\ InActor' = {t}
  BY <1>2, <1>3, <1>4, <1>7
<1>8. ASSUME NEW t \in Tickets, actor' = [actor EXCEPT !.pc = "loading", !.tickets = <<t>>]
      PROVE  actor'.pc = "loading" /\ InActor' = {t}
  BY <1>1, <1>3, <1>4, <1>8
<1>9. ASSUME NEW s \in Tickets, NEW t \in Tickets,
             actor' = [actor EXCEPT !.pc = "loading", !.tickets = <<s, t>>]
      PROVE  actor'.pc = "loading" /\ InActor' = {s, t}
  <2>1. actor'.pc = "loading" /\ actor'.tickets = <<s, t>>
    BY <1>1, <1>9
  <2>2. ToSet(<<s, t>>) = {s, t}
    BY <1>3
  <2>3. InActor' = ToSet(<<s, t>>)
    BY <1>4, <2>1
  <2> QED BY <2>1, <2>2, <2>3
<1>10. actor' = IdleActor => actor'.pc = "idle" /\ InActor' = {}
  BY <1>4, <1>5, <1>6
<1> QED BY <1>7, <1>8, <1>9, <1>10


Places == EnqueuedOnce /\ OnePlace

(* Steps that move no ticket.                                               *)
LEMMA NobodyMoves ==
  ASSUME TypeOK, Places, UNCHANGED <<minted, loading, queue, waiting, actor>>,
         \/ UNCHANGED matches
         \/ \E m \in Matches, to \in {"full", "decided", "removed"} :
               matches' = [matches EXCEPT ![m].phase = to]
  PROVE  Places'
<1>1. InQueue' = InQueue /\ InActor' = InActor /\ EnqueuedOnce'
  BY DEF InQueue, InActor, EnqueuedOnce, Places
<1>2. CASE UNCHANGED matches
  BY <1>1, <1>2 DEF Places, OnePlace
<1>3. ASSUME NEW m \in Matches, NEW to \in {"full", "decided", "removed"},
             matches' = [matches EXCEPT ![m].phase = to]
      PROVE  Places'
  <2>1. \A n \in Matches : /\ matches'[n].tickets = matches[n].tickets
                           /\ matches'[n].phase = "free" => matches[n].phase = "free"
                           /\ matches[n].phase # "free" => matches'[n].phase # "free"
    BY <1>3 DEF TypeOK
  <2>2. actor.pc = "delivering" => actor.match \in Matches
    BY DEF TypeOK, Actors, Placing, IdleActor
  <2> QED BY <1>1, <2>1, <2>2 DEF Places, OnePlace
<1> QED BY <1>2, <1>3

LEMMA RequestPlaces ==
  ASSUME TypeOK, Places, NEW c \in Commands, \A t \in Tickets : c # Enqueue(t),
         queue' = Append(queue, c), UNCHANGED <<minted, loading, waiting, actor, matches>>
  PROVE  Places'
<1>1. InQueue' = InQueue /\ EnqueuedOnce'
  <2>1. \A t \in InQueue : c # Enqueue(t)
    BY DEF InQueue
  <2> QED BY <2>1, QueueAppend DEF Places
<1>2. InActor' = InActor
  BY DEF InActor
<1> QED BY <1>1, <1>2 DEF Places, OnePlace

LEMMA SearchPlaces ==
  ASSUME TypeOK, Places, NEW u \in Users, NEW t \in Tickets,
         FreshCreate(u, t) \/ SendEnqueue(t)
  PROVE  Places'
<1> USE DEF Places
<1>1. CASE FreshCreate(u, t)
  <2>1. InQueue' = InQueue /\ InActor' = InActor /\ EnqueuedOnce'
    BY <1>1 DEF FreshCreate, InQueue, InActor, EnqueuedOnce, actorVars
  <2>2. /\ t \notin minted /\ minted' = minted \cup {t} /\ loading' = loading \cup {t}
        /\ UNCHANGED <<waiting, actor, matches>>
    BY <1>1 DEF FreshCreate, actorVars
  <2> QED BY <2>1, <2>2 DEF OnePlace
<1>2. CASE SendEnqueue(t)
  <2>1. t \in loading /\ loading' = loading \ {t} /\ queue' = Append(queue, Enqueue(t))
    BY <1>2 DEF SendEnqueue
  <2>2. \A s \in InQueue : Enqueue(t) # Enqueue(s)
    BY <2>1, CommandKinds DEF OnePlace, InQueue
  <2>3. InQueue' = InQueue \cup {t} /\ EnqueuedOnce'
    BY <2>1, <2>2, QueueAppend, CommandKinds
  <2>4. InActor' = InActor /\ UNCHANGED <<minted, waiting, actor, matches>>
    BY <1>2 DEF SendEnqueue, InActor, actorVars
  <2> QED BY <2>1, <2>3, <2>4 DEF OnePlace
<1> QED BY <1>1, <1>2

LEMMA ReceivePlaces ==
  ASSUME TypeOK, Places, Receive
  PROVE  Places'
<1> USE DEF Places
<1>1. queue # << >> /\ queue' = Tail(queue) /\ actor.pc = "idle" /\ InActor = {}
  BY ActorTypes DEF Receive, ReceiveEnqueue, ReceiveCancel, ReceiveDrain, ReceiveResume
<1>2. InQueue' = InQueue \ {t \in Tickets : Head(queue) = Enqueue(t)} /\ EnqueuedOnce'
  BY <1>1, QueueTail
<1>3. ASSUME NEW t \in Tickets, ReceiveEnqueue(t) PROVE Places'
  <2>1. InQueue' = InQueue \ {t}
    BY <1>2, <1>3, CommandKinds DEF ReceiveEnqueue
  <2>2. t \in InQueue
    BY <1>1, <1>3, TailSet DEF ReceiveEnqueue, InQueue, TypeOK
  <2>3. UNCHANGED <<minted, loading, waiting, matches>>
    BY <1>3 DEF ReceiveEnqueue, httpVars
  <2>4. (InActor' = {t} \/ InActor' = {}) /\ actor'.pc # "delivering"
    <3>1. CASE actor' = [IdleActor EXCEPT !.pc = "placing", !.tickets = <<t>>]
      BY <3>1, ActorMoves
    <3>2. CASE UNCHANGED actor
      BY <1>1, <3>2 DEF InActor
    <3> QED BY <1>3, <3>1, <3>2 DEF ReceiveEnqueue
  <2> QED BY <1>1, <1>2, <2>1, <2>2, <2>3, <2>4 DEF OnePlace
<1>4. ASSUME UNCHANGED <<minted, loading, matches, actor>>, waiting' \subseteq waiting,
             \A t \in Tickets : Head(queue) # Enqueue(t)
      PROVE  Places'
  <2>1. InQueue' = InQueue /\ InActor' = InActor
    BY <1>2, <1>4 DEF InQueue, InActor
  <2> QED BY <1>2, <1>4, <2>1 DEF OnePlace
<1>5. ASSUME NEW t \in Tickets, ReceiveCancel(t) PROVE Places'
  BY <1>4, <1>5, CommandKinds DEF ReceiveCancel, Leaves, httpVars
<1>6. CASE ReceiveDrain \/ ReceiveResume
  BY <1>4, <1>6, CommandKinds DEF ReceiveDrain, ReceiveResume, httpVars
<1> QED BY <1>3, <1>5, <1>6 DEF Receive

(* The actor takes the tickets T, of its own and of the queue, to resolve.  *)
LEMMA PairingPlaces ==
  ASSUME TypeOK, Places, actor.pc \in {"idle", "placing"},
         NEW T, T \subseteq waiting \cup InActor,
         InActor' = T, actor'.pc # "delivering",
         waiting' \subseteq (waiting \cup InActor) \ T,
         UNCHANGED <<minted, loading, queue, matches>>
  PROVE  Places'
<1> USE DEF Places
<1>1. InQueue' = InQueue /\ EnqueuedOnce'
  BY DEF InQueue, EnqueuedOnce
<1>2. \A m \in Matches : matches[m].tickets \cap (waiting \cup InActor) = {}
  BY DEF OnePlace
<1> QED BY <1>1, <1>2 DEF OnePlace

LEMMA PlacePlaces ==
  ASSUME TypeOK, Places, NEW t \in Tickets, Place(t)
  PROVE  Places'
<1>1. InActor = {t} /\ actor.pc = "placing"
  BY DEF Place, InActor, ToSet
<1>2. UNCHANGED <<minted, loading, queue, matches>>
  BY DEF Place, httpVars
<1>3. Present \subseteq waiting /\ waiting \subseteq Tickets /\ waiting \cap InActor = {}
  BY DEF Present, TypeOK, Places, OnePlace
<1>4. CASE Join(t)
  <2>1. waiting' \subseteq waiting \cup {t}
    BY <1>3, <1>4 DEF Join, Joins
  <2>2. InActor' = {} /\ actor'.pc # "delivering"
    BY <1>4, ActorMoves DEF Join
  <2> QED BY <1>1, <1>2, <2>1, <2>2, PairingPlaces
<1>5. ASSUME NEW s \in Present, PairWith(t, s) PROVE Places'
  <2>1. waiting' = Present \ {s}
    BY <1>5 DEF PairWith, Leaves
  <2>2. InActor' = {s, t} /\ actor'.pc # "delivering"
    BY <1>3, <1>5, ActorMoves DEF PairWith
  <2>3. waiting' \subseteq (waiting \cup InActor) \ {s, t}
    BY <1>1, <1>3, <2>1
  <2> QED BY <1>1, <1>2, <1>3, <2>2, <2>3, PairingPlaces
<1> QED BY <1>4, <1>5 DEF Place

LEMMA DeadlinePlaces ==
  ASSUME TypeOK, Places, DeadlineFires
  PROVE  Places'
<1>1. actor.pc = "idle" /\ InActor = {}
  BY ActorTypes DEF DeadlineFires
<1>2. UNCHANGED <<minted, loading, queue, matches>>
  BY DEF DeadlineFires, httpVars
<1>3. Present \subseteq waiting /\ waiting \subseteq Tickets
  BY DEF Present, TypeOK
<1>4. PICK t \in waiting : DropOldest(t) \/ (\E s \in Present : LastCall(t, s)) \/ SoloFallback(t)
  BY DEF DeadlineFires
<1>5. CASE DropOldest(t)
  <2>1. waiting' \subseteq waiting /\ InActor' = {} /\ actor' = actor
    BY <1>1, <1>5 DEF DropOldest, Leaves, InActor
  <2> QED BY <1>1, <1>2, <2>1, PairingPlaces
<1>6. ASSUME NEW s \in Present, LastCall(t, s) PROVE Places'
  <2>1. InActor' = {s, t} /\ actor'.pc # "delivering"
    BY <1>3, <1>6, ActorMoves DEF LastCall
  <2>2. waiting' \subseteq (waiting \cup InActor) \ {s, t}
    BY <1>3, <1>6 DEF LastCall, Leaves
  <2> QED BY <1>1, <1>2, <1>3, <2>1, <2>2, PairingPlaces
<1>7. CASE SoloFallback(t)
  <2>1. InActor' = {t} /\ actor'.pc # "delivering"
    BY <1>3, <1>7, ActorMoves DEF SoloFallback
  <2>2. waiting' \subseteq (waiting \cup InActor) \ {t}
    BY <1>3, <1>7 DEF SoloFallback, Leaves
  <2> QED BY <1>1, <1>2, <1>3, <2>1, <2>2, PairingPlaces
<1> QED BY <1>4, <1>5, <1>6, <1>7


(* Where the actor is delivering to.                                        *)
LEMMA DeliveringActor ==
  ASSUME TypeOK, actor.pc = "delivering"
  PROVE  /\ actor.match \in Matches /\ actor.told \in 0..2
         /\ Len(actor.tickets) \in 1..2 /\ actor.tickets \in Seq(Tickets)
<1>1. actor \in [pc : {"delivering"}, tickets : Resolvable, match : Matches, told : 0..2]
  BY DEF TypeOK, Actors, Placing, IdleActor
<1>2. Len(actor.tickets) \in 1..2 /\ actor.tickets \in Seq(Tickets)
  <2>1. CASE \E t \in Tickets : actor.tickets = <<t>>
    BY <2>1
  <2>2. CASE \E s, t \in Tickets : actor.tickets = <<s, t>>
    BY <2>2
  <2> QED BY <1>1, <2>1, <2>2 DEF Resolvable
<1> QED BY <1>1, <1>2

LEMMA ResolvePlaces ==
  ASSUME TypeOK, Places, ResolveStep
  PROVE  Places'
<1> USE DEF Places
<1>1. UNCHANGED <<minted, loading, queue, waiting>>
  BY DEF ResolveStep, GuardRejects, AtCapacity, Unresolved, Allocate, Deliver, MarkMatched,
         httpVars, actorVars
<1>2. InQueue' = InQueue /\ EnqueuedOnce'
  BY <1>1 DEF InQueue, EnqueuedOnce
<1>3. ASSUME actor' = IdleActor, UNCHANGED matches PROVE Places'
  <2>1. InActor' = {} /\ actor'.pc = "idle"
    BY <1>3, ActorMoves
  <2> QED BY <1>1, <1>2, <1>3, <2>1 DEF OnePlace
<1>4. CASE GuardRejects \/ AtCapacity \/ MarkMatched
  BY <1>3, <1>4 DEF GuardRejects, AtCapacity, Unresolved, MarkMatched
<1>5. ASSUME NEW m \in Matches, Allocate(m) PROVE Places'
  <2>1. actor.pc = "loading" /\ matches[m].phase = "free"
    BY <1>5 DEF Allocate
  <2>2. matches' = [matches EXCEPT ![m] = [phase |-> "filling", tickets |-> InActor]]
    BY <1>5 DEF Allocate
  <2>3. actor \in [pc : {"loading"}, tickets : Resolvable, match : {NoMatch}, told : {0}]
    BY <2>1 DEF TypeOK, Actors, Placing, IdleActor
  <2>4. actor'.pc = "delivering" /\ actor'.match = m /\ actor'.tickets = actor.tickets
    BY <1>5, <2>3 DEF Allocate
  <2>5. InActor' = InActor
    BY <2>4 DEF InActor
  <2>6. /\ matches'[m].phase = "filling" /\ matches'[m].tickets = InActor
        /\ \A n \in Matches : n # m => matches'[n] = matches[n]
    BY <2>2 DEF TypeOK
  <2>7. \A n \in Matches : matches[n].tickets \cap InActor = {}
    BY <2>1 DEF OnePlace
  <2> QED BY <1>1, <1>2, <2>4, <2>5, <2>6, <2>7 DEF OnePlace
<1>6. CASE Deliver
  <2>1. actor' = [actor EXCEPT !.told = actor.told + 1] /\ UNCHANGED matches
    BY <1>6 DEF Deliver
  <2>2. actor \in [pc : {"delivering"}, tickets : Resolvable, match : Matches, told : 0..2]
    BY <1>6 DEF Deliver, TypeOK, Actors, Placing, IdleActor
  <2>3. actor'.pc = actor.pc /\ actor'.match = actor.match /\ actor'.tickets = actor.tickets
    BY <2>1, <2>2
  <2>4. InActor' = InActor
    BY <2>3 DEF InActor
  <2> QED BY <1>1, <1>2, <2>1, <2>3, <2>4 DEF OnePlace
<1> QED BY <1>4, <1>5, <1>6 DEF ResolveStep

LEMMA PlacesStep == TypeOK /\ Places /\ [Next]_vars => Places'
<1> SUFFICES ASSUME TypeOK, Places, [Next]_vars PROVE Places'
  OBVIOUS
<1>1. ASSUME NEW u \in Users, NEW t \in Tickets, FreshCreate(u, t) PROVE Places'
  BY <1>1, SearchPlaces
<1>2. ASSUME NEW u \in Users, RepeatedCreate(u) \/ LoseFeed(u) \/ RegainFeed(u)
      PROVE  Places'
  BY <1>2, NobodyMoves DEF RepeatedCreate, LoseFeed, RegainFeed, httpVars, actorVars
<1>3. ASSUME NEW t \in Tickets, SendEnqueue(t) PROVE Places'
  <2>1. OwnerOf[t] \in Users
    BY TicketsAssumption
  <2> QED BY <1>3, <2>1, SearchPlaces
<1>4. ASSUME NEW t \in Tickets, CancelForget(t) \/ CancelAbandon(t) \/ CancelRelease(t)
      PROVE  Places'
  BY <1>4, NobodyMoves DEF CancelForget, CancelAbandon, CancelRelease, actorVars
<1>5. ASSUME NEW t \in Tickets, CancelSend(t) PROVE Places'
  BY <1>5, CommandKinds, RequestPlaces DEF CancelSend, actorVars
<1>6. CASE RequestDrain \/ RequestResume
  <2>1. \A t \in Tickets : Drain # Enqueue(t) /\ Resume # Enqueue(t)
    BY CommandKinds
  <2> QED BY <1>6, <2>1, RequestKinds, RequestPlaces
          DEF RequestDrain, RequestResume, httpVars, actorVars
<1>7. ASSUME NEW t \in Tickets, Place(t) PROVE Places'
  BY <1>7, PlacePlaces
<1>8. CASE Receive
  BY <1>8, ReceivePlaces
<1>9. CASE DeadlineFires
  BY <1>9, DeadlinePlaces
<1>10. CASE ResolveStep
  BY <1>10, ResolvePlaces
<1>11. ASSUME NEW m \in Matches, Fill(m) \/ Decide(m) \/ RemoveMatch(m) PROVE Places'
  <2>1. /\ \E to \in {"full", "decided", "removed"} : matches' = [matches EXCEPT ![m].phase = to]
        /\ UNCHANGED <<minted, loading, queue, waiting, actor>>
    BY <1>11 DEF Fill, Decide, RemoveMatch, MatchPhase, httpVars, actorVars
  <2> QED BY <2>1, NobodyMoves
<1>12. CASE UNCHANGED vars
  BY <1>12, NobodyMoves DEF vars
<1> QED BY <1>1, <1>2, <1>3, <1>4, <1>5, <1>6, <1>7, <1>8, <1>9, <1>10, <1>11, <1>12 DEF Next


----------------------------------------------------------------------------
(* Reservations.  While a ticket is held and its client has not begun to    *)
(* cancel it, it is its user's live ticket; while its match is undecided,   *)
(* it still is, with that match.                                            *)
Booking(t, m) == [ticket |-> t, match |-> m]

LEMMA BookingFields ==
  ASSUME NEW t, NEW m PROVE Booking(t, m).ticket = t /\ Booking(t, m).match = m
BY DEF Booking

Bookings ==
    /\ \A u \in Users : active[u].ticket # NoTicket => OwnerOf[active[u].ticket] = u
    /\ \A u \in Users : active[u].match # NoMatch =>
          active[u].ticket \in matches[active[u].match].tickets
    /\ \A t \in Tickets : Held(t) /\ cancel[t] = "none" =>
          active[OwnerOf[t]] = Booking(t, NoMatch)
    /\ \A m \in Matches : \A t \in matches[m].tickets :
          Undecided(m) /\ cancel[t] = "none" /\ t \notin InActor =>
          active[OwnerOf[t]] = Booking(t, m)
    /\ \A t \in Tickets : CancelTicket(t) \in ToSet(queue) => cancel[t] = "sent"

LEMMA ActiveShape ==
  ASSUME TypeOK, NEW u \in Users
  PROVE  /\ active[u] = NoReservation \/ (active[u].ticket \in Tickets /\ active[u].ticket # NoTicket)
         /\ active[u].match = NoMatch \/ (active[u].match \in Matches /\ active[u].match # NoMatch)
         /\ active[u] = Booking(active[u].ticket, active[u].match)
         /\ NoReservation.ticket = NoTicket /\ NoReservation.match = NoMatch
<1>1. active[u] \in Reservations \cup {NoReservation}
  BY DEF TypeOK
<1>2. NoMatch \notin Matches /\ NoTicket \notin Tickets
  BY TicketsAssumption, MatchesAssumption DEF NoMatch, Matches, NoTicket
<1> QED BY <1>1, <1>2 DEF Reservations, NoReservation, Booking

LEMMA PrunedOf ==
  ASSUME TypeOK, NEW u \in Users
  PROVE  \/ Pruned[u] = active[u]
         \/ /\ Pruned[u] = NoReservation
            /\ active[u].match # NoMatch /\ ~Undecided(active[u].match)
BY DEF Pruned

LEMMA ReservedOf ==
  ASSUME TypeOK, NEW u \in Users, NEW v \in Users, NEW t \in Tickets
  PROVE  ReserveOrExisting(u, t)[v] = IF v = u /\ Pruned[u] = NoReservation
                                      THEN Booking(t, NoMatch) ELSE Pruned[v]
<1>1. Pruned \in [Users -> Reservations \cup {NoReservation}]
  BY ReservationTypes DEF ActiveTickets
<1> QED BY <1>1 DEF ReserveOrExisting, Booking

(* Every step but a fresh create, an Enqueue received, an allocation and a  *)
(* mark only frees reservations, and only those nothing rests on.           *)
LEMMA FreeingKeeps ==
  ASSUME TypeOK, Places, Bookings,
         \A u \in Users :
            \/ active'[u] = active[u]
            \/ /\ active'[u] = NoReservation
               /\ \/ active[u].match # NoMatch /\ ~Undecided(active[u].match)
                  \/ cancel'[active[u].ticket] # "none"
                  \/ \E t \in Tickets : /\ t = active[u].ticket /\ ~Held(t)'
                                        /\ \A m \in Matches : t \notin matches[m].tickets,
         \A t \in Tickets : cancel'[t] = "none" => cancel[t] = "none",
         \A t \in Tickets : Held(t)' => Held(t),
         \A m \in Matches : /\ matches'[m].tickets = matches[m].tickets
                            /\ Undecided(m)' => Undecided(m),
         actor.pc = "delivering" => InActor' = InActor,
         \A t \in Tickets : CancelTicket(t) \in ToSet(queue') => cancel'[t] = "sent"
  PROVE  Bookings'
<1>1. ASSUME NEW u \in Users, active'[u].ticket # NoTicket PROVE OwnerOf[active'[u].ticket] = u
  BY <1>1, ActiveShape DEF Bookings
<1>2. ASSUME NEW u \in Users, active'[u].match # NoMatch
      PROVE  active'[u].ticket \in matches'[active'[u].match].tickets
  <2>1. active'[u] = active[u] /\ active[u].match \in Matches
    BY <1>2, ActiveShape
  <2> QED BY <1>2, <2>1 DEF Bookings
<1>3. ASSUME NEW t \in Tickets, Held(t)', cancel'[t] = "none"
      PROVE  active'[OwnerOf[t]] = Booking(t, NoMatch)
  <2>1. active[OwnerOf[t]] = Booking(t, NoMatch) /\ OwnerOf[t] \in Users
    BY <1>3, TicketsAssumption DEF Bookings
  <2>2. active[OwnerOf[t]].ticket = t /\ active[OwnerOf[t]].match = NoMatch
    BY <2>1 DEF Booking
  <2> QED BY <1>3, <2>1, <2>2
<1>4. ASSUME NEW m \in Matches, NEW t \in matches'[m].tickets,
             Undecided(m)', cancel'[t] = "none", t \notin InActor'
      PROVE  active'[OwnerOf[t]] = Booking(t, m)
  <2>1. t \in matches[m].tickets /\ t \in Tickets
    BY DEF TypeOK
  <2>2. t \notin InActor
    BY <1>4, <2>1 DEF Places, OnePlace
  <2>3. active[OwnerOf[t]] = Booking(t, m) /\ OwnerOf[t] \in Users
    BY <1>4, <2>1, <2>2, TicketsAssumption DEF Bookings
  <2>4. active[OwnerOf[t]].ticket = t /\ active[OwnerOf[t]].match = m
    BY <2>3 DEF Booking
  <2> QED BY <1>4, <2>1, <2>3, <2>4
<1> QED BY <1>1, <1>2, <1>3, <1>4 DEF Bookings


LEMMA ReservingKeeps ==
  ASSUME TypeOK, Places, Bookings, NEW t \in Tickets, NEW u \in Users, u = OwnerOf[t],
         active' = ReserveOrExisting(u, t),
         \A s \in Tickets : Held(s)' => Held(s) \/ (s = t /\ Pruned[u] = NoReservation),
         UNCHANGED <<cancel, matches>>, InActor \subseteq InActor',
         \A s \in Tickets : CancelTicket(s) \in ToSet(queue') => CancelTicket(s) \in ToSet(queue)
  PROVE  Bookings'
<1>0. \A m \in Matches : Undecided(m)' <=> Undecided(m)
  BY DEF Undecided
<1>1. ASSUME NEW v \in Users
      PROVE  active'[v] = IF v = u /\ Pruned[u] = NoReservation THEN Booking(t, NoMatch) ELSE Pruned[v]
  BY ReservedOf
<1>2. ASSUME NEW v \in Users, NEW s \in Tickets, NEW m \in Matches \cup {NoMatch},
             active[v] = Booking(s, m), m = NoMatch \/ Undecided(m)
      PROVE  active'[v] = active[v]
  <2>1. active[v].ticket = s /\ active[v].match = m
    BY <1>2 DEF Booking
  <2>2. Pruned[v] = active[v]
    BY <1>2, <2>1, PrunedOf
  <2>3. active[v] # NoReservation
    BY <2>1, ActiveShape, TicketsAssumption DEF NoTicket
  <2> QED BY <1>1, <2>2, <2>3
<1>3. ASSUME NEW v \in Users, active'[v].ticket # NoTicket PROVE OwnerOf[active'[v].ticket] = v
  <2>1. Booking(t, NoMatch).ticket = t
    BY DEF Booking
  <2> QED BY <1>1, <1>3, <2>1, PrunedOf, ActiveShape DEF Bookings
<1>4. ASSUME NEW v \in Users, active'[v].match # NoMatch
      PROVE  active'[v].ticket \in matches'[active'[v].match].tickets
  <2>1. Booking(t, NoMatch).match = NoMatch
    BY DEF Booking
  <2> QED BY <1>1, <1>4, <2>1, PrunedOf, ActiveShape DEF Bookings
<1>5. ASSUME NEW s \in Tickets, Held(s)', cancel'[s] = "none"
      PROVE  active'[OwnerOf[s]] = Booking(s, NoMatch)
  <2>1. CASE Held(s)
    BY <1>2, <1>5, <2>1, TicketsAssumption DEF Bookings
  <2>2. CASE s = t /\ Pruned[u] = NoReservation
    BY <1>1, <2>2
  <2> QED BY <1>5, <2>1, <2>2
<1>6. ASSUME NEW m \in Matches, NEW s \in matches'[m].tickets,
             Undecided(m)', cancel'[s] = "none", s \notin InActor'
      PROVE  active'[OwnerOf[s]] = Booking(s, m)
  <2>1. s \in matches[m].tickets /\ s \in Tickets /\ s \notin InActor
    BY <1>6 DEF TypeOK
  <2>2. active[OwnerOf[s]] = Booking(s, m) /\ OwnerOf[s] \in Users
    BY <1>0, <1>6, <2>1, TicketsAssumption DEF Bookings
  <2> QED BY <1>0, <1>2, <1>6, <2>1, <2>2
<1> QED BY <1>3, <1>4, <1>5, <1>6 DEF Bookings

LEMMA AllocateKeeps ==
  ASSUME TypeOK, Places, Bookings, NEW m \in Matches, Allocate(m)
  PROVE  Bookings'
<1>1. UNCHANGED <<loading, cancel, queue, waiting, active>>
  BY DEF Allocate, httpVars
<1>2. actor \in [pc : {"loading"}, tickets : Resolvable, match : {NoMatch}, told : {0}]
  BY DEF Allocate, TypeOK, Actors, Placing, IdleActor
<1>3. actor'.tickets = actor.tickets
  BY <1>2 DEF Allocate
<1>4. InActor' = InActor /\ InQueue' = InQueue
  BY <1>1, <1>3 DEF InActor, InQueue
<1>5. \A t \in Tickets : Held(t)' => Held(t)
  BY <1>1, <1>4 DEF Held
<1>6. /\ matches'[m].tickets = InActor /\ matches[m].phase = "free"
      /\ \A n \in Matches : n # m => matches'[n] = matches[n]
  BY DEF Allocate, TypeOK
<1>7. \A n \in Matches : n # m => (Undecided(n)' <=> Undecided(n))
  BY <1>6 DEF Undecided
<1>8. matches[m].tickets = {}
  BY <1>6 DEF Places, OnePlace
<1>9. ASSUME NEW u \in Users, active'[u].match # NoMatch
      PROVE  active'[u].ticket \in matches'[active'[u].match].tickets
  BY <1>1, <1>6, <1>8, <1>9, ActiveShape DEF Bookings
<1>10. ASSUME NEW n \in Matches, NEW t \in matches'[n].tickets,
              Undecided(n)', cancel'[t] = "none", t \notin InActor'
       PROVE  active'[OwnerOf[t]] = Booking(t, n)
  BY <1>1, <1>4, <1>6, <1>7, <1>10 DEF Bookings
<1> QED BY <1>1, <1>5, <1>9, <1>10 DEF Bookings

LEMMA MarkKeeps ==
  ASSUME TypeOK, Places, Bookings, MarkMatched
  PROVE  Bookings'
<1>1. UNCHANGED <<loading, cancel, queue, waiting, matches>>
  BY DEF MarkMatched, httpVars
<1>2. InActor' = {} /\ InQueue' = InQueue
  BY <1>1, ActorMoves DEF MarkMatched, InQueue
<1>3. /\ actor.pc = "delivering" /\ actor.match \in Matches
      /\ InActor \subseteq matches[actor.match].tickets
  BY DeliveringActor DEF MarkMatched, Places, OnePlace
<1>4. ASSUME NEW u \in Users
      PROVE  /\ active[u].ticket \in InActor => active'[u] = Booking(active[u].ticket, actor.match)
             /\ active[u].ticket \notin InActor => active'[u] = active[u]
  <2>1. active'[u] = IF active[u].ticket \in InActor
                     THEN [active[u] EXCEPT !.match = actor.match] ELSE active[u]
    BY DEF MarkMatched, Marked
  <2>2. active[u] = Booking(active[u].ticket, active[u].match)
    BY ActiveShape
  <2>3. [active[u] EXCEPT !.match = actor.match] = Booking(active[u].ticket, actor.match)
    BY <2>2 DEF Booking
  <2> QED BY <2>1, <2>3
<1>5. \A m \in Matches : Undecided(m)' <=> Undecided(m)
  BY <1>1 DEF Undecided
<1>6. ASSUME NEW u \in Users
      PROVE  /\ active'[u].ticket = active[u].ticket
             /\ active[u].ticket \in InActor => active'[u].match = actor.match
  <2>1. /\ Booking(active[u].ticket, actor.match).ticket = active[u].ticket
        /\ Booking(active[u].ticket, actor.match).match = actor.match
    BY DEF Booking
  <2> QED BY <1>4, <2>1
<1>7. ASSUME NEW u \in Users, active'[u].ticket # NoTicket PROVE OwnerOf[active'[u].ticket] = u
  BY <1>6, <1>7 DEF Bookings
<1>8. ASSUME NEW u \in Users, active'[u].match # NoMatch
      PROVE  active'[u].ticket \in matches'[active'[u].match].tickets
  BY <1>1, <1>3, <1>4, <1>6, <1>8 DEF Bookings
<1>9. ASSUME NEW t \in Tickets, Held(t)', cancel'[t] = "none"
      PROVE  active'[OwnerOf[t]] = Booking(t, NoMatch)
  <2>1. Held(t) /\ t \notin InActor
    BY <1>1, <1>2, <1>9 DEF Held, Places, OnePlace
  <2>2. active[OwnerOf[t]] = Booking(t, NoMatch) /\ OwnerOf[t] \in Users
    BY <1>1, <1>9, <2>1, TicketsAssumption DEF Bookings
  <2>3. active[OwnerOf[t]].ticket = t
    BY <2>2 DEF Booking
  <2> QED BY <1>4, <2>1, <2>2, <2>3
<1>10. ASSUME NEW m \in Matches, NEW t \in matches'[m].tickets,
              Undecided(m)', cancel'[t] = "none", t \notin InActor'
       PROVE  active'[OwnerOf[t]] = Booking(t, m)
  <2>1. t \in matches[m].tickets /\ t \in Tickets /\ OwnerOf[t] \in Users /\ Undecided(m)
    BY <1>1, <1>5, <1>10, TicketsAssumption DEF TypeOK
  <2>2. CASE t \in InActor
    <3>1. actor.match = m
      BY <2>1, <2>2 DEF Places, OnePlace
    <3>2. active[OwnerOf[t]] = Booking(t, NoMatch)
      BY <1>1, <1>10, <2>1, <2>2 DEF Bookings, Held
    <3>3. active[OwnerOf[t]].ticket = t
      BY <3>2 DEF Booking
    <3> QED BY <1>4, <2>1, <2>2, <3>1, <3>3
  <2>3. CASE t \notin InActor
    <3>1. active[OwnerOf[t]] = Booking(t, m)
      BY <1>1, <1>10, <2>1, <2>3 DEF Bookings
    <3>2. active[OwnerOf[t]].ticket = t
      BY <3>1 DEF Booking
    <3> QED BY <1>4, <2>1, <2>3, <3>1, <3>2
  <2> QED BY <2>2, <2>3
<1> QED BY <1>1, <1>7, <1>8, <1>9, <1>10 DEF Bookings


(* A placement or a deadline moves tickets between the queue and the actor. *)
LEMMA ActorTakes ==
  ASSUME TypeOK, (\E t \in Tickets : Place(t)) \/ DeadlineFires
  PROVE  /\ waiting' \cup InActor' \subseteq waiting \cup InActor
         /\ actor.pc # "delivering"
         /\ UNCHANGED <<minted, loading, cancel, pending, active, queue, matches>>
<1>1. Present \subseteq waiting /\ waiting \subseteq Tickets
  BY DEF Present, TypeOK
<1>2. CASE DeadlineFires
  <2>1. PICK t \in waiting : DropOldest(t) \/ (\E s \in Present : LastCall(t, s)) \/ SoloFallback(t)
    BY <1>2 DEF DeadlineFires
  <2>2. ASSUME DropOldest(t) PROVE waiting' \cup InActor' \subseteq waiting \cup InActor
    BY <2>2 DEF DropOldest, Leaves, InActor
  <2>3. ASSUME NEW s \in Present, LastCall(t, s)
        PROVE  waiting' \cup InActor' \subseteq waiting \cup InActor
    <3>1. InActor' = {s, t}
      BY <1>1, <2>3, ActorMoves DEF LastCall
    <3> QED BY <1>1, <2>3, <3>1 DEF LastCall, Leaves
  <2>4. ASSUME SoloFallback(t) PROVE waiting' \cup InActor' \subseteq waiting \cup InActor
    <3>1. InActor' = {t}
      BY <1>1, <2>4, ActorMoves DEF SoloFallback
    <3> QED BY <1>1, <2>4, <3>1 DEF SoloFallback, Leaves
  <2>5. waiting' \cup InActor' \subseteq waiting \cup InActor
    BY <2>1, <2>2, <2>3, <2>4
  <2> QED BY <1>2, <2>5 DEF DeadlineFires, httpVars
<1>3. ASSUME NEW t \in Tickets, Place(t)
      PROVE  /\ waiting' \cup InActor' \subseteq waiting \cup InActor
             /\ actor.pc # "delivering"
             /\ UNCHANGED <<minted, loading, cancel, pending, active, queue, matches>>
  <2>1. InActor = {t}
    BY <1>3 DEF Place, InActor, ToSet
  <2>2. ASSUME Join(t) PROVE waiting' \cup InActor' \subseteq waiting \cup InActor
    <3>1. InActor' = {}
      BY <2>2, ActorMoves DEF Join
    <3> QED BY <1>1, <2>1, <2>2, <3>1 DEF Join, Joins
  <2>3. ASSUME NEW s \in Present, PairWith(t, s)
        PROVE  waiting' \cup InActor' \subseteq waiting \cup InActor
    <3>1. InActor' = {s, t}
      BY <1>1, <2>3, ActorMoves DEF PairWith
    <3> QED BY <1>1, <2>1, <2>3, <3>1 DEF PairWith, Leaves
  <2>4. waiting' \cup InActor' \subseteq waiting \cup InActor
    BY <1>3, <2>2, <2>3 DEF Place
  <2> QED BY <1>3, <2>4 DEF Place, httpVars
<1> QED BY <1>2, <1>3

LEMMA SamePlaces ==
  ASSUME UNCHANGED <<loading, queue, waiting, actor>>
  PROVE  /\ InActor' = InActor /\ InQueue' = InQueue
         /\ \A t \in Tickets : Held(t)' <=> Held(t)
BY DEF InActor, InQueue, Held

LEMMA SameMatches ==
  ASSUME UNCHANGED matches
  PROVE  \A m \in Matches : /\ matches'[m].tickets = matches[m].tickets
                            /\ Undecided(m)' => Undecided(m)
BY DEF Undecided

LEMMA UserBookings ==
  ASSUME TypeOK, Places, Bookings, NEW u \in Users,
         RepeatedCreate(u) \/ LoseFeed(u) \/ RegainFeed(u)
  PROVE  Bookings'
<1>1. UNCHANGED <<loading, queue, waiting, actor, matches>>
  BY DEF RepeatedCreate, LoseFeed, RegainFeed, httpVars, actorVars
<1>2. \A s \in Tickets : CancelTicket(s) \in ToSet(queue') => cancel[s] = "sent"
  BY <1>1 DEF Bookings
<1>3. CASE RepeatedCreate(u)
  <2>1. active' = Pruned /\ UNCHANGED cancel
    BY <1>3 DEF RepeatedCreate
  <2> QED BY <1>1, <1>2, <2>1, PrunedOf, SamePlaces, SameMatches, FreeingKeeps
<1>4. CASE LoseFeed(u) \/ RegainFeed(u)
  <2>1. UNCHANGED <<active, cancel>>
    BY <1>4 DEF LoseFeed, RegainFeed, httpVars
  <2> QED BY <1>1, <1>2, <2>1, SamePlaces, SameMatches, FreeingKeeps
<1> QED BY <1>3, <1>4

LEMMA CancelBookings ==
  ASSUME TypeOK, Places, Bookings, NEW t \in Tickets,
         CancelForget(t) \/ CancelAbandon(t) \/ CancelRelease(t)
  PROVE  Bookings'
<1>1. UNCHANGED <<loading, queue, waiting, actor, matches>>
  BY DEF CancelForget, CancelAbandon, CancelRelease, actorVars
<1>2. \A s \in Tickets : CancelTicket(s) \in ToSet(queue') => cancel[s] = "sent"
  BY <1>1 DEF Bookings
<1>3. ASSUME cancel[t] # "sent", NEW to \in CancelSteps \ {"none"},
             cancel' = [cancel EXCEPT ![t] = to],
             \A v \in Users : active'[v] = active[v] \/ (active'[v] = NoReservation /\ active[v].ticket = t)
      PROVE  Bookings'
  <2>1. cancel'[t] # "none" /\ \A s \in Tickets : s # t => cancel'[s] = cancel[s]
    BY <1>3 DEF TypeOK
  <2>2. \A s \in Tickets : CancelTicket(s) \in ToSet(queue') => cancel'[s] = "sent"
    BY <1>2, <1>3, <2>1
  <2>3. \A s \in Tickets : cancel'[s] = "none" => cancel[s] = "none"
    BY <2>1
  <2>4. \A v \in Users : active'[v] = active[v]
            \/ (active'[v] = NoReservation /\ cancel'[active[v].ticket] # "none")
    BY <1>3, <2>1
  <2> QED BY <1>1, <2>2, <2>3, <2>4, SamePlaces, SameMatches, FreeingKeeps
<1>4. CASE CancelForget(t)
  BY <1>3, <1>4 DEF CancelForget, CancelSteps
<1>5. CASE CancelAbandon(t)
  BY <1>3, <1>5 DEF CancelAbandon, CancelSteps, Removed
<1>6. CASE CancelRelease(t)
  BY <1>3, <1>6 DEF CancelRelease, CancelSteps, RemovedQueued
<1> QED BY <1>4, <1>5, <1>6


LEMMA QueueBookings ==
  ASSUME TypeOK, Places, Bookings, NEW c \in Commands, queue' = Append(queue, c),
         UNCHANGED <<waiting, actor, matches, active>>,
         \A t \in Tickets : cancel'[t] = "none" => cancel[t] = "none",
         \A t \in Tickets : cancel[t] = "sent" => cancel'[t] = "sent",
         \A t \in Tickets : c = CancelTicket(t) => cancel'[t] = "sent",
         \/ UNCHANGED loading /\ \A t \in Tickets : c # Enqueue(t)
         \/ \E t \in loading : c = Enqueue(t) /\ loading' = loading \ {t}
  PROVE  Bookings'
<1>1. ToSet(queue') = ToSet(queue) \cup {c}
  BY AppendSet DEF TypeOK
<1>2. \A t \in Tickets : CancelTicket(t) \in ToSet(queue') => cancel'[t] = "sent"
  BY <1>1 DEF Bookings
<1>3. InActor' = InActor
  BY DEF InActor
<1>4. \A t \in Tickets : Held(t)' => Held(t)
  <2>1. InQueue' = {t \in Tickets : Enqueue(t) \in ToSet(queue) \/ Enqueue(t) = c}
    BY <1>1 DEF InQueue
  <2>2. \A s, t \in Tickets : Enqueue(s) = Enqueue(t) => s = t
    BY CommandKinds
  <2>3. loading \subseteq Tickets
    BY DEF TypeOK
  <2> QED BY <1>3, <2>1, <2>2, <2>3 DEF Held, InQueue
<1> QED BY <1>2, <1>3, <1>4, SameMatches, FreeingKeeps

LEMMA ReceiveBookings ==
  ASSUME TypeOK, Places, Bookings, Receive
  PROVE  Bookings'
<1>1. queue # << >> /\ queue' = Tail(queue) /\ actor.pc = "idle" /\ InActor = {}
  BY ActorTypes DEF Receive, ReceiveEnqueue, ReceiveCancel, ReceiveDrain, ReceiveResume
<1>2. UNCHANGED <<loading, cancel, matches>>
  BY DEF Receive, ReceiveEnqueue, ReceiveCancel, ReceiveDrain, ReceiveResume, httpVars
<1>3. /\ Head(queue) \in ToSet(queue) /\ ToSet(queue') \subseteq ToSet(queue)
      /\ InQueue' \subseteq InQueue
  BY <1>1, TailSet DEF InQueue, TypeOK
<1>4. \A t \in Tickets : CancelTicket(t) \in ToSet(queue') => cancel'[t] = "sent"
  BY <1>2, <1>3 DEF Bookings
<1>5. ASSUME NEW t \in Tickets, ReceiveEnqueue(t) PROVE Bookings'
  <2>1. t \in InQueue /\ OwnerOf[t] \in Users
    BY <1>3, <1>5, TicketsAssumption DEF ReceiveEnqueue, InQueue
  <2>2. InActor' \subseteq {t}
    <3>1. CASE actor' = [IdleActor EXCEPT !.pc = "placing", !.tickets = <<t>>]
      BY <3>1, ActorMoves
    <3>2. CASE UNCHANGED actor
      BY <1>1, <3>2 DEF InActor
    <3> QED BY <1>5, <3>1, <3>2 DEF ReceiveEnqueue
  <2>3. \A s \in Tickets : Held(s)' => Held(s)
    BY <1>2, <1>3, <1>5, <2>1, <2>2 DEF Held, ReceiveEnqueue
  <2>4. active' = ReserveOrExisting(OwnerOf[t], t)
    BY <1>5 DEF ReceiveEnqueue
  <2> QED BY <1>1, <1>2, <1>3, <2>1, <2>3, <2>4, ReservingKeeps
<1>6. ASSUME UNCHANGED actor, waiting' \subseteq waiting
      PROVE  \A t \in Tickets : Held(t)' => Held(t)
  BY <1>2, <1>3, <1>6 DEF Held, InActor
<1>7. ASSUME NEW t \in Tickets, ReceiveCancel(t) PROVE Bookings'
  <2>1. cancel'[t] = "sent"
    BY <1>2, <1>3, <1>7 DEF ReceiveCancel, Bookings
  <2>2. \A u \in Users : active'[u] = active[u]
            \/ (active'[u] = NoReservation /\ cancel'[active[u].ticket] # "none")
    BY <1>7, <2>1 DEF ReceiveCancel, RemovedQueued
  <2>3. \A s \in Tickets : Held(s)' => Held(s)
    BY <1>6, <1>7 DEF ReceiveCancel, Leaves
  <2> QED BY <1>1, <1>2, <1>4, <2>2, <2>3, SameMatches, FreeingKeeps
<1>8. CASE ReceiveDrain \/ ReceiveResume
  <2>1. UNCHANGED <<active, actor, waiting>>
    BY <1>8 DEF ReceiveDrain, ReceiveResume
  <2> QED BY <1>1, <1>2, <1>4, <1>6, <2>1, SameMatches, FreeingKeeps
<1> QED BY <1>5, <1>7, <1>8 DEF Receive

LEMMA UnresolvedKeeps ==
  ASSUME TypeOK, Places, Bookings, actor.pc = "loading", NEW how, Unresolved(how)
  PROVE  Bookings'
<1>1. UNCHANGED <<loading, cancel, queue, waiting, matches>> /\ active' = Removed(InActor)
  BY DEF Unresolved, httpVars
<1>2. InActor' = {} /\ InQueue' = InQueue
  BY <1>1, ActorMoves DEF Unresolved, InQueue
<1>3. \A t \in Tickets : Held(t)' => Held(t)
  BY <1>1, <1>2 DEF Held
<1>4. ASSUME NEW t \in InActor
      PROVE  t \in Tickets /\ ~Held(t)' /\ \A m \in Matches : t \notin matches[m].tickets
  BY <1>1, <1>2, ActorTypes DEF Held, Places, OnePlace
<1>5. \A u \in Users :
        \/ active'[u] = active[u]
        \/ /\ active'[u] = NoReservation
           /\ \E t \in Tickets : /\ t = active[u].ticket /\ ~Held(t)'
                                 /\ \A m \in Matches : t \notin matches[m].tickets
  BY <1>1, <1>4 DEF Removed
<1>6. \A t \in Tickets : CancelTicket(t) \in ToSet(queue') => cancel'[t] = "sent"
  BY <1>1 DEF Bookings
<1> QED BY <1>1, <1>3, <1>5, <1>6, SameMatches, FreeingKeeps

LEMMA ResolveBookings ==
  ASSUME TypeOK, Places, Bookings, ResolveStep
  PROVE  Bookings'
<1>1. CASE GuardRejects \/ AtCapacity
  BY <1>1, UnresolvedKeeps DEF GuardRejects, AtCapacity
<1>2. CASE Deliver
  <2>1. UNCHANGED <<loading, cancel, queue, waiting, matches, active>>
    BY <1>2 DEF Deliver, httpVars
  <2>2. actor \in [pc : {"delivering"}, tickets : Resolvable, match : Matches, told : 0..2]
    BY <1>2 DEF Deliver, TypeOK, Actors, Placing, IdleActor
  <2>3. InActor' = InActor
    BY <1>2, <2>2 DEF Deliver, InActor
  <2>4. \A t \in Tickets : Held(t)' => Held(t)
    BY <2>1, <2>3 DEF Held, InQueue
  <2>5. \A t \in Tickets : CancelTicket(t) \in ToSet(queue') => cancel'[t] = "sent"
    BY <2>1 DEF Bookings
  <2> QED BY <2>1, <2>3, <2>4, <2>5, SameMatches, FreeingKeeps
<1> QED BY <1>1, <1>2, AllocateKeeps, MarkKeeps DEF ResolveStep


LEMMA BookingsStep == TypeOK /\ Places /\ Bookings /\ [Next]_vars => Bookings'
<1> SUFFICES ASSUME TypeOK, Places, Bookings, [Next]_vars PROVE Bookings'
  OBVIOUS
<1>1. ASSUME NEW u \in Users, NEW t \in Tickets, FreshCreate(u, t) PROVE Bookings'
  <2>1. /\ u = OwnerOf[t] /\ active' = ReserveOrExisting(u, t) /\ Pruned[u] = NoReservation
        /\ loading' = loading \cup {t} /\ UNCHANGED <<cancel, queue, matches, waiting, actor>>
    BY <1>1 DEF FreshCreate, actorVars
  <2>2. InActor' = InActor /\ \A s \in Tickets : Held(s)' => Held(s) \/ s = t
    BY <2>1 DEF InActor, InQueue, Held
  <2> QED BY <2>1, <2>2, ReservingKeeps
<1>2. ASSUME NEW u \in Users, RepeatedCreate(u) \/ LoseFeed(u) \/ RegainFeed(u)
      PROVE  Bookings'
  BY <1>2, UserBookings
<1>3. ASSUME NEW t \in Tickets, SendEnqueue(t) PROVE Bookings'
  <2>1. /\ t \in loading /\ loading' = loading \ {t} /\ queue' = Append(queue, Enqueue(t))
        /\ UNCHANGED <<waiting, actor, matches, active, cancel>>
    BY <1>3 DEF SendEnqueue, actorVars
  <2>2. Enqueue(t) \in Commands /\ \A s \in Tickets : Enqueue(t) # CancelTicket(s)
    BY CommandKinds
  <2> QED BY <2>1, <2>2, QueueBookings
<1>4. ASSUME NEW t \in Tickets, CancelForget(t) \/ CancelAbandon(t) \/ CancelRelease(t)
      PROVE  Bookings'
  BY <1>4, CancelBookings
<1>5. ASSUME NEW t \in Tickets, CancelSend(t) PROVE Bookings'
  <2>1. /\ cancel[t] = "released" /\ cancel' = [cancel EXCEPT ![t] = "sent"]
        /\ queue' = Append(queue, CancelTicket(t))
        /\ UNCHANGED <<loading, waiting, actor, matches, active>>
    BY <1>5 DEF CancelSend, actorVars
  <2>2. /\ CancelTicket(t) \in Commands /\ \A s \in Tickets : CancelTicket(t) # Enqueue(s)
        /\ \A s \in Tickets : CancelTicket(t) = CancelTicket(s) => s = t
    BY CommandKinds
  <2>3. cancel'[t] = "sent" /\ \A s \in Tickets : s # t => cancel'[s] = cancel[s]
    BY <2>1 DEF TypeOK
  <2> QED BY <2>1, <2>2, <2>3, QueueBookings
<1>6. CASE RequestDrain \/ RequestResume
  <2>1. \A t \in Tickets : /\ Drain # Enqueue(t) /\ Resume # Enqueue(t)
                           /\ Drain # CancelTicket(t) /\ Resume # CancelTicket(t)
    BY CommandKinds
  <2>2. UNCHANGED <<loading, cancel, waiting, actor, matches, active>>
    BY <1>6 DEF RequestDrain, RequestResume, httpVars, actorVars
  <2>3. queue' = Append(queue, Drain) \/ queue' = Append(queue, Resume)
    BY <1>6 DEF RequestDrain, RequestResume
  <2> QED BY <2>1, <2>2, <2>3, RequestKinds, QueueBookings
<1>7. CASE (\E t \in Tickets : Place(t)) \/ DeadlineFires
  <2>1. /\ waiting' \cup InActor' \subseteq waiting \cup InActor /\ actor.pc # "delivering"
        /\ UNCHANGED <<loading, cancel, active, queue, matches>>
    BY <1>7, ActorTakes
  <2>2. \A t \in Tickets : Held(t)' => Held(t)
    BY <2>1 DEF Held, InQueue
  <2>3. \A t \in Tickets : CancelTicket(t) \in ToSet(queue') => cancel'[t] = "sent"
    BY <2>1 DEF Bookings
  <2> QED BY <2>1, <2>2, <2>3, SameMatches, FreeingKeeps
<1>8. CASE Receive
  BY <1>8, ReceiveBookings
<1>9. CASE ResolveStep
  BY <1>9, ResolveBookings
<1>10. ASSUME NEW m \in Matches, Fill(m) \/ Decide(m) \/ RemoveMatch(m) PROVE Bookings'
  <2>1. UNCHANGED <<loading, cancel, active, queue, waiting, actor>>
    BY <1>10 DEF Fill, Decide, RemoveMatch, MatchPhase, httpVars, actorVars
  <2>2. PICK to \in {"full", "decided", "removed"} : matches' = [matches EXCEPT ![m].phase = to]
    BY <1>10 DEF Fill, Decide, RemoveMatch, MatchPhase
  <2>3. to = "full" => matches[m].phase = "filling"
    BY <1>10, <2>2 DEF Fill, Decide, RemoveMatch, MatchPhase, TypeOK
  <2>4. \A n \in Matches : /\ matches'[n].tickets = matches[n].tickets
                           /\ Undecided(n)' => Undecided(n)
    BY <2>2, <2>3 DEF Undecided, TypeOK
  <2>5. \A t \in Tickets : CancelTicket(t) \in ToSet(queue') => cancel'[t] = "sent"
    BY <2>1 DEF Bookings
  <2> QED BY <2>1, <2>4, <2>5, SamePlaces, FreeingKeeps
<1>11. CASE UNCHANGED vars
  <2>1. UNCHANGED <<loading, cancel, active, queue, waiting, actor, matches>>
    BY <1>11 DEF vars
  <2>2. \A t \in Tickets : CancelTicket(t) \in ToSet(queue') => cancel'[t] = "sent"
    BY <2>1 DEF Bookings
  <2> QED BY <2>1, <2>2, SamePlaces, SameMatches, FreeingKeeps
<1> QED BY <1>1, <1>2, <1>3, <1>4, <1>5, <1>6, <1>7, <1>8, <1>9, <1>10, <1>11 DEF Next

Inv == TypeOK /\ Places /\ Bookings

LEMMA InitInv == Init => Inv
<1> SUFFICES ASSUME Init PROVE Inv
  OBVIOUS
<1>1. InQueue = {} /\ InActor = {}
  BY DEF Init, InQueue, InActor, IdleActor, ToSet
<1>2. EnqueuedOnce
  BY DEF Init, EnqueuedOnce
<1>3. \A m \in Matches : matches[m].tickets = {}
  BY DEF Init
<1>4. OnePlace
  BY <1>1, <1>3 DEF Init, OnePlace, IdleActor
<1>5. \A u \in Users : active[u].ticket = NoTicket /\ active[u].match = NoMatch
  BY DEF Init, NoReservation
<1>6. \A t \in Tickets : ~Held(t) /\ CancelTicket(t) \notin ToSet(queue)
  BY <1>1 DEF Init, Held, ToSet
<1>7. Bookings
  BY <1>3, <1>5, <1>6 DEF Bookings
<1> QED BY <1>2, <1>4, <1>7, InitType DEF Inv, Places

LEMMA InvStep == Inv /\ [Next]_vars => Inv'
BY TypeStep, PlacesStep, BookingsStep DEF Inv

----------------------------------------------------------------------------
LEMMA BookingsGiveOneFight == Inv => OneFightAtATime
<1> SUFFICES ASSUME Inv, NEW m \in Matches, NEW n \in Matches,
                    NEW s \in matches[m].tickets, NEW t \in matches[n].tickets,
                    m # n, Undecided(m), Undecided(n), OwnerOf[s] = OwnerOf[t],
                    cancel[s] = "none", cancel[t] = "none"
             PROVE  FALSE
  BY DEF OneFightAtATime
<1> USE DEF Inv
<1>1. s \in Tickets /\ t \in Tickets
  BY DEF TypeOK
<1>2. \A k \in Matches, r \in Tickets :
        r \in matches[k].tickets /\ Undecided(k) /\ cancel[r] = "none" /\ r \notin InActor
        => active[OwnerOf[r]].ticket = r /\ active[OwnerOf[r]].match = k
  BY BookingFields DEF Bookings
<1>3. \A r \in Tickets : r \in InActor /\ cancel[r] = "none"
        => active[OwnerOf[r]].ticket = r /\ active[OwnerOf[r]].match = NoMatch
  BY BookingFields DEF Bookings, Held
<1>4. NoMatch \notin Matches
  BY MatchesAssumption DEF NoMatch, Matches
<1>5. \A k \in Matches, r \in Tickets : r \in matches[k].tickets /\ r \in InActor => actor.match = k
  BY DEF Places, OnePlace
<1>6. CASE s \in InActor /\ t \in InActor
  BY <1>1, <1>5, <1>6
<1>7. CASE s \in InActor /\ t \notin InActor
  BY <1>1, <1>2, <1>3, <1>4, <1>7
<1>8. CASE s \notin InActor /\ t \in InActor
  BY <1>1, <1>2, <1>3, <1>4, <1>8
<1>9. CASE s \notin InActor /\ t \notin InActor
  BY <1>1, <1>2, <1>9
<1> QED BY <1>6, <1>7, <1>8, <1>9

(* One fight at a time: two undecided matches seat a user only if one of    *)
(* the two tickets was cancelled.                                           *)
THEOREM OneFight == Spec => []OneFightAtATime
BY InitInv, InvStep, BookingsGiveOneFight, PTL DEF Spec

----------------------------------------------------------------------------
(* A ticket never just disappears: it is held, or its fate was decided, or  *)
(* its own client cancelled it.                                             *)
NoTicketLost ==
    \A t \in minted : Held(t) \/ outcome[t] # "none" \/ cancel[t] # "none"

(* What becomes of a ticket that is held no longer.                         *)
Fate(t) == outcome[t] # "none" \/ cancel[t] # "none"

Told ==
    actor.pc = "delivering" =>
        \A i \in 1..actor.told : outcome[actor.tickets[i]] # "none"

LEMMA FatesKept ==
  ASSUME NoTicketLost,
         \A t \in Tickets : Fate(t) => Fate(t)',
         \A t \in minted' : t \in minted \/ Held(t)',
         \A t \in minted' : Held(t) => Held(t)' \/ Fate(t)',
         minted' \subseteq Tickets
  PROVE  NoTicketLost'
BY DEF NoTicketLost, Fate

(* Whoever they leave behind is dropped.                                    *)
LEMMA ActorDrops ==
  ASSUME TypeOK, (\E t \in Tickets : Place(t)) \/ DeadlineFires
  PROVE  /\ actor'.pc # "delivering"
         /\ \A s \in waiting \cup InActor : s \in waiting' \cup InActor' \/ outcome'[s] = "dropped"
         /\ \A s \in Tickets : outcome'[s] = outcome[s] \/ outcome'[s] = "dropped"
<1> DEFINE Goal == /\ actor'.pc # "delivering"
                   /\ \A s \in waiting \cup InActor :
                         s \in waiting' \cup InActor' \/ outcome'[s] = "dropped"
                   /\ \A s \in Tickets : outcome'[s] = outcome[s] \/ outcome'[s] = "dropped"
<1>1. Present \subseteq waiting /\ waiting \subseteq Tickets
  BY DEF Present, TypeOK
<1>2. outcome' = PassedOver =>
        /\ \A s \in waiting : s \in Present \/ outcome'[s] = "dropped"
        /\ \A s \in Tickets : outcome'[s] = outcome[s] \/ outcome'[s] = "dropped"
  BY <1>1 DEF PassedOver
<1>3. ASSUME NEW t \in Tickets, Place(t) PROVE Goal
  <2>1. InActor = {t}
    BY <1>3 DEF Place, InActor, ToSet
  <2>2. CASE Join(t)
    <3>1. actor'.pc = "idle"
      BY <2>2, ActorMoves DEF Join
    <3>2. waiting' = (IF draining THEN waiting ELSE Present) \cup {t}
      BY <2>2 DEF Join, Joins
    <3> QED BY <1>1, <1>2, <2>1, <2>2, <3>1, <3>2 DEF Join
  <2>3. ASSUME NEW s \in Present, PairWith(t, s) PROVE Goal
    <3>1. actor'.pc = "loading" /\ InActor' = {s, t}
      BY <1>1, <2>3, ActorMoves DEF PairWith
    <3>2. waiting' = Present \ {s} /\ outcome' = PassedOver
      BY <2>3 DEF PairWith, Leaves
    <3> QED BY <1>1, <1>2, <2>1, <3>1, <3>2
  <2> QED BY <1>3, <2>2, <2>3 DEF Place
<1>4. CASE DeadlineFires
  <2>1. actor.pc = "idle" /\ InActor = {}
    BY <1>4, ActorTypes DEF DeadlineFires
  <2>2. PICK t \in waiting : DropOldest(t) \/ (\E s \in Present : LastCall(t, s)) \/ SoloFallback(t)
    BY <1>4 DEF DeadlineFires
  <2>3. CASE DropOldest(t)
    <3>1. waiting' = waiting \ {t} /\ outcome' = [outcome EXCEPT ![t] = "dropped"] /\ actor' = actor
      BY <2>3 DEF DropOldest, Leaves
    <3> QED BY <1>1, <2>1, <3>1 DEF TypeOK
  <2>4. ASSUME NEW s \in Present, LastCall(t, s) PROVE Goal
    <3>1. actor'.pc = "loading" /\ InActor' = {s, t}
      BY <1>1, <2>4, ActorMoves DEF LastCall
    <3>2. waiting' = Present \ {s, t} /\ outcome' = PassedOver
      BY <2>4 DEF LastCall, Leaves
    <3> QED BY <1>1, <1>2, <2>1, <3>1, <3>2
  <2>5. CASE SoloFallback(t)
    <3>1. actor'.pc = "loading" /\ InActor' = {t}
      BY <1>1, <2>5, ActorMoves DEF SoloFallback
    <3>2. waiting' = Present \ {t} /\ outcome' = PassedOver
      BY <2>5 DEF SoloFallback, Leaves
    <3> QED BY <1>1, <1>2, <2>1, <3>1, <3>2
  <2> QED BY <2>2, <2>3, <2>4, <2>5
<1> QED BY <1>3, <1>4

LEMMA FateStep == Inv /\ NoTicketLost /\ Told /\ [Next]_vars => NoTicketLost' /\ Told'
<1> SUFFICES ASSUME Inv, NoTicketLost, Told, [Next]_vars PROVE NoTicketLost' /\ Told'
  OBVIOUS
<1> USE DEF Inv
<1>0. TypeOK' /\ minted' \subseteq Tickets
  BY TypeStep DEF TypeOK
<1>1. ASSUME NEW u \in Users, NEW t \in Tickets, FreshCreate(u, t) PROVE NoTicketLost' /\ Told'
  <2>1. /\ minted' = minted \cup {t} /\ loading' = loading \cup {t}
        /\ UNCHANGED <<cancel, queue, waiting, actor, outcome>>
    BY <1>1 DEF FreshCreate, actorVars
  <2>2. \A s \in Tickets : (Held(s) => Held(s)') /\ (Fate(s) => Fate(s)') /\ Held(t)'
    BY <2>1 DEF Held, InQueue, InActor, Fate
  <2> QED BY <1>0, <2>1, <2>2, FatesKept DEF Told
<1>2. ASSUME UNCHANGED <<minted, cancel, loading, queue, waiting, actor, outcome>>
      PROVE  NoTicketLost' /\ Told'
  BY <1>2 DEF NoTicketLost, Held, InQueue, InActor, Told
<1>3. ASSUME NEW u \in Users, RepeatedCreate(u) \/ LoseFeed(u) \/ RegainFeed(u)
      PROVE  NoTicketLost' /\ Told'
  BY <1>2, <1>3 DEF RepeatedCreate, LoseFeed, RegainFeed, httpVars, actorVars
<1>4. ASSUME NEW t \in Tickets,
             CancelForget(t) \/ CancelAbandon(t) \/ CancelRelease(t) \/ CancelSend(t)
      PROVE  NoTicketLost' /\ Told'
  <2>1. UNCHANGED <<minted, loading, waiting, actor, outcome>>
    BY <1>4 DEF CancelForget, CancelAbandon, CancelRelease, CancelSend, actorVars
  <2>2. \A s \in Tickets : cancel[s] # "none" => cancel'[s] # "none"
    BY <1>4 DEF CancelForget, CancelAbandon, CancelRelease, CancelSend, TypeOK
  <2>3. ToSet(queue) \subseteq ToSet(queue')
    <3>1. queue' = queue \/ queue' = Append(queue, CancelTicket(t))
      BY <1>4 DEF CancelForget, CancelAbandon, CancelRelease, CancelSend
    <3>2. queue \in Seq(Commands) /\ CancelTicket(t) \in Commands
      BY CommandKinds DEF TypeOK
    <3>3. ToSet(Append(queue, CancelTicket(t))) = ToSet(queue) \cup {CancelTicket(t)}
      BY <3>2, AppendSet
    <3> QED BY <3>1, <3>3
  <2>4. \A s \in Tickets : (Held(s) => Held(s)') /\ (Fate(s) => Fate(s)')
    BY <2>1, <2>2, <2>3 DEF Held, InQueue, InActor, Fate
  <2> QED BY <1>0, <2>1, <2>4, FatesKept DEF Told
<1>5. ASSUME NEW t \in Tickets, SendEnqueue(t) PROVE NoTicketLost' /\ Told'
  <2>1. /\ loading' = loading \ {t} /\ queue' = Append(queue, Enqueue(t))
        /\ UNCHANGED <<minted, cancel, waiting, actor, outcome>>
    BY <1>5 DEF SendEnqueue, actorVars
  <2>2. ToSet(queue') = ToSet(queue) \cup {Enqueue(t)}
    BY <2>1, AppendSet, CommandKinds DEF TypeOK
  <2>3. \A s \in Tickets : (Held(s) => Held(s)') /\ (Fate(s) => Fate(s)')
    BY <2>1, <2>2 DEF Held, InQueue, InActor, Fate
  <2> QED BY <1>0, <2>1, <2>3, FatesKept DEF Told
<1>6. CASE RequestDrain \/ RequestResume
  <2>1. UNCHANGED <<minted, cancel, loading, waiting, actor, outcome>>
    BY <1>6 DEF RequestDrain, RequestResume, httpVars, actorVars
  <2>2. ToSet(queue) \subseteq ToSet(queue')
    <3>1. queue' = Append(queue, Drain) \/ queue' = Append(queue, Resume)
      BY <1>6 DEF RequestDrain, RequestResume
    <3>2. queue \in Seq(Commands) /\ Drain \in Commands /\ Resume \in Commands
      BY RequestKinds DEF TypeOK
    <3>3. /\ ToSet(Append(queue, Drain)) = ToSet(queue) \cup {Drain}
          /\ ToSet(Append(queue, Resume)) = ToSet(queue) \cup {Resume}
      BY <3>2, AppendSet
    <3> QED BY <3>1, <3>3
  <2>3. \A s \in Tickets : (Held(s) => Held(s)') /\ (Fate(s) => Fate(s)')
    BY <2>1, <2>2 DEF Held, InQueue, InActor, Fate
  <2> QED BY <1>0, <2>1, <2>3, FatesKept DEF Told
<1>7. CASE Receive
  <2>1. /\ queue # << >> /\ queue' = Tail(queue) /\ actor.pc = "idle" /\ InActor = {}
        /\ UNCHANGED <<minted, cancel, loading>>
    BY <1>7, ActorTypes
       DEF Receive, ReceiveEnqueue, ReceiveCancel, ReceiveDrain, ReceiveResume, httpVars
  <2>2. InQueue' = InQueue \ {t \in Tickets : Head(queue) = Enqueue(t)}
    BY <2>1, QueueTail DEF Places
  <2>3. ASSUME NEW t \in Tickets, ReceiveEnqueue(t) PROVE NoTicketLost' /\ Told'
    <3>1. InQueue' = InQueue \ {t}
      BY <2>2, <2>3, CommandKinds DEF ReceiveEnqueue
    <3>2. /\ waiting' = waiting
          /\ \/ /\ actor' = [IdleActor EXCEPT !.pc = "placing", !.tickets = <<t>>]
                /\ outcome' = outcome
             \/ actor' = actor /\ outcome' = [outcome EXCEPT ![t] = "duplicate"]
      BY <2>3 DEF ReceiveEnqueue
    <3>3. actor'.pc # "delivering" /\ (InActor' = {t} \/ outcome'[t] # "none")
      BY <2>1, <3>2, ActorMoves DEF TypeOK
    <3>4. \A s \in Tickets : outcome[s] # "none" => outcome'[s] # "none"
      BY <3>2 DEF TypeOK
    <3>5. \A s \in Tickets : Held(s) => Held(s)' \/ Fate(s)'
      BY <2>1, <3>1, <3>2, <3>3 DEF Held, Fate
    <3>6. \A s \in Tickets : Fate(s) => Fate(s)'
      BY <2>1, <3>4 DEF Fate
    <3> QED BY <1>0, <2>1, <3>3, <3>5, <3>6, FatesKept DEF Told
  <2>4. ASSUME NEW t \in Tickets, ReceiveCancel(t) PROVE NoTicketLost' /\ Told'
    <3>1. cancel'[t] = "sent"
      BY <2>1, <2>4, TailSet DEF ReceiveCancel, Bookings, TypeOK
    <3>2. waiting' = waiting \ {t} /\ UNCHANGED <<actor, outcome>>
      BY <2>4 DEF ReceiveCancel, Leaves
    <3>3. InQueue' = InQueue
      BY <2>2, <2>4, CommandKinds DEF ReceiveCancel, InQueue
    <3>4. \A s \in Tickets : Held(s) => Held(s)' \/ Fate(s)'
      BY <2>1, <3>1, <3>2, <3>3 DEF Held, Fate, InActor
    <3>5. \A s \in Tickets : Fate(s) => Fate(s)'
      BY <2>1, <3>2 DEF Fate
    <3> QED BY <1>0, <2>1, <3>2, <3>4, <3>5, FatesKept DEF Told
  <2>5. CASE ReceiveDrain \/ ReceiveResume
    <3>1. UNCHANGED <<actor, outcome, waiting>> /\ Head(queue) \in {Drain, Resume}
      BY <2>5 DEF ReceiveDrain, ReceiveResume
    <3>2. InQueue' = InQueue
      BY <2>2, <3>1, CommandKinds DEF InQueue
    <3>3. \A s \in Tickets : (Held(s) => Held(s)') /\ (Fate(s) => Fate(s)')
      BY <2>1, <3>1, <3>2 DEF Held, InActor, Fate
    <3> QED BY <1>0, <2>1, <3>1, <3>3, FatesKept DEF Told
  <2> QED BY <1>7, <2>3, <2>4, <2>5 DEF Receive
<1>8. CASE (\E t \in Tickets : Place(t)) \/ DeadlineFires
  <2>1. /\ UNCHANGED <<minted, cancel, loading, queue>>
        /\ actor'.pc # "delivering"
        /\ \A s \in waiting \cup InActor : s \in waiting' \cup InActor' \/ outcome'[s] = "dropped"
        /\ \A s \in Tickets : outcome'[s] = outcome[s] \/ outcome'[s] = "dropped"
    BY <1>8, ActorTakes, ActorDrops
  <2>2. \A s \in Tickets : Held(s) => Held(s)' \/ Fate(s)'
    BY <2>1 DEF Held, Fate, InQueue
  <2>3. \A s \in Tickets : Fate(s) => Fate(s)'
    BY <2>1 DEF Fate
  <2> QED BY <1>0, <2>1, <2>2, <2>3, FatesKept DEF Told
<1>9. ASSUME NEW how \in Outcomes \ {"none"}, Unresolved(how) PROVE NoTicketLost' /\ Told'
  <2>1. UNCHANGED <<minted, cancel, loading, queue, waiting>> /\ actor' = IdleActor
    BY <1>9 DEF Unresolved, httpVars
  <2>2. \A s \in Tickets : outcome'[s] = IF s \in InActor THEN how ELSE outcome[s]
    BY <1>9 DEF Unresolved
  <2>3. \A s \in Tickets : Held(s) => Held(s)' \/ Fate(s)'
    BY <2>1, <2>2 DEF Held, Fate, InQueue
  <2>4. \A s \in Tickets : Fate(s) => Fate(s)'
    BY <2>1, <2>2 DEF Fate
  <2> QED BY <1>0, <2>1, <2>3, <2>4, FatesKept DEF Told, IdleActor
<1>10. CASE GuardRejects \/ AtCapacity
  BY <1>9, <1>10 DEF GuardRejects, AtCapacity, Outcomes
<1>11. ASSUME NEW m \in Matches, Allocate(m) PROVE NoTicketLost' /\ Told'
  <2>1. actor \in [pc : {"loading"}, tickets : Resolvable, match : {NoMatch}, told : {0}]
    BY <1>11 DEF Allocate, TypeOK, Actors, Placing, IdleActor
  <2>2. actor'.tickets = actor.tickets /\ actor'.told = 0
    BY <1>11, <2>1 DEF Allocate
  <2>3. UNCHANGED <<minted, cancel, loading, queue, waiting, outcome>>
    BY <1>11 DEF Allocate, httpVars
  <2>4. \A s \in Tickets : (Held(s) => Held(s)') /\ (Fate(s) => Fate(s)')
    BY <2>2, <2>3 DEF Held, InQueue, InActor, Fate
  <2>5. Told'
    BY <2>2 DEF Told
  <2> QED BY <1>0, <2>3, <2>4, <2>5, FatesKept
<1>12. CASE Deliver
  <2>1. /\ actor.pc = "delivering" /\ actor.told < Len(actor.tickets)
        /\ actor' = [actor EXCEPT !.told = actor.told + 1]
        /\ outcome' = [outcome EXCEPT ![actor.tickets[actor.told + 1]] = "succeeded"]
        /\ UNCHANGED <<minted, cancel, loading, queue, waiting>>
    BY <1>12 DEF Deliver, httpVars
  <2>2. /\ actor \in [pc : {"delivering"}, tickets : Resolvable, match : Matches, told : 0..2]
        /\ actor.told \in 0..2 /\ Len(actor.tickets) \in 1..2 /\ actor.tickets \in Seq(Tickets)
    BY <2>1, DeliveringActor DEF TypeOK, Actors, Placing, IdleActor
  <2>3. actor'.tickets = actor.tickets /\ actor'.told = actor.told + 1 /\ actor'.pc = "delivering"
    BY <2>1, <2>2
  <2>4. \A i \in 1..(actor.told + 1) : actor.tickets[i] \in Tickets
    BY <2>1, <2>2
  <2>5. \A s \in Tickets : outcome[s] # "none" => outcome'[s] # "none"
    BY <2>1, <2>2 DEF TypeOK
  <2>6. outcome'[actor.tickets[actor.told + 1]] # "none"
    BY <2>1, <2>2, <2>4 DEF TypeOK
  <2>7. Told'
    <3>1. ASSUME NEW i \in 1..(actor.told + 1) PROVE outcome'[actor.tickets[i]] # "none"
      <4>1. CASE i = actor.told + 1
        BY <2>6, <4>1
      <4>2. CASE i # actor.told + 1
        <5>1. i \in 1..actor.told
          BY <2>2, <4>2
        <5> QED BY <2>1, <2>4, <2>5, <5>1 DEF Told
      <4> QED BY <4>1, <4>2
    <3> QED BY <2>3, <3>1 DEF Told
  <2>8. \A s \in Tickets : (Held(s) => Held(s)') /\ (Fate(s) => Fate(s)')
    BY <2>1, <2>3, <2>5 DEF Held, InQueue, InActor, Fate
  <2> QED BY <1>0, <2>1, <2>7, <2>8, FatesKept
<1>13. CASE MarkMatched
  <2>1. /\ actor.pc = "delivering" /\ actor.told = Len(actor.tickets) /\ actor' = IdleActor
        /\ UNCHANGED <<minted, cancel, loading, queue, waiting, outcome>>
    BY <1>13 DEF MarkMatched, httpVars
  <2>2. actor.tickets \in Seq(Tickets)
    BY <2>1, DeliveringActor
  <2>3. \A s \in InActor : outcome[s] # "none"
    BY <2>1, <2>2 DEF Told, InActor, ToSet
  <2>4. \A s \in Tickets : Held(s) => Held(s)' \/ Fate(s)'
    BY <2>1, <2>3 DEF Held, InQueue, Fate
  <2>5. \A s \in Tickets : Fate(s) => Fate(s)'
    BY <2>1 DEF Fate
  <2> QED BY <1>0, <2>1, <2>4, <2>5, FatesKept DEF Told, IdleActor
<1>14. ASSUME NEW m \in Matches, Fill(m) \/ Decide(m) \/ RemoveMatch(m)
       PROVE  NoTicketLost' /\ Told'
  BY <1>2, <1>14 DEF Fill, Decide, RemoveMatch, MatchPhase, httpVars, actorVars
<1>15. CASE UNCHANGED vars
  BY <1>2, <1>15 DEF vars
<1>16. CASE ResolveStep
  BY <1>10, <1>11, <1>12, <1>13, <1>16 DEF ResolveStep
<1> QED BY <1>1, <1>3, <1>4, <1>5, <1>6, <1>7, <1>8, <1>14, <1>15, <1>16 DEF Next

(* A ticket never just disappears: it is held, or its fate was decided, or  *)
(* its own client cancelled it.                                             *)
THEOREM TicketsAreKept == Spec => []NoTicketLost
<1>1. Init => Inv /\ NoTicketLost /\ Told
  BY InitInv DEF Init, NoTicketLost, Told, IdleActor
<1>2. Inv /\ NoTicketLost /\ Told /\ [Next]_vars => Inv' /\ NoTicketLost' /\ Told'
  BY InvStep, FateStep
<1> QED BY <1>1, <1>2, PTL DEF Spec


----------------------------------------------------------------------------
(* ReservationHeldOrDropped, of the tickets rather than of the users.       *)
Awaited ==
    \A u \in Users, t \in Tickets :
        active[u].ticket = t /\ active[u].match = NoMatch => Held(t) \/ outcome[t] = "dropped"

LEMMA AwaitedMeans == TypeOK => (Awaited <=> ReservationHeldOrDropped)
<1> SUFFICES ASSUME TypeOK PROVE Awaited <=> ReservationHeldOrDropped
  OBVIOUS
<1>1. \A u \in Users : active[u].ticket # NoTicket <=> active[u].ticket \in Tickets
  BY ActiveShape, TicketsAssumption DEF NoTicket
<1> QED BY <1>1 DEF Awaited, ReservationHeldOrDropped

LEMMA AwaitedKept ==
  ASSUME Awaited,
         \A u \in Users, t \in Tickets : active'[u].ticket = t /\ active'[u].match = NoMatch =>
            \/ Held(t)'
            \/ /\ active[u].ticket = t /\ active[u].match = NoMatch
               /\ Held(t) => Held(t)' \/ outcome'[t] = "dropped"
               /\ outcome[t] = "dropped" => outcome'[t] = "dropped" \/ Held(t)'
  PROVE  Awaited'
BY DEF Awaited

(* A step that frees reservations at most, and lets go of no ticket.        *)
LEMMA AwaitedFreed ==
  ASSUME TypeOK, Awaited, UNCHANGED outcome,
         \A u \in Users : active'[u] = active[u] \/ active'[u] = NoReservation,
         \A t \in Tickets : Held(t) => Held(t)'
  PROVE  Awaited'
<1>1. \A t \in Tickets : NoReservation.ticket # t
  BY TicketsAssumption DEF NoReservation, NoTicket
<1> QED BY <1>1, AwaitedKept

(* A step that adds commands to the channel, if it changes it at all.       *)
LEMMA CommandsAdd ==
  ASSUME TypeOK, UNCHANGED <<loading, waiting, actor>>,
         \/ UNCHANGED queue
         \/ \E c \in Commands : queue' = Append(queue, c)
  PROVE  \A t \in Tickets : Held(t) => Held(t)'
<1>1. ToSet(queue) \subseteq ToSet(queue')
  <2>1. CASE UNCHANGED queue
    BY <2>1
  <2>2. ASSUME NEW c \in Commands, queue' = Append(queue, c)
        PROVE  ToSet(queue) \subseteq ToSet(queue')
    <3>1. ToSet(Append(queue, c)) = ToSet(queue) \cup {c}
      BY AppendSet DEF TypeOK
    <3> QED BY <2>2, <3>1
  <2> QED BY <2>1, <2>2
<1> QED BY <1>1 DEF Held, InQueue, InActor

LEMMA AwaitedStep == Inv /\ Awaited /\ [Next]_vars => Awaited'
<1> SUFFICES ASSUME Inv, Awaited, [Next]_vars PROVE Awaited'
  OBVIOUS
<1> USE DEF Inv
<1>0. Bookings' /\ TypeOK' /\ \A u \in Users : NoReservation.ticket \notin Tickets
  BY InvStep, TicketsAssumption DEF NoReservation, NoTicket
<1>1. ASSUME NEW u \in Users, NEW t \in Tickets, FreshCreate(u, t) PROVE Awaited'
  <2>1. /\ active' = ReserveOrExisting(u, t) /\ loading' = loading \cup {t}
        /\ UNCHANGED <<queue, waiting, actor, outcome>>
    BY <1>1 DEF FreshCreate, actorVars
  <2>2. \A s \in Tickets : (Held(s) => Held(s)') /\ Held(t)'
    BY <2>1 DEF Held, InQueue, InActor
  <2>3. \A v \in Users : \/ active'[v] = active[v] \/ active'[v] = NoReservation
                         \/ active'[v] = Booking(t, NoMatch)
    BY <2>1, ReservedOf, PrunedOf
  <2> QED BY <1>0, <2>1, <2>2, <2>3, AwaitedKept, BookingFields
<1>2. ASSUME NEW u \in Users, RepeatedCreate(u) \/ LoseFeed(u) \/ RegainFeed(u)
      PROVE  Awaited'
  <2>1. UNCHANGED <<loading, queue, waiting, actor, outcome>> /\ (active' = active \/ active' = Pruned)
    BY <1>2 DEF RepeatedCreate, LoseFeed, RegainFeed, httpVars, actorVars
  <2> QED BY <2>1, PrunedOf, SamePlaces, AwaitedFreed
<1>3. ASSUME NEW t \in Tickets, SendEnqueue(t) PROVE Awaited'
  <2>1. /\ loading' = loading \ {t} /\ queue' = Append(queue, Enqueue(t))
        /\ UNCHANGED <<waiting, actor, outcome, active>>
    BY <1>3 DEF SendEnqueue, actorVars
  <2>2. ToSet(queue') = ToSet(queue) \cup {Enqueue(t)}
    BY <2>1, AppendSet, CommandKinds DEF TypeOK
  <2>3. \A s \in Tickets : Held(s) => Held(s)'
    BY <2>1, <2>2 DEF Held, InQueue, InActor
  <2> QED BY <2>1, <2>3, AwaitedFreed
<1>4. ASSUME NEW t \in Tickets,
             CancelForget(t) \/ CancelAbandon(t) \/ CancelRelease(t) \/ CancelSend(t)
      PROVE  Awaited'
  <2>1. /\ UNCHANGED <<loading, waiting, actor, outcome>>
        /\ UNCHANGED queue \/ queue' = Append(queue, CancelTicket(t))
    BY <1>4 DEF CancelForget, CancelAbandon, CancelRelease, CancelSend, actorVars
  <2>2. \A s \in Tickets : Held(s) => Held(s)'
    BY <2>1, CommandsAdd, CommandKinds
  <2>3. \A u \in Users : active'[u] = active[u] \/ active'[u] = NoReservation
    BY <1>4 DEF CancelForget, CancelAbandon, CancelRelease, CancelSend, Removed, RemovedQueued
  <2> QED BY <2>1, <2>2, <2>3, AwaitedFreed
<1>5. CASE RequestDrain \/ RequestResume
  <2>1. /\ UNCHANGED <<loading, waiting, actor, outcome, active>>
        /\ queue' = Append(queue, Drain) \/ queue' = Append(queue, Resume)
    BY <1>5 DEF RequestDrain, RequestResume, httpVars, actorVars
  <2> QED BY <2>1, CommandsAdd, RequestKinds, AwaitedFreed
<1>6. CASE Receive
  <2>1. /\ queue # << >> /\ queue' = Tail(queue) /\ actor.pc = "idle" /\ InActor = {}
        /\ UNCHANGED loading
    BY <1>6, ActorTypes
       DEF Receive, ReceiveEnqueue, ReceiveCancel, ReceiveDrain, ReceiveResume, httpVars
  <2>2. InQueue' = InQueue \ {t \in Tickets : Head(queue) = Enqueue(t)}
    BY <2>1, QueueTail DEF Places
  <2>3. ASSUME NEW t \in Tickets, ReceiveEnqueue(t) PROVE Awaited'
    <3>1. InQueue' = InQueue \ {t} /\ OwnerOf[t] \in Users
      BY <2>2, <2>3, CommandKinds, TicketsAssumption DEF ReceiveEnqueue
    <3>2. waiting' = waiting /\ active' = ReserveOrExisting(OwnerOf[t], t)
      BY <2>3 DEF ReceiveEnqueue
    <3>3. \A v \in Users : \/ active'[v] = active[v] \/ active'[v] = NoReservation
                           \/ active'[v] = Booking(t, NoMatch)
      BY <3>1, <3>2, ReservedOf, PrunedOf
    <3>4. CASE actor' = [IdleActor EXCEPT !.pc = "placing", !.tickets = <<t>>] /\ UNCHANGED outcome
      <4>1. InActor' = {t}
        BY <3>4, ActorMoves
      <4>2. \A s \in Tickets : (Held(s) => Held(s)') /\ Held(t)'
        BY <2>1, <3>1, <3>2, <4>1 DEF Held
      <4> QED BY <1>0, <3>3, <3>4, <4>2, AwaitedKept, BookingFields
    <3>5. CASE /\ active'[OwnerOf[t]].ticket # t /\ UNCHANGED actor
               /\ outcome' = [outcome EXCEPT ![t] = "duplicate"]
      <4>1. \A u \in Users : active'[u].ticket # t
        BY <1>0, <3>5, TicketsAssumption DEF Bookings, NoTicket
      <4>2. \A s \in Tickets : s # t => (Held(s) => Held(s)') /\ outcome'[s] = outcome[s]
        BY <2>1, <3>1, <3>2, <3>5 DEF Held, InActor, TypeOK
      <4> QED BY <1>0, <3>3, <4>1, <4>2, AwaitedKept, BookingFields
    <3> QED BY <2>3, <3>2, <3>4, <3>5 DEF ReceiveEnqueue
  <2>4. ASSUME NEW t \in Tickets, ReceiveCancel(t) PROVE Awaited'
    <3>1. waiting' = waiting \ {t} /\ UNCHANGED <<actor, outcome>>
      BY <2>4 DEF ReceiveCancel, Leaves
    <3>2. InQueue' = InQueue
      BY <2>2, <2>4, CommandKinds DEF ReceiveCancel, InQueue
    <3>3. \A s \in Tickets : s # t \/ t \notin waiting => (Held(s) => Held(s)')
      BY <2>1, <3>1, <3>2 DEF Held, InActor
    <3>4. \A u \in Users : active'[u] = active[u] \/ active'[u] = NoReservation
      BY <2>4 DEF ReceiveCancel, RemovedQueued
    <3>5. t \in waiting =>
            \A u \in Users : ~(active'[u].ticket = t /\ active'[u].match = NoMatch)
      BY <1>0, <2>4 DEF ReceiveCancel, RemovedQueued
    <3> QED BY <1>0, <3>1, <3>3, <3>4, <3>5, AwaitedKept
  <2>5. CASE ReceiveDrain \/ ReceiveResume
    <3>1. UNCHANGED <<actor, outcome, waiting, active>> /\ Head(queue) \in {Drain, Resume}
      BY <2>5 DEF ReceiveDrain, ReceiveResume
    <3>2. InQueue' = InQueue
      BY <2>2, <3>1, CommandKinds DEF InQueue
    <3>3. \A s \in Tickets : Held(s) => Held(s)'
      BY <2>1, <3>1, <3>2 DEF Held, InActor
    <3> QED BY <3>1, <3>3, AwaitedFreed
  <2> QED BY <1>6, <2>3, <2>4, <2>5 DEF Receive
<1>7. CASE (\E t \in Tickets : Place(t)) \/ DeadlineFires
  <2>1. /\ UNCHANGED <<active, loading, queue>>
        /\ \A s \in waiting \cup InActor : s \in waiting' \cup InActor' \/ outcome'[s] = "dropped"
        /\ \A s \in Tickets : outcome'[s] = outcome[s] \/ outcome'[s] = "dropped"
    BY <1>7, ActorTakes, ActorDrops
  <2>2. \A s \in Tickets : Held(s) => Held(s)' \/ outcome'[s] = "dropped"
    BY <2>1 DEF Held, InQueue
  <2> QED BY <2>1, <2>2, AwaitedKept
<1>8. ASSUME NEW how, Unresolved(how) PROVE Awaited'
  <2>1. UNCHANGED <<loading, queue, waiting>> /\ active' = Removed(InActor)
    BY <1>8 DEF Unresolved, httpVars
  <2>2. \A s \in Tickets : s \notin InActor => outcome'[s] = outcome[s] /\ (Held(s) => Held(s)')
    BY <1>8, <2>1 DEF Unresolved, Held, InQueue
  <2>3. \A u \in Users : \/ active'[u] = NoReservation
                         \/ active'[u] = active[u] /\ active[u].ticket \notin InActor
    BY <2>1 DEF Removed
  <2> QED BY <1>0, <2>2, <2>3, AwaitedKept
<1>9. CASE ResolveStep
  <2>1. CASE GuardRejects \/ AtCapacity
    BY <1>8, <2>1 DEF GuardRejects, AtCapacity
  <2>2. ASSUME UNCHANGED <<loading, queue, waiting, active>>, actor'.tickets = actor.tickets,
               \A s \in Tickets : s \in InActor \/ outcome'[s] = outcome[s]
        PROVE  Awaited'
    <3>1. InActor' = InActor /\ \A s \in Tickets : Held(s) => Held(s)'
      BY <2>2 DEF InActor, InQueue, Held
    <3>2. \A s \in InActor : Held(s)'
      BY <3>1 DEF Held
    <3> QED BY <2>2, <3>1, <3>2, AwaitedKept
  <2>3. ASSUME NEW m \in Matches, Allocate(m) PROVE Awaited'
    <3>1. actor \in [pc : {"loading"}, tickets : Resolvable, match : {NoMatch}, told : {0}]
      BY <2>3 DEF Allocate, TypeOK, Actors, Placing, IdleActor
    <3> QED BY <2>2, <2>3, <3>1 DEF Allocate, httpVars
  <2>4. CASE Deliver
    <3>1. /\ actor \in [pc : {"delivering"}, tickets : Resolvable, match : Matches, told : 0..2]
          /\ actor.told \in 0..2 /\ Len(actor.tickets) \in 1..2 /\ actor.tickets \in Seq(Tickets)
      BY <2>4, DeliveringActor DEF Deliver, TypeOK, Actors, Placing, IdleActor
    <3>2. actor.tickets[actor.told + 1] \in InActor
      BY <2>4, <3>1 DEF Deliver, InActor, ToSet
    <3>3. \A s \in Tickets : s \in InActor \/ outcome'[s] = outcome[s]
      BY <2>4, <3>2 DEF Deliver, TypeOK
    <3>4. actor'.tickets = actor.tickets
      BY <2>4, <3>1 DEF Deliver
    <3> QED BY <2>2, <2>4, <3>3, <3>4 DEF Deliver, httpVars
  <2>5. CASE MarkMatched
    <3>1. UNCHANGED <<loading, queue, waiting, outcome>> /\ actor.match # NoMatch
      BY <2>5, DeliveringActor, MatchesAssumption DEF MarkMatched, httpVars, NoMatch, Matches
    <3>2. active' = Marked(InActor, actor.match)
      BY <2>5 DEF MarkMatched
    <3>3. \A u \in Users : active[u].ticket \in InActor => active'[u].match = actor.match
      <4>1. ASSUME NEW u \in Users, active[u].ticket \in InActor
            PROVE  active'[u].match = actor.match
        <5>1. active'[u] = [active[u] EXCEPT !.match = actor.match]
          BY <3>2, <4>1 DEF Marked
        <5>2. active[u] = Booking(active[u].ticket, active[u].match)
          BY ActiveShape
        <5> QED BY <5>1, <5>2 DEF Booking
      <4> QED BY <4>1
    <3>4. \A u \in Users : active[u].ticket \notin InActor => active'[u] = active[u]
      BY <3>2 DEF Marked
    <3>5. \A s \in Tickets : s \notin InActor => (Held(s) => Held(s)')
      BY <3>1 DEF Held, InQueue
    <3> QED BY <3>1, <3>3, <3>4, <3>5, AwaitedKept
  <2> QED BY <1>9, <2>1, <2>3, <2>4, <2>5 DEF ResolveStep
<1>10. ASSUME NEW m \in Matches, Fill(m) \/ Decide(m) \/ RemoveMatch(m) PROVE Awaited'
  <2>1. UNCHANGED <<active, loading, queue, waiting, actor, outcome>>
    BY <1>10 DEF Fill, Decide, RemoveMatch, MatchPhase, httpVars, actorVars
  <2> QED BY <2>1, SamePlaces, AwaitedFreed
<1>11. CASE UNCHANGED vars
  BY <1>11, SamePlaces, AwaitedFreed DEF vars
<1> QED BY <1>1, <1>2, <1>3, <1>4, <1>5, <1>6, <1>7, <1>9, <1>10, <1>11 DEF Next

(* A reservation without a match never outlives whoever acts on its ticket, *)
(* unless the actor dropped the ticket because its client was gone.         *)
THEOREM ReservationsAreHeld == Spec => []ReservationHeldOrDropped
<1>1. Init => Inv /\ Awaited
  <2>1. ASSUME Init PROVE Awaited
    BY <2>1, TicketsAssumption DEF Init, Awaited, NoReservation, NoTicket
  <2> QED BY <2>1, InitInv
<1>2. Inv /\ Awaited /\ [Next]_vars => Inv' /\ Awaited'
  BY InvStep, AwaitedStep
<1>3. Inv /\ Awaited => ReservationHeldOrDropped
  BY AwaitedMeans DEF Inv
<1> QED BY <1>1, <1>2, <1>3, PTL DEF Spec

-----------------------------------------------------------------------------
(* A drain that has taken effect finds the actor in its loop head, or with  *)
(* one ticket that it will hold.                                            *)
LEMMA QuietStep == TypeOK /\ DrainedMeansQuiet /\ [Next]_vars => DrainedMeansQuiet'
<1> SUFFICES ASSUME TypeOK, DrainedMeansQuiet, [Next]_vars PROVE DrainedMeansQuiet'
  OBVIOUS
<1>0. ASSUME UNCHANGED <<draining, actor>> PROVE DrainedMeansQuiet'
  BY <1>0 DEF DrainedMeansQuiet
<1>1. CASE UNCHANGED vars
  BY <1>1, <1>0 DEF vars, actorVars
<1>2. ASSUME NEW u \in Users, NEW t \in Tickets,
             FreshCreate(u, t) \/ RepeatedCreate(u) \/ LoseFeed(u) \/ RegainFeed(u)
      PROVE  DrainedMeansQuiet'
  BY <1>2, <1>0 DEF FreshCreate, RepeatedCreate, LoseFeed, RegainFeed, actorVars
<1>3. ASSUME NEW u \in Users, RepeatedCreate(u) \/ LoseFeed(u) \/ RegainFeed(u)
      PROVE  DrainedMeansQuiet'
  BY <1>3, <1>0 DEF RepeatedCreate, LoseFeed, RegainFeed, actorVars
<1>4. ASSUME NEW t \in Tickets,
             \/ SendEnqueue(t)
             \/ CancelForget(t) \/ CancelAbandon(t) \/ CancelRelease(t) \/ CancelSend(t)
      PROVE  DrainedMeansQuiet'
  BY <1>4, <1>0 DEF SendEnqueue, CancelForget, CancelAbandon, CancelRelease, CancelSend, actorVars
<1>5. ASSUME NEW t \in Tickets, Place(t) PROVE DrainedMeansQuiet'
  <2>1. CASE draining
    <3>1. Join(t) /\ UNCHANGED draining
      BY <2>1, <1>5 DEF Place
    <3> QED
      BY <3>1 DEF Join, IdleActor, DrainedMeansQuiet
  <2>2. CASE ~draining
    BY <2>2, <1>5 DEF Place, DrainedMeansQuiet
  <2> QED
    BY <2>1, <2>2
<1>6. CASE RequestDrain \/ RequestResume
  BY <1>6, <1>0 DEF RequestDrain, RequestResume, actorVars
<1>7. CASE Receive
  <2>1. ASSUME NEW t \in Tickets, ReceiveEnqueue(t) PROVE DrainedMeansQuiet'
    <3>1. actor'.pc \in {"idle", "placing"}
      BY <2>1, ActorMoves DEF ReceiveEnqueue
    <3> QED
      BY <3>1 DEF DrainedMeansQuiet
  <2>2. ASSUME NEW t \in Tickets, ReceiveCancel(t) PROVE DrainedMeansQuiet'
    BY <2>2, <1>0 DEF ReceiveCancel
  <2>3. CASE ReceiveDrain \/ ReceiveResume
    BY <2>3 DEF ReceiveDrain, ReceiveResume, DrainedMeansQuiet
  <2> QED
    BY <1>7, <2>1, <2>2, <2>3 DEF Receive
<1>8. CASE DeadlineFires
  BY <1>8 DEF DeadlineFires, DrainedMeansQuiet
<1>9. CASE ResolveStep
  <2>1. actor.pc \in {"loading", "delivering"} /\ UNCHANGED draining
    BY <1>9 DEF ResolveStep, GuardRejects, AtCapacity, Unresolved, Allocate, Deliver, MarkMatched
  <2> QED
    BY <2>1 DEF DrainedMeansQuiet
<1>10. ASSUME NEW m \in Matches, Fill(m) \/ Decide(m) \/ RemoveMatch(m) PROVE DrainedMeansQuiet'
  BY <1>10, <1>0 DEF Fill, Decide, RemoveMatch, MatchPhase, actorVars
<1> QED
  BY <1>1, <1>2, <1>3, <1>4, <1>5, <1>6, <1>7, <1>8, <1>9, <1>10 DEF Next

(* "By the time this returns, the actor has stopped resolving queued        *)
(* tickets" (arena_drain): the drain is taken between two iterations, and   *)
(* until the resume no deadline fires and no ticket is paired.              *)
THEOREM DrainIsQuiet == Spec => []DrainedMeansQuiet
<1>1. Init => DrainedMeansQuiet
  BY DEF Init, DrainedMeansQuiet
<1> QED
  BY <1>1, InitType, TypeStep, QuietStep, PTL DEF Spec

-----------------------------------------------------------------------------
(* The actor never holds two tickets of one user.                           *)
Apart == \A s, t \in InActor : OwnerOf[s] = OwnerOf[t] => s = t

LEMMA ApartStep == TypeOK /\ Apart /\ [Next]_vars => Apart'
<1> SUFFICES ASSUME TypeOK, Apart, [Next]_vars PROVE Apart'
  OBVIOUS
<1>0. ASSUME actor'.tickets = actor.tickets PROVE Apart'
  BY <1>0 DEF Apart, InActor
<1>00. ASSUME NEW t \in Tickets, InActor' \in {{}, {t}} PROVE Apart'
  BY <1>00 DEF Apart
<1>01. ASSUME NEW s \in Tickets, NEW t \in Tickets, InActor' = {s, t}, OwnerOf[s] # OwnerOf[t]
       PROVE  Apart'
  BY <1>01 DEF Apart
<1>02. Present \subseteq Tickets
  BY DEF Present, TypeOK
<1>1. CASE UNCHANGED vars
  BY <1>1, <1>0 DEF vars, actorVars
<1>2. ASSUME NEW u \in Users, NEW t \in Tickets, FreshCreate(u, t) PROVE Apart'
  BY <1>2, <1>0 DEF FreshCreate, actorVars
<1>3. ASSUME NEW u \in Users, RepeatedCreate(u) \/ LoseFeed(u) \/ RegainFeed(u) PROVE Apart'
  BY <1>3, <1>0 DEF RepeatedCreate, LoseFeed, RegainFeed, actorVars
<1>4. ASSUME NEW t \in Tickets,
             \/ SendEnqueue(t)
             \/ CancelForget(t) \/ CancelAbandon(t) \/ CancelRelease(t) \/ CancelSend(t)
      PROVE  Apart'
  BY <1>4, <1>0 DEF SendEnqueue, CancelForget, CancelAbandon, CancelRelease, CancelSend, actorVars
<1>5. ASSUME NEW t \in Tickets, Place(t) PROVE Apart'
  <2>1. CASE Join(t)
    BY <2>1, ActorMoves, <1>00 DEF Join
  <2>2. ASSUME NEW s \in Present, OwnerOf[s] # OwnerOf[t], PairWith(t, s) PROVE Apart'
    BY <2>2, <1>02, ActorMoves, <1>01 DEF PairWith
  <2> QED
    BY <1>5, <2>1, <2>2 DEF Place
<1>6. CASE RequestDrain \/ RequestResume
  BY <1>6, <1>0 DEF RequestDrain, RequestResume, actorVars
<1>7. CASE Receive
  <2>1. ASSUME NEW t \in Tickets, ReceiveEnqueue(t) PROVE Apart'
    <3>1. CASE UNCHANGED actor
      BY <3>1, <1>0
    <3>2. CASE actor' = [IdleActor EXCEPT !.pc = "placing", !.tickets = <<t>>]
      BY <3>2, ActorMoves, <1>00
    <3> QED
      BY <2>1, <3>1, <3>2 DEF ReceiveEnqueue
  <2>2. ASSUME NEW t \in Tickets, ReceiveCancel(t) PROVE Apart'
    BY <2>2, <1>0 DEF ReceiveCancel
  <2>3. CASE ReceiveDrain \/ ReceiveResume
    BY <2>3, <1>0 DEF ReceiveDrain, ReceiveResume
  <2> QED
    BY <1>7, <2>1, <2>2, <2>3 DEF Receive
<1>8. CASE DeadlineFires
  <2>1. PICK t \in waiting : DropOldest(t) \/ (\E s \in Present : LastCall(t, s)) \/ SoloFallback(t)
    BY <1>8 DEF DeadlineFires
  <2>2. t \in Tickets
    BY DEF TypeOK
  <2>3. CASE DropOldest(t)
    BY <2>3, <1>0 DEF DropOldest
  <2>4. ASSUME NEW s \in Present, LastCall(t, s) PROVE Apart'
    BY <2>4, <2>2, <1>02, ActorMoves, <1>01 DEF LastCall
  <2>5. CASE SoloFallback(t)
    BY <2>5, <2>2, ActorMoves, <1>00 DEF SoloFallback
  <2> QED
    BY <2>1, <2>3, <2>4, <2>5
<1>9. CASE ResolveStep
  <2>1. CASE actor' = IdleActor
    BY <2>1, ActorMoves DEF Apart
  <2>2. ASSUME NEW m \in Matches, Allocate(m) PROVE Apart'
    <3>1. actor'.tickets = actor.tickets
      BY <2>2 DEF Allocate, TypeOK, Actors, Placing, IdleActor
    <3> QED
      BY <3>1, <1>0
  <2>3. CASE Deliver
    <3>1. actor'.tickets = actor.tickets
      BY <2>3 DEF Deliver, TypeOK, Actors, Placing, IdleActor
    <3> QED
      BY <3>1, <1>0
  <2> QED
    BY <1>9, <2>1, <2>2, <2>3 DEF ResolveStep, GuardRejects, AtCapacity, Unresolved, MarkMatched
<1>10. ASSUME NEW m \in Matches, Fill(m) \/ Decide(m) \/ RemoveMatch(m) PROVE Apart'
  BY <1>10, <1>0 DEF Fill, Decide, RemoveMatch, MatchPhase, actorVars
<1> QED
  BY <1>1, <1>2, <1>3, <1>4, <1>5, <1>6, <1>7, <1>8, <1>9, <1>10 DEF Next

(* Only an allocation seats anybody.                                        *)
LEMMA SeatedTogether == TypeOK /\ Apart /\ NoSelfPair /\ [Next]_vars => NoSelfPair'
<1> SUFFICES ASSUME TypeOK, Apart, NoSelfPair, [Next]_vars PROVE NoSelfPair'
  OBVIOUS
<1>1. CASE UNCHANGED matches
  BY <1>1 DEF NoSelfPair
<1>2. ASSUME NEW m \in Matches, Allocate(m) PROVE NoSelfPair'
  <2>1. matches'[m].tickets = InActor /\ \A n \in Matches : n # m => matches'[n] = matches[n]
    BY <1>2 DEF Allocate, TypeOK
  <2> QED
    BY <2>1 DEF NoSelfPair, Apart
<1>3. ASSUME NEW m \in Matches, Fill(m) \/ Decide(m) \/ RemoveMatch(m) PROVE NoSelfPair'
  <2>1. \A n \in Matches : matches'[n].tickets = matches[n].tickets
    BY <1>3 DEF Fill, Decide, RemoveMatch, MatchPhase, TypeOK
  <2> QED
    BY <2>1 DEF NoSelfPair
<1>4. \/ UNCHANGED matches \/ \E m \in Matches : Allocate(m)
      \/ \E m \in Matches : Fill(m) \/ Decide(m) \/ RemoveMatch(m)
  <2>1. CASE UNCHANGED vars
    BY <2>1 DEF vars
  <2>2. ASSUME NEW u \in Users,
               \/ \E t \in Tickets : FreshCreate(u, t)
               \/ RepeatedCreate(u) \/ LoseFeed(u) \/ RegainFeed(u)
        PROVE  UNCHANGED matches
    BY <2>2 DEF FreshCreate, RepeatedCreate, LoseFeed, RegainFeed
  <2>3. ASSUME NEW t \in Tickets,
               \/ SendEnqueue(t) \/ Place(t)
               \/ CancelForget(t) \/ CancelAbandon(t) \/ CancelRelease(t) \/ CancelSend(t)
        PROVE  UNCHANGED matches
    BY <2>3 DEF SendEnqueue, Place, CancelForget, CancelAbandon, CancelRelease, CancelSend
  <2>4. CASE RequestDrain \/ RequestResume \/ DeadlineFires
    BY <2>4 DEF RequestDrain, RequestResume, DeadlineFires
  <2>5. CASE Receive
    BY <2>5 DEF Receive, ReceiveEnqueue, ReceiveCancel, ReceiveDrain, ReceiveResume
  <2>6. CASE GuardRejects \/ AtCapacity \/ Deliver \/ MarkMatched
    BY <2>6 DEF GuardRejects, AtCapacity, Unresolved, Deliver, MarkMatched
  <2> QED
    BY <2>1, <2>2, <2>3, <2>4, <2>5, <2>6 DEF Next, ResolveStep
<1> QED
  BY <1>1, <1>2, <1>3, <1>4

(* "Never pair an account with itself": whichever way two tickets come to   *)
(* be resolved together - a new arrival or the last call - they are of two  *)
(* users, and so is everyone a match is allocated for.                      *)
THEOREM NeverWithItself == Spec => []NoSelfPair
<1>1. Init => Apart /\ NoSelfPair
  <2>1. Init => InActor = {}
    BY DEF Init, InActor, IdleActor, ToSet
  <2> QED
    BY <2>1 DEF Init, Apart, NoSelfPair
<1> QED
  BY <1>1, InitType, TypeStep, ApartStep, SeatedTogether, PTL DEF Spec

-----------------------------------------------------------------------------
(* One user's tickets are minted one after the other, and while a later one *)
(* exists an earlier one that is still held has been cancelled: a search    *)
(* needs the reservation, and a held ticket gives it up only to a cancel.   *)
MintedInOrder ==
    \A s, t \in Tickets : t \in minted /\ OwnerOf[s] = OwnerOf[t] /\ s < t => s \in minted

Superseded ==
    \A s, t \in minted : OwnerOf[s] = OwnerOf[t] /\ s < t /\ Held(s) => cancel[s] # "none"

Newest == MintedInOrder /\ Superseded /\ RemembersTheNewestSearch

(* A step that mints nothing, picks nothing up and remembers nothing.       *)
LEMMA NewestKept ==
  ASSUME TypeOK, Newest, UNCHANGED minted,
         \A t \in Tickets : Held(t)' => Held(t),
         \A t \in Tickets : cancel[t] # "none" => cancel'[t] # "none",
         \A u \in Users : pending'[u] = pending[u] \/ pending'[u] = NoTicket
  PROVE  Newest'
<1>1. MintedInOrder'
  BY DEF Newest, MintedInOrder
<1>2. Superseded'
  BY DEF Newest, Superseded, TypeOK
<1>3. \A u \in Users : pending[u] \in Tickets \cup {NoTicket}
  BY DEF TypeOK
<1>4. RemembersTheNewestSearch'
  BY <1>3 DEF Newest, RemembersTheNewestSearch
<1> QED
  BY <1>1, <1>2, <1>4 DEF Newest

(* The new ticket is the newest, and its user holds no other uncancelled.   *)
LEMMA NewestMinted ==
  ASSUME Inv, Newest, NEW u \in Users, NEW t \in Tickets, FreshCreate(u, t)
  PROVE  Newest'
<1>0. TypeOK /\ Places /\ Bookings
  BY DEF Inv
<1>1. /\ OwnerOf[t] = u /\ t \notin minted /\ minted' = minted \cup {t}
      /\ \A s \in Tickets : OwnerOf[s] = u /\ s < t => s \in minted
      /\ Pruned[u] = NoReservation /\ pending' = [pending EXCEPT ![u] = NoTicket]
      /\ loading' = loading \cup {t} /\ UNCHANGED <<cancel, queue, waiting, actor>>
  BY DEF FreshCreate, actorVars
<1>2. \A s \in Tickets : s # t => (Held(s)' => Held(s))
  BY <1>1 DEF Held, InQueue, InActor
<1>3. Tickets \subseteq Nat /\ minted \subseteq Tickets
  BY <1>0, TicketsAssumption DEF TypeOK
<1>4. ASSUME NEW s \in Tickets, OwnerOf[s] = OwnerOf[t], t < s PROVE s \notin minted'
  <2>1. s # t
    BY <1>3, <1>4
  <2>2. s \notin minted
    BY <1>1, <1>4 DEF Newest, MintedInOrder
  <2> QED
    BY <1>1, <2>1, <2>2
<1>5. MintedInOrder'
  BY <1>1 DEF Newest, MintedInOrder
<1>6. ASSUME NEW s \in minted, OwnerOf[s] = u, Held(s) PROVE cancel[s] # "none"
  <2>1. ASSUME cancel[s] = "none" PROVE FALSE
    <3>1. active[u] = Booking(s, NoMatch)
      BY <1>0, <1>3, <1>6, <2>1 DEF Bookings
    <3>2. active[u].match = NoMatch /\ active[u].ticket = s /\ s # NoTicket
      BY <1>3, <3>1, BookingFields, TicketsAssumption DEF NoTicket
    <3>3. Pruned[u] = active[u]
      BY <1>0, <3>2, PrunedOf
    <3> QED
      BY <1>0, <1>1, <3>2, <3>3, ActiveShape
  <2> QED
    BY <2>1
<1>7. Superseded'
  <2> SUFFICES ASSUME NEW r \in minted', NEW s \in minted', OwnerOf[r] = OwnerOf[s], r < s, Held(r)'
               PROVE  cancel'[r] # "none"
    BY DEF Superseded
  <2>1. r \in Tickets /\ s \in Tickets /\ r # t
    <3>1. r \in Tickets /\ s \in Tickets
      BY <1>1, <1>3
    <3> QED
      BY <3>1, <1>4
  <2>2. r \in minted /\ Held(r) /\ cancel'[r] = cancel[r]
    BY <1>1, <1>2, <2>1
  <2>3. CASE s = t
    BY <1>1, <1>6, <2>2, <2>3
  <2>4. CASE s # t
    <3>1. s \in minted
      BY <1>1, <2>4
    <3> QED
      BY <3>1, <2>2 DEF Newest, Superseded
  <2> QED
    BY <2>3, <2>4
<1>8. RemembersTheNewestSearch'
  <2> SUFFICES ASSUME NEW v \in Users, NEW s \in minted', pending'[v] # NoTicket,
                      OwnerOf[s] = v, pending'[v] < s
               PROVE  cancel'[pending'[v]] # "none"
    BY DEF RemembersTheNewestSearch
  <2>1. v # u /\ pending'[v] = pending[v]
    BY <1>0, <1>1 DEF TypeOK
  <2>2. s \in minted
    BY <1>1, <2>1
  <2> QED
    BY <1>1, <2>1, <2>2 DEF Newest, RemembersTheNewestSearch
<1> QED
  BY <1>5, <1>7, <1>8 DEF Newest

(* What a session is told is a ticket the actor holds.                      *)
LEMMA NewestDelivered ==
  ASSUME Inv, Newest, Deliver
  PROVE  Newest'
<1>0. TypeOK /\ Places
  BY DEF Inv
<1> DEFINE t == actor.tickets[actor.told + 1]
<1>1. /\ pending' = [pending EXCEPT ![OwnerOf[t]] = t]
      /\ UNCHANGED <<minted, loading, cancel, queue, waiting>>
  BY DEF Deliver, httpVars
<1>2. t \in InActor
  <2>1. /\ actor.told \in 0..2 /\ actor.told < Len(actor.tickets)
        /\ actor.tickets \in Seq(Tickets) /\ Len(actor.tickets) \in 1..2
    BY <1>0, DeliveringActor DEF Deliver
  <2>2. actor.told + 1 \in DOMAIN actor.tickets
    BY <2>1
  <2> QED
    BY <2>2 DEF InActor, ToSet
<1> HIDE DEF t
<1>3. t \in Tickets /\ t \in minted /\ Held(t) /\ OwnerOf[t] \in Users
  BY <1>0, <1>2, ActorTypes, TicketsAssumption DEF Held, Places, OnePlace
<1>4. actor'.tickets = actor.tickets
  BY <1>0 DEF Deliver, TypeOK, Actors, Placing, IdleActor
<1>5. \A s \in Tickets : Held(s)' => Held(s)
  BY <1>1, <1>4 DEF Held, InQueue, InActor
<1>6. MintedInOrder' /\ Superseded'
  <2>1. minted \subseteq Tickets
    BY <1>0 DEF TypeOK
  <2> QED
    BY <1>1, <1>5, <2>1 DEF Newest, MintedInOrder, Superseded
<1>7. RemembersTheNewestSearch'
  <2> SUFFICES ASSUME NEW v \in Users, NEW s \in minted, pending'[v] # NoTicket,
                      OwnerOf[s] = v, pending'[v] < s
               PROVE  cancel[pending'[v]] # "none"
    BY <1>1 DEF RemembersTheNewestSearch
  <2>1. CASE v = OwnerOf[t]
    <3>1. pending'[v] = t
      BY <1>0, <1>1, <1>3, <2>1 DEF TypeOK
    <3> QED
      BY <1>3, <2>1, <3>1 DEF Newest, Superseded
  <2>2. CASE v # OwnerOf[t]
    <3>1. pending'[v] = pending[v]
      BY <1>0, <1>1, <2>2 DEF TypeOK
    <3> QED
      BY <3>1 DEF Newest, RemembersTheNewestSearch
  <2> QED
    BY <2>1, <2>2
<1> QED
  BY <1>6, <1>7 DEF Newest

LEMMA NewestReceive ==
  ASSUME Inv, Newest, Receive
  PROVE  Newest'
<1>0. TypeOK
  BY DEF Inv
<1>1. /\ queue # << >> /\ queue' = Tail(queue) /\ InActor = {}
      /\ UNCHANGED <<minted, loading, cancel, pending>>
  BY <1>0, ActorTypes DEF Receive, ReceiveEnqueue, ReceiveCancel, ReceiveDrain, ReceiveResume, httpVars
<1>2. /\ Head(queue) \in ToSet(queue) /\ InQueue' \subseteq InQueue
  BY <1>0, <1>1, TailSet DEF InQueue, TypeOK
<1>3. waiting' \subseteq waiting
  BY DEF Receive, ReceiveEnqueue, ReceiveCancel, ReceiveDrain, ReceiveResume, Leaves
<1>4. \A t \in InActor' : t \in InQueue
  <2>1. ASSUME NEW t \in Tickets, ReceiveEnqueue(t) PROVE InActor' \subseteq InQueue
    <3>1. t \in InQueue
      BY <1>2, <2>1 DEF ReceiveEnqueue, InQueue
    <3>2. CASE actor' = [IdleActor EXCEPT !.pc = "placing", !.tickets = <<t>>]
      BY <1>0, <3>1, <3>2, ActorMoves
    <3>3. CASE UNCHANGED actor
      BY <1>1, <3>3 DEF InActor
    <3> QED BY <2>1, <3>2, <3>3 DEF ReceiveEnqueue
  <2>2. CASE UNCHANGED actor
    BY <1>1, <2>2 DEF InActor
  <2> QED
    BY <2>1, <2>2 DEF Receive, ReceiveCancel, ReceiveDrain, ReceiveResume
<1>5. \A t \in Tickets : Held(t)' => Held(t)
  BY <1>1, <1>2, <1>3, <1>4 DEF Held
<1> QED
  BY <1>0, <1>1, <1>5, NewestKept

LEMMA NewestStep == Inv /\ Newest /\ [Next]_vars => Newest'
<1> SUFFICES ASSUME Inv, Newest, [Next]_vars PROVE Newest'
  OBVIOUS
<1>0. TypeOK /\ Places
  BY DEF Inv
<1>00. ASSUME UNCHANGED <<minted, loading, cancel, queue, waiting, pending>>,
              InActor' \subseteq InActor
       PROVE  Newest'
  <2>1. \A t \in Tickets : Held(t)' => Held(t)
    BY <1>00 DEF Held, InQueue
  <2> QED
    BY <1>0, <1>00, <2>1, NewestKept
<1>1. CASE UNCHANGED vars
  BY <1>1, <1>00 DEF vars, httpVars, actorVars, InActor
<1>2. ASSUME NEW u \in Users, RepeatedCreate(u) \/ LoseFeed(u) \/ RegainFeed(u) PROVE Newest'
  <2>1. UNCHANGED <<minted, loading, cancel, queue, waiting, pending, actor>>
    BY <1>2 DEF RepeatedCreate, LoseFeed, RegainFeed, httpVars, actorVars
  <2> QED
    BY <2>1, <1>00 DEF InActor
<1>3. ASSUME NEW t \in Tickets, SendEnqueue(t) PROVE Newest'
  <2>1. /\ t \in loading /\ loading' \subseteq loading /\ queue' = Append(queue, Enqueue(t))
        /\ UNCHANGED <<minted, cancel, pending, waiting, actor>>
    BY <1>3 DEF SendEnqueue, actorVars
  <2>2. ToSet(queue') = ToSet(queue) \cup {Enqueue(t)}
    BY <1>0, <2>1, CommandKinds, AppendSet DEF TypeOK
  <2>3. InQueue' \subseteq InQueue \cup {t}
    BY <2>2, CommandKinds DEF InQueue
  <2>4. \A s \in Tickets : Held(s)' => Held(s)
    BY <2>1, <2>3 DEF Held, InActor
  <2> QED
    BY <1>0, <2>1, <2>4, NewestKept
<1>4. ASSUME NEW t \in Tickets,
             CancelForget(t) \/ CancelAbandon(t) \/ CancelRelease(t) \/ CancelSend(t)
      PROVE  Newest'
  <2>1. /\ UNCHANGED <<minted, loading, waiting, actor>>
        /\ \E to \in CancelSteps \ {"none"} : cancel' = [cancel EXCEPT ![t] = to]
    BY <1>4 DEF CancelForget, CancelAbandon, CancelRelease, CancelSend, CancelSteps, actorVars
  <2>2. \A s \in Tickets : cancel[s] # "none" => cancel'[s] # "none"
    BY <1>0, <2>1 DEF TypeOK
  <2>3. \A u \in Users : pending'[u] = pending[u] \/ pending'[u] = NoTicket
    <3>1. CASE CancelForget(t)
      <4>1. pending' = [pending EXCEPT ![OwnerOf[t]] = IF pending[OwnerOf[t]] = t THEN NoTicket
                                                       ELSE pending[OwnerOf[t]]]
        BY <3>1 DEF CancelForget
      <4> QED
        BY <1>0, <4>1 DEF TypeOK
    <3>2. CASE UNCHANGED pending
      BY <3>2
    <3> QED
      BY <1>4, <3>1, <3>2 DEF CancelAbandon, CancelRelease, CancelSend
  <2>4. InQueue' \subseteq InQueue
    <3>1. CASE UNCHANGED queue
      BY <3>1 DEF InQueue
    <3>2. CASE queue' = Append(queue, CancelTicket(t))
      <4>1. ToSet(queue') = ToSet(queue) \cup {CancelTicket(t)}
        BY <1>0, <3>2, CommandKinds, AppendSet DEF TypeOK
      <4> QED
        BY <4>1, CommandKinds DEF InQueue
    <3> QED
      BY <1>4, <3>1, <3>2 DEF CancelForget, CancelAbandon, CancelRelease, CancelSend
  <2>5. \A s \in Tickets : Held(s)' => Held(s)
    BY <2>1, <2>4 DEF Held, InActor
  <2> QED
    BY <1>0, <2>1, <2>2, <2>3, <2>5, NewestKept
<1>5. CASE (\E t \in Tickets : Place(t)) \/ DeadlineFires
  <2>1. /\ waiting' \cup InActor' \subseteq waiting \cup InActor
        /\ UNCHANGED <<minted, loading, cancel, pending, queue>>
    BY <1>0, <1>5, ActorTakes
  <2>2. \A t \in Tickets : Held(t)' => Held(t)
    BY <2>1 DEF Held, InQueue
  <2> QED
    BY <1>0, <2>1, <2>2, NewestKept
<1>6. CASE RequestDrain \/ RequestResume
  <2>1. UNCHANGED <<minted, loading, cancel, waiting, pending, actor>>
    BY <1>6 DEF RequestDrain, RequestResume, httpVars, actorVars
  <2>2. PICK c \in {Drain, Resume} : queue' = Append(queue, c)
    BY <1>6 DEF RequestDrain, RequestResume
  <2>3. ToSet(queue') = ToSet(queue) \cup {c}
    BY <1>0, <2>2, RequestKinds, AppendSet DEF TypeOK
  <2>4. InQueue' \subseteq InQueue
    BY <2>3, CommandKinds DEF InQueue
  <2>5. \A s \in Tickets : Held(s)' => Held(s)
    BY <2>1, <2>4 DEF Held, InActor
  <2> QED
    BY <1>0, <2>1, <2>5, NewestKept
<1>7. CASE ResolveStep
  <2>1. CASE GuardRejects \/ AtCapacity \/ MarkMatched
    <3>1. actor' = IdleActor /\ UNCHANGED <<minted, loading, cancel, queue, waiting, pending>>
      BY <2>1 DEF GuardRejects, AtCapacity, Unresolved, MarkMatched, httpVars
    <3>2. InActor' \subseteq InActor
      BY <1>0, <3>1, ActorMoves
    <3> QED
      BY <3>1, <3>2, <1>00
  <2>2. ASSUME NEW m \in Matches, Allocate(m) PROVE Newest'
    <3>1. UNCHANGED <<minted, loading, cancel, queue, waiting, pending>>
      BY <2>2 DEF Allocate, httpVars
    <3>2. actor'.tickets = actor.tickets
      BY <1>0, <2>2 DEF Allocate, TypeOK, Actors, Placing, IdleActor
    <3> QED
      BY <3>1, <3>2, <1>00 DEF InActor
  <2> QED
    BY <1>7, <2>1, <2>2, NewestDelivered DEF ResolveStep
<1>8. ASSUME NEW m \in Matches, Fill(m) \/ Decide(m) \/ RemoveMatch(m) PROVE Newest'
  <2>1. UNCHANGED <<minted, loading, cancel, queue, waiting, pending, actor>>
    BY <1>8 DEF Fill, Decide, RemoveMatch, MatchPhase, httpVars, actorVars
  <2> QED
    BY <2>1, <1>00 DEF InActor
<1> QED
  BY <1>1, <1>2, <1>3, <1>4, <1>5, <1>6, <1>7, <1>8, NewestMinted, NewestReceive DEF Next

(* "A brand-new search: whatever match an earlier ticket was sent is not    *)
(* this one" (create_match): the match a session would replay is of its     *)
(* user's newest ticket, whatever late resolution is still under way, if    *)
(* nobody cancelled.                                                        *)
THEOREM TheNewestIsRemembered == Spec => []RemembersTheNewestSearch
<1>1. Init => Newest
  BY DEF Init, Newest, MintedInOrder, Superseded, RemembersTheNewestSearch
<1>2. Newest => RemembersTheNewestSearch
  BY DEF Newest
<1> QED
  BY <1>1, <1>2, InitInv, InvStep, NewestStep, PTL DEF Spec

-----------------------------------------------------------------------------
(* The fate of every ticket is decided as TicketFate says.                  *)

(* Who is waiting has no fate yet; of those a match is delivered to, who    *)
(* was not told yet has none.  Nobody is resolved with themselves.          *)
NoTwice == \A i, j \in DOMAIN actor.tickets : actor.tickets[i] = actor.tickets[j] => i = j

Untold ==
    /\ actor.pc # "delivering" => \A t \in InActor : outcome[t] = "none"
    /\ actor.pc = "delivering" => \A i \in DOMAIN actor.tickets :
          i > actor.told => outcome[actor.tickets[i]] = "none"

FateInv ==
    /\ \A t \in Tickets : outcome[t] # "none" => t \in minted
    /\ \A t \in loading \cup InQueue \cup waiting : outcome[t] = "none"
    /\ Untold /\ NoTwice

(* Who the actor takes to resolve, and whom it leaves out of the queue.     *)
LEMMA ActorSets ==
  ASSUME TypeOK, NEW T, actor' = [actor EXCEPT !.pc = "loading", !.tickets = T]
  PROVE  actor'.tickets = T
<1>1. DOMAIN actor = {"pc", "tickets", "match", "told"}
  <2>1. CASE actor = IdleActor
    BY <2>1 DEF IdleActor
  <2>2. CASE actor # IdleActor
    BY <2>2 DEF TypeOK, Actors, Placing
  <2> QED BY <2>1, <2>2
<1> QED BY <1>1

Dropping(D) ==
    /\ \A t \in D : OwnerOf[t] \in gone
    /\ outcome' = [t \in Tickets |-> IF t \in D THEN "dropped" ELSE outcome[t]]
    /\ waiting' \cup InActor' = (waiting \cup InActor) \ D

LEMMA PlaceDrops ==
  ASSUME TypeOK, Places, NEW t \in Tickets, Place(t)
  PROVE  NoTwice' /\ \E D \in SUBSET waiting : Dropping(D)
<1>1. InActor = {t} /\ t \notin waiting /\ waiting \subseteq Tickets
  BY DEF Place, InActor, ToSet, Places, OnePlace, TypeOK
<1>2. Present \subseteq waiting /\ \A s \in waiting \ Present : OwnerOf[s] \in gone
  BY DEF Present
<1>3. PassedOver = [s \in Tickets |-> IF s \in waiting \ Present THEN "dropped" ELSE outcome[s]]
  BY DEF PassedOver
<1>4. outcome = [s \in Tickets |-> IF s \in {} THEN "dropped" ELSE outcome[s]]
  BY DEF TypeOK
<1>5. CASE Join(t)
  <2>0. actor' = IdleActor
    BY <1>5 DEF Join
  <2>1. InActor' = {} /\ NoTwice'
    <3>1. InActor' = {}
      BY <2>0, ActorMoves
    <3>2. actor'.tickets = << >>
      BY <2>0 DEF IdleActor
    <3> QED BY <3>1, <3>2 DEF NoTwice
  <2>2. waiting' = (IF draining THEN waiting ELSE Present) \cup {t}
    BY <1>5 DEF Join, Joins
  <2>3. CASE draining
    <3>1. outcome' = outcome
      BY <1>5, <2>3 DEF Join
    <3>2. Dropping({})
      BY <1>1, <1>4, <2>1, <2>2, <2>3, <3>1 DEF Dropping
    <3> QED BY <2>1, <3>2
  <2>4. CASE ~draining
    <3>1. outcome' = PassedOver
      BY <1>5, <2>4 DEF Join
    <3>2. Dropping(waiting \ Present)
      BY <1>1, <1>2, <1>3, <2>1, <2>2, <2>4, <3>1 DEF Dropping
    <3> QED BY <2>1, <3>2
  <2> QED BY <2>3, <2>4
<1>6. ASSUME NEW s \in Present, OwnerOf[s] # OwnerOf[t], PairWith(t, s)
      PROVE  NoTwice' /\ \E D \in SUBSET waiting : Dropping(D)
  <2>1. s \in Tickets /\ s # t
    BY <1>1, <1>2, <1>6
  <2>2. InActor' = {s, t} /\ actor'.tickets = <<s, t>>
    BY <1>6, <2>1, ActorMoves, ActorSets DEF PairWith
  <2>3. waiting' = Present \ {s} /\ outcome' = PassedOver
    BY <1>6 DEF PairWith, Leaves
  <2>4. Dropping(waiting \ Present)
    BY <1>1, <1>2, <1>3, <1>6, <2>2, <2>3 DEF Dropping
  <2>5. NoTwice'
    BY <2>1, <2>2 DEF NoTwice
  <2> QED BY <2>4, <2>5
<1> QED BY <1>5, <1>6 DEF Place

LEMMA DeadlineDrops ==
  ASSUME TypeOK, Places, DeadlineFires
  PROVE  NoTwice' /\ \E D \in SUBSET waiting : Dropping(D)
<1>1. InActor = {} /\ actor = IdleActor /\ waiting \subseteq Tickets
  BY ActorTypes DEF DeadlineFires, TypeOK
<1>2. Present \subseteq waiting /\ \A s \in waiting \ Present : OwnerOf[s] \in gone
  BY DEF Present
<1>3. PassedOver = [s \in Tickets |-> IF s \in waiting \ Present THEN "dropped" ELSE outcome[s]]
  BY DEF PassedOver
<1>4. PICK t \in waiting : DropOldest(t) \/ (\E s \in Present : LastCall(t, s)) \/ SoloFallback(t)
  BY DEF DeadlineFires
<1>5. CASE DropOldest(t)
  <2>1. /\ OwnerOf[t] \in gone /\ waiting' = waiting \ {t} /\ actor' = actor
        /\ outcome' = [outcome EXCEPT ![t] = "dropped"]
    BY <1>5 DEF DropOldest, Leaves
  <2>2. outcome' = [s \in Tickets |-> IF s \in {t} THEN "dropped" ELSE outcome[s]]
    BY <1>1, <2>1 DEF TypeOK
  <2>3. InActor' = {} /\ NoTwice'
    BY <1>1, <2>1 DEF InActor, NoTwice, IdleActor
  <2>4. Dropping({t})
    BY <1>1, <2>1, <2>2, <2>3 DEF Dropping
  <2> QED BY <2>3, <2>4
<1>6. ASSUME NEW s \in Present, LastCall(t, s)
      PROVE  NoTwice' /\ \E D \in SUBSET waiting : Dropping(D)
  <2>1. s \in Tickets /\ s # t /\ t \in Tickets /\ t \in Present
    BY <1>1, <1>2, <1>6 DEF LastCall
  <2>2. InActor' = {s, t} /\ actor'.tickets = <<s, t>>
    BY <1>6, <2>1, ActorMoves, ActorSets DEF LastCall
  <2>3. waiting' = Present \ {s, t} /\ outcome' = PassedOver
    BY <1>6 DEF LastCall, Leaves
  <2>4. Dropping(waiting \ Present)
    BY <1>1, <1>2, <1>3, <1>6, <2>1, <2>2, <2>3 DEF Dropping
  <2>5. NoTwice'
    BY <2>1, <2>2 DEF NoTwice
  <2> QED BY <2>4, <2>5
<1>7. CASE SoloFallback(t)
  <2>1. t \in Tickets /\ t \in Present
    BY <1>1, <1>2, <1>7 DEF SoloFallback
  <2>2. InActor' = {t} /\ actor'.tickets = <<t>>
    BY <1>7, <2>1, ActorMoves, ActorSets DEF SoloFallback
  <2>3. waiting' = Present \ {t} /\ outcome' = PassedOver
    BY <1>7 DEF SoloFallback, Leaves
  <2>4. Dropping(waiting \ Present)
    BY <1>1, <1>2, <1>3, <2>1, <2>2, <2>3 DEF Dropping
  <2>5. NoTwice'
    BY <2>2 DEF NoTwice
  <2> QED BY <2>4, <2>5
<1> QED BY <1>4, <1>5, <1>6, <1>7

LEMMA FateInvKept ==
  ASSUME FateInv, minted \subseteq minted', UNCHANGED <<outcome, actor>>,
         \A t \in loading' \cup InQueue' \cup waiting' :
             t \in loading \cup InQueue \cup waiting \/ outcome[t] = "none"
  PROVE  FateInv'
<1>1. Untold' /\ NoTwice'
  BY DEF FateInv, Untold, NoTwice, InActor
<1>2. \A t \in loading' \cup InQueue' \cup waiting' : outcome'[t] = "none"
  BY DEF FateInv
<1>3. \A t \in Tickets : outcome'[t] # "none" => t \in minted'
  BY DEF FateInv
<1> QED BY <1>1, <1>2, <1>3 DEF FateInv

(* Those for whom the actor stops have their fate, or are back in no place. *)
LEMMA FateInvIdle ==
  ASSUME TypeOK, Places, FateInv, actor' = IdleActor, UNCHANGED <<minted, loading, queue, waiting>>,
         \A t \in Tickets : outcome'[t] = outcome[t] \/ t \in InActor
  PROVE  FateInv'
<1>1. InActor' = {} /\ actor'.tickets = << >> /\ actor'.pc = "idle"
  BY ActorMoves DEF IdleActor
<1>2. InQueue' = InQueue
  BY DEF InQueue
<1>3. Untold' /\ NoTwice'
  BY <1>1 DEF Untold, NoTwice
<1>4. \A t \in loading \cup InQueue \cup waiting : t \in Tickets /\ t \notin InActor
  BY DEF TypeOK, Places, OnePlace, InQueue
<1>5. \A t \in loading \cup InQueue \cup waiting : outcome'[t] = "none"
  BY <1>4 DEF FateInv
<1>6. \A t \in Tickets : outcome'[t] # "none" => t \in minted
  BY DEF FateInv, Places, OnePlace
<1> QED BY <1>2, <1>3, <1>5, <1>6 DEF FateInv

LEMMA FateInvDropping ==
  ASSUME TypeOK, Places, FateInv, NoTwice', NEW D \in SUBSET waiting, Dropping(D),
         actor.pc # "delivering", actor'.pc # "delivering",
         UNCHANGED <<minted, loading, queue>>
  PROVE  FateInv'
<1>1. InQueue' = InQueue
  BY DEF InQueue
<1>2. \A t \in loading \cup InQueue \cup waiting \cup InActor : t \in Tickets
  BY ActorTypes DEF TypeOK, InQueue
<1>3. \A t \in loading \cup InQueue : t \notin D
  BY DEF Places, OnePlace
<1>4. \A t \in Tickets \ D : outcome'[t] = outcome[t]
  BY DEF Dropping
<1>5. \A t \in waiting' \cup InActor' : t \in (waiting \cup InActor) \ D
  BY DEF Dropping
<1>6. \A t \in loading \cup InQueue : outcome'[t] = "none"
  BY <1>2, <1>3, <1>4 DEF FateInv
<1>7. \A t \in waiting' \cup InActor' : outcome'[t] = "none"
  BY <1>2, <1>4, <1>5 DEF FateInv, Untold
<1>8. \A t \in Tickets : outcome'[t] # "none" => t \in minted
  BY <1>4 DEF FateInv, Places, OnePlace
<1> QED BY <1>1, <1>6, <1>7, <1>8 DEF FateInv, Untold

LEMMA FateInvDeliver ==
  ASSUME TypeOK, Places, FateInv, Deliver
  PROVE  FateInv'
<1> DEFINE t == actor.tickets[actor.told + 1]
<1>1. /\ actor \in [pc : {"delivering"}, tickets : Resolvable, match : Matches, told : 0..2]
      /\ actor.told \in Nat /\ actor.tickets \in Seq(Tickets) /\ actor.told < Len(actor.tickets)
  BY DeliveringActor DEF Deliver, TypeOK, Actors, Placing, IdleActor
<1>2. actor.told + 1 \in DOMAIN actor.tickets /\ t \in Tickets
  BY <1>1
<1>3. t \in InActor
  BY <1>2 DEF InActor, ToSet
<1>4. outcome' = [outcome EXCEPT ![t] = "succeeded"] /\ UNCHANGED <<minted, loading, queue, waiting>>
  BY DEF Deliver, httpVars
<1>5. actor' = [actor EXCEPT !.told = actor.told + 1]
  BY DEF Deliver
<1>6. actor'.pc = "delivering" /\ actor'.tickets = actor.tickets /\ actor'.told = actor.told + 1
  BY <1>1, <1>5
<1>7. ASSUME NEW i \in DOMAIN actor.tickets, i > actor.told + 1
      PROVE  outcome'[actor.tickets[i]] = "none"
  <2>1. i \in Nat /\ i > actor.told /\ i # actor.told + 1 /\ actor.tickets[i] \in Tickets
    BY <1>1, <1>7
  <2>2. actor.tickets[i] # t
    BY <1>2, <2>1 DEF FateInv, NoTwice
  <2>3. outcome[actor.tickets[i]] = "none"
    BY <1>1, <2>1 DEF FateInv, Untold
  <2> QED BY <1>4, <2>1, <2>2, <2>3 DEF TypeOK
<1>8. Untold' /\ NoTwice'
  BY <1>6, <1>7 DEF Untold, FateInv, NoTwice
<1> HIDE DEF t
<1>9. InQueue' = InQueue /\ t \notin loading \cup InQueue \cup waiting
  BY <1>3, <1>4 DEF InQueue, Places, OnePlace
<1>10. \A s \in loading \cup InQueue \cup waiting : outcome'[s] = outcome[s]
  BY <1>4, <1>9 DEF TypeOK, InQueue
<1>11. \A s \in Tickets : outcome'[s] # "none" => s \in minted'
  BY <1>3, <1>4 DEF FateInv, Places, OnePlace, TypeOK
<1> QED BY <1>4, <1>8, <1>9, <1>10, <1>11 DEF FateInv

LEMMA FateInvReceive ==
  ASSUME TypeOK, Places, FateInv, Receive
  PROVE  FateInv'
<1>1. /\ queue # << >> /\ queue' = Tail(queue) /\ actor.pc = "idle"
      /\ actor = IdleActor /\ InActor = {} /\ UNCHANGED <<minted, loading>>
  BY ActorTypes DEF Receive, ReceiveEnqueue, ReceiveCancel, ReceiveDrain, ReceiveResume, httpVars
<1>2. InQueue' = InQueue \ {t \in Tickets : Head(queue) = Enqueue(t)}
  BY <1>1, QueueTail DEF Places
<1>3. ASSUME NEW t \in Tickets, ReceiveEnqueue(t) PROVE FateInv'
  <2>1. InQueue' = InQueue \ {t} /\ waiting' = waiting
    BY <1>2, <1>3, CommandKinds DEF ReceiveEnqueue
  <2>2. t \in InQueue
    BY <1>1, <1>3, TailSet DEF ReceiveEnqueue, InQueue, TypeOK
  <2>3. outcome[t] = "none" /\ t \in minted /\ t \notin loading \cup waiting
    BY <2>2 DEF FateInv, Places, OnePlace
  <2>4. CASE /\ actor' = [IdleActor EXCEPT !.pc = "placing", !.tickets = <<t>>]
             /\ outcome' = outcome
    <3>1. actor'.pc = "placing" /\ InActor' = {t}
      BY <2>4, ActorMoves
    <3>2. actor'.tickets = <<t>>
      BY <2>4 DEF IdleActor
    <3>3. Untold' /\ NoTwice'
      BY <2>3, <2>4, <3>1, <3>2 DEF Untold, NoTwice
    <3> QED BY <1>1, <2>1, <2>4, <3>3 DEF FateInv
  <2>5. CASE actor' = actor /\ outcome' = [outcome EXCEPT ![t] = "duplicate"]
    <3>1. Untold' /\ NoTwice'
      BY <1>1, <2>5 DEF Untold, NoTwice, InActor, IdleActor, ToSet
    <3>2. \A s \in Tickets : s # t => outcome'[s] = outcome[s]
      BY <2>5 DEF TypeOK
    <3>3. \A s \in loading \cup InQueue' \cup waiting : s \in Tickets /\ s # t
      BY <2>1, <2>3 DEF TypeOK, InQueue
    <3>4. \A s \in loading \cup InQueue' \cup waiting : outcome'[s] = "none"
      BY <2>1, <3>2, <3>3 DEF FateInv
    <3>5. \A s \in Tickets : outcome'[s] # "none" => s \in minted
      BY <2>3, <3>2 DEF FateInv
    <3> QED BY <1>1, <2>1, <3>1, <3>4, <3>5 DEF FateInv
  <2> QED BY <1>3, <2>4, <2>5 DEF ReceiveEnqueue
<1>4. CASE (\E t \in Tickets : ReceiveCancel(t)) \/ ReceiveDrain \/ ReceiveResume
  <2>1. UNCHANGED <<actor, outcome>> /\ waiting' \subseteq waiting
    BY <1>4 DEF ReceiveCancel, ReceiveDrain, ReceiveResume, Leaves
  <2> QED BY <1>1, <1>2, <2>1, FateInvKept
<1> QED BY <1>3, <1>4 DEF Receive

LEMMA FateInvSearch ==
  ASSUME TypeOK, Places, FateInv, NEW t \in Tickets,
         SendEnqueue(t) \/ \E u \in Users : FreshCreate(u, t)
  PROVE  FateInv'
<1>1. ASSUME NEW u \in Users, FreshCreate(u, t) PROVE FateInv'
  <2>1. /\ t \notin minted /\ minted' = minted \cup {t} /\ loading' = loading \cup {t}
        /\ UNCHANGED <<queue, waiting, actor, outcome>>
    BY <1>1 DEF FreshCreate, actorVars
  <2>2. InQueue' = InQueue /\ outcome[t] = "none"
    BY <2>1 DEF InQueue, FateInv
  <2> QED BY <2>1, <2>2, FateInvKept
<1>2. CASE SendEnqueue(t)
  <2>1. /\ t \in loading /\ loading' = loading \ {t} /\ queue' = Append(queue, Enqueue(t))
        /\ UNCHANGED <<minted, waiting, actor, outcome>>
    BY <1>2 DEF SendEnqueue, actorVars
  <2>2. \A s \in InQueue : Enqueue(t) # Enqueue(s)
    BY <2>1, CommandKinds DEF Places, OnePlace, InQueue
  <2>3. InQueue' = InQueue \cup {t}
    BY <2>1, <2>2, QueueAppend, CommandKinds DEF Places
  <2> QED BY <2>1, <2>3, FateInvKept
<1> QED BY <1>1, <1>2

LEMMA FateInvStep == Inv /\ FateInv /\ [Next]_vars => FateInv'
<1> SUFFICES ASSUME Inv, FateInv, [Next]_vars PROVE FateInv'
  OBVIOUS
<1> USE DEF Inv
<1>1. ASSUME NEW c \in Commands, \A t \in Tickets : c # Enqueue(t), queue' = Append(queue, c),
             UNCHANGED <<minted, loading, waiting, actor, outcome>>
      PROVE  FateInv'
  <2>1. InQueue' = InQueue
    <3>1. \A t \in InQueue : c # Enqueue(t)
      BY <1>1 DEF InQueue
    <3> QED BY <1>1, <3>1, QueueAppend DEF Places
  <2> QED BY <1>1, <2>1, FateInvKept
<1>2. ASSUME UNCHANGED <<minted, loading, queue, waiting, actor, outcome>> PROVE FateInv'
  <2>1. InQueue' = InQueue
    BY <1>2 DEF InQueue
  <2> QED BY <1>2, <2>1, FateInvKept
<1>3. ASSUME NEW t \in Tickets, SendEnqueue(t) \/ \E u \in Users : FreshCreate(u, t)
      PROVE  FateInv'
  BY <1>3, FateInvSearch
<1>4. ASSUME NEW u \in Users, RepeatedCreate(u) \/ LoseFeed(u) \/ RegainFeed(u) PROVE FateInv'
  BY <1>2, <1>4 DEF RepeatedCreate, LoseFeed, RegainFeed, httpVars, actorVars
<1>5. ASSUME NEW t \in Tickets, CancelForget(t) \/ CancelAbandon(t) \/ CancelRelease(t)
      PROVE  FateInv'
  BY <1>2, <1>5 DEF CancelForget, CancelAbandon, CancelRelease, actorVars
<1>6. ASSUME NEW t \in Tickets, CancelSend(t) PROVE FateInv'
  <2>1. CancelTicket(t) \in Commands /\ \A s \in Tickets : CancelTicket(t) # Enqueue(s)
    BY CommandKinds
  <2> QED BY <1>1, <1>6, <2>1 DEF CancelSend, actorVars
<1>7. CASE RequestDrain \/ RequestResume
  <2>1. \A t \in Tickets : Drain # Enqueue(t) /\ Resume # Enqueue(t)
    BY CommandKinds
  <2> QED BY <1>1, <1>7, <2>1, RequestKinds DEF RequestDrain, RequestResume, httpVars, actorVars
<1>8. CASE Receive
  BY <1>8, FateInvReceive
<1>9. CASE (\E t \in Tickets : Place(t)) \/ DeadlineFires
  <2>1. actor.pc # "delivering" /\ actor'.pc # "delivering" /\ UNCHANGED <<minted, loading, queue>>
    BY <1>9, ActorTakes, ActorDrops
  <2>2. NoTwice' /\ \E D \in SUBSET waiting : Dropping(D)
    BY <1>9, PlaceDrops, DeadlineDrops
  <2> QED BY <2>1, <2>2, FateInvDropping
<1>10. ASSUME NEW how \in Outcomes, Unresolved(how) PROVE FateInv'
  <2>1. /\ actor' = IdleActor /\ UNCHANGED <<minted, loading, queue, waiting>>
        /\ \A t \in Tickets : outcome'[t] = outcome[t] \/ t \in InActor
    BY <1>10 DEF Unresolved, httpVars
  <2> QED BY <2>1, FateInvIdle
<1>11. CASE GuardRejects \/ AtCapacity
  BY <1>10, <1>11 DEF GuardRejects, AtCapacity, Outcomes
<1>12. ASSUME NEW m \in Matches, Allocate(m) PROVE FateInv'
  <2>1. actor \in [pc : {"loading"}, tickets : Resolvable, match : {NoMatch}, told : {0}]
    BY <1>12 DEF Allocate, TypeOK, Actors, Placing, IdleActor
  <2>2. actor'.pc = "delivering" /\ actor'.tickets = actor.tickets /\ actor.pc = "loading"
    BY <1>12, <2>1 DEF Allocate
  <2>3. UNCHANGED <<minted, loading, queue, waiting, outcome>>
    BY <1>12 DEF Allocate, httpVars
  <2>4. \A i \in DOMAIN actor.tickets : outcome[actor.tickets[i]] = "none"
    BY <2>2 DEF FateInv, Untold, InActor, ToSet
  <2>5. Untold' /\ NoTwice'
    BY <2>2, <2>3, <2>4 DEF Untold, FateInv, NoTwice
  <2> QED BY <2>3, <2>5 DEF FateInv, InQueue
<1>13. CASE Deliver
  BY <1>13, FateInvDeliver
<1>14. CASE MarkMatched
  <2>1. actor' = IdleActor /\ UNCHANGED <<minted, loading, queue, waiting, outcome>>
    BY <1>14 DEF MarkMatched, httpVars
  <2> QED BY <2>1, FateInvIdle
<1>15. ASSUME NEW m \in Matches, Fill(m) \/ Decide(m) \/ RemoveMatch(m) PROVE FateInv'
  BY <1>2, <1>15 DEF Fill, Decide, RemoveMatch, MatchPhase, httpVars, actorVars
<1>16. CASE UNCHANGED vars
  BY <1>2, <1>16 DEF vars
<1>17. CASE ResolveStep
  BY <1>11, <1>12, <1>13, <1>14, <1>17 DEF ResolveStep
<1> QED BY <1>3, <1>4, <1>5, <1>6, <1>7, <1>8, <1>9, <1>15, <1>16, <1>17 DEF Next

(* Fates that no step of theirs changes.                                    *)
LEMMA SameFates ==
  ASSUME UNCHANGED <<outcome, minted>>,
         \A t \in Tickets : Held(t)' <=> Held(t),
         \A t \in Tickets : (actor'.pc = "delivering" /\ t \in InActor')
                                <=> (actor.pc = "delivering" /\ t \in InActor)
  PROVE  FateOf' = FateOf
BY DEF FateOf

(* Exactly the tickets T move on to f.                                      *)
LEMMA MovesOn ==
  ASSUME NEW T, NEW f,
         \A t \in Tickets : FateOf'[t] = IF t \in T THEN f ELSE FateOf[t]
  PROVE  Fates!Becomes(T, f)
<1>1. FateOf' = [t \in Tickets |-> FateOf'[t]]
  BY DEF FateOf
<1> QED BY <1>1 DEF Fates!Becomes

(* Who waits in the abstract.                                               *)
LEMMA WaitingMeans ==
  ASSUME TypeOK, Places, FateInv, NEW t \in Tickets
  PROVE  /\ t \in loading \cup InQueue \cup waiting => FateOf[t] = "waiting"
         /\ t \in InActor /\ actor.pc # "delivering" => FateOf[t] = "waiting"
         /\ t \notin minted => FateOf[t] = "unminted"
<1>1. t \in loading \cup InQueue \cup waiting =>
         outcome[t] = "none" /\ t \in minted /\ t \notin InActor
  BY DEF FateInv, Places, OnePlace
<1>2. t \in InActor /\ actor.pc # "delivering" => outcome[t] = "none" /\ t \in minted
  BY DEF FateInv, Untold, Places, OnePlace
<1>3. t \notin minted => outcome[t] = "none"
  BY DEF FateInv
<1> QED BY <1>1, <1>2, <1>3 DEF FateOf, Held

(* Those about to be resolved are one ticket or two of different users.     *)
LEMMA LoadingParty ==
  ASSUME TypeOK, Apart, actor.pc = "loading"
  PROVE  Fates!Party(InActor)
<1>1. actor.tickets \in Resolvable
  BY DEF TypeOK, Actors, Placing, IdleActor
<1>2. \E s, t \in Tickets : InActor = {s, t}
  <2>1. ASSUME NEW t \in Tickets, actor.tickets = <<t>> PROVE InActor = {t, t}
    BY <2>1 DEF InActor, ToSet
  <2>2. ASSUME NEW s \in Tickets, NEW t \in Tickets, actor.tickets = <<s, t>> PROVE InActor = {s, t}
    BY <2>2 DEF InActor, ToSet
  <2> QED BY <1>1, <2>1, <2>2 DEF Resolvable
<1> QED BY <1>2 DEF Fates!Party, Apart

FatesMove == Fates!Next \/ UNCHANGED Fates!vars

LEMMA MintsTicket ==
  ASSUME Inv, FateInv, NEW u \in Users, NEW t \in Tickets, FreshCreate(u, t)
  PROVE  Fates!Mint(t)
<1> USE DEF Inv
<1>1. /\ t \notin minted /\ minted' = minted \cup {t} /\ loading' = loading \cup {t}
      /\ UNCHANGED <<cancel, gone, queue, matches, waiting, actor, outcome>>
  BY DEF FreshCreate, actorVars
<1>2. InActor' = InActor /\ InQueue' = InQueue
  BY <1>1 DEF InActor, InQueue
<1>3. outcome[t] = "none" /\ t \notin InActor
  BY <1>1 DEF FateInv, Places, OnePlace
<1>4. FateOf'[t] = "waiting"
  BY <1>1, <1>2, <1>3 DEF FateOf, Held
<1>5. \A s \in Tickets : s # t => FateOf'[s] = FateOf[s]
  BY <1>1, <1>2 DEF FateOf, Held
<1>6. Fates!Becomes({t}, "waiting")
  BY <1>4, <1>5, MovesOn
<1>7. FateOf[t] = "unminted"
  BY <1>1, WaitingMeans
<1> QED BY <1>1, <1>6, <1>7 DEF Fates!Mint

LEMMA ReceiveDecides ==
  ASSUME Inv, FateInv, Receive
  PROVE  FatesMove
<1> USE DEF Inv
<1>1. /\ queue # << >> /\ queue' = Tail(queue) /\ actor.pc = "idle"
      /\ actor = IdleActor /\ InActor = {}
      /\ UNCHANGED <<minted, loading, cancel, gone, matches>>
  BY ActorTypes DEF Receive, ReceiveEnqueue, ReceiveCancel, ReceiveDrain, ReceiveResume, httpVars
<1>2. InQueue' = InQueue \ {t \in Tickets : Head(queue) = Enqueue(t)}
  BY <1>1, QueueTail DEF Places
<1>3. ASSUME NEW t \in Tickets, ReceiveEnqueue(t) PROVE FatesMove
  <2>1. InQueue' = InQueue \ {t} /\ waiting' = waiting
    BY <1>2, <1>3, CommandKinds DEF ReceiveEnqueue
  <2>2. t \in InQueue
    BY <1>1, <1>3, TailSet DEF ReceiveEnqueue, InQueue, TypeOK
  <2>3. t \in minted /\ t \notin loading \cup waiting /\ FateOf[t] = "waiting"
    BY <2>2, WaitingMeans DEF Places, OnePlace
  <2>4. CASE /\ actor' = [IdleActor EXCEPT !.pc = "placing", !.tickets = <<t>>]
             /\ outcome' = outcome
    <3>1. actor'.pc = "placing" /\ InActor' = {t}
      BY <2>4, ActorMoves
    <3>2. \A s \in Tickets : Held(s)' <=> Held(s)
      BY <1>1, <2>1, <2>2, <3>1 DEF Held
    <3>3. FateOf' = FateOf
      BY <1>1, <2>4, <3>1, <3>2, SameFates
    <3> QED BY <1>1, <3>3 DEF FatesMove, Fates!vars
  <2>5. CASE /\ ReserveOrExisting(OwnerOf[t], t)[OwnerOf[t]].ticket # t
             /\ actor' = actor /\ outcome' = [outcome EXCEPT ![t] = "duplicate"]
    <3>1. cancel[t] # "none"
      <4>1. SUFFICES ASSUME cancel[t] = "none" PROVE FALSE
        OBVIOUS
      <4>2. OwnerOf[t] \in Users /\ active[OwnerOf[t]] = Booking(t, NoMatch)
        BY <2>2, <4>1, TicketsAssumption DEF Bookings, Held
      <4>3. active[OwnerOf[t]].ticket = t /\ active[OwnerOf[t]].match = NoMatch
        BY <4>2, BookingFields
      <4>4. Pruned[OwnerOf[t]] = active[OwnerOf[t]]
        BY <4>2, <4>3, PrunedOf
      <4>5. t # NoTicket
        BY TicketsAssumption DEF NoTicket
      <4>6. Pruned[OwnerOf[t]] # NoReservation
        BY <4>3, <4>4, <4>5 DEF NoReservation
      <4>7. ReserveOrExisting(OwnerOf[t], t)[OwnerOf[t]] = Pruned[OwnerOf[t]]
        BY <4>2, <4>6, ReservedOf
      <4> QED BY <2>5, <4>3, <4>4, <4>7
    <3>2. outcome'[t] = "duplicate" /\ \A s \in Tickets : s # t => outcome'[s] = outcome[s]
      BY <2>5 DEF TypeOK
    <3>3. InActor' = InActor
      BY <2>5 DEF InActor
    <3>4. \A s \in Tickets : s # t => (Held(s)' <=> Held(s))
      BY <1>1, <2>1, <3>3 DEF Held
    <3>5. \A s \in Tickets : FateOf'[s] = IF s \in {t} THEN "duplicate" ELSE FateOf[s]
      BY <1>1, <2>5, <3>2, <3>3, <3>4 DEF FateOf
    <3>6. Fates!Becomes({t}, "duplicate")
      BY <3>5, MovesOn
    <3>7. Fates!Leave(t, "duplicate")
      BY <1>1, <2>3, <3>1, <3>6 DEF Fates!Leave, Fates!Waiting
    <3> QED BY <3>7 DEF FatesMove, Fates!Next
  <2> QED BY <1>3, <2>4, <2>5 DEF ReceiveEnqueue
<1>4. ASSUME NEW t \in Tickets, ReceiveCancel(t) PROVE FatesMove
  <2>1. InQueue' = InQueue
    BY <1>2, <1>4, CommandKinds DEF ReceiveCancel, InQueue
  <2>2. waiting' = waiting \ {t} /\ UNCHANGED <<actor, outcome>>
    BY <1>4 DEF ReceiveCancel, Leaves
  <2>3. InActor' = InActor
    BY <2>2 DEF InActor
  <2>4. CASE t \notin waiting
    <3>1. \A s \in Tickets : Held(s)' <=> Held(s)
      BY <1>1, <2>1, <2>2, <2>3, <2>4 DEF Held
    <3>2. FateOf' = FateOf
      BY <1>1, <2>2, <2>3, <3>1, SameFates
    <3> QED BY <1>1, <3>2 DEF FatesMove, Fates!vars
  <2>5. CASE t \in waiting
    <3>1. cancel[t] = "sent"
      BY <1>1, <1>4, TailSet DEF ReceiveCancel, Bookings, TypeOK
    <3>2. FateOf[t] = "waiting" /\ t \in minted /\ outcome[t] = "none"
          /\ t \notin loading \cup InQueue \cup InActor
      BY <2>5, WaitingMeans DEF Places, OnePlace, FateInv
    <3>3. \A s \in Tickets : s # t => (Held(s)' <=> Held(s))
      BY <1>1, <2>1, <2>2, <2>3 DEF Held
    <3>4. ~Held(t)'
      BY <1>1, <2>1, <2>2, <2>3, <3>2 DEF Held
    <3>5. \A s \in Tickets : FateOf'[s] = IF s \in {t} THEN "withdrawn" ELSE FateOf[s]
      BY <1>1, <2>2, <2>3, <3>2, <3>3, <3>4 DEF FateOf
    <3>6. Fates!Becomes({t}, "withdrawn")
      BY <3>5, MovesOn
    <3>7. Fates!Leave(t, "withdrawn")
      BY <1>1, <3>1, <3>2, <3>6 DEF Fates!Leave, Fates!Waiting
    <3> QED BY <3>7 DEF FatesMove, Fates!Next
  <2> QED BY <2>4, <2>5
<1>5. CASE ReceiveDrain \/ ReceiveResume
  <2>1. UNCHANGED <<actor, outcome, waiting>> /\ Head(queue) \in {Drain, Resume}
    BY <1>5 DEF ReceiveDrain, ReceiveResume
  <2>2. InQueue' = InQueue /\ InActor' = InActor
    BY <1>2, <2>1, CommandKinds DEF InQueue, InActor
  <2>3. \A s \in Tickets : Held(s)' <=> Held(s)
    BY <1>1, <2>1, <2>2 DEF Held
  <2>4. FateOf' = FateOf
    BY <1>1, <2>1, <2>2, <2>3, SameFates
  <2> QED BY <1>1, <2>4 DEF FatesMove, Fates!vars
<1> QED BY <1>3, <1>4, <1>5 DEF Receive

LEMMA DroppingDrops ==
  ASSUME Inv, FateInv, (\E t \in Tickets : Place(t)) \/ DeadlineFires
  PROVE  FatesMove
<1> USE DEF Inv
<1>1. /\ actor.pc # "delivering" /\ actor'.pc # "delivering"
      /\ UNCHANGED <<minted, loading, cancel, queue, matches>>
  BY ActorTakes, ActorDrops
<1>2. UNCHANGED gone
  BY DEF Place, DeadlineFires
<1>3. PICK D \in SUBSET waiting : Dropping(D)
  BY PlaceDrops, DeadlineDrops
<1>4. InQueue' = InQueue
  BY <1>1 DEF InQueue
<1>5. D \subseteq Tickets /\ \A t \in D : FateOf[t] = "waiting" /\ OwnerOf[t] \in gone
  BY <1>3, WaitingMeans DEF TypeOK, Dropping
<1>6. \A t \in Tickets \ D : outcome'[t] = outcome[t] /\ (Held(t)' <=> Held(t))
  <2>1. \A t \in Tickets \ D : t \in waiting' \cup InActor' <=> t \in waiting \cup InActor
    BY <1>3 DEF Dropping
  <2> QED BY <1>1, <1>3, <1>4, <2>1 DEF Dropping, Held
<1>7. \A t \in D : outcome'[t] = "dropped"
  BY <1>3, <1>5 DEF Dropping
<1>8. \A t \in Tickets : FateOf'[t] = IF t \in D THEN "dropped" ELSE FateOf[t]
  BY <1>1, <1>6, <1>7 DEF FateOf
<1>9. Fates!Becomes(D, "dropped")
  BY <1>8, MovesOn
<1>10. Fates!Drop(D)
  BY <1>1, <1>2, <1>5, <1>9 DEF Fates!Drop, Fates!Waiting
<1> QED BY <1>5, <1>10 DEF FatesMove, Fates!Next

LEMMA UnresolvedRefuses ==
  ASSUME Inv, FateInv, Apart, actor.pc = "loading", NEW how \in {"failed", "unresolved"},
         Unresolved(how)
  PROVE  FatesMove
<1> USE DEF Inv
<1>1. UNCHANGED <<minted, loading, cancel, gone, queue, matches, waiting>> /\ actor' = IdleActor
  BY DEF Unresolved, httpVars
<1>2. InActor' = {} /\ actor'.pc = "idle" /\ InQueue' = InQueue
  BY <1>1, ActorMoves DEF InQueue
<1>3. InActor \subseteq Tickets
  BY ActorTypes
<1>4. \A t \in Tickets : outcome'[t] = IF t \in InActor THEN how ELSE outcome[t]
  BY DEF Unresolved
<1>5. \A t \in Tickets \ InActor : Held(t)' <=> Held(t)
  BY <1>1, <1>2 DEF Held
<1>6. \A t \in Tickets : FateOf'[t] = IF t \in InActor THEN how ELSE FateOf[t]
  BY <1>1, <1>2, <1>4, <1>5 DEF FateOf
<1>7. PICK T \in SUBSET Tickets : T = InActor
  BY <1>3
<1>8. Fates!Becomes(T, how)
  BY <1>6, <1>7, MovesOn
<1>9. Fates!Waiting(T) /\ Fates!Party(T)
  BY <1>7, WaitingMeans, LoadingParty DEF Fates!Waiting
<1>10. Fates!Refuse(T, how)
  BY <1>1, <1>8, <1>9 DEF Fates!Refuse
<1> QED BY <1>10 DEF FatesMove, Fates!Next

LEMMA AllocateSeats ==
  ASSUME Inv, FateInv, Apart, NEW m \in Matches, Allocate(m)
  PROVE  FatesMove
<1> USE DEF Inv
<1>1. actor \in [pc : {"loading"}, tickets : Resolvable, match : {NoMatch}, told : {0}]
  BY DEF Allocate, TypeOK, Actors, Placing, IdleActor
<1>2. actor'.pc = "delivering" /\ actor'.tickets = actor.tickets /\ actor.pc = "loading"
  BY <1>1 DEF Allocate
<1>3. UNCHANGED <<minted, loading, cancel, gone, queue, waiting, outcome>>
  BY DEF Allocate, httpVars
<1>4. PICK T \in SUBSET Tickets : T = InActor
  BY ActorTypes
<1>5. InActor' = T /\ InQueue' = InQueue
  BY <1>2, <1>3, <1>4 DEF InActor, InQueue
<1>6. \A t \in T : outcome[t] = "none" /\ t \in minted
  BY <1>2, <1>4 DEF FateInv, Untold, Places, OnePlace
<1>7. \A t \in Tickets : Held(t)' <=> Held(t)
  BY <1>3, <1>4, <1>5 DEF Held
<1>8. \A t \in Tickets : FateOf'[t] = IF t \in T THEN "seated" ELSE FateOf[t]
  BY <1>2, <1>3, <1>5, <1>6, <1>7 DEF FateOf
<1>9. Fates!Becomes(T, "seated")
  BY <1>8, MovesOn
<1>10. Fates!Waiting(T) /\ Fates!Party(T)
  BY <1>2, <1>4, WaitingMeans, LoadingParty DEF Fates!Waiting
<1>11. /\ matches[m].phase = "free"
       /\ matches' = [matches EXCEPT ![m] = [phase |-> "filling", tickets |-> T]]
  BY <1>4 DEF Allocate
<1>12. matches[m].tickets = {}
  BY <1>11 DEF Places, OnePlace
<1>13. [n \in Matches |-> matches'[n].tickets]
          = [[n \in Matches |-> matches[n].tickets] EXCEPT ![m] = T]
  BY <1>11 DEF TypeOK
<1>14. UNCHANGED <<gone, {t \in Tickets : cancel[t] # "none"}>>
  BY <1>3
<1>15. Fates!Seat(m, T)
  BY <1>9, <1>10, <1>12, <1>13, <1>14 DEF Fates!Seat
<1> QED BY <1>15 DEF FatesMove, Fates!Next

LEMMA DeliverTells ==
  ASSUME Inv, FateInv, Deliver
  PROVE  FatesMove
<1> USE DEF Inv
<1>1. /\ actor \in [pc : {"delivering"}, tickets : Resolvable, match : Matches, told : 0..2]
      /\ actor.told \in Nat /\ actor.tickets \in Seq(Tickets) /\ actor.told < Len(actor.tickets)
  BY DeliveringActor DEF Deliver, TypeOK, Actors, Placing, IdleActor
<1>2. PICK t \in Tickets : t = actor.tickets[actor.told + 1]
  BY <1>1
<1>3. actor.told + 1 \in DOMAIN actor.tickets
  BY <1>1
<1>4. t \in InActor /\ outcome[t] = "none" /\ t \in minted
  <2>1. t \in InActor
    BY <1>2, <1>3 DEF InActor, ToSet
  <2>2. outcome[t] = "none"
    BY <1>1, <1>2, <1>3 DEF FateInv, Untold
  <2> QED BY <2>1, <2>2 DEF Places, OnePlace
<1>5. /\ outcome' = [outcome EXCEPT ![t] = "succeeded"]
      /\ UNCHANGED <<minted, loading, cancel, gone, queue, matches, waiting>>
  BY <1>2 DEF Deliver, httpVars
<1>6. actor' = [actor EXCEPT !.told = actor.told + 1]
  BY DEF Deliver
<1>7. actor'.pc = "delivering" /\ actor'.tickets = actor.tickets
  BY <1>1, <1>6
<1>8. InActor' = InActor /\ InQueue' = InQueue
  BY <1>5, <1>7 DEF InActor, InQueue
<1>9. \A s \in Tickets : Held(s)' <=> Held(s)
  BY <1>5, <1>8 DEF Held
<1>10. outcome'[t] = "succeeded" /\ \A s \in Tickets : s # t => outcome'[s] = outcome[s]
  BY <1>5 DEF TypeOK
<1>11. \A s \in Tickets : FateOf'[s] = IF s \in {t} THEN "succeeded" ELSE FateOf[s]
  BY <1>1, <1>5, <1>7, <1>8, <1>9, <1>10 DEF FateOf
<1>12. Fates!Becomes({t}, "succeeded")
  BY <1>11, MovesOn
<1>13. FateOf[t] = "seated"
  BY <1>1, <1>4 DEF FateOf
<1>14. Fates!Tell(t)
  BY <1>5, <1>12, <1>13 DEF Fates!Tell
<1> QED BY <1>14 DEF FatesMove, Fates!Next

LEMMA MarkStutters ==
  ASSUME Inv, Told, FateInv, MarkMatched
  PROVE  FatesMove
<1> USE DEF Inv
<1>1. /\ actor.pc = "delivering" /\ actor.told = Len(actor.tickets) /\ actor' = IdleActor
      /\ UNCHANGED <<minted, loading, cancel, gone, queue, matches, waiting, outcome>>
  BY DEF MarkMatched, httpVars
<1>2. actor.tickets \in Seq(Tickets)
  BY <1>1, DeliveringActor
<1>3. \A t \in InActor : outcome[t] # "none"
  BY <1>1, <1>2 DEF Told, InActor, ToSet
<1>4. InActor' = {} /\ actor'.pc = "idle" /\ InQueue' = InQueue
  BY <1>1, ActorMoves DEF InQueue
<1>5. \A t \in Tickets \ InActor : Held(t)' <=> Held(t)
  BY <1>1, <1>4 DEF Held
<1>6. \A t \in Tickets : FateOf'[t] = FateOf[t]
  BY <1>1, <1>3, <1>4, <1>5 DEF FateOf
<1>7. FateOf' = FateOf
  BY <1>6 DEF FateOf
<1> QED BY <1>1, <1>7 DEF FatesMove, Fates!vars

LEMMA FatesStep == Inv /\ Told /\ FateInv /\ Apart /\ [Next]_vars => [Fates!Next]_(Fates!vars)
<1> SUFFICES ASSUME Inv, Told, FateInv, Apart, [Next]_vars PROVE FatesMove
  BY DEF FatesMove
<1> USE DEF Inv
<1>1. ASSUME UNCHANGED <<minted, outcome, actor, cancel, gone, matches>>,
             \A t \in Tickets : Held(t)' <=> Held(t)
      PROVE  FatesMove
  <2>1. FateOf' = FateOf
    BY <1>1, SameFates DEF InActor
  <2> QED BY <1>1, <2>1 DEF FatesMove, Fates!vars
<1>2. ASSUME NEW u \in Users, NEW t \in Tickets, FreshCreate(u, t) PROVE FatesMove
  BY <1>2, MintsTicket DEF FatesMove, Fates!Next
<1>3. ASSUME NEW u \in Users, RepeatedCreate(u) PROVE FatesMove
  <2>1. UNCHANGED <<minted, loading, cancel, gone, queue, matches, waiting, actor, outcome>>
    BY <1>3 DEF RepeatedCreate, actorVars
  <2> QED BY <1>1, <2>1, SamePlaces
<1>4. ASSUME NEW u \in Users, LoseFeed(u) \/ RegainFeed(u) PROVE FatesMove
  <2>1. /\ UNCHANGED <<minted, loading, cancel, queue, matches, waiting, actor, outcome>>
        /\ gone' \subseteq Users
    BY <1>4 DEF LoseFeed, RegainFeed, httpVars, actorVars, TypeOK
  <2>2. FateOf' = FateOf
    BY <2>1, SamePlaces, SameFates
  <2> QED BY <2>1, <2>2 DEF FatesMove, Fates!Next, Fates!Feeds
<1>5. ASSUME NEW t \in Tickets, SendEnqueue(t) PROVE FatesMove
  <2>1. /\ t \in loading /\ loading' = loading \ {t} /\ queue' = Append(queue, Enqueue(t))
        /\ UNCHANGED <<minted, cancel, gone, matches, waiting, actor, outcome>>
    BY <1>5 DEF SendEnqueue, actorVars
  <2>2. \A s \in InQueue : Enqueue(t) # Enqueue(s)
    BY <2>1, CommandKinds DEF Places, OnePlace, InQueue
  <2>3. InQueue' = InQueue \cup {t} /\ InActor' = InActor
    BY <2>1, <2>2, QueueAppend, CommandKinds DEF Places, InActor
  <2>4. \A s \in Tickets : Held(s)' <=> Held(s)
    BY <2>1, <2>3 DEF Held
  <2> QED BY <1>1, <2>1, <2>4
<1>6. ASSUME NEW t \in Tickets,
             CancelForget(t) \/ CancelAbandon(t) \/ CancelRelease(t) \/ CancelSend(t)
      PROVE  FatesMove
  <2>1. UNCHANGED <<minted, loading, gone, matches, waiting, actor, outcome>>
    BY <1>6 DEF CancelForget, CancelAbandon, CancelRelease, CancelSend, actorVars
  <2>2. InQueue' = InQueue
    <3>1. CASE UNCHANGED queue
      BY <3>1 DEF InQueue
    <3>2. CASE queue' = Append(queue, CancelTicket(t))
      <4>1. \A s \in Tickets : CancelTicket(t) # Enqueue(s)
        BY CommandKinds
      <4>2. \A s \in InQueue : CancelTicket(t) # Enqueue(s)
        BY <4>1 DEF InQueue
      <4> QED BY <3>2, <4>1, <4>2, QueueAppend, CommandKinds DEF Places
    <3> QED BY <1>6, <3>1, <3>2 DEF CancelForget, CancelAbandon, CancelRelease, CancelSend
  <2>3. FateOf' = FateOf
    <3>1. \A s \in Tickets : Held(s)' <=> Held(s)
      BY <2>1, <2>2 DEF Held, InActor
    <3> QED BY <2>1, <3>1, SameFates DEF InActor
  <2>4. PICK to \in CancelSteps \ {"none"} : cancel' = [cancel EXCEPT ![t] = to]
    BY <1>6 DEF CancelForget, CancelAbandon, CancelRelease, CancelSend, CancelSteps
  <2>5. {s \in Tickets : cancel'[s] # "none"} = {s \in Tickets : cancel[s] # "none"} \cup {t}
    BY <2>4 DEF TypeOK
  <2>6. Fates!Cancel(t)
    BY <2>1, <2>3, <2>5 DEF Fates!Cancel
  <2> QED BY <2>6 DEF FatesMove, Fates!Next
<1>7. CASE RequestDrain \/ RequestResume
  <2>1. UNCHANGED <<minted, loading, cancel, gone, matches, waiting, actor, outcome>>
    BY <1>7 DEF RequestDrain, RequestResume, httpVars, actorVars
  <2>2. \A s \in Tickets : Drain # Enqueue(s) /\ Resume # Enqueue(s)
    BY CommandKinds
  <2>3. \A s \in InQueue : Drain # Enqueue(s) /\ Resume # Enqueue(s)
    BY <2>2 DEF InQueue
  <2>4. InQueue' = InQueue
    BY <1>7, <2>2, <2>3, QueueAppend, RequestKinds DEF RequestDrain, RequestResume, Places
  <2>5. \A s \in Tickets : Held(s)' <=> Held(s)
    BY <2>1, <2>4 DEF Held, InActor
  <2> QED BY <1>1, <2>1, <2>5
<1>8. CASE Receive
  BY <1>8, ReceiveDecides
<1>9. CASE (\E t \in Tickets : Place(t)) \/ DeadlineFires
  BY <1>9, DroppingDrops
<1>10. CASE GuardRejects \/ AtCapacity
  BY <1>10, UnresolvedRefuses DEF GuardRejects, AtCapacity
<1>11. ASSUME NEW m \in Matches, Allocate(m) PROVE FatesMove
  BY <1>11, AllocateSeats
<1>12. CASE Deliver
  BY <1>12, DeliverTells
<1>13. CASE MarkMatched
  BY <1>13, MarkStutters
<1>14. ASSUME NEW m \in Matches, Fill(m) \/ Decide(m) \/ RemoveMatch(m) PROVE FatesMove
  <2>1. /\ UNCHANGED <<minted, loading, cancel, gone, queue, waiting, actor, outcome>>
        /\ \E to \in MatchPhases : matches' = [matches EXCEPT ![m].phase = to]
    BY <1>14 DEF Fill, Decide, RemoveMatch, MatchPhase, httpVars, actorVars, MatchPhases
  <2>2. \A n \in Matches : matches'[n].tickets = matches[n].tickets
    BY <2>1 DEF TypeOK
  <2>3. FateOf' = FateOf
    BY <2>1, SamePlaces, SameFates
  <2> QED BY <2>1, <2>2, <2>3 DEF FatesMove, Fates!vars
<1>15. CASE UNCHANGED vars
  <2>1. UNCHANGED <<minted, loading, cancel, gone, queue, matches, waiting, actor, outcome>>
    BY <1>15 DEF vars, httpVars, actorVars
  <2> QED BY <1>1, <2>1, SamePlaces
<1>16. CASE ResolveStep
  BY <1>10, <1>11, <1>12, <1>13, <1>16 DEF ResolveStep
<1> QED BY <1>2, <1>3, <1>4, <1>5, <1>6, <1>7, <1>8, <1>9, <1>14, <1>15, <1>16 DEF Next

LEMMA InitFate == Init => Inv /\ Told /\ FateInv /\ Apart /\ NoTicketLost /\ Fates!Init
<1> SUFFICES ASSUME Init PROVE Told /\ FateInv /\ Apart /\ NoTicketLost /\ Fates!Init
  BY InitInv
<1>1. InActor = {} /\ actor.tickets = << >> /\ actor.pc = "idle" /\ InQueue = {}
  BY DEF Init, IdleActor, InActor, InQueue, ToSet
<1>2. Told /\ Apart /\ NoTicketLost
  BY <1>1 DEF Init, Told, Apart, NoTicketLost
<1>3. FateInv
  BY <1>1 DEF Init, FateInv, Untold, NoTwice
<1>4. FateOf = [t \in Tickets |-> "unminted"]
  BY DEF Init, FateOf
<1>5. Fates!Init
  BY <1>4 DEF Init, Fates!Init
<1> QED BY <1>2, <1>3, <1>5

(* A ticket waits until its fate is decided, once, wherever a cancel, a     *)
(* second search, a drain or a lost feed falls between the actor's steps.   *)
THEOREM MatchmakerImplementsFate == Spec => ImplementsFate
<1>1. Init => Inv /\ Told /\ FateInv /\ Apart /\ NoTicketLost /\ Fates!Init
  BY InitFate
<1>2. Inv /\ Told /\ FateInv /\ Apart /\ NoTicketLost /\ [Next]_vars
          => /\ [Fates!Next]_(Fates!vars)
             /\ Inv' /\ Told' /\ FateInv' /\ Apart' /\ NoTicketLost'
  BY InvStep, FateStep, FateInvStep, ApartStep, FatesStep DEF Inv
<1> QED BY <1>1, <1>2, PTL DEF Spec, ImplementsFate, Fates!Spec

=============================================================================
