--------------------------- MODULE RmsFeedProofs ---------------------------
(***************************************************************************)
(* The safety of one session's rms feed, for any number of sockets, tickets *)
(* and clock values.                                                        *)
(***************************************************************************)
EXTENDS RmsFeed, TLAPS

(* What a socket's channel can hold: nothing before it opens, and only      *)
(* tickets already resolved, so that a newly resolved ticket is in none.    *)
ChannelsHoldResolved ==
    /\ feed.pending.ticket <= resolved
    /\ \A s \in Sockets : \A i \in DOMAIN feed.chan[s] : feed.chan[s][i] <= resolved
    /\ \A s \in Sockets : socket[s] = "unopened" => feed.chan[s] = << >>

(* The client opens its sockets in order, and only a socket between its     *)
(* opening and its teardown holds the slot.                                 *)
SlotHeldWhileUp ==
    /\ \A r, s \in Sockets : r < s /\ socket[s] # "unopened" => socket[r] # "unopened"
    /\ feed.slot # NoSocket => socket[feed.slot] \in {"serving", "exited"}

(* The read of rms_down_for subtracts lost_at from the clock.               *)
LostInThePast == feed.lostAt <= now

(* "Never neither" (send_matchmaking): while a socket is registered, the    *)
(* remembered match was written to that very socket.                        *)
RegisteredSocketHasIt ==
    feed.slot # NoSocket /\ feed.pending # NoPending => feed.pending.sentOn = feed.slot

IInv ==
    /\ TypeOK
    /\ LostInThePast
    /\ ChannelsHoldResolved
    /\ SlotHeldWhileUp
    /\ NoSocketGetsItTwice
    /\ RegisteredSocketHasIt
    /\ NewestSocketOwnsSlot
    /\ GraceRunsIffVacated

-----------------------------------------------------------------------------
(* Every operation on a feed returns a feed. *)
LEMMA WrittenType ==
    ASSUME NEW f \in Feeds, NEW s \in Sockets \cup {NoSocket}, NEW t \in Tickets,
           NEW open \in SUBSET Sockets
    PROVE  /\ Written(f, s, t, open) \in Feeds
           /\ Written(f, s, t, open).slot = f.slot
           /\ Written(f, s, t, open).lostAt = f.lostAt
           /\ Written(f, s, t, open).pending = f.pending
           /\ \A r \in Sockets : r # s => Written(f, s, t, open).chan[r] = f.chan[r]
           /\ \/ Written(f, s, t, open) = f
              \/ s \in Sockets /\ Written(f, s, t, open).chan[s] = Append(f.chan[s], t)
  <1>1. CASE s \in open
    <2>1. s \in Sockets
      BY <1>1
    <2>2. f.chan \in [Sockets -> Seq(Tickets)]
      BY DEF Feeds
    <2>3. Append(f.chan[s], t) \in Seq(Tickets)
      BY <2>1, <2>2
    <2>4. [f.chan EXCEPT ![s] = Append(f.chan[s], t)] \in [Sockets -> Seq(Tickets)]
      BY <2>2, <2>3
    <2>5. Written(f, s, t, open) = [f EXCEPT !.chan = [f.chan EXCEPT ![s] = Append(f.chan[s], t)]]
      BY <1>1 DEF Written
    <2> QED
      BY <2>1, <2>2, <2>4, <2>5 DEF Feeds
  <1>2. CASE s \notin open
    BY <1>2 DEF Written
  <1> QED
    BY <1>1, <1>2

(* A sequence without repetitions stays so when a new element is appended.  *)
LEMMA AppendFresh ==
    ASSUME NEW c \in Seq(Tickets), NEW t \in Tickets,
           \A i \in DOMAIN c : c[i] # t,
           \A i, j \in DOMAIN c : c[i] = c[j] => i = j
    PROVE  \A i, j \in DOMAIN Append(c, t) :
               Append(c, t)[i] = Append(c, t)[j] => i = j
  OBVIOUS

(* What opening, sending and replaying do to the parts of a feed.           *)
LEMMA SentFeed ==
    ASSUME NEW f \in Feeds, NEW t \in Tickets, NEW at \in Times,
           NEW open \in SUBSET Sockets
    PROVE  /\ Sent(f, t, at, open) \in Feeds
           /\ Sent(f, t, at, open).slot = f.slot
           /\ Sent(f, t, at, open).lostAt = f.lostAt
           /\ Sent(f, t, at, open).pending = [ticket |-> t, sentAt |-> at, sentOn |-> f.slot]
           /\ \A r \in Sockets : \/ Sent(f, t, at, open).chan[r] = f.chan[r]
                                 \/ /\ r = f.slot
                                    /\ Sent(f, t, at, open).chan[r] = Append(f.chan[r], t)
  <1> DEFINE p == [ticket |-> t, sentAt |-> at, sentOn |-> f.slot]
             g == [f EXCEPT !.pending = p]
  <1>1. g \in Feeds /\ g.pending = p /\ g.slot = f.slot /\ g.lostAt = f.lostAt /\ g.chan = f.chan
    BY DEF Feeds, PendingMatches
  <1>2. f.slot \in Sockets \cup {NoSocket}
    BY DEF Feeds
  <1>3. Sent(f, t, at, open) = Written(g, f.slot, t, open)
    BY DEF Sent
  <1> HIDE DEF p, g
  <1>4. /\ Written(g, f.slot, t, open) \in Feeds
        /\ Written(g, f.slot, t, open).slot = g.slot
        /\ Written(g, f.slot, t, open).lostAt = g.lostAt
        /\ Written(g, f.slot, t, open).pending = g.pending
        /\ \A r \in Sockets : r # f.slot => Written(g, f.slot, t, open).chan[r] = g.chan[r]
        /\ \/ Written(g, f.slot, t, open) = g
           \/ f.slot \in Sockets
              /\ Written(g, f.slot, t, open).chan[f.slot] = Append(g.chan[f.slot], t)
    BY <1>1, <1>2, WrittenType
  <1>5. p = [ticket |-> t, sentAt |-> at, sentOn |-> f.slot]
    BY DEF p
  <1> QED
    BY <1>1, <1>3, <1>4, <1>5

LEMMA OpenedFeed ==
    ASSUME NEW f \in Feeds, NEW s \in Sockets, NEW w \in BOOLEAN,
           NEW open \in SUBSET Sockets
    PROVE  /\ Opened(f, s, w, open) \in Feeds
           /\ Opened(f, s, w, open).slot = s
           /\ Opened(f, s, w, open).lostAt = NotLost
           /\ \/ Opened(f, s, w, open).pending = NoPending
              \/ /\ Opened(f, s, w, open).pending.ticket = f.pending.ticket
                 /\ Opened(f, s, w, open).pending.sentOn = s
           /\ \A r \in Sockets : \/ Opened(f, s, w, open).chan[r] = f.chan[r]
                                 \/ /\ r = s
                                    /\ f.pending \in PendingMatches
                                    /\ Opened(f, s, w, open).chan[r]
                                           = Append(f.chan[r], f.pending.ticket)
  <1> DEFINE g == Registered(f, s)
             h == [g EXCEPT !.pending = [g.pending EXCEPT !.sentOn = s]]
  <1>1. /\ g \in Feeds /\ g.slot = s /\ g.lostAt = NotLost
        /\ g.pending = f.pending /\ g.chan = f.chan
    BY DEF Registered, Feeds
  <1>2. Opened(f, s, w, open) = Replayed(g, w, open)
    BY DEF Opened
  <1>3. s # NoSocket
    BY FeedBoundsAssumption DEF Sockets, NoSocket
  <1>4. CASE ~ReplayDue(g)
    <2>1. Replayed(g, w, open) = g
      BY <1>4 DEF Replayed
    <2>2. g.pending = NoPending \/ g.pending.sentOn = s
      BY <1>1, <1>3, <1>4 DEF ReplayDue
    <2> HIDE DEF g
    <2> QED
      BY <1>1, <1>2, <2>1, <2>2
  <1>5. CASE ReplayDue(g) /\ ~w
    <2>1. Replayed(g, w, open) = [g EXCEPT !.pending = NoPending]
      BY <1>5 DEF Replayed
    <2> HIDE DEF g
    <2> QED
      BY <1>1, <1>2, <2>1 DEF Feeds
  <1>6. CASE ReplayDue(g) /\ w
    <2>1. f.pending \in PendingMatches
      BY <1>1, <1>6 DEF ReplayDue, Feeds
    <2>2. /\ h \in Feeds /\ h.slot = s /\ h.lostAt = NotLost /\ h.chan = f.chan
          /\ h.pending.ticket = f.pending.ticket /\ h.pending.sentOn = s
      <3> HIDE DEF g
      <3> QED BY <1>1, <2>1 DEF Feeds, PendingMatches
    <2>3. Replayed(g, w, open) = Written(h, s, f.pending.ticket, open)
      <3>1. Replayed(g, w, open)
              = Written([g EXCEPT !.pending = [g.pending EXCEPT !.sentOn = g.slot]],
                        g.slot, g.pending.ticket, open)
        BY <1>6 DEF Replayed
      <3> HIDE DEF g
      <3> QED BY <1>1, <3>1
    <2>4. f.pending.ticket \in Tickets
      BY <2>1 DEF PendingMatches
    <2> DEFINE t == f.pending.ticket
               y == Written(h, s, t, open)
    <2> HIDE DEF h, t
    <2>5. /\ y \in Feeds /\ y.slot = s /\ y.lostAt = NotLost /\ y.pending = h.pending
          /\ \A r \in Sockets : r # s => y.chan[r] = f.chan[r]
          /\ y = h \/ y.chan[s] = Append(f.chan[s], t)
      BY <2>2, <2>4, WrittenType, SMTT(20) DEF t
    <2>6. Opened(f, s, w, open) = y
      BY <1>2, <2>3 DEF t
    <2> HIDE DEF y
    <2>7. \A r \in Sockets : y.chan[r] = f.chan[r] \/ (r = s /\ y.chan[r] = Append(f.chan[r], t))
      BY <2>2, <2>5
    <2> QED
      BY <2>1, <2>2, <2>5, <2>6, <2>7 DEF t
  <1> QED
    BY <1>4, <1>5, <1>6

-----------------------------------------------------------------------------
LEMMA SocketFacts ==
    /\ Sockets \subseteq Nat
    /\ NoSocket \notin Sockets
    /\ Tickets \subseteq Nat
    /\ NoTicket \notin Tickets
    /\ NotLost \notin Times
    /\ NoPending.ticket = NoTicket
    /\ NoPending.sentOn = NoSocket
    /\ NoPending \notin PendingMatches
  BY FeedBoundsAssumption
     DEF Sockets, NoSocket, Tickets, NoTicket, NotLost, Times, NoPending, PendingMatches

LEMMA InitInv == Init => IInv
  BY SocketFacts, FeedBoundsAssumption
     DEF Init, IInv, TypeOK, LostInThePast, ChannelsHoldResolved, SlotHeldWhileUp, NoSocketGetsItTwice,
         RegisteredSocketHasIt, NewestSocketOwnsSlot, GraceRunsIffVacated, NewFeed, Feeds,
         SocketStates, Readers, IdleReader, DownTimes, LiveFeed, HasOpened, Newest,
         NotLost, NoSocket, NoTicket, NoPending, Times, Sockets, Tickets

(* A feed left alone, with the sockets left alone, keeps everything but     *)
(* the types of the other variables.                                        *)
LEMMA FeedUntouched ==
    ASSUME IInv, TypeOK', UNCHANGED <<feed, socket, resolved>>, now' \in {now, now + 1}
    PROVE  IInv'
  <1>1. LostInThePast'
    BY FeedBoundsAssumption DEF IInv, TypeOK, LostInThePast, Times, Feeds, NotLost
  <1> QED
    BY <1>1 DEF IInv, ChannelsHoldResolved, SlotHeldWhileUp, NoSocketGetsItTwice,
         RegisteredSocketHasIt, NewestSocketOwnsSlot, GraceRunsIffVacated, HasOpened, Newest

LEMMA OpenSocketInv ==
    ASSUME IInv, NEW s \in Sockets, OpenSocket(s)
    PROVE  IInv'
  <1> DEFINE w == StillWants(feed.pending)
             open == Serving \cup {s}
  <1>1. feed \in Feeds /\ w \in BOOLEAN /\ open \in SUBSET Sockets
    BY DEF IInv, TypeOK, Serving, StillWants
  <1>2. feed' = Opened(feed, s, w, open)
    BY DEF OpenSocket
  <1>3. /\ feed' \in Feeds
        /\ feed'.slot = s
        /\ feed'.lostAt = NotLost
        /\ \/ feed'.pending = NoPending
           \/ feed'.pending.ticket = feed.pending.ticket /\ feed'.pending.sentOn = s
        /\ \A r \in Sockets :
              \/ feed'.chan[r] = feed.chan[r]
              \/ /\ r = s
                 /\ feed.pending \in PendingMatches
                 /\ feed'.chan[r] = Append(feed.chan[r], feed.pending.ticket)
    <2> HIDE DEF w, open
    <2> QED BY <1>1, <1>2, OpenedFeed
  <1> HIDE DEF w, open
  <1>4. /\ socket[s] = "unopened"
        /\ \A r \in Sockets : r < s => socket[r] # "unopened"
        /\ socket' = [socket EXCEPT ![s] = "serving"]
        /\ client' = s
        /\ UNCHANGED <<heard, resolved, wanted, now, reader>>
    BY DEF OpenSocket
  <1>5. TypeOK'
    BY <1>3, <1>4 DEF IInv, TypeOK, SocketStates
  <1>6. socket \in [Sockets -> SocketStates]
    BY DEF IInv, TypeOK
  <1>7. feed.chan[s] = << >>
    BY <1>4 DEF IInv, ChannelsHoldResolved
  <1>8. \A r \in Sockets :
          \/ feed'.chan[r] = feed.chan[r]
          \/ /\ r = s
             /\ feed.pending \in PendingMatches
             /\ feed'.chan[r] = <<feed.pending.ticket>>
    BY <1>3, <1>7
  <1>9. ChannelsHoldResolved'
    <2>1. feed'.pending.ticket <= resolved'
      BY <1>3, <1>4, SocketFacts DEF IInv, TypeOK, ChannelsHoldResolved, NoTicket
    <2>2. \A r \in Sockets : \A i \in DOMAIN feed'.chan[r] : feed'.chan[r][i] <= resolved'
      BY <1>4, <1>8 DEF IInv, ChannelsHoldResolved
    <2>3. \A r \in Sockets : socket'[r] = "unopened" => feed'.chan[r] = << >>
      BY <1>4, <1>6, <1>8 DEF IInv, ChannelsHoldResolved
    <2> QED BY <2>1, <2>2, <2>3 DEF ChannelsHoldResolved
  <1>10. SlotHeldWhileUp'
    BY <1>3, <1>4, <1>6 DEF IInv, SlotHeldWhileUp
  <1>11. NoSocketGetsItTwice'
    BY <1>8 DEF IInv, NoSocketGetsItTwice
  <1>12. RegisteredSocketHasIt'
    BY <1>3 DEF RegisteredSocketHasIt
  <1>13. NewestSocketOwnsSlot'
    <2>1. \A r \in Sockets : r > s => socket[r] = "unopened"
      BY <1>4, SocketFacts DEF IInv, SlotHeldWhileUp
    <2>2. \A r \in Sockets : Newest(r)' => r = s
      BY <1>4, <1>6, <2>1, SocketFacts DEF Newest
    <2> QED
      BY <1>3, <2>2 DEF NewestSocketOwnsSlot
  <1>14. GraceRunsIffVacated'
    BY <1>3, SocketFacts DEF GraceRunsIffVacated
  <1>15. LostInThePast'
    BY <1>3, <1>4, FeedBoundsAssumption DEF IInv, TypeOK, LostInThePast, NotLost, Times
  <1> QED
    BY <1>5, <1>9, <1>10, <1>11, <1>12, <1>13, <1>14, <1>15 DEF IInv

LEMMA SocketExitsInv ==
    ASSUME IInv, NEW s \in Sockets, SocketExits(s)
    PROVE  IInv'
  <1>1. /\ socket[s] = "serving"
        /\ socket' = [socket EXCEPT ![s] = "exited"]
        /\ client' \in {client, NoSocket}
        /\ UNCHANGED <<feed, heard, resolved, wanted, now, reader>>
    BY DEF SocketExits
  <1>2. socket \in [Sockets -> SocketStates]
    BY DEF IInv, TypeOK
  <1>3. \A r \in Sockets : socket'[r] = "unopened" <=> socket[r] = "unopened"
    BY <1>1, <1>2
  <1>4. TypeOK'
    BY <1>1 DEF IInv, TypeOK, SocketStates
  <1>5. ChannelsHoldResolved'
    BY <1>1, <1>3 DEF IInv, ChannelsHoldResolved
  <1>6. SlotHeldWhileUp'
    BY <1>1, <1>2, <1>3 DEF IInv, SlotHeldWhileUp
  <1>7. NoSocketGetsItTwice' /\ RegisteredSocketHasIt'
    BY <1>1 DEF IInv, NoSocketGetsItTwice, RegisteredSocketHasIt
  <1>8. NewestSocketOwnsSlot'
    BY <1>1, <1>2, <1>3 DEF IInv, NewestSocketOwnsSlot, Newest
  <1>9. GraceRunsIffVacated' /\ LostInThePast'
    BY <1>1, <1>3 DEF IInv, GraceRunsIffVacated, HasOpened, LostInThePast
  <1> QED
    BY <1>4, <1>5, <1>6, <1>7, <1>8, <1>9 DEF IInv

LEMMA TearDownInv ==
    ASSUME IInv, NEW s \in Sockets, TearDown(s)
    PROVE  IInv'
  <1>1. /\ socket[s] = "exited"
        /\ socket' = [socket EXCEPT ![s] = "closed"]
        /\ feed' = Released(feed, s, now)
        /\ UNCHANGED <<client, heard, resolved, wanted, now, reader>>
    BY DEF TearDown
  <1>2. socket \in [Sockets -> SocketStates] /\ feed \in Feeds /\ now \in Times
    BY DEF IInv, TypeOK
  <1>3. \A r \in Sockets : socket'[r] = "unopened" <=> socket[r] = "unopened"
    BY <1>1, <1>2
  <1>4. /\ feed' \in Feeds
        /\ feed'.chan = feed.chan
        /\ feed'.pending = feed.pending
        /\ \/ feed'.slot = NoSocket /\ feed.slot = s /\ feed'.lostAt = now
           \/ feed' = feed /\ feed.slot # s
    BY <1>1, <1>2 DEF Released, Feeds
  <1>5. TypeOK'
    BY <1>1, <1>4 DEF IInv, TypeOK, SocketStates
  <1>6. ChannelsHoldResolved'
    BY <1>1, <1>3, <1>4 DEF IInv, ChannelsHoldResolved
  <1>7. SlotHeldWhileUp'
    BY <1>1, <1>2, <1>3, <1>4 DEF IInv, SlotHeldWhileUp
  <1>8. NoSocketGetsItTwice' /\ RegisteredSocketHasIt'
    BY <1>4 DEF IInv, NoSocketGetsItTwice, RegisteredSocketHasIt
  <1>9. NewestSocketOwnsSlot'
    BY <1>1, <1>2, <1>3, <1>4 DEF IInv, NewestSocketOwnsSlot, Newest
  <1>10. GraceRunsIffVacated'
    BY <1>1, <1>2, <1>3, <1>4, SocketFacts DEF IInv, GraceRunsIffVacated, HasOpened
  <1>11. LostInThePast'
    BY <1>1, <1>2, <1>4, FeedBoundsAssumption DEF IInv, LostInThePast, Times
  <1> QED
    BY <1>5, <1>6, <1>7, <1>8, <1>9, <1>10, <1>11 DEF IInv

LEMMA ResolveInv ==
    ASSUME IInv, Resolve
    PROVE  IInv'
  <1> DEFINE t == resolved + 1
  <1>1. /\ feed \in Feeds /\ Serving \in SUBSET Sockets /\ now \in Times
        /\ resolved \in Nat /\ t \in Tickets
    BY FeedBoundsAssumption DEF IInv, TypeOK, Serving, Resolve, Tickets
  <1>2. /\ feed' = Sent(feed, t, now, Serving)
        /\ resolved' = t
        /\ wanted' = wanted \cup {t}
        /\ UNCHANGED <<socket, client, heard, now, reader>>
    BY DEF Resolve
  <1>3. /\ feed' \in Feeds
        /\ feed'.slot = feed.slot
        /\ feed'.lostAt = feed.lostAt
        /\ feed'.pending.ticket = t
        /\ feed'.pending.sentOn = feed.slot
        /\ \A r \in Sockets : \/ feed'.chan[r] = feed.chan[r]
                              \/ r = feed.slot /\ feed'.chan[r] = Append(feed.chan[r], t)
    <2> HIDE DEF t
    <2>1. feed'.pending = [ticket |-> t, sentAt |-> now, sentOn |-> feed.slot]
      BY <1>1, <1>2, SentFeed
    <2>2. feed'.pending.ticket = t /\ feed'.pending.sentOn = feed.slot
      BY <2>1
    <2> QED BY <1>1, <1>2, <2>2, SentFeed
  <1>4. TypeOK'
    <2>1. feed' \in Feeds /\ resolved' \in 0..NumTickets /\ wanted' \subseteq Tickets
      BY <1>1, <1>2, <1>3, FeedBoundsAssumption DEF IInv, TypeOK, Tickets
    <2> QED BY <1>2, <2>1 DEF IInv, TypeOK
  <1>5. \A r \in Sockets : \A i \in DOMAIN feed.chan[r] :
          feed.chan[r][i] \in Nat /\ feed.chan[r][i] <= resolved
    <2>1. \A r \in Sockets : feed.chan[r] \in Seq(Tickets)
      BY <1>1 DEF Feeds
    <2>2. \A r \in Sockets : \A i \in DOMAIN feed.chan[r] : feed.chan[r][i] \in Tickets
      BY <2>1
    <2> QED BY <2>2, SocketFacts DEF IInv, ChannelsHoldResolved
  <1>6. \A r \in Sockets : feed.chan[r] \in Seq(Tickets)
    BY <1>1 DEF Feeds
  <1>7. ChannelsHoldResolved'
    <2>1. \A r \in Sockets : \A i \in DOMAIN feed'.chan[r] : feed'.chan[r][i] <= resolved'
      <3> SUFFICES ASSUME NEW r \in Sockets, NEW i \in DOMAIN feed'.chan[r]
                   PROVE  feed'.chan[r][i] <= t
        BY <1>2
      <3>1. CASE feed'.chan[r] = feed.chan[r]
        BY <1>1, <1>5, <3>1
      <3>2. CASE feed'.chan[r] = Append(feed.chan[r], t)
        BY <1>1, <1>5, <1>6, <3>2
      <3> QED BY <1>3, <3>1, <3>2
    <2>2. \A r \in Sockets : socket'[r] = "unopened" => feed'.chan[r] = << >>
      BY <1>2, <1>3, SocketFacts DEF IInv, ChannelsHoldResolved, SlotHeldWhileUp
    <2> QED
      BY <1>1, <1>2, <1>3, <2>1, <2>2 DEF ChannelsHoldResolved
  <1>8. NoSocketGetsItTwice'
    <2> SUFFICES ASSUME NEW r \in Sockets
                 PROVE  \A i, j \in DOMAIN feed'.chan[r] :
                            feed'.chan[r][i] = feed'.chan[r][j] => i = j
      BY DEF NoSocketGetsItTwice
    <2>1. \A i, j \in DOMAIN feed.chan[r] : feed.chan[r][i] = feed.chan[r][j] => i = j
      BY DEF IInv, NoSocketGetsItTwice
    <2>2. \A i \in DOMAIN feed.chan[r] : feed.chan[r][i] # t
      BY <1>1, <1>5
    <2> HIDE DEF t
    <2>3. \A i, j \in DOMAIN Append(feed.chan[r], t) :
             Append(feed.chan[r], t)[i] = Append(feed.chan[r], t)[j] => i = j
      BY <1>1, <1>6, <2>1, <2>2, AppendFresh
    <2> QED
      BY <1>3, <2>1, <2>3
  <1>9. SlotHeldWhileUp' /\ NewestSocketOwnsSlot'
    BY <1>2, <1>3 DEF IInv, SlotHeldWhileUp, NewestSocketOwnsSlot, Newest
  <1>10. RegisteredSocketHasIt'
    BY <1>3 DEF RegisteredSocketHasIt
  <1>11. GraceRunsIffVacated' /\ LostInThePast'
    BY <1>2, <1>3 DEF IInv, GraceRunsIffVacated, HasOpened, LostInThePast
  <1> QED
    BY <1>4, <1>7, <1>8, <1>9, <1>10, <1>11 DEF IInv

(* A repeated create finds nothing to replay: whatever is remembered was    *)
(* already written to the registered socket.                                *)
LEMMA NothingToReplay ==
    ASSUME RegisteredSocketHasIt, NEW w, NEW open
    PROVE  Replayed(feed, w, open) = feed
  BY DEF RegisteredSocketHasIt, Replayed, ReplayDue

LEMMA ForgotInv ==
    ASSUME IInv, feed' = Forgot(feed), wanted' \subseteq wanted,
           UNCHANGED <<socket, client, heard, resolved, now, reader>>
    PROVE  IInv'
  <1>1. /\ feed \in Feeds /\ feed' \in Feeds
        /\ feed'.slot = feed.slot /\ feed'.lostAt = feed.lostAt /\ feed'.chan = feed.chan
        /\ feed'.pending = NoPending
    BY DEF IInv, TypeOK, Forgot, Feeds
  <1>2. TypeOK'
    BY <1>1 DEF IInv, TypeOK
  <1>3. ChannelsHoldResolved'
    BY <1>1, SocketFacts DEF IInv, TypeOK, ChannelsHoldResolved, NoTicket
  <1>4. SlotHeldWhileUp' /\ NewestSocketOwnsSlot' /\ GraceRunsIffVacated' /\ LostInThePast'
    BY <1>1 DEF IInv, LostInThePast, SlotHeldWhileUp, NewestSocketOwnsSlot, Newest, GraceRunsIffVacated, HasOpened
  <1>5. NoSocketGetsItTwice' /\ RegisteredSocketHasIt'
    BY <1>1 DEF IInv, NoSocketGetsItTwice, RegisteredSocketHasIt
  <1> QED
    BY <1>2, <1>3, <1>4, <1>5 DEF IInv

LEMMA NextInv == IInv /\ [Next]_vars => IInv'
  <1> SUFFICES ASSUME IInv, [Next]_vars PROVE IInv'
    OBVIOUS
  <1> USE DEF IInv
  <1>1. ASSUME NEW s \in Sockets, OpenSocket(s) \/ SocketExits(s) \/ TearDown(s) PROVE IInv'
    BY <1>1, OpenSocketInv, SocketExitsInv, TearDownInv
  <1>2. CASE Abandon
    BY <1>2, FeedUntouched DEF TypeOK, Abandon
  <1>3. CASE ClientReads
    <2>1. \A i \in DOMAIN feed.chan[client] : feed.chan[client][i] \in Tickets
      BY <1>3 DEF ClientReads, TypeOK, Feeds, Serving
    <2>2. TypeOK'
      BY <1>3, <2>1 DEF ClientReads, TypeOK
    <2> QED BY <1>3, <2>2, FeedUntouched DEF ClientReads
  <1>4. CASE Resolve
    BY <1>4, ResolveInv
  <1>5. CASE FreshCreate
    BY <1>5, ForgotInv DEF FreshCreate
  <1>6. ASSUME NEW t \in Tickets, MatchMovesOn(t) PROVE IInv'
    BY <1>6, FeedUntouched DEF TypeOK, MatchMovesOn
  <1>7. ASSUME NEW t \in Tickets, RepeatedCreate(t) PROVE IInv'
    <2>1. feed' = feed
      BY <1>7, NothingToReplay DEF RepeatedCreate
    <2> QED BY <1>7, <2>1, FeedUntouched DEF TypeOK, RepeatedCreate
  <1>8. ASSUME NEW t \in Tickets, Cancel(t) PROVE IInv'
    <2>1. CASE feed' = Forgot(feed)
      BY <1>8, <2>1, ForgotInv DEF Cancel
    <2>2. CASE feed' = feed
      BY <1>8, <2>2, FeedUntouched DEF TypeOK, Cancel
    <2> QED BY <1>8, <2>1, <2>2 DEF Cancel, ForgotTicket
  <1>9. CASE Tick
    BY <1>9, FeedUntouched, FeedBoundsAssumption DEF TypeOK, Tick, Times
  <1>10. CASE ReadSlot \/ ReadLost \/ ReadSlotAgain \/ ReadDone
    <2>1. UNCHANGED feedVars
      BY <1>10 DEF ReadSlot, ReadLost, ReadSlotAgain, ReadDone
    <2>2. feed.lostAt # NotLost => now - feed.lostAt \in Times
      BY FeedBoundsAssumption DEF TypeOK, LostInThePast, Feeds, Times, NotLost
    <2>a. LiveFeed \in DownTimes /\ NeverOpened \in DownTimes /\ Times \subseteq DownTimes
          /\ 0 \in Times /\ HasOpened \in BOOLEAN
      BY FeedBoundsAssumption DEF DownTimes, LiveFeed, NeverOpened, Times, HasOpened
    <2>b. ASSUME ReadSlot PROVE reader' \in Readers
      BY <2>a, <2>b DEF ReadSlot, Readers
    <2>c. ASSUME ReadLost PROVE reader' \in Readers
      BY <2>a, <2>c, <2>2 DEF ReadLost, Readers, TypeOK
    <2>d. ASSUME ReadSlotAgain PROVE reader' \in Readers
      BY <2>a, <2>d DEF ReadSlotAgain, Readers, TypeOK
    <2>e. ASSUME ReadDone PROVE reader' \in Readers
      BY <2>a, <2>e DEF ReadDone, Readers, IdleReader
    <2>4. reader' \in Readers
      BY <1>10, <2>b, <2>c, <2>d, <2>e
    <2>3. TypeOK'
      BY <2>1, <2>4 DEF TypeOK, feedVars
    <2> QED BY <2>1, <2>3, FeedUntouched DEF feedVars
  <1>11. CASE UNCHANGED vars
    BY <1>11, FeedUntouched DEF TypeOK, vars
  <1> QED
    BY <1>1, <1>2, <1>3, <1>4, <1>5, <1>6, <1>7, <1>8, <1>9, <1>10, <1>11 DEF Next

-----------------------------------------------------------------------------
(* For any number of sockets and tickets: the variables keep their types    *)
(* and the elapsed time rms_down_for computes is never negative.            *)
THEOREM TypeCorrect == Spec => []TypeOK
  <1>1. IInv => TypeOK
    BY DEF IInv
  <1> QED
    BY <1>1, InitInv, NextInv, PTL DEF Spec

(* For any number of sockets and tickets, no socket is ever given the same  *)
(* MatchmakingSucceeded twice, however sends, reconnects, teardowns and     *)
(* repeated creates interleave.                                             *)
THEOREM SucceededOncePerSocket == Spec => []NoSocketGetsItTwice
  <1>1. IInv => NoSocketGetsItTwice
    BY DEF IInv
  <1> QED
    BY <1>1, InitInv, NextInv, PTL DEF Spec

(* ... and the socket registered now has been given the match the session   *)
(* remembers: the other half of "never both, never neither".                *)
THEOREM RememberedIsWritten == Spec => []RegisteredSocketHasIt
  <1>1. IInv => RegisteredSocketHasIt
    BY DEF IInv
  <1> QED
    BY <1>1, InitInv, NextInv, PTL DEF Spec

(* The teardown of an older socket never takes the slot from the newest.    *)
THEOREM CompareAndClear == Spec => []NewestSocketOwnsSlot
  <1>1. IInv => NewestSocketOwnsSlot
    BY DEF IInv
  <1> QED
    BY <1>1, InitInv, NextInv, PTL DEF Spec

(* lost_at is set exactly while a client that had a feed has none, so the   *)
(* reconnect grace never runs against a registered socket.                  *)
THEOREM GraceOnlyWhileDown == Spec => []GraceRunsIffVacated
  <1>1. IInv => GraceRunsIffVacated
    BY DEF IInv
  <1> QED
    BY <1>1, InitInv, NextInv, PTL DEF Spec
-----------------------------------------------------------------------------
(* The refinement.  What it needs beside IInv: once a socket was opened     *)
(* there is a newest, nobody else has the slot or the client's ear, and     *)
(* nothing was sent on a socket still to be opened.                         *)
NewestKnown ==
    /\ HasOpened => \E s \in Sockets : Newest(s)
    /\ \A s \in Sockets : feed.slot = s \/ client = s => Newest(s)
    /\ \A s \in Sockets : feed.pending.sentOn = s => socket[s] # "unopened"

LEMMA NewestIsUnique ==
    ASSUME NEW r \in Sockets, NEW s \in Sockets, Newest(r), Newest(s)
    PROVE  r = s
  BY SocketFacts DEF Newest

LEMMA NewestSocketIs ==
    ASSUME NEW s \in Sockets, Newest(s)
    PROVE  NewestSocket = s
  <1>1. HasOpened
    BY DEF HasOpened, Newest
  <1>2. \A r \in Sockets : Newest(r) => r = s
    BY NewestIsUnique
  <1> QED
    BY <1>1, <1>2 DEF NewestSocket

LEMMA NewestSocketCases ==
    ASSUME NewestKnown
    PROVE  \/ ~HasOpened /\ NewestSocket = NoSocket
           \/ NewestSocket \in Sockets /\ Newest(NewestSocket)
  BY DEF NewestKnown, NewestSocket

(* A step that opens no socket changes neither which is the newest nor what *)
(* is known of it, if it gives nobody the slot or the client's ear.         *)
LEMMA NewestStays ==
    ASSUME NewestKnown, SlotHeldWhileUp,
           \A r \in Sockets : socket'[r] = "unopened" <=> socket[r] = "unopened"
    PROVE  /\ NewestSocket' = NewestSocket
           /\ /\ feed'.slot \in {feed.slot, NoSocket} /\ client' \in {client, NoSocket}
              /\ feed'.pending.sentOn \in {feed.pending.sentOn, feed.slot, NoSocket}
              => NewestKnown'
  <1>1. \A r \in Sockets : Newest(r)' <=> Newest(r)
    BY DEF Newest
  <1>2. HasOpened' <=> HasOpened
    BY DEF HasOpened
  <1>3. CASE ~HasOpened
    <2>1. NewestSocket' = NewestSocket
      BY <1>2, <1>3 DEF NewestSocket
    <2>2. \A s \in Sockets : feed.slot # s /\ client # s /\ feed.pending.sentOn # s
      BY <1>3 DEF NewestKnown, Newest, HasOpened
    <2> QED BY <1>2, <1>3, <2>1, <2>2, SocketFacts DEF NewestKnown
  <1>4. CASE HasOpened
    <2>1. PICK s \in Sockets : Newest(s)
      BY <1>4 DEF NewestKnown
    <2>2. Newest(s)'
      BY <1>1, <2>1
    <2>3. NewestSocket = s
      BY <2>1, NewestSocketIs
    <2>4. \A r \in Sockets : Newest(r)' => r = s
      BY <1>1, <2>1, NewestIsUnique
    <2>5. NewestSocket' = s
      BY <1>2, <1>4, <2>2, <2>4 DEF NewestSocket
    <2> QED BY <1>1, <1>2, <2>1, <2>3, <2>5, SocketFacts DEF NewestKnown, SlotHeldWhileUp
  <1> QED BY <1>3, <1>4

(* Sends go to the slot: that is to the newest socket, if it is serving.    *)
LEMMA SlotIsNewest ==
    ASSUME IInv, NewestKnown
    PROVE  /\ feed.slot \in Serving <=> NewestSocket \in Serving
           /\ NewestSocket \in Serving => feed.slot = NewestSocket
  <1>1. ASSUME feed.slot \in Serving PROVE NewestSocket = feed.slot
    <2>1. feed.slot \in Sockets
      BY <1>1 DEF Serving
    <2> QED BY <2>1, NewestSocketIs DEF NewestKnown
  <1>2. ASSUME NewestSocket \in Serving PROVE feed.slot = NewestSocket
    <2>1. NewestSocket \in Sockets /\ Newest(NewestSocket) /\ socket[NewestSocket] = "serving"
      BY <1>2, NewestSocketCases, SocketFacts DEF Serving
    <2> QED BY <2>1 DEF IInv, NewestSocketOwnsSlot
  <1> QED BY <1>1, <1>2

LEMMA OpenSocketRefines ==
    ASSUME IInv, NewestKnown, NEW s \in Sockets, OpenSocket(s)
    PROVE  Delivery!Connect /\ NewestKnown'
  <1> DEFINE w == StillWants(feed.pending)
             open == Serving \cup {s}
  <1>1. /\ socket[s] = "unopened" /\ \A r \in Sockets : r < s => socket[r] # "unopened"
        /\ socket' = [socket EXCEPT ![s] = "serving"] /\ socket \in [Sockets -> SocketStates]
        /\ client' = s
        /\ UNCHANGED <<heard, resolved, wanted, now, reader>>
    BY DEF OpenSocket, IInv, TypeOK
  <1>2. s = NewestSocket + 1
    <2>1. CASE ~HasOpened /\ NewestSocket = NoSocket
      <3>1. ~(1 < s)
        BY <1>1, <2>1, FeedBoundsAssumption DEF HasOpened, Sockets
      <3> QED BY <2>1, <3>1, FeedBoundsAssumption DEF Sockets, NoSocket
    <2>2. CASE NewestSocket \in Sockets /\ Newest(NewestSocket)
      <3> DEFINE n == NewestSocket
      <3>1. n < s
        BY <1>1, <2>2, SocketFacts DEF Newest, IInv, SlotHeldWhileUp
      <3>2. n + 1 \in Sockets
        BY <2>2, <3>1, FeedBoundsAssumption DEF Sockets
      <3>3. ~(n + 1 < s)
        BY <1>1, <2>2, <3>2, SocketFacts DEF Newest
      <3> QED BY <2>2, <3>1, <3>3, SocketFacts
    <2> QED BY <2>1, <2>2, NewestSocketCases
  <1>3. \A r \in Sockets : r > s => socket[r] = "unopened"
    BY <1>1, SocketFacts DEF IInv, SlotHeldWhileUp
  <1>4. Newest(s)' /\ \A r \in Sockets : Newest(r)' => r = s
    BY <1>1, <1>3, SocketFacts DEF Newest
  <1>5. HasOpened' /\ socket'[s] = "serving"
    BY <1>1 DEF HasOpened
  <1>6. NewestSocket' = s
    BY <1>4, <1>5 DEF NewestSocket
  <1>7. (NewestSocket \in Serving)'
    BY <1>5, <1>6 DEF Serving
  <1>8. feed \in Feeds /\ w \in BOOLEAN /\ open \in SUBSET Sockets
    BY DEF IInv, TypeOK, Serving, StillWants
  <1>9. feed' = Opened(feed, s, w, open)
    BY DEF OpenSocket
  <1>10. feed'.slot = s
    <2> HIDE DEF w, open
    <2> QED BY <1>8, <1>9, OpenedFeed
  <1>11. NewestKnown'
    <2>1. feed'.pending = NoPending \/ feed'.pending.sentOn = s
      <3> HIDE DEF w, open
      <3> QED BY <1>8, <1>9, OpenedFeed
    <2>2. \A r \in Sockets : feed'.pending.sentOn = r => r = s
      BY <2>1, SocketFacts
    <2> QED BY <1>1, <1>4, <1>5, <1>10, <2>2 DEF NewestKnown
  <1> DEFINE g == Registered(feed, s)
             t == feed.pending.ticket
  <1>12. g \in Feeds /\ g.slot = s /\ g.pending = feed.pending /\ g.chan = feed.chan
    BY <1>8 DEF Registered, Feeds
  <1>13. feed' = Replayed(g, w, open)
    BY <1>9 DEF Opened
  <1>14. feed.chan[s] = << >> /\ feed.chan \in [Sockets -> Seq(Tickets)]
    BY <1>1, <1>8 DEF IInv, ChannelsHoldResolved, Feeds
  <1>15. \/ /\ t # NoTicket /\ feed'.pending.ticket = t
            /\ feed'.chan = [feed.chan EXCEPT ![s] = <<t>>]
         \/ feed'.pending.ticket = NoTicket /\ feed'.chan = feed.chan
    <2>1. CASE feed.pending = NoPending
      <3>1. feed' = g
        BY <1>12, <1>13, <2>1 DEF Replayed, ReplayDue
      <3> HIDE DEF g
      <3> QED BY <1>12, <2>1, <3>1, SocketFacts
    <2>2. CASE feed.pending # NoPending
      <3>1. feed.pending \in PendingMatches /\ t \in Tickets
        BY <1>8, <2>2 DEF Feeds, PendingMatches
      <3>2. ReplayDue(g)
        <4>1. feed.pending.sentOn # s
          BY <1>1 DEF NewestKnown
        <4> HIDE DEF g
        <4> QED BY <1>12, <2>2, <4>1, SocketFacts DEF ReplayDue
      <3>3. CASE ~w
        <4>1. feed' = [g EXCEPT !.pending = NoPending]
          BY <1>13, <3>2, <3>3 DEF Replayed
        <4> HIDE DEF g
        <4>2. feed'.pending = NoPending /\ feed'.chan = g.chan
          BY <1>12, <4>1 DEF Feeds
        <4> QED BY <1>12, <4>2, SocketFacts
      <3>4. CASE w
        <4> DEFINE p == [g.pending EXCEPT !.sentOn = g.slot]
                   h == [g EXCEPT !.pending = p]
        <4>1. feed' = Written(h, g.slot, g.pending.ticket, open)
          BY <1>13, <3>2, <3>4 DEF Replayed
        <4> HIDE DEF g
        <4>2. h.chan = feed.chan /\ h.pending.ticket = t
          BY <1>12, <3>1 DEF Feeds, PendingMatches
        <4>3. h \in [slot : Sockets \cup {NoSocket}, lostAt : Times \cup {NotLost},
                     pending : {p}, chan : [Sockets -> Seq(Tickets)]]
          BY <1>12 DEF Feeds
        <4> HIDE DEF h, w
        <4>4. feed' = [h EXCEPT !.chan = [h.chan EXCEPT ![s] = Append(h.chan[s], t)]]
          BY <1>12, <4>1 DEF Written
        <4>5. feed'.pending = h.pending /\ feed'.chan = [feed.chan EXCEPT ![s] = Append(feed.chan[s], t)]
          BY <4>2, <4>3, <4>4
        <4>6. Append(feed.chan[s], t) = <<t>>
          BY <1>14
        <4> QED BY <3>1, <4>2, <4>5, <4>6, SocketFacts
      <3> QED BY <3>3, <3>4
    <2> QED BY <2>1, <2>2
  <1> HIDE DEF t
  <1>16. NewestSocket + 1 \in Sockets /\ NewestSocket' = NewestSocket + 1
    BY <1>2, <1>6
  <1> QED BY <1>1, <1>2, <1>7, <1>11, <1>15, <1>16 DEF Delivery!Connect, t

LEMMA ResolveRefines ==
    ASSUME IInv, NewestKnown, Resolve
    PROVE  Delivery!Match /\ NewestKnown'
  <1> DEFINE t == resolved + 1
             n == NewestSocket
  <1>1. /\ feed' = Sent(feed, t, now, Serving) /\ resolved' = t
        /\ UNCHANGED <<socket, client, heard>>
        /\ feed \in Feeds
    BY DEF Resolve, IInv, TypeOK
  <1>2. feed.slot \in Serving <=> n \in Serving
    BY SlotIsNewest
  <1>3. n \in Serving => feed.slot = n
    BY SlotIsNewest
  <1> DEFINE p == [ticket |-> t, sentAt |-> now, sentOn |-> feed.slot]
             h == [feed EXCEPT !.pending = p]
  <1>4. feed' = Written(h, feed.slot, t, Serving)
    BY <1>1 DEF Sent
  <1>5. h.slot = feed.slot /\ h.chan = feed.chan /\ h.pending = p
        /\ h \in [slot : Sockets \cup {NoSocket}, lostAt : Times \cup {NotLost},
                  pending : {p}, chan : [Sockets -> Seq(Tickets)]]
    BY <1>1 DEF Feeds
  <1>6. p.ticket = t /\ p.sentOn = feed.slot
    OBVIOUS
  <1> HIDE DEF h, p, t, n
  <1>7. /\ feed'.slot = feed.slot /\ feed'.pending = p
        /\ feed'.chan = IF n \in Serving THEN [feed.chan EXCEPT ![n] = Append(feed.chan[n], t)]
                                         ELSE feed.chan
    <2>1. CASE n \in Serving
      <3>1. feed' = [h EXCEPT !.chan = [h.chan EXCEPT ![n] = Append(h.chan[n], t)]]
        BY <1>2, <1>3, <1>4, <2>1 DEF Written
      <3> QED BY <1>5, <2>1, <3>1
    <2>2. CASE n \notin Serving
      BY <1>2, <1>4, <1>5, <2>2 DEF Written
    <2> QED BY <2>1, <2>2
  <1>8. NewestSocket' = n /\ NewestKnown'
    <2>1. feed'.pending.sentOn = feed.slot
      BY <1>6, <1>7
    <2> QED BY <1>1, <1>7, <2>1, NewestStays DEF n, IInv
  <1>9. (NewestSocket \in Serving)' <=> n \in Serving
    BY <1>1, <1>8 DEF Serving
  <1> QED BY <1>1, <1>6, <1>7, <1>8, <1>9 DEF Delivery!Match, n, t

(* A step that leaves the feed, or forgets the match it remembers.          *)
LEMMA ForgetRefines ==
    ASSUME IInv, NewestKnown, feed' \in {feed, Forgot(feed)}, client' \in {client, NoSocket},
           UNCHANGED <<socket, resolved, heard>>
    PROVE  (Delivery!Forget \/ UNCHANGED Delivery!vars) /\ NewestKnown'
  <1>1. feed \in Feeds
    BY DEF IInv, TypeOK
  <1>2. \/ feed' = feed
        \/ feed'.slot = feed.slot /\ feed'.chan = feed.chan /\ feed'.pending = NoPending
    BY <1>1 DEF Forgot, Feeds
  <1>3. NewestSocket' = NewestSocket /\ NewestKnown'
    BY <1>2, SocketFacts, NewestStays DEF IInv
  <1>4. (NewestSocket \in Serving)' <=> NewestSocket \in Serving
    BY <1>3 DEF Serving
  <1>5. \/ feed'.pending.ticket = feed.pending.ticket /\ feed'.chan = feed.chan
        \/ feed'.pending.ticket = NoTicket /\ feed'.chan = feed.chan
    BY <1>2, SocketFacts
  <1> QED BY <1>3, <1>4, <1>5 DEF Delivery!Forget, Delivery!vars

(* A socket ends its loop, or is torn down: only the first of the newest    *)
(* socket is seen.                                                          *)
LEMMA SocketEndRefines ==
    ASSUME IInv, NewestKnown, NEW s \in Sockets, SocketExits(s) \/ TearDown(s)
    PROVE  (Delivery!Drop \/ UNCHANGED Delivery!vars) /\ NewestKnown'
  <1>1. socket \in [Sockets -> SocketStates] /\ feed \in Feeds
    BY DEF IInv, TypeOK
  <1>2. /\ \/ socket[s] = "serving" /\ socket' = [socket EXCEPT ![s] = "exited"]
           \/ socket[s] = "exited" /\ socket' = [socket EXCEPT ![s] = "closed"]
        /\ client' \in {client, NoSocket}
        /\ UNCHANGED <<heard, resolved>>
    BY DEF SocketExits, TearDown
  <1>3. /\ feed'.chan = feed.chan /\ feed'.pending = feed.pending
        /\ feed'.slot \in {feed.slot, NoSocket}
    BY <1>1 DEF SocketExits, TearDown, Released, Feeds
  <1>4. \A r \in Sockets : socket'[r] = "unopened" <=> socket[r] = "unopened"
    BY <1>1, <1>2
  <1>5. NewestSocket' = NewestSocket /\ NewestKnown'
    BY <1>2, <1>3, <1>4, NewestStays DEF IInv
  <1>6. \A r \in Sockets : r # s => (socket'[r] = "serving" <=> socket[r] = "serving")
    BY <1>1, <1>2
  <1>7. socket'[s] # "serving"
    BY <1>1, <1>2
  <1>8. \/ (NewestSocket \in Serving)' <=> NewestSocket \in Serving
        \/ NewestSocket \in Serving /\ ~(NewestSocket \in Serving)'
    BY <1>5, <1>6, <1>7 DEF Serving
  <1> QED BY <1>2, <1>3, <1>5, <1>8 DEF Delivery!Drop, Delivery!vars

LEMMA ReadRefines ==
    ASSUME IInv, NewestKnown, ClientReads
    PROVE  Delivery!Read /\ NewestKnown'
  <1>1. /\ client \in Serving /\ UNCHANGED <<feed, socket, client, resolved>>
        /\ heard' = heard \cup {feed.chan[client][i] : i \in DOMAIN feed.chan[client]}
    BY DEF ClientReads
  <1>2. client \in Sockets
    BY <1>1 DEF Serving
  <1>3. NewestSocket = client
    BY <1>2, NewestSocketIs DEF NewestKnown
  <1>4. NewestSocket' = NewestSocket /\ NewestKnown'
    BY <1>1, NewestStays DEF IInv
  <1>5. (NewestSocket \in Serving)' <=> NewestSocket \in Serving
    BY <1>1, <1>4 DEF Serving
  <1>6. heard' = heard \cup {feed.chan[NewestSocket][i] : i \in DOMAIN feed.chan[NewestSocket]}
    BY <1>1, <1>3
  <1> QED BY <1>1, <1>3, <1>4, <1>5, <1>6 DEF Delivery!Read

LEMMA NextRefines ==
    IInv /\ NewestKnown /\ [Next]_vars => [Delivery!Next]_(Delivery!vars) /\ NewestKnown'
  <1> SUFFICES ASSUME IInv, NewestKnown, [Next]_vars
               PROVE  (Delivery!Next \/ UNCHANGED Delivery!vars) /\ NewestKnown'
    OBVIOUS
  <1> USE DEF Delivery!Next
  <1>1. ASSUME NEW s \in Sockets, OpenSocket(s)
        PROVE  (Delivery!Next \/ UNCHANGED Delivery!vars) /\ NewestKnown'
    BY <1>1, OpenSocketRefines
  <1>2. ASSUME NEW s \in Sockets, SocketExits(s) \/ TearDown(s)
        PROVE  (Delivery!Next \/ UNCHANGED Delivery!vars) /\ NewestKnown'
    BY <1>2, SocketEndRefines
  <1>3. CASE ClientReads
    BY <1>3, ReadRefines
  <1>4. CASE Resolve
    BY <1>4, ResolveRefines
  <1>5. CASE \/ Abandon \/ FreshCreate \/ Tick
             \/ \E t \in Tickets : MatchMovesOn(t) \/ RepeatedCreate(t) \/ Cancel(t)
             \/ ReadSlot \/ ReadLost \/ ReadSlotAgain \/ ReadDone
             \/ UNCHANGED vars
    <2>1. ASSUME NEW t \in Tickets, RepeatedCreate(t)
          PROVE  feed' = feed
      BY <2>1, NothingToReplay DEF RepeatedCreate, IInv
    <2>2. ASSUME NEW t \in Tickets, Cancel(t)
          PROVE  feed' \in {feed, Forgot(feed)}
      BY <2>2 DEF Cancel, ForgotTicket
    <2>3. feed' \in {feed, Forgot(feed)}
      BY <1>5, <2>1, <2>2 DEF Abandon, FreshCreate, Tick, MatchMovesOn, ReadSlot, ReadLost,
                             ReadSlotAgain, ReadDone, feedVars, vars
    <2>4. client' \in {client, NoSocket} /\ UNCHANGED <<socket, resolved, heard>>
      BY <1>5 DEF Abandon, FreshCreate, Tick, MatchMovesOn, RepeatedCreate, Cancel, ReadSlot,
                  ReadLost, ReadSlotAgain, ReadDone, feedVars, vars
    <2> QED BY <2>3, <2>4, ForgetRefines
  <1> QED
    BY <1>1, <1>2, <1>3, <1>4, <1>5 DEF Next

LEMMA InitRefines == Init => Delivery!Init /\ NewestKnown
  <1> SUFFICES ASSUME Init PROVE Delivery!Init /\ NewestKnown
    OBVIOUS
  <1>1. ~HasOpened /\ feed.slot = NoSocket /\ client = NoSocket /\ feed.pending = NoPending
        /\ feed.chan = [s \in Sockets |-> << >>] /\ resolved = 0 /\ heard = {}
    BY DEF Init, HasOpened, NewFeed
  <1>2. NewestSocket = NoSocket
    BY <1>1 DEF NewestSocket
  <1>3. NewestSocket \notin Serving
    BY <1>2, SocketFacts DEF Serving
  <1> QED BY <1>1, <1>2, <1>3, SocketFacts DEF Delivery!Init, NewestKnown, NoSocket, NoTicket

(* The feed is an implementation of MatchDelivery: a match is written when  *)
(* it is made and to each socket opened while it is remembered, and at no   *)
(* other time, whatever reconnects, late teardowns and repeated creates     *)
(* come between.                                                            *)
THEOREM FeedImplementsDelivery == Spec => ImplementsDelivery
  <1>1. Init => Delivery!Init /\ IInv /\ NewestKnown
    BY InitInv, InitRefines
  <1>2. IInv /\ NewestKnown /\ [Next]_vars
            => [Delivery!Next]_(Delivery!vars) /\ IInv' /\ NewestKnown'
    BY NextInv, NextRefines
  <1> QED
    BY <1>1, <1>2, PTL DEF Spec, ImplementsDelivery, Delivery!Spec
=============================================================================
