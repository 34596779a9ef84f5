------------------------------ MODULE RmsFeed ------------------------------
(***************************************************************************)
(* One session's rms feed over time: the sockets the client opens, abandons *)
(* and loses (server/src/arena/matchmaking.rs), the matchmaker that sends   *)
(* MatchmakingSucceeded, the HTTP handlers that forget or replay it         *)
(* (matchmaker.rs create_match and cancel_match), and the three-lock read   *)
(* of rms_down_for.                                                         *)
(***************************************************************************)
EXTENDS RmsFeedState, FiniteSets

CONSTANT ReplayCutoff   \* REPLAY_CUTOFF, in ticks of the clock

ASSUME CutoffAssumption == ReplayCutoff \in Nat

VARIABLES
    feed,      \* Session.matchmaking_ws + Session.rms_feed
    socket,    \* each socket's server task
    client,    \* the socket the client really reads, if any
    heard,     \* tickets whose Succeeded the client has read
    resolved,  \* how many tickets the matchmaker has resolved
    wanted,    \* tickets whose match still awaits this player
    now,
    reader     \* a task inside rms_down_for

feedVars == <<feed, socket, client, heard, resolved, wanted, now>>
vars == <<feed, socket, client, heard, resolved, wanted, now, reader>>

SocketStates == {"unopened", "serving", "exited", "closed"}

Serving == {s \in Sockets : socket[s] = "serving"}

HasOpened == \E s \in Sockets : socket[s] # "unopened"

(* match_still_wants: the match still awaits this player and the frame is   *)
(* young enough for the client to dial before the sweep.                    *)
StillWants(p) == p.ticket \in wanted /\ now - p.sentAt <= ReplayCutoff

IdleReader == [pc |-> "idle", result |-> LiveFeed]

Readers == [pc : {"idle", "readLost", "readSlot", "done"}, result : DownTimes]

Init ==
    /\ feed = NewFeed
    /\ socket = [s \in Sockets |-> "unopened"]
    /\ client = NoSocket
    /\ heard = {}
    /\ resolved = 0
    /\ wanted = {}
    /\ now = 0
    /\ reader = IdleReader

-----------------------------------------------------------------------------
(* The client opens its next socket; the handler registers it and replays   *)
(* under the same lock, before the socket's task serves anything.           *)
OpenSocket(s) ==
    /\ socket[s] = "unopened"
    /\ \A r \in Sockets : r < s => socket[r] # "unopened"
    /\ socket' = [socket EXCEPT ![s] = "serving"]
    /\ feed' = Opened(feed, s, StillWants(feed.pending), Serving \cup {s})
    /\ client' = s
    /\ UNCHANGED <<heard, resolved, wanted, now, reader>>

(* The client stops reading its socket; the server does not know yet.       *)
Abandon ==
    /\ client \in Sockets
    /\ client < NumSockets
    /\ client' = NoSocket
    /\ UNCHANGED <<feed, socket, heard, resolved, wanted, now, reader>>

(* The socket's loop ends: a Close frame, the stream ending, a protocol     *)
(* error or a failed ping.  Its receiver is dropped with it.  The last      *)
(* socket of the bound is never lost.                                       *)
SocketExits(s) ==
    /\ socket[s] = "serving"
    /\ s < NumSockets
    /\ socket' = [socket EXCEPT ![s] = "exited"]
    /\ client' = IF client = s THEN NoSocket ELSE client
    /\ UNCHANGED <<feed, heard, resolved, wanted, now, reader>>

(* The teardown that follows, as a separate step: a new socket may have     *)
(* been registered in between.                                              *)
TearDown(s) ==
    /\ socket[s] = "exited"
    /\ socket' = [socket EXCEPT ![s] = "closed"]
    /\ feed' = Released(feed, s, now)
    /\ UNCHANGED <<client, heard, resolved, wanted, now, reader>>

(* The socket's task forwards its channel and the client reads it.          *)
ClientReads ==
    /\ client \in Serving
    /\ heard' = heard \cup {feed.chan[client][i] : i \in DOMAIN feed.chan[client]}
    /\ UNCHANGED <<feed, socket, client, resolved, wanted, now, reader>>

(* The matchmaker resolves this client's next ticket into a match.          *)
Resolve ==
    /\ resolved < NumTickets
    /\ resolved' = resolved + 1
    /\ wanted' = wanted \cup {resolved + 1}
    /\ feed' = Sent(feed, resolved + 1, now, Serving)
    /\ UNCHANGED <<socket, client, heard, now, reader>>

(* The match no longer awaits this player: it connected, the match was      *)
(* abandoned or swept.                                                      *)
MatchMovesOn(t) ==
    /\ t \in wanted
    /\ wanted' = wanted \ {t}
    /\ UNCHANGED <<feed, socket, client, heard, resolved, now, reader>>

(* create_match for a fresh ticket, and create_match handed back the live   *)
(* ticket t of an earlier create.                                           *)
FreshCreate ==
    /\ feed' = Forgot(feed)
    /\ UNCHANGED <<socket, client, heard, resolved, wanted, now, reader>>

RepeatedCreate(t) ==
    /\ feed' = Replayed(feed, feed.pending.ticket = t /\ StillWants(feed.pending), Serving)
    /\ UNCHANGED <<socket, client, heard, resolved, wanted, now, reader>>

(* cancel_match: forgets the message and abandons the unfilled match.       *)
Cancel(t) ==
    /\ feed' = ForgotTicket(feed, t)
    /\ wanted' = wanted \ {t}
    /\ UNCHANGED <<socket, client, heard, resolved, now, reader>>

Tick ==
    /\ now < MaxTime
    /\ now' = now + 1
    /\ UNCHANGED <<feed, socket, client, heard, resolved, wanted, reader>>

-----------------------------------------------------------------------------
(* rms_down_for takes three looks, each under its own lock: the slot, then  *)
(* lost_at, then the slot again.                                            *)
ReadSlot ==
    /\ reader.pc = "idle"
    /\ reader' = [pc |-> IF feed.slot \in Serving THEN "done" ELSE "readLost", result |-> LiveFeed]
    /\ UNCHANGED feedVars

ReadLost ==
    /\ reader.pc = "readLost"
    /\ reader' = IF feed.lostAt # NotLost
                 THEN [reader EXCEPT !.pc = "done", !.result = now - feed.lostAt]
                 ELSE [reader EXCEPT !.pc = "readSlot"]
    /\ UNCHANGED feedVars

ReadSlotAgain ==
    /\ reader.pc = "readSlot"
    /\ reader' = [reader EXCEPT !.pc = "done",
                                !.result = IF feed.slot # NoSocket THEN 0 ELSE NeverOpened]
    /\ UNCHANGED feedVars

ReadDone ==
    /\ reader.pc = "done"
    /\ reader' = IdleReader
    /\ UNCHANGED feedVars

Next ==
    \/ \E s \in Sockets : OpenSocket(s) \/ SocketExits(s) \/ TearDown(s)
    \/ Abandon
    \/ ClientReads
    \/ Resolve
    \/ FreshCreate
    \/ \E t \in Tickets : MatchMovesOn(t) \/ RepeatedCreate(t) \/ Cancel(t)
    \/ Tick
    \/ ReadSlot \/ ReadLost \/ ReadSlotAgain \/ ReadDone

Spec == Init /\ [][Next]_vars

(* The client reconnects whenever it reads no socket (RmsManager retries    *)
(* every 3-10 s), and a healthy socket is read.  Nothing else is assumed:   *)
(* in particular neither the clock nor the dying sockets need to move.      *)
Fairness ==
    /\ \A s \in Sockets : WF_vars(client = NoSocket /\ OpenSocket(s))
    /\ WF_vars(ClientReads)

FairSpec == Spec /\ Fairness

-----------------------------------------------------------------------------
TypeOK ==
    /\ feed \in Feeds
    /\ socket \in [Sockets -> SocketStates]
    /\ client \in Sockets \cup {NoSocket}
    /\ heard \subseteq Tickets
    /\ resolved \in 0..NumTickets
    /\ wanted \subseteq Tickets
    /\ now \in Times
    /\ reader \in Readers

(* "A socket never gets the same Succeeded twice" (PendingMatch.sent_on),   *)
(* over every mix of sends, replays, reconnects and repeated creates.       *)
NoSocketGetsItTwice ==
    \A s \in Sockets : \A i, j \in DOMAIN feed.chan[s] :
        feed.chan[s][i] = feed.chan[s][j] => i = j

(* Compare-and-clear: the newest socket owns the slot from the moment it    *)
(* opens until its own teardown, whatever older sockets' teardowns do.      *)
Newest(s) == /\ socket[s] # "unopened"
             /\ \A r \in Sockets : r > s => socket[r] = "unopened"

NewestSocketOwnsSlot ==
    \A s \in Sockets : Newest(s) /\ socket[s] # "closed" => feed.slot = s

NewestSocket == IF HasOpened THEN CHOOSE s \in Sockets : Newest(s) ELSE NoSocket

(* A match is written when it is made and to each socket opened while it is *)
(* remembered, and never otherwise: no repeated create, late teardown or    *)
(* stale replay writes a match that was forgotten or superseded, or writes  *)
(* to a socket the client has left.                                         *)
Delivery == INSTANCE MatchDelivery
                WITH newest <- NewestSocket, up <- NewestSocket \in Serving,
                     due <- feed.pending.ticket, got <- feed.chan
ImplementsDelivery == Delivery!Spec

(* The reconnect grace runs exactly while a client that had a feed has      *)
(* none: lost_at is set when and only when the slot was vacated.            *)
GraceRunsIffVacated ==
    (feed.lostAt # NotLost) <=> (feed.slot = NoSocket /\ HasOpened)

(* A Succeeded whose match still awaits this player is eventually read, on  *)
(* whichever socket the client settles, unless it is forgotten, outlives    *)
(* the replay cutoff or the match moves on.                                 *)
AwaitedMatchIsHeard ==
    \A t \in Tickets :
        (feed.pending.ticket = t /\ t \in wanted)
            ~> \/ t \in heard
               \/ t \notin wanted
               \/ feed.pending.ticket # t
               \/ now - feed.pending.sentAt > ReplayCutoff
=============================================================================
