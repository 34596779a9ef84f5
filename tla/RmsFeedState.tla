--------------------------- MODULE RmsFeedState ---------------------------
(***************************************************************************)
(* What one Session knows about its client's rms feed (the WebSocket that   *)
(* carries the matchmaking frames): server/src/session.rs, fields           *)
(* `matchmaking_ws` and `rms_feed`.  Every method of Session that changes   *)
(* them runs under the `matchmaking_ws` lock, so each is one operator from  *)
(* the feed before to the feed after.  A feed also holds `chan`: what was   *)
(* put into each socket's channel, which is how the effect of a send is     *)
(* observed.  Sockets are numbered in the order the client opens them, and  *)
(* tickets in the order the matchmaker resolves them; a ticket stands for   *)
(* the MatchmakingSucceeded message of its match.                           *)
(***************************************************************************)
EXTENDS Integers, Sequences

CONSTANTS NumSockets,    \* bound: sockets the client opens over a session
          NumTickets,    \* bound: tickets of this client that get a match
          MaxTime        \* bound: the clock stops here

ASSUME FeedBoundsAssumption ==
    /\ NumSockets \in Nat
    /\ NumTickets \in Nat
    /\ MaxTime \in Nat

Sockets == 1..NumSockets
NoSocket == 0
Tickets == 1..NumTickets
NoTicket == 0
Times == 0..MaxTime
NotLost == -1                    \* lost_at = None

NoPending == [ticket |-> NoTicket, sentAt |-> 0, sentOn |-> NoSocket]

PendingMatches == [ticket : Tickets, sentAt : Times,
                   sentOn : Sockets \cup {NoSocket}]

Feeds == [slot    : Sockets \cup {NoSocket},
          lostAt  : Times \cup {NotLost},
          pending : PendingMatches \cup {NoPending},
          chan    : [Sockets -> Seq(Tickets)]]

NewFeed == [slot |-> NoSocket, lostAt |-> NotLost, pending |-> NoPending,
            chan |-> [s \in Sockets |-> << >>]]

(* tx.send: fails, without a trace, once the socket's task dropped its      *)
(* receiver.  `open` is the set of sockets whose receiver is still held.    *)
Written(f, s, t, open) ==
    IF s \in open THEN [f EXCEPT !.chan = [f.chan EXCEPT ![s] = Append(f.chan[s], t)]] ELSE f

(* send_matchmaking with a Succeeded: remembered first, as written to the   *)
(* socket registered now (if any), then written.                            *)
Sent(f, t, at, open) ==
    Written([f EXCEPT !.pending = [ticket |-> t, sentAt |-> at, sentOn |-> f.slot]],
            f.slot, t, open)

(* The part of replay_pending_match after the optional registration.  A     *)
(* socket the message was last written to never gets it again, and this is  *)
(* decided before asking whether the match still wants the player.          *)
\* Mutant: the sent_on check is dropped.
ReplayDueAgain(f) == f.slot # NoSocket /\ f.pending # NoPending

ReplayDue(f) ==
    /\ f.slot # NoSocket
    /\ f.pending # NoPending
    /\ f.pending.sentOn # f.slot

\* Mutant: the message is marked as sent on the new socket but not sent.
ReplayedMarkOnly(f, stillWanted, open) ==
    IF ~ReplayDue(f) THEN f
    ELSE IF ~stillWanted THEN [f EXCEPT !.pending = NoPending]
    ELSE [f EXCEPT !.pending = [f.pending EXCEPT !.sentOn = f.slot]]

Replayed(f, stillWanted, open) ==
    IF ~ReplayDue(f) THEN f
    ELSE IF ~stillWanted THEN [f EXCEPT !.pending = NoPending]
    ELSE Written([f EXCEPT !.pending = [f.pending EXCEPT !.sentOn = f.slot]],
                 f.slot, f.pending.ticket, open)

(* replay_pending_match(Some(tx)): a new socket takes the slot and gets the *)
(* message the client may have missed.                                      *)
\* Mutant: the grace keeps running under the new socket.
RegisteredStillLost(f, s) == [f EXCEPT !.slot = s]

Registered(f, s) == [f EXCEPT !.slot = s, !.lostAt = NotLost]

\* Mutant: a new socket is registered without the replay.
OpenedNoReplay(f, s, stillWanted, open) == Registered(f, s)

Opened(f, s, stillWanted, open) == Replayed(Registered(f, s), stillWanted, open)

(* clear_matchmaking_ws_if_owner: compare-and-clear.                        *)
\* Mutant: the blind clear.
ReleasedBlind(f, s, at) == [f EXCEPT !.slot = NoSocket, !.lostAt = at]

Released(f, s, at) ==
    IF f.slot = s THEN [f EXCEPT !.slot = NoSocket, !.lostAt = at] ELSE f

(* clear_pending_match(None) and clear_pending_match(Some(t)).              *)
Forgot(f) == [f EXCEPT !.pending = NoPending]
ForgotTicket(f, t) == IF f.pending.ticket = t THEN Forgot(f) ELSE f

(* What rms_down_for answers: LiveFeed is None, NeverOpened Duration::MAX.   *)
LiveFeed == -1
NeverOpened == MaxTime + 1
DownTimes == Times \cup {LiveFeed, NeverOpened}
=============================================================================
