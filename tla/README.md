# Verification of the Blades arena server

TLA+ models of `blades-server-rewritten`, the TLC runs that check them on small
instances, and TLAPS proofs about them. Source paths are relative to
`src/server/src/` unless they start with another directory; `PROJECT.json` maps
every definition to the lines it stands for.

## 1. The system

The server re-implements the backend of a mobile game. Most of it is request
handlers over PostgreSQL: one transaction locks one character row (`FOR NO KEY
UPDATE`), changes it with a pure function of `blades_lib`, and writes it back.
The **arena** is different. It keeps live state in memory, shared by HTTP
workers, one matchmaker task, one WebSocket task per client, a UDP thread and a
database writer, and that is where ordering, loss and timing decide whether two
players meet, fight and are paid. The project models the arena, what its matches
pay and record, and the three parts of the rest whose requests interact: who is
signed in, the end of a season, and guild membership.

    HTTP create/cancel ----commands---->  matchmaker task ---allocate--->  match registry
          |   ^                              |                              ^        |
     ActiveTickets (shared)             send_matchmaking              ENet thread  tick / sweep
          |                                  v                              |        v
      session (rms slot, remembered match) --WebSocket--> client --UDP--> host    combat engine
                                                                                     |
                                                              economy queue <---- Victory step
                                                                   |
                                                              PostgreSQL rows

### Inventory

| component | state | operations | what is hard, and what makes it correct |
|---|---|---|---|
| rms feed (`session.rs` 22-285, `arena/matchmaking.rs`) | slot of the registered socket, remembered `Succeeded` and the socket it went to, `lost_at` | open+replay, send, exit, teardown, forget, `rms_down_for` | the client reconnects about once a minute while the old task is still dying; a frame must reach it once per socket and at least once, an old teardown must not evict a new socket, grace runs only while down |
| matchmaker (`arena/matchmaker.rs` 3597-4971) | `ActiveTickets`, command channel, waiting list, draining flag | create, cancel, enqueue, pair, deadline, last call, solo fallback, resolve, drain, resume | handlers run inside the actor's awaits; no ticket lost, no reservation stranded, nobody fights twice at once or against themselves, nobody waits for ever |
| match registry (`arena/match_registry.rs`) | matches with seats, bindings peer-slot, address index, permits | allocate, admit, bind, user data, rebind, depart, abandon, sweep, finish | the wire carries no ticket: who is who is inferred from source IP, elimination, identity frames or admission order; index and seats agree, one fighter per peer, permits come back |
| ENet host (`arena/enet_host.rs`) | ENet peers, `peer_at` owner per address | connect, receive, disconnect, key exchange, tick, retire, sweep | late packets and disconnects of dead generations, NAT port changes, repeated handshakes |
| combat flow (`arena/combat/engine.rs`, round end of `resolve.rs`) | phase, cursors, rounds, pending result, latched Ready presses, staged loadouts, relay ledger | tick, op28/36/57/61, death, timeout, concession, loadout save | results delayed past other events, concession at any moment, loadouts staged by HTTP handlers in any order; a best of three, told in order, always ends |
| combat resolution (`arena/combat/*`) | health, effects, cooldowns | swings, casts, ticks | floating-point formulas over shipped tables |
| drain (`status.rs`) | `accepting_matches`, an ack channel | drain, resume, health | the ack may arrive after its timeout; resume follows by itself |
| session table (`session.rs` 544-815, `authentification.rs`) | map id-session, `sessions` rows | mint, persist, claim, evict, cold load, expire | a restart empties memory but not the rows; two devices claim at once |
| match economy (`arena/arena_economy.rs`, `ranking.rs`) | an unbounded queue, character rows, audit rows, Elo rows | record, persist, rate, reconcile | three commits per result, a periodic replay of the audit rows |
| seasons (`arena/season_store.rs`, `arena_season.rs`, `season_rewards.rs`) | season rows, frozen standings, awards | open, close, roll | one transaction over everybody while fights end |
| guilds (`guild.rs`, `guild_policy.rs`, `guild_admin.rs`) | members, applications, removals, ranks | join, apply, approve, leave, kick, ban, succeed | checks made outside the transaction that acts on them |
| gifts (`global_gift.rs`, `free_for_all.rs`, `daily_reward.rs`, `arena_fight_gift.rs`) | claim counts, grant rows, fight counts | publish, claim, earn, deliver | paid once, across alts and retries |
| characters, town, craft, quests, dungeons, abyss, shops | one character row | one locked transaction per request | tables and rolls; no interaction to model |
| `arena_proto`, codecs, tables, boards, operator tools | none or read-only | | |

`PROJECT.json` lists every component with its files and, for each one left out,
why.

## 2. The modules

| module | models | used by / composes |
|---|---|---|
| `MatchDelivery` | what the feed promises of a match: written to the newest socket, and at once to every later one | implemented by `RmsFeed` |
| `RmsFeedState` | the operations on one session's rms state, as operators on a record | used by `RmsFeed` |
| `RmsFeed` | one client: its sockets, the matchmaker's sends, forgetting, a concurrent `rms_down_for` | |
| `TicketFate` | what matchmaking promises of a ticket: its fate is decided once | implemented by `Matchmaker` |
| `Matchmaker` | create/cancel handlers, `ActiveTickets`, the actor, drain and resume | |
| `RegistryState` | the operations of `MatchRegistry`, as operators on a record | used by `EnetHost` |
| `EnetHost` | the UDP thread, its clients and connections, over the registry | |
| `MatchOutcome` | what a match promises: a best of three with forfeits | implemented by `MatchFlow` |
| `MatchFlow` | the combat state machine, its walks, results, loadouts | |
| `ResultLedger` | what the writer promises of a result: it pays once, and is on record only if paid | implemented by `MatchEconomy` |
| `MatchEconomy` | the match-end queue and writer, ladder, fight gifts, Elo ratings and their replay | |
| `SeasonTurn` | what the end of a season promises of the rows: it turns for everyone at once | implemented by `SeasonClose` |
| `SeasonClose` | the end of a season against the writer and the repair of stale rows | |
| `Sessions` | the session map, the `sessions` table, logins, cold lookups, restarts | |
| `Guilds` | guild membership under overlapping requests | |
| `*Proofs` | theorems about the module of that name (eight modules) | |
| `MC*` | instances for TLC | |

### RmsFeed

`feed` is the `Session`'s `matchmaking_ws`, `rms_feed` and `pending_match`; its
`chan` is what was written to each socket. `OpenSocket` is the registration and
replay, which the code does in one critical section; `SocketExits` and `TearDown`
are separate because the code's task ends its loop, then awaits, then runs
`clear_matchmaking_ws_if_owner`. `Resolve` is `send_matchmaking` of a `Succeeded`;
`FreshCreate`, `RepeatedCreate` and `Cancel` are the REST handlers' effects on the
session; `MatchMovesOn` is the condition `awaits_player` changing under
`match_still_wants`. `rms_down_for` takes three locks one after the other, so it is
three steps (`ReadSlot`, `ReadLost`, `ReadSlotAgain`) of a reader of its own. A
socket that `Abandon` left unread still accepts writes until its task notices.

`RmsFeed` implements `MatchDelivery`, which knows the newest socket, whether it takes
messages, the match that is due and what each socket was written. Under the mapping
`newest <- NewestSocket` (the last one opened, whoever holds the slot) and
`due <- feed.pending.ticket` the teardown, the grace and the reader are stutters, and a
create that would replay a match to a socket that has it already is a step of nothing.

A repeated create on a live socket has nothing to replay: the remembered match was
written to the registered socket already (`RememberedIsWritten` in the proofs). The
replay in `create_match` can act only if the socket was put in the slot without
`replay_pending_match`, which only tests do.

### Matchmaker

The actor's loop body is cut at its awaits (`idle`, `placing`, `loading`,
`delivering`), so every handler can run in the middle of a resolution. A create
is `FreshCreate` (reserve) and `SendEnqueue` (after `load_skill`); a cancel is
four steps, one per piece of shared state (`CancelForget`, `CancelAbandon`,
`CancelRelease`, `CancelSend`). `DeadlineFires` is the three outcomes of the
timeout branch: drop the oldest if its client is gone, last call with another
waiting ticket, or the solo fallback against a bot. The waiting list is kept as
the set `waiting` and the order `ahead`, which lets a ticket leave the middle of
it in one assignment; a newcomer is put behind everybody.

Abstracted: which two users fit the bracket (any may, any may not), how long a
deadline is (it may fire whenever a ticket waits), the loadouts a resolution
loads, and the registry, which is a phase per match that moves on by itself.
`gone`, the users whose feed has been down past the grace, is read at one instant
per pass over the queue.

`Matchmaker` implements `TicketFate`, where a ticket waits in one place until its fate
is decided. `FateOf` reads the fate off the detailed state: the `outcome` once there is
one, `seated` from the allocation until the delivery loop passes the ticket, `waiting`
while a handler, the channel, the queue or the actor holds it, `withdrawn` when its own
cancel took it from the queue. The moves between those four places, the drain and the
registry are stutters.

### RegistryState and EnetHost

A match record holds its `players` in admission order with the key each seat
opened under, `slot` (`peer_to_slot`), `filled` (`reached_capacity`), `abandoned`,
the age as one of four classes (young, past `ABANDONED_MIN_AGE`, past
`CONNECT_DEADLINE`, past `MATCH_MAX_AGE`), and the phase of its combat instance as
the registry sees it (connecting, live, decided, finished). `reg.index` is
`addr_index`. `peerAt` is `peer_at`. `Conns` are ENet generations: each has a
client, an address at a time, a key after its exchange, and a state.

`pump`'s three events are `Dial`/`Migrate`, `Delivers` with `KeyExchange` or
`Frame`, and `Disconnect`, each as the whole branch: a key exchange from a seated
address that `has_fresh_connection_reservation` takes for a new connection first
departs the old seat; a frame from an unindexed address first tries
`rebind_encrypted_peer`; a frame that names its fighter binds its peer.
`Start` is the tick that sees all slots bound or the grace over; `Finish` is
`take_finished_peers`; `Sweep` is `sweep_expired` with the disconnects of
`release_reclaimed`. The two locks of the sweep are taken in one step of the one
thread that runs all of it. `Decide` is a fight won, or a match conceded by op28, also
while it is still connecting.

Keys are fresh for each exchange and a frame opens only under its own key; the
code recognises a rebind by two plaintext bytes, and a chance match of those is
not modelled. `debug_hold` is not modelled.

### MatchOutcome and MatchFlow

`MatchOutcome` knows three variables: rounds won, the winner, and whether it is
over. `MatchFlow` has the engine's: `phase` is `FlowState`, `match_state` the
state last broadcast, `step` the cursor of the running walk (the code has one
cursor per walk; each is 0 when its walk is entered), `clock` the time since
`phase_entered` in marks (0, a first deadline such as the 216 ms before a death's
result or the 1 s setup stagger, the end of the hold), `pending` is
`round_end_pending`, `told` and `card` what op48 and op49 carried. `ready` is
`skip_state_requested`. `StageLoadout` is the HTTP handler, which commits the row,
then reads it back and stages what it read: between the two another save may
commit, and two handlers may stage in either order. `relays` is a history
variable that counts every relay of a profile: by op36, by op61 (the helmet hidden or
shown) and by the `SynchronizingLoadout` step. The capacity is two; with `Humans = {0}`
the second fighter is a bot.

Blows are abstracted to who wins the round and double knock-outs to either
winner; a timeout gives the round to either fighter (the code compares health).
The death frames released with a pending result, clock synchronisation, emotes,
consumables, `debug_hold` and the reward amounts are left out.

### MatchEconomy

A match is opened with the cards its characters were shown (`Open` reads each
account's fight count, as `load_loadout` does), finishes once (`Finish` queues an
outcome per side, in slot order, as the Victory step does), and is paid by the one
writer: `PayTx` is the reward transaction, with the count and the gift in a
savepoint of their own that may fail alone; `Audit` the row of
`arena_match_results`, outside it; `Rate` the Elo pair, done by the outcome of the
lower character id only. `Reconcile` is the periodic replay of all audit rows.
`Claim` hands over a gift the card did not announce. `Crash` loses the queue, the
outcome in hand and the running matches. Each failing statement and each crash is a
`Fault`, of which there are `MaxFaults`.

An account never meets itself, and may have several characters: the count of fights
is per account, the trophies per character. A trophy is a win, a rung of the ladder
is a trophy, a rating is the sequence of matches it was computed from - equal
sequences give equal ratings, whatever the formula.

`MatchEconomy` implements `ResultLedger`: only `PayTx` moves a trophy, and for a result
that has not paid; only `Audit` puts one on record.

### SeasonClose

`end_arena_season` is one transaction: `CloseFreezes` (the lock on the season and the
standings), `CloseResetsGuilds`, `CloseReads` (all characters, without locks),
`CloseRolls` (one character at a time, each taking that row's lock) and `CloseCommits`;
without a next season it is over after the guilds (`CloseEnds`). What it writes is seen
at its commit; its locks are predicates over its step (`GuildsHeldByClose`,
`HeldByClose`). A row that does not parse (`Unreadable`) is skipped by the close and by
everything else; a character created after the read (`CreateCharacter`, one of the
`Newcomers`) is not in it. `RolledRows` is what the commit leaves: the copies rolled,
and all other rows as they are. The writer locks its character, then the guild, and
commits; then it audits. `RepairReads`, `RepairChecks` and `RepairWrites` are the repair
of a row of another season in `load_character_loadout`, which takes no lock for its
reads; there is one at a time. A newcomer's row is of no season until a repair enters
it into the active one, or a close that read it rolls it. `CloseTimesOut` is
`lock_timeout`, `WriterAborted` the database's choice of the other victim.

Cups, XP, archives and standings are the sets of results they were computed from.
`found` and `undone` are history variables: the rows the close had read, and those a
repair overwrote although they had changed since it read them.

Not modelled: imported characters, newcomers in a guild, a player whose repair fails
and who plays on with a row of no season, and a row that stops or starts to parse.

`SeasonClose` implements `SeasonTurn`, in which the close is one step: its reads, rolls
and locks are stutters and `CloseCommits` is the turn, with the rows it left alone and
what each other row kept as the choices (`CloseEnds` is the end without a turn). For a
member of a guild what it kept is everything in the row at that moment.

### Sessions

A login is `Ask` (the request, and whether it names a session of its own to spare),
`Store` (the map), `Persist` (the row), `Evict` (the map, and the early answer when
nobody was there), `DeleteRows` (which commits) and `Answer`, since the handler awaits
between the two. A request whose token the map does not know is
`Miss`, `ReadRow`, `Repopulate`. `Restart` empties the map and loses every request
in flight. `owner`, `overlapped`, `stranded` (a crash between the DELETE and the
answer), `mishap` and `raced` are history variables that the properties' preconditions
read; no action does.

### Guilds

A request is a record of what it has read so far, in a slot of its own: `Create`,
`Ask` (join or apply), `Decide` (approve or deny), `Leave` and `Remove` (kick or ban)
are the first reads of a handler; the `*Admits`, `*Finds` and `*Reads` steps are the
later reads with the pure decision of `guild_policy.rs`; `CreateFounds`, `Seated`,
`ApplyFiles`, `DenyStrikes`, `MemberLeaves`, `Succeeds`, `TornDown` and `Removes` are
the statements or transactions that write. A Grand Master's departure holds its
deleted row until it commits (`Held`), so another statement on that row waits.
`Refused` is every early return, and a failure. `crowded`, `overlap`, `outlaws` (who
was banned and not approved since), `missed` (which bans raced an admission or a kick
decided before them) and `led` are history variables.

## 3. What the runs check

| run | instance | distinct states |
|---|---|---|
| `rms_feed` | 3 sockets, 2 tickets, 3 clock values, replay cutoff 1 | 225,000 |
| `matchmaker` | 2 users, 3 tickets (ann searches twice), 2 matches, 2 permits, two cancels, one flaky feed, a drain | 2,531,000 |
| `matchmaker_live` | the same with one cancellable ticket, under fairness | 206,000 |
| `enet_host` | 3 addresses behind one NAT, a pair match then a solo match, 3 connections, one client with two ports | 2,670,000 |
| `enet_live` | own source IPs, 2 connections, the first may repeat its handshake, under fairness | 56,000 |
| `match_flow` | two humans, one of them saving 2 loadouts | 333,000 |
| `match_economy` | 3 characters on 2 accounts, 3 matches, a gift every 2nd fight, a queue of 3, one fault, one quitter | 778,000 |
| `season_close` | a guild member, one without a guild, an unreadable row and a newcomer, 3 results, 2 attempts to close, 1 repair | 320,000 |
| `season_reward_lost` | 2 characters, one in a guild, no repair, stopped at the counterexample | |
| `sessions` | 2 users, 4 sessions, restarts, failing statements (symmetric) | 724,000 |
| `sessions_revival` | 1 user, 2 sessions, no restart, no failure, stopped at the counterexample | |
| `guilds` | 3 users, 2 guilds, 3 requests at once and 4 altogether, cap 2, one application per guild (symmetric) | 156,000 |

Why the bounds are enough. *rms_feed*: an old socket dying, a current one, and a
newer one are all that a compare-and-clear can confuse; two tickets give an old
and a new match. *matchmaker*: the hazards need a user with two tickets and a
partner; a third user would only add independent tickets, and two permits let the
registry be full or not. *enet_host*: a pair match makes binding ambiguous, the
later solo match is the stranger's match a peer could be put into, and three
connections let one client come back while the opponent stays; with one NAT no source
IP singles anybody out, and that branch of the admission is in `enet_live` and in the
proofs. *match_flow* has
no bound except the number of loadouts: the rounds are bounded by the code (three),
and two saves let one handler overtake the other; the second fighter's saves would
be symmetric. *match_economy*: three matches climb, fall and climb again, reach a
second milestone of an account with two characters, and leave one outcome in the
queue while another is in hand; one fault at each possible point is what the code
answers for. *season_close*: a member of a guild and a character no guild protects, one row the
close must skip and one that comes too late; the second attempt shows what a failed
one left, and a second repair adds nothing that one does not show.
*sessions*: a login that spares another, one that overlaps it, and one after both.
*guilds*: two departures decided together with an admission in between need three
slots and three users; a fourth request lets one begin after another ended. The
state spaces are cut only in guards, by the constants marked "bound".

**rms_feed.** No `Succeeded` twice on one socket (`NoSocketGetsItTwice`); the feed
implements `MatchDelivery`: a match is written when it is made and to each socket
opened while it is due, never otherwise (`ImplementsDelivery`); the newest socket
owns the slot until its own teardown (`NewestSocketOwnsSlot`); `lost_at` is set
exactly while a once-connected client is down (`GraceRunsIffVacated`); an awaited
match is eventually read (`AwaitedMatchIsHeard`).

**matchmaker, matchmaker_live.** No account meets itself (`NoSelfPair`); an
unmatched reservation has somebody who will act on its ticket, except a ticket
dropped with its client's feed (`ReservationHeldOrDropped`); the fate of a ticket is
decided once, and none is lost (`ImplementsFate`, checked in `matchmaker_live`, the
smaller state space); one undecided fight per user unless a
cancel crossed the resolution (`OneFightAtATime`); the session remembers the newest
search (`RemembersTheNewestSearch`); a cancel takes effect even in a drain
(`CancelDequeues`); nobody waits for ever (`NobodyWaitsForEver`).

**enet_host, enet_live.** The index and the seats agree (`IndexMatchesSeats`); no two
peers are one fighter (`OneFighterPerPeer`); an undecided fight has a peer for each
of its fighters (`EveryFighterHasAPeer`); when the seats are held by the match's own
players, everyone bound before the FIFO fallback is bound to their own ticket's
fighter (`RightFighter`); every allocated match is eventually dropped and its permit
freed (`PermitComesBack`).

**match_flow.** `MatchFlow` implements `MatchOutcome` (`ImplementsOutcome`, with
`rounds <- round_winners` and `over <- phase = "Finished"`): a departure after the
decision is no second forfeit, the cap of three rounds never overrides two wins.
Results are told once, in order, and none is lost to a concession
(`ResultsAccumulate`); no Ready press overtakes a result (`ResultBeforeTheWalk`);
both clients get one card naming the winner before they are disconnected
(`CardBeforeGoodbye`); what was staged is worn in the next round
(`StagedGearMakesTheRound`); a profile is relayed again only with something new to show
(`RelayedOncePerProfile`);
a round
opens on known gear except what was staged late (`RoundOpensOnKnownGear`); every
match that starts ends (`MatchEnds`).

**match_economy.** No match moves a rating twice, though the writer and the replay
both may (`RatedAtMostOnce`); a result pays once, nothing else moves a trophy, and what
is on record was paid (`ImplementsLedger`); the
weapon of an account's n-th fight is given once, by the writer or by a claim
(`EveryMilestonePaysOnce`); no rung of the ladder pays twice and none below the
high-water mark is skipped (`EveryRungPaysOnce`); the ratings end as the replay of
the record (`RatingsFollowTheRecord`).

**season_close.** When the next season is active, whatever the close read and could
parse is of it and stays so, unless a repair overwrote it with what it had read before
(`NobodyLeftBehind`); the standings count nothing that a player's archive lost
(`StandingsAreArchived`); the close is one step in which a guild member loses
nothing and nobody a result the standings count (`ImplementsTurn`); every result is
paid or given up, although the two sides take their locks in opposite orders
(`ResultsSettle`).

**sessions.** When all logins of an account are answered, the rows in the table are
of one device (`RowsOfOneDevice`), so are the sessions in the map
((`LiveOnOneDevice`), and whoever was answered last can come back after any restart but
one between a later login's DELETE and its answer (`OwnerStaysSignedIn`); each with the
mishaps it excludes in its precondition.

**guilds.** A guild has exactly one Grand Master unless departures were decided
beside a change of Grand Master (`AlwaysLed`); the cap is exceeded by no more than
the admissions in flight together, less one (`CapExceededOnlyByOverlap`); a banned
player is recorded as banned and stays out until approved, unless the ban crossed an
admission or a kick decided before it (`BannedStaysOut`).

Each property has a mutant - a plausible slip in one definition, written beside it -
that TLC finds to violate it; `PROJECT.json` names them. The type invariants are
proved and not run again.

### Fairness

- `RmsFeed`: the client reconnects while it reads no socket (its `RmsManager`
  retries every 3-10 s) and a socket it reads is served. No fairness is assumed of
  dying sockets or the clock.
- `Matchmaker`: the actor is one task that is always polled, its deadlines are
  finite and its awaits bounded by timeouts. Nothing of clients, operators or
  matches.
- `EnetHost`: the loop ticks and sweeps without waiting (2 ms sleep, a sweep every
  5 s) and time passes. Nothing of clients.
- `MatchFlow`: time passes and every match is ticked on every turn of that loop.
  Nothing of players.
- `MatchEconomy`: the reconcile task runs periodically, as it does unless
  `h2h_reconcile_minutes` is 0, which turns it off (`ranking.rs` 1255-1258). Nothing of
  the writer, which may stay on an outcome for ever.
- `SeasonClose`: the writer takes what is queued and goes on when its lock is free;
  a close that has begun goes on, and one that waits for a lock times out after the
  second of its `lock_timeout`. No close need begin, no repair need end.

`CHECK_DEADLOCK FALSE` is set where the bounded system really stops: all tickets
minted and decided, all connections used, the match finished, all ids or requests
used up.

## 4. What is proved

Every proof is for all values of the constants that satisfy the module's named
assumption. Where a property is not inductive it is strengthened; the strengthening
is given here and the proof modules say which action needs it.

**RmsFeedProofs** (`FeedBoundsAssumption`: the bounds are naturals).

| theorem | property |
|---|---|
| `TypeCorrect` | `TypeOK` |
| `SucceededOncePerSocket` | `NoSocketGetsItTwice` |
| `FeedImplementsDelivery` | `ImplementsDelivery` |
| `RememberedIsWritten` | `RegisteredSocketHasIt` (no run) |
| `CompareAndClear` | `NewestSocketOwnsSlot` |
| `GraceOnlyWhileDown` | `GraceRunsIffVacated` |

That a socket is not written a match twice
needs that a new ticket is in no channel yet (`ChannelsHoldResolved`) and that the
remembered match names the socket it went to; that the newest socket owns the slot
needs that sockets open in order and that only a socket between opening and
teardown holds it (`SlotHeldWhileUp`); the type of the reader needs
`LostInThePast`. `IInv` is their conjunction with the five properties. The lemmas
`WrittenType`, `AppendFresh`, `SentFeed` and `OpenedFeed` say what the feed
operators do; there is one lemma for each action that disturbs a conjunct,
`NextInv` puts them together, and each theorem follows from `InitInv` and `NextInv`.
The refinement adds `NewestKnown`: once a socket was opened there is a newest, and only
it can hold the slot or be read by the client. `SlotIsNewest` then makes what the code
writes to the slot what `MatchDelivery` writes to the newest socket, and there is one
lemma for each kind of step.

**MatchmakerProofs** (`TicketsAssumption`, `MatchesAssumption`: tickets are positive
numbers and have owners, the numbers of matches and permits are naturals).

| theorem | property |
|---|---|
| `TypeCorrect` | `TypeOK` |
| `NeverWithItself` | `NoSelfPair` |
| `ReservationsAreHeld` | `ReservationHeldOrDropped` |
| `MatchmakerImplementsFate` | `ImplementsFate` |
| `TicketsAreKept` | `NoTicketLost` (no run) |
| `OneFight` | `OneFightAtATime` |
| `TheNewestIsRemembered` | `RemembersTheNewestSearch` |
| `DrainIsQuiet` | `DrainedMeansQuiet` (no run) |

`Places` is the first argument: a ticket is enqueued once and is in one place at a
time - its create handler, the channel, the queue, the actor, or one match. Given
that, `Bookings` says that while a ticket is held and not cancelled its user's
reservation is that ticket's, so no second search begins; `OneFight` and
`ReservationsAreHeld` follow. `Told` (whoever the delivery loop has passed has an
outcome) serves `TicketsAreKept`; `Apart` (the tickets in the actor's hands have
different owners) serves `NeverWithItself`; `Newest` (tickets are minted in order,
and an older one that is still held was cancelled) serves `TheNewestIsRemembered`.
`Awaited` is `ReservationHeldOrDropped` said of tickets.

The refinement needs `FateInv`: whoever waits has no fate yet, of the tickets a match is
delivered to those not yet told have none, and the actor never holds a ticket twice.
That the duplicate branch of the actor refuses only cancelled tickets is `Bookings`
again. `ReceiveDecides`, `DroppingDrops`, `UnresolvedRefuses`, `AllocateSeats` and
`DeliverTells` are the steps that decide a fate.

**EnetHostProofs** (`HostAssumption`: connections are positive, every ticket has a
client and every client addresses; `TrustedIpAssumption`: if the addresses a match
expects single out one fighter for a source IP, whoever dials that match from there is
that fighter).

| theorem | property |
|---|---|
| `TypeCorrect` | `TypeOK` |
| `IndexAndSeatsAgree` | `IndexMatchesSeats` |
| `OneFighterEach` | `OneFighterPerPeer` |
| `FightersArePresent` | `EveryFighterHasAPeer` |
| `BoundToOwnTicket` | `RightFighter` |

The registry's operators are treated one by one, on any record that is in order
(`RegOK`, and `MatchOK` of each match): each admits, binds, rebinds, departs or
sweeps to a record in order. `HostOK` adds what the connections know (`ConnsOK`),
and each action of the host is then a composition of the lemmas. The oldest open
match is a minimum; that there is one rests on `LeastNumber`, from the library's
well-foundedness of strict inclusion on finite sets.

`BoundToOwnTicket` is a second pass over the same operators. `RightSeats` says of a
connecting match that every seat held by one of its own players, once bound, is bound to
that player's ticket (`AllRight`), unless all slots are bound and some seat was a
stranger's, the one way elimination goes wrong. `T`, the ticket of every connection ever
opened, stands for who holds each key; `TicketsOK` keeps it growing only, so a seat's
owner does not change when its connection dies, is re-dialled or moves to another port.
The assumption is needed because the code trusts source IPs on purpose: one expected
slot at an IP is bound at once (`match_registry.rs` 162, 604, 766, 784, 814), and
nothing on the wire could contradict it. It says nothing of players behind one NAT,
where the IP singles nobody out.

**MatchFlowProofs** (`MatchFlowAssumption`: the humans are slot 0 or both, the
editors are humans, `NoOne` is no number and no result).

| theorem | property |
|---|---|
| `MatchImplementsOutcome` | `ImplementsOutcome` |
| `ResultsToldInOrder` | `ResultsAccumulate` |
| `WalksWaitForResults` | `ResultBeforeTheWalk` |
| `CardShownBeforeGoodbye` | `CardBeforeGoodbye` |
| `TypeCorrect` | `TypeOK` |
| `GearIsFrozen` | `GearFrozenInRound` (no run) |
| `StagedGearIsWorn` | `StagedGearMakesTheRound` |
| `RelayedOnce` | `RelayedOncePerProfile` |
| `OpensOnKnownGear` | `RoundOpensOnKnownGear` |

The argument has four parts, each an inductive invariant that uses the ones before.

- `Scored`: before there is a winner nobody has two wins, the rounds recorded are
  the wins of the two fighters together, and there is a winner exactly when the
  flow has left its rounds. From it `OverWhenWon` shows that with two fighters the
  round cap never decides a match that the wins do not, which is what lets
  `on_round_ended` be a `WinRound` of `MatchOutcome`. `StepKinds` sorts the actions
  into those that decide nothing, a round end, a concession and the finish; the
  refinement has one lemma for each.
- `Told`: a result waits only in `NextState` or `RoundEnd`, before the first state
  of the walk, so that a death's result meets either the tick that sends it or a
  concession that sends it first. `OneMoreResult` is the sequence lemma.
- `Carded` ties the card to the cursor of the last walk; `FlowType` and
  `RoundCounted` give the types, the bound on the round number from `FewRounds`.
- `Knowing`: the ledger of a walk is empty when a round goes live and never ahead of
  the rounds, a fighter on it is known to its opponent as he is, and after the
  loadouts are synchronised everybody is on it. `RelayOnceKnown` and `NextRoundOpens`
  are its two real steps; the action properties about relays follow from it.

**MatchEconomyProofs** (`EconomyAssumption`: the counts are naturals, the gift
period is positive, pairs are of different accounts).

| theorem | property |
|---|---|
| `TypeCorrect` | `TypeOK` |
| `WriterImplementsLedger` | `ImplementsLedger` |
| `PaidBeforeRecord` | `OnRecordWasPaid` (no run) |
| `RatingsCountOnce` | `RatedAtMostOnce` |
| `RungsPayOnce` | `EveryRungPaysOnce` |
| `MilestonesPayOnce` | `EveryMilestonePaysOnce` |

`PaidFirst` adds that the outcome the writer is auditing or rating was paid;
`GiftsMatchFights` ties the gift rows and the weapons handed over to the counts. The
ledger adds `QueuedUnpaid`: an outcome in the queue has not been paid, because a match
ends once and its two outcomes are of different characters.

`RatingsCountOnce` is about the order of the writer's work. The two outcomes of a match
are neighbours in the queue (`InOrder`, `WriterInOrder`), and the one that rates its
pair may find its match in a rating already only if the other one put it on record and
the replay counted it. `PendingUnrated` says that the ratings are then current (they
count as many matches as are on record) and stay so until the writer has dealt with that
outcome, so the check whether a rating is still needed answers no. That a replay holds
each match once (`ReplayOnce`) needs no induction over sequences: the replay picks the
k-th smallest of the positions that count, and `NthOfASet` says that there is one and
that k positions are no greater, so different k pick different positions.

**SeasonCloseProofs** (`SeasonAssumption`).

| theorem | property |
|---|---|
| `TypeCorrect` | `TypeOK` |
| `AllAreRolled` | `NobodyLeftBehind` |
| `StandingsHold` | `StandingsAreArchived` |
| `CloseImplementsTurn` | `ImplementsTurn` |
| `MembersLoseNothing` | `MembersKeepRewards` (no run) |

`Locks` says what a lock buys: the copy of whoever holds a row is the row as
committed, no row is of the next season before the turn, and a row of no season is a
newcomer's that has earned nothing. `Kept` follows the rewards through the
close: what was frozen is in the copies of rows it read and could parse, and of a
member nothing is paid that the copy lacks. The refinement adds `PaidOnce` (a result
waits in one place, and
only until it is paid) and `Copies`: a row of the first season holds only what was paid
to its character, and so does what a repair has read, and the close's copy is a lower
bound of the row, equal to it for a member of a guild, whose lock keeps the writer out.
`CommitTurns` and `RepairRestores` are its two real steps.

**SessionsProofs** (`SessionAssumption`).

| theorem | property |
|---|---|
| `TypeCorrect` | `TypeOK` |
| `OneDeviceInTheTable` | `RowsOfOneDevice` |
| `OneDeviceInMemory` | `LiveOnOneDevice` |
| `OwnerKeepsARow` | `OwnerStaysSignedIn` |
| `DeviceInvHolds` | the invariant `DeviceInv` |

The crux of `DeviceInv` is `RowsAreHeldOrDoomed`: without a mishap a row outlives its
session's eviction only while the login that evicted it still has to delete it. It
is what makes the early return of a claim that evicts nobody harmless as long as the
process lives. `OwnerKeepsARow` is an invariant of its own beside it: `stranded` is what
a login that deleted the other rows and was never answered leaves behind.

**GuildsProofs** (`GuildsAssumption`: users and slots are finite, the cap is
positive).

| theorem | property |
|---|---|
| `TypeCorrect` | `TypeOK` |
| `GuildsAreLed` | `AlwaysLed` |
| `CapHolds` | `CapExceededOnlyByOverlap` |
| `BansHold` | `BannedStaysOut` |

`Roles` ties each request to the ranks it may have read, `Led` says of a guild
without crowded departures that it has one Grand Master and that every departure in
progress still has the right rank of whoever it removes, `Capped` adds the
admissions in flight to the members, `Bans` says that every admission and kick that
could still undo a ban was decided before it.

Every safety property of the passing runs, the five refinements included, is proved.
Only model-checked are the liveness properties (`AwaitedMatchIsHeard`, `CancelDequeues`,
`NobodyWaitsForEver`, `PermitComesBack`, `MatchEnds`, `RatingsFollowTheRecord`,
`ResultsSettle`), because the prover has no fairness with ENABLED, and the two
violations. No module uses a RECURSIVE operator.

## 5. Where the code and what is said of it disagree

Two runs end with a counterexample that TLC finds.

1. `sessions_revival`: a request of the displaced device that misses the map between
   the eviction (`session.rs` 790) and the DELETE (808-820) still finds its row and
   puts its session back for good; "they cannot both be active" (604-611) does not
   hold. `LiveOnOneDevice` is what is left of it.
2. `season_reward_lost`: the close reads every character without a lock
   (`admin.rs` 3428) and later writes the whole row; what a character without a
   guild was paid in between is overwritten, against "the REWARD IS SAFE"
   (`arena/arena_economy.rs` 667). What is left of it is `ImplementsTurn`: a member of a guild
   loses nothing, anybody else nothing the standings count.

Seen in the models, without a run:

- A client that has just lost its socket can read as "never opened one", because
  `rms_down_for` looks three times under three locks (`session.rs` 166-181).
- The cancel of a ticket whose first create is still loading overtakes its
  `Enqueue`; the ticket is reserved again and resolves (`matchmaker.rs` 4190).
- Tickets dropped because the client was gone keep their reservation, so the next
  create is answered `QUEUED` with a ticket nobody holds (`matchmaker.rs` 4041).
- The drain is acknowledged with the number of tickets *held*
  (`matchmaker.rs` 4168); the doc of the command (185) says they are failed.
- `create_match` reads `accepting_matches` and then awaits, so a ticket can be
  enqueued after the acknowledgement; the comment (3597) says none can. The actor
  holds it.
- A player whose opponent left a filled match before the slots were bound waits for
  `MATCH_MAX_AGE`, not `CONNECT_DEADLINE` (`match_registry.rs` 1347).
- Any packet still delivered from an old connection makes it the owner of the
  address again; its disconnect then departs the new match (`enet_host.rs` 340).
- A key exchange repeated by a seated client while another match is open counts as
  a fresh connection (`match_registry.rs` 846): it departs the seat and is admitted
  to the other match (`enet_host.rs` 386-404).
- Admission falls back to the oldest open match (`match_registry.rs` 784, 815), the
  guess that the comment at 162-164 says is not made.
- A frame from the old port after a rebind binds the peer back (`match_registry.rs`
  1035); `enet_host.rs` 461 expects only the late Disconnect.
- A loadout staged after `SynchronizingLoadout` is worn in the next round and never
  relayed, because the round number that keys the ledger is bumped first
  (`engine.rs` 1471, 2351; the doc at 600-602 has the gear of the round going out).
- The relay ledger is called exactly-once (`engine.rs` 2347), but op61 relays beside it
  whenever the helmet changed (855-863): after op36, a walk relays the same gear again.
- A Ready press in a walk that ends by its timer stays latched and counts in the
  next walk (`engine.rs` 1588-1597), also across a round.
- If both players leave before the Victory step, the empty match is removed and no
  reward is recorded (`engine.rs` 1427).
- A result paid before the freeze and audited after it counts in no season's
  standings (`season_store.rs` 274).
- The repair of a stale row writes, whole, a copy read without a lock: over what was
  paid meanwhile, or over a row of the next season one of the season before
  (`matchmaker.rs` 552-600).
- The close leaves behind, in the old season, the rows it cannot parse (on purpose,
  `admin.rs` 3441-3461) and the characters created after its read (3428); the next
  repair of such a row rolls it. Closed without a next season, every row keeps its cups
  (3420-3424).
- `claim_account_for_this_device_keeping` returns early when memory held no other
  session (`session.rs` 791), so after a restart the rows of the displaced device
  survive and its session is loaded back, which the comment at 758-760 warns of.
- A crash between the DELETE of the other rows (`session.rs` 808-815) and the answer
  (`authentification.rs` 290-297) leaves the last answered token in neither memory nor
  table, and the new one was never sent.
- Overlapping departures can leave a guild without a Grand Master: the rank a leaver
  had when it asked decides whether there is a succession, a kick does not look at
  the target's rank again, and an heir may leave before it inherits (`guild.rs` 1857);
  the operator tool exists "so a guild can never freeze on its own"
  (`guild_admin.rs` 19-22).
- Two admissions that both counted below the cap both insert (`guild.rs` 1704), and
  an admission decided before a ban seats the banned player after it.
- A kick decided before a ban and written after it turns the record into a mere kick
  (`record_removal`, `guild.rs` 595-615), which lets the player back in by a later
  admission, though "a ban never expires" (`guild_policy.rs` 358).
- A guild whose creation stops between its two inserts has no member and no Grand
  Master; a guild torn down while an admission was in flight keeps that member's row
  or application.

## 6. Not modelled, and why

Damage, abilities and effects (floating point over shipped tables), the byte codecs,
the single-player features (one row-locked transaction each, with nothing to
interleave), the read-only boards, start-up, operator tools and the development
UDP endpoint. The largest files of the repository are of these kinds, which is why
the map covers a small share of its lines.

Of the modelled components: the bracket and the deadline lengths of the matchmaker,
bot selection, telemetry, `debug_hold` and the injection harness; the drain's
acknowledgement timeout and automatic resume (`status.rs`); the reward amounts and
the Elo formula; the opening of a season and the claim of its rewards; the expiry of
sessions and the credentials checked before a login; guild chat, exchanges, search
and editing, and the operator's `set_grandmaster`, which writes a rank (`MASTER`) no
player handler gives; the gifts other than the fight gift.

## 7. What is left

In the order of what it would add:

1. `DeployDrain`: `accepting_matches`, the ack timeout and the automatic resume
   over `Matchmaker`'s commands, with the wait for the permits.
2. `MatchFlow` composed with the registry's departures, so that a match both players
   left, and what it still pays, is one behaviour; `MatchLifecycle`, the phases the
   registry sees, implemented by `MatchFlow`.
3. `FallbackDeadline`: the pure deadline and bracket functions against a reference
   definition over bounded times.
4. `SeasonOpen` and `Claims`: the start of a season and the once-only claims.

Worth stating and proving next are abstract specifications for the other three: who is
signed in (`Sessions`), one membership per player under a leader (`Guilds`), and a
match's seats as a matching of tickets and peers (`EnetHost`).
