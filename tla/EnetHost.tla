------------------------------ MODULE EnetHost ------------------------------
(***************************************************************************)
(* The arena's UDP side: the ENet service loop                              *)
(* (server/src/arena/enet_host.rs) over the match registry.  One thread     *)
(* takes ENet events, ticks the matches and sweeps them; the matchmaker's   *)
(* thread allocates and abandons matches in between.                        *)
(*                                                                          *)
(* A connection is one ENet peer (a PeerID), opened by the client of a      *)
(* ticket from one of its addresses.  The network may hold a Disconnect     *)
(* back for as long as it likes - it is often a timeout - while the same    *)
(* client connects again from the same address, and packets of an old       *)
(* connection may still arrive until its Disconnect does.                   *)
(***************************************************************************)
EXTENDS RegistryState, FiniteSets

CONSTANTS
    Conns,         \* bound: ENet connections, numbered
    ClientOf,      \* the client whose ticket it is
    AddrsOf,       \* the addresses each client may send from
    MaxMatches,    \* max_concurrent_matches
    Redials        \* bound: the connections that repeat their handshake

ASSUME HostAssumption ==
    /\ Conns \subseteq Nat \ {0}
    /\ Keys = Conns \X {1, 2}
    /\ DOMAIN ClientOf = Tickets
    /\ \A t \in Tickets : AddrsOf[ClientOf[t]] \subseteq Addrs
    /\ MaxMatches \in Nat /\ Redials \subseteq Conns

(* What admit_connection trusts: an IP that singles out one ticket of a     *)
(* match is the source IP of no other ticket's client.                      *)
ASSUME TrustedIpAssumption ==
    \A m \in Matches : \A s, n \in Slots(m) : \A a \in AddrsOf[ClientOf[Allocations[m][n]]] :
        ExpectedSlots(m, IpOf[a]) = {s} => Allocations[m][s] = Allocations[m][n]

VARIABLES
    reg,       \* the MatchRegistry
    conn,      \* each ENet connection
    peerAt     \* serve's peer_at: the connection that owns each address

vars == <<reg, conn, peerAt>>

NoConn == 0
NoKey == <<0, 0>>

ConnStates == {"unused", "connected", "leaving", "closed"}

NewConn == [state |-> "unused", addr |-> "", ticket |-> 0, key |-> NoKey]

(* Connections ENet still delivers packets of: a peer being disconnected    *)
(* later is one until the Disconnect event.                                 *)
Delivers(c) == conn[c].state \in {"connected", "leaving"}

Init ==
    /\ reg = NewRegistry
    /\ conn = [c \in Conns |-> NewConn]
    /\ peerAt = [a \in Addrs |-> NoConn]

-----------------------------------------------------------------------------
(* The matchmaker's thread.                                                 *)
Allocate(m) ==
    /\ reg.match[m].phase = "free"
    /\ \A n \in Matches : n < m => reg.match[n].phase # "free"
    /\ Cardinality({n \in Matches : reg.match[n].phase \in Registered}) < MaxMatches
    /\ reg' = Allocated(reg, m)
    /\ UNCHANGED <<conn, peerAt>>

AbandonUnfilled(m) ==
    /\ reg.match[m].phase \in Registered /\ ~reg.match[m].filled
    /\ reg' = [reg EXCEPT !.match[m].abandoned = TRUE]
    /\ UNCHANGED <<conn, peerAt>>

-----------------------------------------------------------------------------
(* ENet events.                                                             *)

NextConn(c) == conn[c].state = "unused" /\ \A d \in Conns : d < c => conn[d].state # "unused"

(* Connect: the client of a ticket that was sent its Succeeded dials.       *)
Dial(c, a, t) ==
    /\ NextConn(c)
    /\ a \in AddrsOf[ClientOf[t]]
    /\ \E m \in Matches : reg.match[m].phase # "free" /\ t \in ToSet(Allocations[m])
    /\ conn' = [conn EXCEPT ![c] = [state |-> "connected", addr |-> a, ticket |-> t, key |-> NoKey]]
    /\ peerAt' = [peerAt EXCEPT ![a] = c]
    /\ UNCHANGED reg

(* Connect after the client's NAT has moved it to another source port: it   *)
(* goes on sealing with the key it has.                                     *)
Migrate(c, d, a) ==
    /\ NextConn(c)
    /\ conn[d].state = "connected" /\ conn[d].key # NoKey
    /\ a \in AddrsOf[ClientOf[conn[d].ticket]] \ {conn[d].addr}
    /\ conn' = [conn EXCEPT ![c] = [conn[d] EXCEPT !.addr = a]]
    /\ peerAt' = [peerAt EXCEPT ![a] = c]
    /\ UNCHANGED reg

(* The plaintext op-0x38 key exchange, the connection's first or a repeated *)
(* one: an admission always agrees a new key.  From an address already in a *)
(* match it retires that seat first, if there is any other open match.      *)
FreshKey(c) == IF conn[c].key = <<c, 1>> THEN <<c, 2>> ELSE <<c, 1>>

KeyExchange(c) ==
    LET a == conn[c].addr
        left == IF reg.index[a] = NoMatch THEN reg ELSE Departed(reg, a)
        heeded == reg.index[a] = NoMatch \/ OpenTo(reg, a) # {}
        admitted == heeded /\ OpenTo(left, a) # {}
    IN  /\ Delivers(c)
        /\ conn[c].key = NoKey \/ (c \in Redials /\ conn[c].key # <<c, 2>>)
        /\ reg' = IF admitted THEN Admitted(left, a, FreshKey(c)) ELSE IF heeded THEN left ELSE reg
        /\ conn' = IF admitted THEN [conn EXCEPT ![c].key = FreshKey(c)] ELSE conn
        /\ peerAt' = [peerAt EXCEPT ![a] = c]

(* A sealed frame: heard by the match the address is in, or else the proof  *)
(* that an unknown address is a moved peer.                                 *)
NamedSlots(reg1, c) ==
    {s \in Slots(reg1.index[conn[c].addr]) :
        Allocations[reg1.index[conn[c].addr]][s] = conn[c].ticket}

Frame(c, identity) ==
    LET a == conn[c].addr
        k == conn[c].key
        found == reg.index[a] # NoMatch \/ RebindSeats(reg, a, k) # {}
        reg1 == IF reg.index[a] = NoMatch /\ found THEN Rebound(reg, a, k) ELSE reg
    IN  /\ Delivers(c) /\ k # NoKey
        /\ reg' = IF found THEN Heard(reg1, a, k, IF identity THEN NamedSlots(reg1, c) ELSE {})
                  ELSE reg
        /\ peerAt' = [peerAt EXCEPT ![a] = c]
        /\ UNCHANGED conn

(* Disconnect: only the connection that owns its address departs a match.   *)
(* Nothing is left of the peer; its ticket stays for RightFighter to read.  *)
Disconnect(c) ==
    LET a == conn[c].addr
    IN  /\ Delivers(c)
        /\ conn' = [conn EXCEPT ![c].state = "closed", ![c].addr = "", ![c].key = NoKey]
        /\ reg' = IF peerAt[a] = c THEN Departed(reg, a) ELSE reg
        /\ peerAt' = IF peerAt[a] = c THEN [peerAt EXCEPT ![a] = NoConn] ELSE peerAt

-----------------------------------------------------------------------------
(* The tick.                                                                *)

(* The round-start burst goes out on the tick where the match is full and   *)
(* every slot is bound, or SLOT_BIND_GRACE after it filled.                 *)
\* Mutant: the burst goes out when the grace expires, bound or not.
StartUnbound(m) ==
    /\ reg.match[m].phase = "connecting" /\ IsFull(m, reg.match[m])
    /\ reg' = [reg EXCEPT !.match[m].phase = "live"]
    /\ UNCHANGED <<conn, peerAt>>

Start(m) ==
    /\ reg.match[m].phase = "connecting" /\ IsFull(m, reg.match[m])
    /\ reg' = [reg EXCEPT !.match[m] = [CommittedFifo(m, reg.match[m]) EXCEPT !.phase = "live"]]
    /\ UNCHANGED <<conn, peerAt>>

(* The fight is decided, or conceded by a player of a match that is still   *)
(* connecting, in a frame sealed with the key of a seat (op28).             *)
Concedes(c, m) ==
    \E i \in DOMAIN reg.match[m].players :
        Delivers(c) /\ reg.match[m].players[i] = [addr |-> conn[c].addr, key |-> conn[c].key]

Decide(m) ==
    /\ \/ reg.match[m].phase = "live"
       \/ /\ reg.match[m].phase = "connecting" /\ Capacity(m) > 1
          /\ \E c \in Conns : Concedes(c, m)
    /\ reg' = [reg EXCEPT !.match[m].phase = "decided"]
    /\ UNCHANGED <<conn, peerAt>>

(* disconnect_later for the owners of these addresses, which lose them.     *)
DisconnectLater(as) ==
    /\ conn' = [c \in Conns |-> IF \E a \in as : peerAt[a] = c
                                THEN [conn[c] EXCEPT !.state = "leaving"] ELSE conn[c]]
    /\ peerAt' = [a \in Addrs |-> IF a \in as THEN NoConn ELSE peerAt[a]]

(* The post-match walk is over: the match is retired.                       *)
Finish(m) ==
    /\ reg.match[m].phase = "decided"
    /\ reg' = Dropped(reg, {m})
    /\ DisconnectLater(PeersOf(reg, {m}))

Sweep ==
    LET dead == {m \in Matches : Expired(m, reg.match[m])}
    IN  /\ dead # {}
        /\ reg' = Dropped(reg, dead)
        /\ DisconnectLater(PeersOf(reg, dead))

(* Time passes; an older match is never the younger class.                  *)
GrowOlder(m) ==
    /\ reg.match[m].phase \in Registered
    /\ reg.match[m].age < Ancient
    /\ \A n \in Matches : n < m /\ reg.match[n].phase \in Registered
                          => reg.match[n].age > reg.match[m].age
    /\ reg' = [reg EXCEPT !.match[m].age = reg.match[m].age + 1]
    /\ UNCHANGED <<conn, peerAt>>

Event ==
    \E c \in Conns :
        \/ \E a \in Addrs : \/ \E t \in Tickets : Dial(c, a, t)
                            \/ \E d \in Conns : Migrate(c, d, a)
        \/ KeyExchange(c)
        \/ \E identity \in BOOLEAN : Frame(c, identity)
        \/ Disconnect(c)

Next ==
    \/ Event
    \/ Sweep
    \/ \E m \in Matches : \/ Allocate(m) \/ AbandonUnfilled(m)
                          \/ Start(m) \/ Decide(m) \/ Finish(m)
                          \/ GrowOlder(m)

Spec == Init /\ [][Next]_vars

(* The loop ticks and sweeps for ever and time passes.  Nothing is assumed  *)
(* of clients, of the network, or of fights.                                *)
Fairness ==
    /\ \A m \in Matches : WF_vars(Start(m)) /\ WF_vars(Finish(m)) /\ WF_vars(GrowOlder(m))
    /\ WF_vars(Sweep)

FairSpec == Spec /\ Fairness

-----------------------------------------------------------------------------
TypeOK ==
    /\ reg \in Registries
    /\ conn \in [Conns -> [state : ConnStates, addr : Addrs \cup {""}, ticket : Tickets,
                           key : Keys \cup {NoKey}] \cup {NewConn}]
    /\ peerAt \in [Addrs -> Conns \cup {NoConn}]

(* The address index and the seats agree, through re-handshakes, source     *)
(* port migrations, departures, sweeps and retirements: a frame is never    *)
(* routed to a match that does not seat its sender, and no seat is out of   *)
(* reach.                                                                   *)
IndexMatchesSeats ==
    \A a \in Addrs, m \in Matches :
        reg.index[a] = m <=> a \in SeatedAddrs(reg.match[m])

(* No two peers of a match are ever one fighter, and only seated peers are  *)
(* fighters at all: bindings come from four kinds of evidence, move with a  *)
(* migrating peer and go with a departing one.                              *)
OneFighterPerPeer ==
    \A m \in Matches : LET r == reg.match[m] IN
        \A a, b \in Addrs : r.slot[a] # NoSlot =>
            /\ a \in SeatedAddrs(r)
            /\ r.slot[a] = r.slot[b] => a = b

(* "Nothing that carries player identity may be addressed before this is    *)
(* complete", and whoever leaves a fight hands it to the opponent: while a  *)
(* started fight is undecided each of its fighters is one seated peer.      *)
EveryFighterHasAPeer ==
    \A m \in Matches : LET r == reg.match[m] IN
        r.phase = "live" => IsFull(m, r) /\ TakenSlots(r) = Slots(m)

(* When a match's seats are held by its own players, everybody bound before *)
(* the fallback to admission order is bound to their own ticket's fighter - *)
(* behind one NAT or not, in whatever order they dialled.                   *)
TicketOf(r, i) == conn[r.players[i].key[1]].ticket

OwnPlayers(m, r) ==
    /\ \A i \in DOMAIN r.players : TicketOf(r, i) \in ToSet(Allocations[m])
    /\ \A i, j \in DOMAIN r.players : TicketOf(r, i) = TicketOf(r, j) => i = j

RightFighter ==
    \A m \in Matches : LET r == reg.match[m] IN
        r.phase = "connecting" /\ OwnPlayers(m, r) =>
            \A i \in DOMAIN r.players :
                LET s == r.slot[r.players[i].addr]
                IN  s # NoSlot => Allocations[m][s] = TicketOf(r, i)

(* Every permit comes back: an allocated match is eventually dropped,       *)
(* whoever connects, stays silent or leaves.                                *)
PermitComesBack ==
    \A m \in Matches : reg.match[m].phase \in Registered ~> reg.match[m].phase = "gone"
=============================================================================
