--------------------------- MODULE RegistryState ---------------------------
(***************************************************************************)
(* What the match registry (server/src/arena/match_registry.rs) knows: its  *)
(* matches, each with the peers seated in it and the fighter slot each peer *)
(* is bound to, and the index from peer address to match.  Every method     *)
(* holds its locks from beginning to end, so each is one operator from the  *)
(* registry before to the registry after.                                   *)
(*                                                                          *)
(* A match is allocated for the tickets of its human players: ticket        *)
(* number i fights in slot i.  A peer's key stands for the secret its       *)
(* handshake agreed; a frame decrypts under the very key it was sealed      *)
(* with and under no other.  Ages are classes: below ABANDONED_MIN_AGE,     *)
(* below CONNECT_DEADLINE, below MATCH_MAX_AGE, and past it.                *)
(***************************************************************************)
EXTENDS Integers, SequencesExt

CONSTANTS
    Addrs,         \* UDP source addresses
    IpOf,          \* the IP of each
    Tickets,       \* matchmaking tickets
    HttpIp,        \* the trusted IP each ticket's create came from
    Allocations,   \* bound: the tickets of each match, in the order allocated
    Keys           \* bound: the keys handshakes can agree

ASSUME RegistryAssumption ==
    /\ IpOf \in [Addrs -> STRING]
    /\ HttpIp \in [Tickets -> STRING]
    /\ Allocations \in Seq(Seq(Tickets))
    /\ \A m \in DOMAIN Allocations : Len(Allocations[m]) \in {1, 2}

Matches == DOMAIN Allocations
NoMatch == 0
NoSlot == 0

Capacity(m) == Len(Allocations[m])
Slots(m) == 1..Capacity(m)

Young == 0
Abandonable == 1
Overdue == 2
Ancient == 3
Ages == Young..Ancient

Phases == {"free", "connecting", "live", "decided", "gone"}
Registered == {"connecting", "live", "decided"}

NewMatch == [phase |-> "free", players |-> << >>, slot |-> [a \in Addrs |-> NoSlot],
             filled |-> FALSE, abandoned |-> FALSE, age |-> Young]

Retired == [NewMatch EXCEPT !.phase = "gone"]

MatchRecords ==
    [phase : Phases, players : Seq([addr : Addrs, key : Keys]), slot : [Addrs -> NoSlot..2],
     filled : BOOLEAN, abandoned : BOOLEAN, age : Ages]

Registries == [match : [Matches -> MatchRecords], index : [Addrs -> Matches \cup {NoMatch}]]

NewRegistry == [match |-> [m \in Matches |-> NewMatch],
                index |-> [a \in Addrs |-> NoMatch]]

-----------------------------------------------------------------------------
(* One match.                                                               *)

SeatedAddrs(r) == {r.players[i].addr : i \in DOMAIN r.players}
SeatNo(r, a) == CHOOSE i \in DOMAIN r.players : r.players[i].addr = a
TakenSlots(r) == {r.slot[a] : a \in SeatedAddrs(r)} \ {NoSlot}
Unbound(r) == {a \in SeatedAddrs(r) : r.slot[a] = NoSlot}

IsFull(m, r) == Len(r.players) >= Capacity(m)

AcceptsNewConnection(m, r) == ~r.filled /\ r.phase = "connecting" /\ ~IsFull(m, r)

AllSlotsBound(m, r) == IsFull(m, r) /\ Unbound(r) = {}

(* Elimination: the last unbound peer of a full match gets the last slot.   *)
BoundByElimination(m, r) ==
    LET free == Slots(m) \ TakenSlots(r)
    IN  IF \E a \in Addrs, s \in Slots(m) : IsFull(m, r) /\ Unbound(r) = {a} /\ free = {s}
        THEN [r EXCEPT !.slot = [a \in Addrs |->
                  IF a \in Unbound(r) THEN CHOOSE s \in free : TRUE ELSE r.slot[a]]]
        ELSE r

(* bind_slot refuses to rebind a peer and to give a held slot away.         *)
Bound(m, r, a, s) ==
    IF r.slot[a] # NoSlot \/ s \in TakenSlots(r) THEN r
    ELSE BoundByElimination(m, [r EXCEPT !.slot = [r.slot EXCEPT ![a] = s]])

FifoSlot(m, r, i) ==
    IF i \in Slots(m) \ TakenSlots(r) THEN i
    ELSE CHOOSE s \in Slots(m) \ TakenSlots(r) : TRUE

CommittedFifo(m, r) ==
    [r EXCEPT !.slot = [a \in Addrs |->
        IF a \in Unbound(r)
        THEN FifoSlot(m, r, SeatNo(r, a))
        ELSE r.slot[a]]]

(* expected_ip_to_slot keeps an IP only if one ticket of the match has it.  *)
ExpectedSlots(m, ip) == {s \in Slots(m) : HttpIp[Allocations[m][s]] = ip}

\* Mutant: an IP that several tickets share still names a slot.
ExpectsAmbiguous(m, ip) == ExpectedSlots(m, ip) # {}

Expects(m, ip) == \E s \in Slots(m) : ExpectedSlots(m, ip) = {s}

-----------------------------------------------------------------------------
(* The registry.                                                            *)

SeatOf(reg, a) == reg.match[reg.index[a]]

Open(reg, m) == AcceptsNewConnection(m, reg.match[m])

(* allocate: the permit was available.                                      *)
Allocated(reg, m) == [reg EXCEPT !.match = [reg.match EXCEPT ![m] =
                                               [NewMatch EXCEPT !.phase = "connecting"]]]

(* admit_connection: the oldest open match that expects this IP, else the   *)
(* oldest open match; never the match that already owns the address.        *)
OpenTo(reg, a) == {m \in Matches : m # reg.index[a] /\ Open(reg, m)}

SelectedFor(reg, a) ==
    CHOOSE m \in OpenTo(reg, a) : \A n \in OpenTo(reg, a) \ {m} :
        \/ Expects(m, IpOf[a]) /\ ~Expects(n, IpOf[a])
        \/ (Expects(m, IpOf[a]) <=> Expects(n, IpOf[a])) /\ m < n

Seated(m, r, a, k) ==
    LET joined == [r EXCEPT !.players = Append(r.players, [addr |-> a, key |-> k]),
                            !.filled = Len(r.players) + 1 >= Capacity(m)]
    IN  IF Expects(m, IpOf[a])
        THEN Bound(m, joined, a, CHOOSE s \in Slots(m) : s \in ExpectedSlots(m, IpOf[a]))
        ELSE IF Capacity(m) = 1 THEN Bound(m, joined, a, 1)
        ELSE BoundByElimination(m, joined)

Admitted(reg, a, k) ==
    LET m == SelectedFor(reg, a)
    IN  [reg EXCEPT !.match = [reg.match EXCEPT ![m] = Seated(m, reg.match[m], a, k)],
                    !.index = [reg.index EXCEPT ![a] = m]]

(* handle_live_user_data on a frame sealed with k; `slots` holds the slot   *)
(* an identity-bearing frame names, if it names one of this match.          *)
Heard(reg, a, k, slots) ==
    LET m == reg.index[a]
        r == reg.match[m]
    IN  IF \E s \in slots : \E i \in DOMAIN r.players : r.players[i] = [addr |-> a, key |-> k]
        THEN [reg EXCEPT !.match = [reg.match EXCEPT ![m] =
                  Bound(m, r, a, CHOOSE s \in slots : TRUE)]]
        ELSE reg

(* rebind_encrypted_peer: an unknown address takes over the seat of the one *)
(* peer with the same IP whose key opens the frame.                         *)
RebindSeats(reg, a, k) ==
    {m \in Matches : /\ reg.match[m].phase \in Registered
                     /\ \E i \in DOMAIN reg.match[m].players :
                           LET p == reg.match[m].players[i]
                           IN  p.key = k /\ p.addr # a /\ IpOf[p.addr] = IpOf[a]}

\* Mutant: the binding is copied to the new address and left at the old one.
MovedCopies(r, old, a) ==
    [r EXCEPT !.players = [i \in DOMAIN r.players |->
                              IF r.players[i].addr = old
                              THEN [r.players[i] EXCEPT !.addr = a] ELSE r.players[i]],
              !.slot = [r.slot EXCEPT ![a] = r.slot[old]]]

Moved(r, old, a) ==
    [r EXCEPT !.players = [i \in DOMAIN r.players |->
                              IF r.players[i].addr = old
                              THEN [r.players[i] EXCEPT !.addr = a] ELSE r.players[i]],
              !.slot = [b \in Addrs |-> IF b = a THEN r.slot[old]
                                        ELSE IF b = old THEN NoSlot ELSE r.slot[b]]]

OldAddr(r, k) == r.players[CHOOSE i \in DOMAIN r.players : r.players[i].key = k].addr

\* Mutant: the old address stays in the index.
ReboundKeepsOld(reg, a, k) ==
    LET m == CHOOSE n \in RebindSeats(reg, a, k) : TRUE
        old == OldAddr(reg.match[m], k)
    IN  [reg EXCEPT !.match = [reg.match EXCEPT ![m] = Moved(reg.match[m], old, a)],
                    !.index = [reg.index EXCEPT ![a] = m]]

Rebound(reg, a, k) ==
    LET m == CHOOSE n \in RebindSeats(reg, a, k) : TRUE
        old == OldAddr(reg.match[m], k)
    IN  [reg EXCEPT !.match = [reg.match EXCEPT ![m] = Moved(reg.match[m], old, a)],
                    !.index = [reg.index EXCEPT ![a] = m, ![old] = NoMatch]]

(* peer_departed: the opponent is awarded the match if the departed peer's  *)
(* slot is known and the match is not ending; the last one out removes it.  *)
Without(r, a) == [r EXCEPT !.players = RemoveAt(r.players, SeatNo(r, a)),
                           !.slot = [r.slot EXCEPT ![a] = NoSlot]]

Left(r, a) ==
    IF SeatedAddrs(r) = {a} THEN Retired
    ELSE IF r.slot[a] # NoSlot /\ r.phase \in {"connecting", "live"}
         THEN [Without(r, a) EXCEPT !.phase = "decided"]
         ELSE Without(r, a)

Departed(reg, a) ==
    IF reg.index[a] = NoMatch THEN reg
    ELSE [reg EXCEPT !.match = [reg.match EXCEPT ![reg.index[a]] = Left(reg.match[reg.index[a]], a)],
                     !.index = [reg.index EXCEPT ![a] = NoMatch]]

(* sweep_expired, and take_finished_peers: the matches ms are dropped and   *)
(* their peers forgotten.                                                   *)
\* Mutant: only matches nobody filled are reclaimed; the age limit is gone.
ExpiredYoungOnly(m, r) ==
    /\ r.phase \in Registered
    /\ ~IsFull(m, r) /\ ~r.filled
    /\ r.age >= Overdue \/ (r.abandoned /\ r.age >= Abandonable)

Expired(m, r) ==
    /\ r.phase \in Registered
    /\ \/ /\ ~IsFull(m, r) /\ ~r.filled
          /\ r.age >= Overdue \/ (r.abandoned /\ r.age >= Abandonable)
       \/ r.age = Ancient

PeersOf(reg, ms) == UNION {SeatedAddrs(reg.match[m]) : m \in ms}

Dropped(reg, ms) ==
    [match |-> [m \in Matches |-> IF m \in ms THEN Retired ELSE reg.match[m]],
     index |-> [a \in Addrs |-> IF a \in PeersOf(reg, ms) THEN NoMatch ELSE reg.index[a]]]
=============================================================================
