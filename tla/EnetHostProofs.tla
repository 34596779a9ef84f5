--------------------------- MODULE EnetHostProofs ---------------------------
(***************************************************************************)
(* What holds of the arena's UDP host for all addresses, tickets, matches   *)
(* and connections.  The registry's operators are treated one by one, on    *)
(* any registry whose index and seats agree; the host's actions then only   *)
(* compose them.                                                            *)
(***************************************************************************)
EXTENDS EnetHost, SequenceTheorems, FiniteSetTheorems, TLAPS

(* Every non-empty set of numbers has a least one: the initial segments     *)
(* they close are ordered by strict inclusion, which is well-founded.       *)
LEMMA LeastNumber ==
  ASSUME NEW T, T \subseteq Nat, T # {}
  PROVE  \E x \in T : \A y \in T : ~ (y < x)
<1> DEFINE Segments == {0..x : x \in T}
<1>1. Segments \subseteq FiniteSubsetsOf(Nat) /\ Segments # {}
  <2>1. ASSUME NEW x \in T PROVE 0..x \in SUBSET Nat /\ IsFiniteSet(0..x)
    BY FS_Interval
  <2> QED
    BY <2>1 DEF FiniteSubsetsOf
<1>2. PICK seg \in Segments : \A other \in Segments : <<other, seg>> \notin StrictSubsetOrdering(Nat)
  BY <1>1, WFMin, FS_StrictSubsetOrderingWellFounded
<1>3. PICK x \in T : seg = 0..x
  OBVIOUS
<1>4. ASSUME NEW y \in T, y < x PROVE FALSE
  <2>1. 0..y \subseteq 0..x /\ 0..y # 0..x /\ 0..y \in SUBSET Nat /\ 0..x \in SUBSET Nat
    <3>1. x \in 0..x /\ x \notin 0..y
      BY <1>4
    <3> QED
      BY <1>4, <3>1
  <2>2. <<0..y, 0..x>> \in StrictSubsetOrdering(Nat)
    BY <2>1 DEF StrictSubsetOrdering
  <2> QED
    BY <1>2, <1>3, <2>2
<1> QED
  BY <1>4

LEMMA Capacities ==
  ASSUME NEW m \in Matches
  PROVE  /\ Capacity(m) \in {1, 2} /\ Slots(m) = 1..Capacity(m)
         /\ Matches \subseteq Nat /\ m # NoMatch /\ NoSlot \notin Slots(m)
BY RegistryAssumption DEF Capacity, Slots, Matches, NoMatch, NoSlot

LEMMA Removal ==
  ASSUME NEW S, NEW s \in Seq(S), NEW i \in DOMAIN s
  PROVE  /\ RemoveAt(s, i) \in Seq(S) /\ Len(RemoveAt(s, i)) = Len(s) - 1
         /\ \A j \in 1..(Len(s) - 1) : RemoveAt(s, i)[j] = IF j < i THEN s[j] ELSE s[j + 1]
<1> DEFINE a == SubSeq(s, 1, i - 1)
           b == SubSeq(s, i + 1, Len(s))
<1>1. i \in 1..Len(s) /\ Len(s) \in Nat /\ \A j \in 1..Len(s) : s[j] \in S
  OBVIOUS
<1>2. /\ a \in Seq(S) /\ Len(a) = i - 1
      /\ \A j \in 1..(i - 1) : a[j] = s[j]
  <2>1. \A j \in 1..(i - 1) : s[j] \in S
    BY <1>1
  <2>2. /\ a \in Seq(S) /\ Len(a) = IF 1 <= i - 1 THEN i - 1 - 1 + 1 ELSE 0
        /\ \A j \in 1..(i - 1 - 1 + 1) : a[j] = s[1 + j - 1]
    BY <1>1, <2>1, SubSeqProperties
  <2> QED
    BY <1>1, <2>2
<1>3. /\ b \in Seq(S) /\ Len(b) = Len(s) - i
      /\ \A j \in 1..(Len(s) - i) : b[j] = s[i + j]
  <2>1. \A j \in (i + 1)..Len(s) : s[j] \in S
    BY <1>1
  <2>2. /\ b \in Seq(S) /\ Len(b) = IF i + 1 <= Len(s) THEN Len(s) - (i + 1) + 1 ELSE 0
        /\ \A j \in 1..(Len(s) - (i + 1) + 1) : b[j] = s[i + 1 + j - 1]
    BY <1>1, <2>1, SubSeqProperties
  <2> QED
    BY <1>1, <2>2
<1>4. RemoveAt(s, i) = a \o b
  BY DEF RemoveAt
<1> HIDE DEF a, b
<1>5. /\ a \o b \in Seq(S) /\ Len(a \o b) = Len(a) + Len(b)
      /\ \A j \in 1..(Len(a) + Len(b)) : (a \o b)[j] = IF j <= Len(a) THEN a[j] ELSE b[j - Len(a)]
  BY <1>2, <1>3, ConcatProperties
<1>6. ASSUME NEW j \in 1..(Len(s) - 1)
      PROVE  (a \o b)[j] = IF j < i THEN s[j] ELSE s[j + 1]
  <2>1. Len(a) + Len(b) = Len(s) - 1 /\ Len(a) = i - 1 /\ j \in 1..(Len(a) + Len(b))
    BY <1>1, <1>2, <1>3
  <2>2. CASE j < i
    <3>1. j <= Len(a) /\ j \in 1..(i - 1)
      BY <1>1, <2>1, <2>2
    <3> QED
      BY <1>2, <1>5, <2>1, <2>2, <3>1
  <2>3. CASE ~ (j < i)
    <3>1. ~ (j <= Len(a)) /\ j - Len(a) \in 1..(Len(s) - i) /\ i + (j - Len(a)) = j + 1
      BY <1>1, <2>1, <2>3, SMTT(20)
    <3>2. (a \o b)[j] = b[j - Len(a)]
      BY <1>5, <2>1, <3>1
    <3> QED
      BY <1>3, <2>3, <3>1, <3>2
  <2> QED
    BY <2>2, <2>3
<1> QED
  BY <1>1, <1>2, <1>3, <1>4, <1>5, <1>6, SMTT(20)

-----------------------------------------------------------------------------
(* One match: at most as many seats as it has players, each address seated  *)
(* once, slots only with the seated and one each, all of them in a fight.   *)
Seat == [addr : Addrs, key : Keys]

MatchOK(m, r) ==
    /\ r \in MatchRecords
    /\ Len(r.players) <= Capacity(m)
    /\ \A i, j \in DOMAIN r.players : r.players[i].addr = r.players[j].addr => i = j
    /\ \A a \in Addrs : r.slot[a] # NoSlot => r.slot[a] \in Slots(m) /\ a \in SeatedAddrs(r)
    /\ \A a, b \in Addrs : r.slot[a] # NoSlot /\ r.slot[a] = r.slot[b] => a = b
    /\ r.phase = "live" => IsFull(m, r) /\ Unbound(r) = {}
    /\ r.phase \in {"free", "gone"} => SeatedAddrs(r) = {}

LEMMA Seats ==
  ASSUME NEW m \in Matches, NEW r, MatchOK(m, r)
  PROVE  /\ r.players \in Seq(Seat) /\ DOMAIN r.players = 1..Len(r.players)
         /\ Len(r.players) \in 0..2 /\ Len(r.players) <= Capacity(m)
         /\ SeatedAddrs(r) \subseteq Addrs
         /\ r.slot \in [Addrs -> NoSlot..2]
         /\ r.phase \in Phases /\ r.filled \in BOOLEAN /\ r.abandoned \in BOOLEAN /\ r.age \in Ages
<1>1. r.players \in Seq(Seat)
  BY DEF MatchOK, MatchRecords, Seat
<1>2. SeatedAddrs(r) \subseteq Addrs
  <2>1. \A i \in DOMAIN r.players : r.players[i] \in Seat
    BY <1>1
  <2> QED
    BY <2>1 DEF SeatedAddrs, Seat
<1>3. Len(r.players) \in 0..2
  <2>1. Len(r.players) \in Nat
    BY <1>1
  <2>2. Len(r.players) <= Capacity(m) /\ Capacity(m) \in {1, 2}
    BY Capacities DEF MatchOK
  <2>3. \A n \in Nat, c \in {1, 2} : n <= c => n \in 0..2
    OBVIOUS
  <2> QED
    BY <2>1, <2>2, <2>3
<1> QED
  BY <1>1, <1>2, <1>3 DEF MatchOK, MatchRecords

(* A match with other slots.                                                *)
LEMMA OtherSlots ==
  ASSUME NEW m \in Matches, NEW r, MatchOK(m, r),
         NEW f \in [Addrs -> NoSlot..2], NEW q, q = [r EXCEPT !.slot = f],
         \A a \in Addrs : f[a] # NoSlot => f[a] \in Slots(m) /\ a \in SeatedAddrs(r),
         \A a, b \in Addrs : f[a] # NoSlot /\ f[a] = f[b] => a = b,
         r.phase = "live" => \A a \in SeatedAddrs(r) : f[a] # NoSlot
  PROVE  /\ MatchOK(m, q) /\ q.players = r.players /\ q.phase = r.phase /\ q.slot = f
         /\ SeatedAddrs(q) = SeatedAddrs(r)
<1>1. /\ q \in MatchRecords /\ q.players = r.players /\ q.phase = r.phase /\ q.slot = f
  BY DEF MatchOK, MatchRecords
<1>2. SeatedAddrs(q) = SeatedAddrs(r)
  BY <1>1 DEF SeatedAddrs
<1>3. q.phase = "live" => IsFull(m, q) /\ Unbound(q) = {}
  BY <1>1, <1>2 DEF MatchOK, IsFull, Unbound
<1> QED
  BY <1>1, <1>2, <1>3 DEF MatchOK

LEMMA EliminationKeeps ==
  ASSUME NEW m \in Matches, NEW r, MatchOK(m, r), NEW q, q = BoundByElimination(m, r)
  PROVE  /\ MatchOK(m, q) /\ q.players = r.players /\ q.phase = r.phase
         /\ SeatedAddrs(q) = SeatedAddrs(r)
<1> DEFINE free == Slots(m) \ TakenSlots(r)
           f == [a \in Addrs |-> IF a \in Unbound(r) THEN CHOOSE s \in free : TRUE ELSE r.slot[a]]
<1>1. CASE q = r
  BY <1>1
<1>2. ASSUME NEW a \in Addrs, NEW s \in Slots(m), Unbound(r) = {a}, free = {s},
             q = [r EXCEPT !.slot = f]
      PROVE  /\ MatchOK(m, q) /\ q.players = r.players /\ q.phase = r.phase
             /\ SeatedAddrs(q) = SeatedAddrs(r)
  <2>1. (CHOOSE t \in free : TRUE) = s
    BY <1>2
  <2>2. f = [b \in Addrs |-> IF b = a THEN s ELSE r.slot[b]]
    BY <1>2, <2>1
  <2> HIDE DEF f, free
  <2>3. s \in 1..2 /\ s # NoSlot
    BY Capacities DEF NoSlot
  <2>4. f \in [Addrs -> NoSlot..2]
    BY <2>2, <2>3, Seats DEF NoSlot
  <2>5. a \in SeatedAddrs(r) /\ \A b \in SeatedAddrs(r) : r.slot[b] # s
    <3>1. s \notin TakenSlots(r)
      BY <1>2 DEF free
    <3> QED
      BY <1>2, <2>3, <3>1 DEF Unbound, TakenSlots
  <2>6. \A b \in Addrs : r.slot[b] # s
    BY <2>3, <2>5 DEF MatchOK
  <2>7. \A b \in Addrs : f[b] # NoSlot => f[b] \in Slots(m) /\ b \in SeatedAddrs(r)
    BY <2>2, <2>5 DEF MatchOK
  <2>8. \A b, c \in Addrs : f[b] # NoSlot /\ f[b] = f[c] => b = c
    BY <2>2, <2>6 DEF MatchOK
  <2>9. r.phase = "live" => \A b \in SeatedAddrs(r) : f[b] # NoSlot
    BY <1>2 DEF MatchOK
  <2> QED
    BY <1>2, <2>4, <2>7, <2>8, <2>9, OtherSlots
<1> QED
  BY <1>1, <1>2 DEF BoundByElimination

(* A slot nobody holds, given to a peer that has none.                      *)
LEMMA SlotGiven ==
  ASSUME NEW m \in Matches, NEW r, MatchOK(m, r),
         NEW a \in SeatedAddrs(r), NEW s \in Slots(m), r.slot[a] = NoSlot, s \notin TakenSlots(r),
         NEW f, f = [r.slot EXCEPT ![a] = s], NEW p, p = [r EXCEPT !.slot = f]
  PROVE  /\ MatchOK(m, p) /\ p.players = r.players /\ p.phase = r.phase
         /\ SeatedAddrs(p) = SeatedAddrs(r)
<1>1. a \in Addrs /\ s \in 1..2 /\ s # NoSlot
  BY Seats, Capacities DEF NoSlot
<1>2. f \in [Addrs -> NoSlot..2] /\ f[a] = s /\ \A b \in Addrs : b # a => f[b] = r.slot[b]
  BY <1>1, Seats DEF NoSlot
<1>3. \A b \in Addrs : r.slot[b] # s
  BY <1>1 DEF MatchOK, TakenSlots
<1>4. \A b \in Addrs : f[b] # NoSlot => f[b] \in Slots(m) /\ b \in SeatedAddrs(r)
  BY <1>2 DEF MatchOK
<1>5. \A b, c \in Addrs : f[b] # NoSlot /\ f[b] = f[c] => b = c
  BY <1>2, <1>3 DEF MatchOK
<1>6. r.phase # "live"
  BY DEF MatchOK, Unbound
<1>7. /\ MatchOK(m, p) /\ p.players = r.players /\ p.phase = r.phase /\ p.slot = f
      /\ SeatedAddrs(p) = SeatedAddrs(r)
  BY <1>2, <1>4, <1>5, <1>6, OtherSlots
<1> QED
  BY <1>7

LEMMA BindKeeps ==
  ASSUME NEW m \in Matches, NEW r, MatchOK(m, r),
         NEW a \in SeatedAddrs(r), NEW s \in Slots(m), NEW q, q = Bound(m, r, a, s)
  PROVE  /\ MatchOK(m, q) /\ q.players = r.players /\ q.phase = r.phase
         /\ SeatedAddrs(q) = SeatedAddrs(r)
<1>1. CASE q = r
  BY <1>1
<1>2. ASSUME r.slot[a] = NoSlot, s \notin TakenSlots(r),
             NEW f, f = [r.slot EXCEPT ![a] = s], NEW p, p = [r EXCEPT !.slot = f],
             q = BoundByElimination(m, p)
      PROVE  /\ MatchOK(m, q) /\ q.players = r.players /\ q.phase = r.phase
             /\ SeatedAddrs(q) = SeatedAddrs(r)
  <2>1. /\ MatchOK(m, p) /\ p.players = r.players /\ p.phase = r.phase
        /\ SeatedAddrs(p) = SeatedAddrs(r)
    BY <1>2, SlotGiven
  <2>2. MatchOK(m, p) /\ q = BoundByElimination(m, p)
    BY <1>2, <2>1
  <2>3. /\ MatchOK(m, q) /\ q.players = p.players /\ q.phase = p.phase
        /\ SeatedAddrs(q) = SeatedAddrs(p)
    BY <2>2, EliminationKeeps
  <2> QED
    BY <2>1, <2>3
<1> QED
  BY <1>1, <1>2 DEF Bound

LEMMA SeatNumbers ==
  ASSUME NEW m \in Matches, NEW r, MatchOK(m, r), NEW a \in SeatedAddrs(r)
  PROVE  /\ SeatNo(r, a) \in 1..Len(r.players) /\ r.players[SeatNo(r, a)].addr = a
         /\ \A i \in 1..Len(r.players) : r.players[i].addr = a => i = SeatNo(r, a)
<1>1. \E i \in DOMAIN r.players : r.players[i].addr = a
  BY DEF SeatedAddrs
<1>2. SeatNo(r, a) \in DOMAIN r.players /\ r.players[SeatNo(r, a)].addr = a
  BY <1>1 DEF SeatNo
<1>3. DOMAIN r.players = 1..Len(r.players)
  BY Seats
<1>4. \A i, j \in DOMAIN r.players : r.players[i].addr = r.players[j].addr => i = j
  BY DEF MatchOK
<1> QED
  BY <1>2, <1>3, <1>4

(* In a full match the unbound peers get free slots, and different ones:    *)
(* with two unbound nothing is taken yet, and each gets the slot of its     *)
(* seat.                                                                    *)
LEMMA FifoSlots ==
  ASSUME NEW m \in Matches, NEW r, MatchOK(m, r), IsFull(m, r), NEW a \in Unbound(r)
  PROVE  /\ FifoSlot(m, r, SeatNo(r, a)) \in Slots(m) \ TakenSlots(r)
         /\ \A b \in Unbound(r) : b # a => FifoSlot(m, r, SeatNo(r, b)) # FifoSlot(m, r, SeatNo(r, a))
<1>1. /\ Len(r.players) = Capacity(m) /\ Capacity(m) \in {1, 2} /\ Slots(m) = 1..Capacity(m)
      /\ DOMAIN r.players = 1..Len(r.players)
  <2>1. /\ Len(r.players) \in 0..2 /\ Len(r.players) <= Capacity(m) /\ Len(r.players) >= Capacity(m)
        /\ Capacity(m) \in {1, 2}
    BY Seats, Capacities DEF IsFull
  <2>2. Len(r.players) = Capacity(m)
    BY <2>1
  <2> QED
    BY <2>2, Seats, Capacities
<1>2. \A c \in Unbound(r) : /\ c \in SeatedAddrs(r) /\ r.slot[c] = NoSlot
                            /\ SeatNo(r, c) \in Slots(m) /\ r.players[SeatNo(r, c)].addr = c
                            /\ \A i \in Slots(m) : r.players[i].addr = c => i = SeatNo(r, c)
  BY <1>1, SeatNumbers DEF Unbound
<1>3. SeatedAddrs(r) = {r.players[i].addr : i \in Slots(m)}
  BY <1>1 DEF SeatedAddrs
<1>4. CASE \A c \in SeatedAddrs(r) : r.slot[c] = NoSlot
  <2>1. TakenSlots(r) = {}
    BY <1>4 DEF TakenSlots
  <2>2. \A c \in Unbound(r) : FifoSlot(m, r, SeatNo(r, c)) = SeatNo(r, c)
    BY <1>2, <2>1 DEF FifoSlot
  <2> QED
    BY <1>2, <2>1, <2>2
<1>5. ASSUME NEW c \in SeatedAddrs(r), r.slot[c] # NoSlot
      PROVE  /\ FifoSlot(m, r, SeatNo(r, a)) \in Slots(m) \ TakenSlots(r)
             /\ \A b \in Unbound(r) : b # a => FifoSlot(m, r, SeatNo(r, b)) # FifoSlot(m, r, SeatNo(r, a))
  <2>1. PICK i \in Slots(m) : r.players[i].addr = c
    BY <1>3
  <2>2. i # SeatNo(r, a)
    BY <1>2, <1>5, <2>1
  <2>3. Slots(m) = {1, 2}
    BY <1>1, <1>2, <2>1, <2>2
  <2>4. \A b \in SeatedAddrs(r) : b = a \/ b = c
    BY <1>2, <1>3, <2>1, <2>2, <2>3
  <2>5. TakenSlots(r) \subseteq {r.slot[c]}
    BY <1>2, <2>4 DEF TakenSlots
  <2>6. \E s \in Slots(m) : s \notin TakenSlots(r)
    BY <2>3, <2>5
  <2>7. FifoSlot(m, r, SeatNo(r, a)) \in Slots(m) \ TakenSlots(r)
    BY <2>6 DEF FifoSlot
  <2>8. \A b \in Unbound(r) : b = a
    BY <1>2, <1>5, <2>4
  <2> QED
    BY <2>7, <2>8
<1> QED
  BY <1>4, <1>5

LEMMA StartKeeps ==
  ASSUME NEW m \in Matches, NEW r, MatchOK(m, r), IsFull(m, r),
         NEW q, q = [CommittedFifo(m, r) EXCEPT !.phase = "live"]
  PROVE  MatchOK(m, q) /\ SeatedAddrs(q) = SeatedAddrs(r)
<1> DEFINE f == [a \in Addrs |-> IF a \in Unbound(r) THEN FifoSlot(m, r, SeatNo(r, a)) ELSE r.slot[a]]
<1>1. /\ r \in MatchRecords /\ CommittedFifo(m, r) = [r EXCEPT !.slot = f]
  BY DEF MatchOK, CommittedFifo
<1>2. \A a \in Unbound(r) : a \in SeatedAddrs(r) /\ a \in Addrs
  BY Seats DEF Unbound
<1>3. Slots(m) \subseteq NoSlot..2
  BY Capacities DEF NoSlot
<1>4. f \in [Addrs -> NoSlot..2]
  BY <1>2, <1>3, FifoSlots, Seats
<1>5. /\ \A a \in Unbound(r) : f[a] = FifoSlot(m, r, SeatNo(r, a))
      /\ \A a \in Addrs \ Unbound(r) : f[a] = r.slot[a]
  BY <1>2
<1> HIDE DEF f
<1>6. q = [[r EXCEPT !.slot = f] EXCEPT !.phase = "live"]
  BY <1>1
<1>7. /\ q \in MatchRecords /\ q.players = r.players /\ q.phase = "live" /\ q.slot = f
  BY <1>1, <1>4, <1>6 DEF MatchRecords, Phases
<1>8. SeatedAddrs(q) = SeatedAddrs(r)
  BY <1>7 DEF SeatedAddrs
<1>9. \A a \in Addrs : f[a] # NoSlot => f[a] \in Slots(m) /\ a \in SeatedAddrs(r)
  BY <1>2, <1>5, FifoSlots DEF MatchOK
<1>10. \A a \in Addrs \ Unbound(r) : f[a] # NoSlot => f[a] \in TakenSlots(r)
  BY <1>5 DEF TakenSlots, MatchOK
<1>11. \A a, b \in Addrs : f[a] # NoSlot /\ f[a] = f[b] => a = b
  <2> SUFFICES ASSUME NEW a \in Addrs, NEW b \in Addrs, f[a] # NoSlot, f[a] = f[b] PROVE a = b
    OBVIOUS
  <2>1. CASE a \in Unbound(r) /\ b \in Unbound(r)
    BY <1>5, <2>1, FifoSlots
  <2>2. CASE a \in Unbound(r) /\ b \notin Unbound(r)
    BY <1>5, <1>10, <2>2, FifoSlots
  <2>3. CASE a \notin Unbound(r) /\ b \in Unbound(r)
    BY <1>5, <1>10, <2>3, FifoSlots
  <2>4. CASE a \notin Unbound(r) /\ b \notin Unbound(r)
    BY <1>5, <2>4 DEF MatchOK
  <2> QED
    BY <2>1, <2>2, <2>3, <2>4
<1>12. IsFull(m, q) /\ Unbound(q) = {}
  <2>1. \A a \in SeatedAddrs(r) : f[a] # NoSlot
    BY <1>5, FifoSlots, Capacities, Seats DEF Unbound
  <2> QED
    BY <1>7, <1>8, <2>1 DEF Unbound, IsFull
<1> QED
  BY <1>7, <1>8, <1>9, <1>11, <1>12 DEF MatchOK

(* An admission seats one more address, in an open match.                   *)
Joined(m, r, a, k) ==
    [r EXCEPT !.players = Append(r.players, [addr |-> a, key |-> k]),
              !.filled = Len(r.players) + 1 >= Capacity(m)]

LEMMA Joining ==
  ASSUME NEW m \in Matches, NEW r, MatchOK(m, r), AcceptsNewConnection(m, r),
         NEW a \in Addrs, a \notin SeatedAddrs(r), NEW k \in Keys
  PROVE  MatchOK(m, Joined(m, r, a, k)) /\ SeatedAddrs(Joined(m, r, a, k)) = SeatedAddrs(r) \cup {a}
<1> DEFINE seat == [addr |-> a, key |-> k]
           full == Len(r.players) + 1 >= Capacity(m)
           joined == Joined(m, r, a, k)
<1>0. joined = [r EXCEPT !.players = Append(r.players, seat), !.filled = full]
  BY DEF Joined
<1>1. /\ r \in MatchRecords /\ r.players \in Seq(Seat) /\ seat \in Seat /\ seat.addr = a
      /\ Len(r.players) \in 0..2 /\ DOMAIN r.players = 1..Len(r.players)
      /\ full \in BOOLEAN /\ r.phase = "connecting" /\ Len(r.players) < Capacity(m)
  <2>1. r.phase = "connecting" /\ ~ (Len(r.players) >= Capacity(m))
    BY DEF AcceptsNewConnection, IsFull
  <2>2. Len(r.players) \in 0..2 /\ Capacity(m) \in {1, 2}
    BY Seats, Capacities
  <2>3. Len(r.players) < Capacity(m)
    BY <2>1, <2>2
  <2>4. seat \in Seat /\ seat.addr = a
    BY DEF Seat
  <2>5. full \in BOOLEAN
    OBVIOUS
  <2> HIDE DEF seat, full
  <2> QED
    BY <2>1, <2>2, <2>3, <2>4, <2>5, Seats DEF MatchOK
<1> HIDE DEF seat, full, joined
<1>2. DEFINE ps == Append(r.players, seat)
<1>3. /\ ps \in Seq(Seat) /\ Len(ps) = Len(r.players) + 1
      /\ ps[Len(r.players) + 1] = seat /\ \A i \in 1..Len(r.players) : ps[i] = r.players[i]
  BY <1>1, AppendProperties
<1> HIDE DEF ps
<1>4. /\ joined \in MatchRecords /\ joined.players = ps /\ joined.slot = r.slot /\ joined.phase = r.phase
  BY <1>0, <1>1, <1>3 DEF MatchRecords, ps, Seat
<1>5. DOMAIN ps = 1..(Len(r.players) + 1)
  BY <1>3
<1>6. SeatedAddrs(joined) = SeatedAddrs(r) \cup {a}
  <2>1. SeatedAddrs(joined) = {ps[i].addr : i \in 1..(Len(r.players) + 1)}
    BY <1>4, <1>5 DEF SeatedAddrs
  <2>2. SeatedAddrs(r) = {r.players[i].addr : i \in 1..Len(r.players)}
    BY <1>1 DEF SeatedAddrs
  <2>3. 1..(Len(r.players) + 1) = 1..Len(r.players) \cup {Len(r.players) + 1}
    BY <1>1
  <2>4. seat.addr = a
    BY <1>1
  <2>5. {ps[i].addr : i \in 1..(Len(r.players) + 1)}
            = {ps[i].addr : i \in 1..Len(r.players)} \cup {ps[Len(r.players) + 1].addr}
    BY <2>3
  <2>6. {ps[i].addr : i \in 1..Len(r.players)} = {r.players[i].addr : i \in 1..Len(r.players)}
    BY <1>3
  <2> QED
    BY <1>3, <2>1, <2>2, <2>4, <2>5, <2>6
<1>7. \A i, j \in DOMAIN ps : ps[i].addr = ps[j].addr => i = j
  <2>1. \A i \in 1..Len(r.players) : r.players[i].addr # a
    BY <1>1 DEF SeatedAddrs
  <2>2. \A i, j \in 1..Len(r.players) : r.players[i].addr = r.players[j].addr => i = j
    BY <1>1 DEF MatchOK
  <2>3. \A i \in 1..(Len(r.players) + 1) : i \in 1..Len(r.players) \/ i = Len(r.players) + 1
    BY <1>1
  <2> QED
    BY <1>1, <1>3, <1>5, <2>1, <2>2, <2>3
<1>8. MatchOK(m, joined)
  <2>1. Len(ps) <= Capacity(m)
    BY <1>1, <1>3, Capacities
  <2> QED
    BY <1>1, <1>4, <1>6, <1>7, <2>1 DEF MatchOK
<1> QED
  BY <1>6, <1>8 DEF joined

LEMMA JoinedSeats ==
  ASSUME NEW m \in Matches, NEW r, MatchOK(m, r), NEW a \in Addrs, NEW k \in Keys,
         NEW q, q = Joined(m, r, a, k)
  PROVE  /\ q.slot = r.slot /\ q.phase = r.phase /\ DOMAIN q.players = 1..(Len(r.players) + 1)
         /\ \A i \in 1..Len(r.players) : q.players[i] = r.players[i]
         /\ q.players[Len(r.players) + 1].addr = a /\ q.players[Len(r.players) + 1].key = k
<1> DEFINE seat == [addr |-> a, key |-> k]
           full == Len(r.players) + 1 >= Capacity(m)
<1>1. q = [r EXCEPT !.players = Append(r.players, seat), !.filled = full]
  BY DEF Joined
<1>2. seat \in Seat /\ seat.addr = a /\ seat.key = k
  BY DEF Seat
<1> HIDE DEF seat, full
<1>3. r \in MatchRecords /\ r.players \in Seq(Seat) /\ Len(r.players) \in Nat
  BY Seats DEF MatchOK
<1>4. q.slot = r.slot /\ q.phase = r.phase /\ q.players = Append(r.players, seat)
  BY <1>1, <1>3 DEF MatchRecords
<1>5. /\ q.players \in Seq(Seat) /\ Len(q.players) = Len(r.players) + 1
      /\ q.players[Len(r.players) + 1] = seat
      /\ \A i \in 1..Len(r.players) : q.players[i] = r.players[i]
  BY <1>2, <1>3, <1>4, AppendProperties
<1>6. DOMAIN q.players = 1..(Len(r.players) + 1)
  BY <1>5
<1> QED
  BY <1>2, <1>4, <1>5, <1>6

LEMMA SeatingBinds ==
  ASSUME NEW m \in Matches, NEW r, NEW a \in Addrs, NEW k
  PROVE  \/ \E s \in Slots(m) : /\ Seated(m, r, a, k) = Bound(m, Joined(m, r, a, k), a, s)
                                /\ ExpectedSlots(m, IpOf[a]) = {s} \/ Capacity(m) = 1
         \/ Seated(m, r, a, k) = BoundByElimination(m, Joined(m, r, a, k))
<1>1. CASE Expects(m, IpOf[a])
  <2>1. PICK s \in Slots(m) : ExpectedSlots(m, IpOf[a]) = {s}
    BY <1>1 DEF Expects
  <2>2. (CHOOSE t \in Slots(m) : t \in ExpectedSlots(m, IpOf[a])) = s
    BY <2>1
  <2>3. Seated(m, r, a, k) = Bound(m, Joined(m, r, a, k), a, s)
    BY <1>1, <2>2 DEF Seated, Joined
  <2> QED
    BY <2>1, <2>3
<1>2. CASE ~Expects(m, IpOf[a])
  <2>1. Capacity(m) = 1 => 1 \in Slots(m)
    BY Capacities
  <2> QED
    BY <1>2, <2>1 DEF Seated, Joined
<1> QED
  BY <1>1, <1>2

LEMMA SeatingKeeps ==
  ASSUME NEW m \in Matches, NEW r, MatchOK(m, r), AcceptsNewConnection(m, r),
         NEW a \in Addrs, a \notin SeatedAddrs(r), NEW k \in Keys,
         NEW q, q = Seated(m, r, a, k)
  PROVE  MatchOK(m, q) /\ SeatedAddrs(q) = SeatedAddrs(r) \cup {a}
<1> DEFINE joined == Joined(m, r, a, k)
<1>1. MatchOK(m, joined) /\ SeatedAddrs(joined) = SeatedAddrs(r) \cup {a}
  BY Joining
<1>2. \/ \E s \in Slots(m) : q = Bound(m, joined, a, s)
      \/ q = BoundByElimination(m, joined)
  BY SeatingBinds
<1> HIDE DEF joined
<1>3. a \in SeatedAddrs(joined)
  BY <1>1
<1>4. MatchOK(m, q) /\ SeatedAddrs(q) = SeatedAddrs(joined)
  BY <1>1, <1>2, <1>3, BindKeeps, EliminationKeeps
<1> QED
  BY <1>1, <1>4

(* A seat that moves to another address takes its slot along.               *)
LEMMA MovingKeeps ==
  ASSUME NEW m \in Matches, NEW r, MatchOK(m, r),
         NEW old \in SeatedAddrs(r), NEW a \in Addrs, a \notin SeatedAddrs(r),
         NEW q, q = Moved(r, old, a)
  PROVE  MatchOK(m, q) /\ SeatedAddrs(q) = (SeatedAddrs(r) \ {old}) \cup {a}
<1> DEFINE ps == [i \in DOMAIN r.players |-> IF r.players[i].addr = old
                                             THEN [r.players[i] EXCEPT !.addr = a] ELSE r.players[i]]
           f == [b \in Addrs |-> IF b = a THEN r.slot[old] ELSE IF b = old THEN NoSlot ELSE r.slot[b]]
<1>1. /\ r \in MatchRecords /\ r.players \in Seq(Seat) /\ Len(r.players) \in 0..2
      /\ DOMAIN r.players = 1..Len(r.players) /\ old \in Addrs /\ old # a
      /\ r.slot \in [Addrs -> NoSlot..2]
  BY Seats DEF MatchOK
<1>2. \A i \in 1..Len(r.players) : r.players[i] \in Seat
  BY <1>1
<1>3. \A i \in 1..Len(r.players) :
        /\ ps[i] \in Seat
        /\ ps[i].addr = IF r.players[i].addr = old THEN a ELSE r.players[i].addr
  BY <1>1, <1>2 DEF Seat
<1>4. ps \in Seq(Seat) /\ Len(ps) = Len(r.players) /\ DOMAIN ps = 1..Len(r.players)
  <2>1. ps \in [1..Len(r.players) -> Seat]
    BY <1>1, <1>3
  <2> HIDE DEF ps
  <2>2. \A n \in Nat : ps \in [1..n -> Seat] => ps \in Seq(Seat) /\ Len(ps) = n /\ DOMAIN ps = 1..n
    OBVIOUS
  <2>3. Len(r.players) \in Nat
    BY <1>1
  <2> QED
    BY <2>1, <2>2, <2>3
<1>5. f \in [Addrs -> NoSlot..2]
  BY <1>1 DEF NoSlot
<1>6. /\ f[a] = r.slot[old] /\ f[old] = NoSlot
      /\ \A b \in Addrs \ {a, old} : f[b] = r.slot[b]
  BY <1>1
<1>7. q = [r EXCEPT !.players = ps, !.slot = f]
  BY DEF Moved
<1> HIDE DEF ps, f
<1>8. q \in MatchRecords /\ q.players = ps /\ q.slot = f /\ q.phase = r.phase
  BY <1>1, <1>4, <1>5, <1>7 DEF MatchRecords, Seat
<1>9. SeatedAddrs(q) = {ps[i].addr : i \in 1..Len(r.players)}
  BY <1>4, <1>8 DEF SeatedAddrs
<1>10. SeatedAddrs(r) = {r.players[i].addr : i \in 1..Len(r.players)}
  BY <1>1 DEF SeatedAddrs
<1>11. SeatedAddrs(q) = (SeatedAddrs(r) \ {old}) \cup {a}
  BY <1>1, <1>3, <1>9, <1>10
<1>12. \A i, j \in 1..Len(r.players) : ps[i].addr = ps[j].addr => i = j
  <2>1. \A i \in 1..Len(r.players) : r.players[i].addr # a
    BY <1>10
  <2>2. \A i, j \in 1..Len(r.players) : r.players[i].addr = r.players[j].addr => i = j
    BY <1>1 DEF MatchOK
  <2> QED
    BY <1>3, <2>1, <2>2
<1>13. r.slot[a] = NoSlot
  BY DEF MatchOK
<1>14. \A b \in Addrs : f[b] # NoSlot => f[b] \in Slots(m) /\ b \in SeatedAddrs(q)
  BY <1>1, <1>6, <1>11 DEF MatchOK
<1>15. \A b, c \in Addrs : f[b] # NoSlot /\ f[b] = f[c] => b = c
  BY <1>1, <1>6 DEF MatchOK
<1>16. q.phase = "live" => IsFull(m, q) /\ Unbound(q) = {}
  <2>1. r.phase = "live" => \A b \in SeatedAddrs(q) : f[b] # NoSlot
    BY <1>6, <1>11, Seats DEF MatchOK, Unbound
  <2> QED
    BY <1>4, <1>8, <2>1 DEF MatchOK, IsFull, Unbound
<1>17. Len(q.players) <= Capacity(m)
  BY <1>4, <1>8 DEF MatchOK
<1> QED
  BY <1>4, <1>8, <1>11, <1>12, <1>14, <1>15, <1>16, <1>17 DEF MatchOK

LEMMA EmptyMatches ==
  ASSUME NEW m \in Matches
  PROVE  /\ MatchOK(m, Retired) /\ SeatedAddrs(Retired) = {}
         /\ MatchOK(m, NewMatch) /\ SeatedAddrs(NewMatch) = {}
         /\ MatchOK(m, [NewMatch EXCEPT !.phase = "connecting"])
         /\ SeatedAddrs([NewMatch EXCEPT !.phase = "connecting"]) = {}
<1> DEFINE empty == [a \in Addrs |-> NoSlot]
<1>1. empty \in [Addrs -> NoSlot..2] /\ \A a \in Addrs : empty[a] = NoSlot
  BY DEF NoSlot
<1>2. << >> \in Seq(Seat) /\ Len(<< >>) = 0 /\ DOMAIN << >> = {}
  OBVIOUS
<1>3. /\ NewMatch \in MatchRecords
      /\ NewMatch.players = << >> /\ NewMatch.slot = empty /\ NewMatch.phase = "free"
  BY <1>1, <1>2 DEF NewMatch, MatchRecords, Seat, Phases, Young, Ages, Ancient
<1> HIDE DEF empty
<1>4. ASSUME NEW q \in MatchRecords, q.players = << >>, q.slot = empty, q.phase # "live"
      PROVE  MatchOK(m, q) /\ SeatedAddrs(q) = {}
  <2>1. SeatedAddrs(q) = {}
    BY <1>2, <1>4 DEF SeatedAddrs
  <2>2. Len(q.players) <= Capacity(m)
    BY <1>2, <1>4, Capacities
  <2> QED
    BY <1>1, <1>2, <1>4, <2>1, <2>2 DEF MatchOK
<1>5. ASSUME NEW ph \in {"gone", "connecting"}
      PROVE  /\ [NewMatch EXCEPT !.phase = ph] \in MatchRecords
             /\ [NewMatch EXCEPT !.phase = ph].players = << >>
             /\ [NewMatch EXCEPT !.phase = ph].slot = empty
             /\ [NewMatch EXCEPT !.phase = ph].phase # "live"
  BY <1>3 DEF MatchRecords, Phases
<1>6. MatchOK(m, NewMatch) /\ SeatedAddrs(NewMatch) = {}
  BY <1>3, <1>4
<1>7. ASSUME NEW ph \in {"gone", "connecting"}
      PROVE  /\ MatchOK(m, [NewMatch EXCEPT !.phase = ph])
             /\ SeatedAddrs([NewMatch EXCEPT !.phase = ph]) = {}
  BY <1>4, <1>5
<1>8. MatchOK(m, Retired) /\ SeatedAddrs(Retired) = {}
  BY <1>7 DEF Retired
<1> QED
  BY <1>6, <1>7, <1>8

(* A departure takes the seat and the slot, and decides a fight.            *)
LEMMA LeavingKeeps ==
  ASSUME NEW m \in Matches, NEW r, MatchOK(m, r), NEW a \in SeatedAddrs(r),
         NEW q, q = Left(r, a)
  PROVE  MatchOK(m, q) /\ SeatedAddrs(q) = SeatedAddrs(r) \ {a}
<1> DEFINE n == SeatNo(r, a)
           ps == RemoveAt(r.players, n)
           f == [r.slot EXCEPT ![a] = NoSlot]
<1>1. /\ r \in MatchRecords /\ r.players \in Seq(Seat) /\ Len(r.players) \in 0..2
      /\ DOMAIN r.players = 1..Len(r.players) /\ a \in Addrs
      /\ r.slot \in [Addrs -> NoSlot..2] /\ Len(r.players) <= Capacity(m)
  BY Seats DEF MatchOK
<1>2. /\ n \in 1..Len(r.players) /\ r.players[n].addr = a
      /\ \A i \in 1..Len(r.players) : r.players[i].addr = a => i = n
  BY SeatNumbers
<1>3. /\ ps \in Seq(Seat) /\ Len(ps) = Len(r.players) - 1
      /\ \A j \in 1..(Len(r.players) - 1) : ps[j] = IF j < n THEN r.players[j] ELSE r.players[j + 1]
  BY <1>1, <1>2, Removal
<1>4. /\ f \in [Addrs -> NoSlot..2] /\ f[a] = NoSlot /\ \A b \in Addrs \ {a} : f[b] = r.slot[b]
  BY <1>1 DEF NoSlot
<1>5. Without(r, a) = [r EXCEPT !.players = ps, !.slot = f]
  BY DEF Without
<1> HIDE DEF n, ps, f
<1>6. DOMAIN ps = 1..(Len(r.players) - 1)
  BY <1>3
<1>7. {ps[j].addr : j \in 1..(Len(r.players) - 1)} = {r.players[i].addr : i \in 1..Len(r.players)} \ {a}
  <2>1. ASSUME NEW j \in 1..(Len(r.players) - 1)
        PROVE  \E i \in 1..Len(r.players) : i # n /\ ps[j] = r.players[i]
    <3>1. CASE j < n
      BY <1>1, <1>3, <3>1
    <3>2. CASE ~ (j < n)
      <4>1. j + 1 \in 1..Len(r.players) /\ j + 1 # n /\ ps[j] = r.players[j + 1]
        BY <1>1, <1>2, <1>3, <3>2
      <4> QED
        BY <4>1
    <3> QED
      BY <3>1, <3>2
  <2>2. ASSUME NEW i \in 1..Len(r.players), i # n
        PROVE  \E j \in 1..(Len(r.players) - 1) : ps[j] = r.players[i]
    <3>1. CASE i < n
      <4>1. i \in 1..(Len(r.players) - 1) /\ ps[i] = r.players[i]
        BY <1>1, <1>2, <1>3, <3>1
      <4> QED
        BY <4>1
    <3>2. CASE ~ (i < n)
      <4>1. i - 1 \in 1..(Len(r.players) - 1) /\ ~ (i - 1 < n) /\ i - 1 + 1 = i
        BY <1>1, <1>2, <2>2, <3>2
      <4>2. ps[i - 1] = r.players[i]
        BY <1>3, <4>1
      <4> QED
        BY <4>1, <4>2
    <3> QED
      BY <3>1, <3>2
  <2>3. ASSUME NEW j \in 1..(Len(r.players) - 1)
        PROVE  ps[j].addr \in {r.players[i].addr : i \in 1..Len(r.players)} \ {a}
    <3>1. PICK i \in 1..Len(r.players) : i # n /\ ps[j] = r.players[i]
      BY <2>1
    <3>2. r.players[i].addr # a
      BY <1>2, <3>1
    <3> QED
      BY <3>1, <3>2
  <2>4. ASSUME NEW i \in 1..Len(r.players), r.players[i].addr # a
        PROVE  r.players[i].addr \in {ps[j].addr : j \in 1..(Len(r.players) - 1)}
    <3>1. PICK j \in 1..(Len(r.players) - 1) : ps[j] = r.players[i]
      BY <1>2, <2>2, <2>4
    <3> QED
      BY <3>1
  <2> QED
    BY <2>3, <2>4
<1>8. \A i, j \in 1..(Len(r.players) - 1) : ps[i].addr = ps[j].addr => i = j
  <2>1. \A i, j \in 1..Len(r.players) : r.players[i].addr = r.players[j].addr => i = j
    BY <1>1 DEF MatchOK
  <2>2. \A j \in 1..(Len(r.players) - 1) : j \in 1..Len(r.players) /\ j + 1 \in 1..Len(r.players)
    BY <1>1
  <2> SUFFICES ASSUME NEW i \in 1..(Len(r.players) - 1), NEW j \in 1..(Len(r.players) - 1),
                      ps[i].addr = ps[j].addr
               PROVE  i = j
    OBVIOUS
  <2>3. CASE i < n /\ j < n
    BY <1>3, <2>1, <2>2, <2>3
  <2>4. CASE i < n /\ ~ (j < n)
    <3>1. i = j + 1
      BY <1>3, <2>1, <2>2, <2>4
    <3> QED
      BY <1>1, <1>2, <2>4, <3>1
  <2>5. CASE ~ (i < n) /\ j < n
    <3>1. i + 1 = j
      BY <1>3, <2>1, <2>2, <2>5
    <3> QED
      BY <1>1, <1>2, <2>5, <3>1
  <2>6. CASE ~ (i < n) /\ ~ (j < n)
    <3>1. i + 1 = j + 1
      BY <1>3, <2>1, <2>2, <2>6
    <3> QED
      BY <1>1, <3>1
  <2> QED
    BY <2>3, <2>4, <2>5, <2>6
<1>9. SeatedAddrs(r) = {r.players[i].addr : i \in 1..Len(r.players)}
  BY <1>1 DEF SeatedAddrs
<1>10. CASE SeatedAddrs(r) = {a}
  BY <1>10, EmptyMatches DEF Left
<1>11. ASSUME SeatedAddrs(r) # {a}, NEW ph \in Phases \ {"free", "gone", "live"},
              q = [[r EXCEPT !.players = ps, !.slot = f] EXCEPT !.phase = ph]
       PROVE  MatchOK(m, q) /\ SeatedAddrs(q) = SeatedAddrs(r) \ {a}
  <2>1. q \in MatchRecords /\ q.players = ps /\ q.slot = f /\ q.phase = ph
    BY <1>1, <1>3, <1>4, <1>11 DEF MatchRecords, Seat
  <2>2. SeatedAddrs(q) = SeatedAddrs(r) \ {a}
    <3>1. SeatedAddrs(q) = {ps[i].addr : i \in DOMAIN ps}
      BY <2>1 DEF SeatedAddrs
    <3>2. DOMAIN ps = 1..(Len(r.players) - 1)
      BY <1>6
    <3>3. SeatedAddrs(q) = {ps[i].addr : i \in 1..(Len(r.players) - 1)}
      BY <3>1, <3>2
    <3> QED BY <1>7, <1>9, <3>3
  <2>3. Len(q.players) <= Capacity(m)
    BY <1>1, <1>3, <2>1, Capacities
  <2>4. \A b \in Addrs : f[b] # NoSlot => f[b] \in Slots(m) /\ b \in SeatedAddrs(q)
    BY <1>4, <2>2 DEF MatchOK
  <2>5. \A b, c \in Addrs : f[b] # NoSlot /\ f[b] = f[c] => b = c
    BY <1>4 DEF MatchOK
  <2> QED
    BY <1>6, <1>8, <1>11, <2>1, <2>2, <2>3, <2>4, <2>5 DEF MatchOK
<1>12. ASSUME SeatedAddrs(r) # {a}
       PROVE  \E ph \in Phases \ {"free", "gone", "live"} :
                  q = [[r EXCEPT !.players = ps, !.slot = f] EXCEPT !.phase = ph]
  <2>1. CASE r.slot[a] # NoSlot /\ r.phase \in {"connecting", "live"}
    BY <1>5, <1>12, <2>1 DEF Left, Phases
  <2>2. CASE ~ (r.slot[a] # NoSlot /\ r.phase \in {"connecting", "live"})
    <3>1. r.phase \in Phases \ {"free", "gone", "live"}
      BY <2>2, Seats DEF MatchOK, Unbound
    <3>2. [[r EXCEPT !.players = ps, !.slot = f] EXCEPT !.phase = r.phase]
            = [r EXCEPT !.players = ps, !.slot = f]
      BY <1>1 DEF MatchRecords
    <3> QED
      BY <1>5, <1>12, <2>2, <3>1, <3>2 DEF Left
  <2> QED
    BY <2>1, <2>2
<1> QED
  BY <1>10, <1>11, <1>12

-----------------------------------------------------------------------------
(* The registry: its matches, and the index that says whose each address is. *)
RegOK(g) ==
    /\ g \in Registries
    /\ \A m \in Matches : MatchOK(m, g.match[m])
    /\ \A a \in Addrs, m \in Matches : g.index[a] = m <=> a \in SeatedAddrs(g.match[m])

Indexes == [Addrs -> Matches \cup {NoMatch}]

LEMMA RegistryFields ==
  ASSUME NEW g, RegOK(g)
  PROVE  /\ g.match \in [Matches -> MatchRecords] /\ g.index \in Indexes
         /\ \A m \in Matches : MatchOK(m, g.match[m]) /\ SeatedAddrs(g.match[m]) \subseteq Addrs
         /\ \A a \in Addrs, m \in Matches : g.index[a] = m <=> a \in SeatedAddrs(g.match[m])
         /\ \A a \in Addrs : g.index[a] \in Matches \/ g.index[a] = NoMatch
         /\ NoMatch \notin Matches
<1>1. NoMatch \notin Matches
  BY Capacities
<1> QED
  BY <1>1, Seats DEF RegOK, Registries, Indexes

(* One match becomes r, and the index f.                                    *)
LEMMA OneMatch ==
  ASSUME NEW g, RegOK(g), NEW m \in Matches, NEW r, MatchOK(m, r), NEW f \in Indexes,
         \A a \in Addrs : f[a] = m <=> a \in SeatedAddrs(r),
         \A a \in Addrs, n \in Matches : n # m => (f[a] = n <=> g.index[a] = n),
         NEW h, h \in [match : {[g.match EXCEPT ![m] = r]}, index : {f}]
  PROVE  RegOK(h) /\ h.index = f
<1>1. /\ h.match \in [Matches -> MatchRecords] /\ h.index = f /\ h.match[m] = r
      /\ \A n \in Matches : n # m => h.match[n] = g.match[n]
  BY RegistryFields DEF MatchOK
<1>2. h \in Registries
  BY <1>1 DEF Registries, Indexes
<1>3. \A n \in Matches : MatchOK(n, h.match[n])
  BY <1>1 DEF RegOK
<1>4. \A a \in Addrs, n \in Matches : h.index[a] = n <=> a \in SeatedAddrs(h.match[n])
  <2>1. ASSUME NEW a \in Addrs, NEW n \in Matches, n # m
        PROVE  h.index[a] = n <=> a \in SeatedAddrs(h.match[n])
    <3>1. f[a] = n <=> g.index[a] = n
      BY <2>1
    <3>2. g.index[a] = n <=> a \in SeatedAddrs(g.match[n])
      BY DEF RegOK
    <3> QED
      BY <1>1, <2>1, <3>1, <3>2
  <2>2. ASSUME NEW a \in Addrs PROVE h.index[a] = m <=> a \in SeatedAddrs(h.match[m])
    BY <1>1
  <2> QED
    BY <2>1, <2>2
<1> QED
  BY <1>1, <1>2, <1>3, <1>4 DEF RegOK

LEMMA SameSeats ==
  ASSUME NEW g, RegOK(g), NEW m \in Matches, NEW r, MatchOK(m, r),
         SeatedAddrs(r) = SeatedAddrs(g.match[m]),
         NEW h, h \in [match : {[g.match EXCEPT ![m] = r]}, index : {g.index}]
  PROVE  RegOK(h) /\ h.index = g.index
<1>1. g.index \in Indexes /\ \A a \in Addrs : g.index[a] = m <=> a \in SeatedAddrs(r)
  BY RegistryFields
<1>2. \A a \in Addrs, n \in Matches : n # m => (g.index[a] = n <=> g.index[a] = n)
  OBVIOUS
<1> HIDE DEF RegOK
<1> QED
  BY <1>1, <1>2, OneMatch

(* admit_connection finds a match if any is open: the oldest of those that  *)
(* expect the IP, else the oldest.                                          *)
LEMMA Selection ==
  ASSUME NEW g, NEW a \in Addrs, OpenTo(g, a) # {}
  PROVE  SelectedFor(g, a) \in OpenTo(g, a)
<1> DEFINE expecting == {m \in OpenTo(g, a) : Expects(m, IpOf[a])}
<1>1. OpenTo(g, a) \subseteq Nat
  BY RegistryAssumption DEF OpenTo, Matches
<1>2. \E m \in OpenTo(g, a) : \A n \in OpenTo(g, a) \ {m} :
          \/ Expects(m, IpOf[a]) /\ ~Expects(n, IpOf[a])
          \/ (Expects(m, IpOf[a]) <=> Expects(n, IpOf[a])) /\ m < n
  <2>1. CASE expecting # {}
    <3>1. expecting \subseteq Nat
      BY <1>1
    <3>2. PICK m \in expecting : \A n \in expecting : ~ (n < m)
      BY <2>1, <3>1, LeastNumber
    <3>3. \A n \in expecting \ {m} : m < n
      BY <3>1, <3>2
    <3> QED
      BY <3>2, <3>3
  <2>2. CASE expecting = {}
    <3>1. PICK m \in OpenTo(g, a) : \A n \in OpenTo(g, a) : ~ (n < m)
      BY <1>1, LeastNumber
    <3>2. \A n \in OpenTo(g, a) \ {m} : m < n
      BY <1>1, <3>1
    <3>3. \A n \in OpenTo(g, a) : ~Expects(n, IpOf[a])
      BY <2>2
    <3> QED
      BY <3>1, <3>2, <3>3
  <2> QED
    BY <2>1, <2>2
<1> QED
  BY <1>2 DEF SelectedFor

LEMMA AdmittedKeeps ==
  ASSUME NEW g, RegOK(g), NEW a \in Addrs, g.index[a] = NoMatch, OpenTo(g, a) # {}, NEW k \in Keys
  PROVE  RegOK(Admitted(g, a, k))
<1> DEFINE m == SelectedFor(g, a)
           r == Seated(m, g.match[m], a, k)
           f == [g.index EXCEPT ![a] = m]
<1>1. m \in Matches /\ AcceptsNewConnection(m, g.match[m])
  BY Selection DEF OpenTo, Open
<1>2. Admitted(g, a, k) = [g EXCEPT !.match = [g.match EXCEPT ![m] = r], !.index = f]
  BY DEF Admitted
<1> HIDE DEF m
<1>3. MatchOK(m, g.match[m]) /\ \A n \in Matches : a \notin SeatedAddrs(g.match[n])
  BY <1>1, RegistryFields
<1>4. MatchOK(m, r) /\ SeatedAddrs(r) = SeatedAddrs(g.match[m]) \cup {a}
  BY <1>1, <1>3, SeatingKeeps
<1>5. /\ f \in Indexes /\ f[a] = m /\ \A b \in Addrs : b # a => f[b] = g.index[b]
  BY <1>1, RegistryFields DEF Indexes
<1> HIDE DEF r, f
<1>6. \A b \in Addrs : f[b] = m <=> b \in SeatedAddrs(r)
  BY <1>1, <1>4, <1>5, RegistryFields
<1>7. \A b \in Addrs, n \in Matches : n # m => (f[b] = n <=> g.index[b] = n)
  BY <1>5, RegistryFields
<1>8. Admitted(g, a, k) \in [match : {[g.match EXCEPT ![m] = r]}, index : {f}]
  BY <1>2 DEF RegOK, Registries
<1> QED
  BY <1>1, <1>4, <1>5, <1>6, <1>7, <1>8, OneMatch

LEMMA HeardKeeps ==
  ASSUME NEW g, RegOK(g), NEW a \in Addrs, g.index[a] \in Matches,
         NEW k, NEW S \in SUBSET Slots(g.index[a])
  PROVE  RegOK(Heard(g, a, k, S)) /\ Heard(g, a, k, S).index = g.index
<1> DEFINE m == g.index[a]
           s == CHOOSE t \in S : TRUE
           r == Bound(m, g.match[m], a, s)
<1>1. CASE Heard(g, a, k, S) = g
  BY <1>1
<1>2. ASSUME S # {}, Heard(g, a, k, S) = [g EXCEPT !.match = [g.match EXCEPT ![m] = r]]
      PROVE  RegOK(Heard(g, a, k, S)) /\ Heard(g, a, k, S).index = g.index
  <2>1. m \in Matches /\ s \in Slots(m)
    BY <1>2
  <2>2. MatchOK(m, g.match[m]) /\ a \in SeatedAddrs(g.match[m])
    BY <2>1, RegistryFields
  <2>3. MatchOK(m, r) /\ SeatedAddrs(r) = SeatedAddrs(g.match[m])
    BY <2>1, <2>2, BindKeeps
  <2> HIDE DEF m, s, r
  <2>4. Heard(g, a, k, S) \in [match : {[g.match EXCEPT ![m] = r]}, index : {g.index}]
    BY <1>2 DEF RegOK, Registries
  <2> QED
    BY <2>1, <2>3, <2>4, SameSeats
<1> QED
  BY <1>1, <1>2 DEF Heard

LEMMA ReboundKeeps ==
  ASSUME NEW g, RegOK(g), NEW a \in Addrs, g.index[a] = NoMatch,
         NEW k, RebindSeats(g, a, k) # {}
  PROVE  RegOK(Rebound(g, a, k)) /\ Rebound(g, a, k).index[a] \in Matches
<1> DEFINE m == CHOOSE n \in RebindSeats(g, a, k) : TRUE
           old == OldAddr(g.match[m], k)
           r == Moved(g.match[m], old, a)
           f == [g.index EXCEPT ![a] = m, ![old] = NoMatch]
<1>1. m \in Matches /\ \E i \in DOMAIN g.match[m].players : g.match[m].players[i].key = k
  BY DEF RebindSeats
<1>2. Rebound(g, a, k) = [g EXCEPT !.match = [g.match EXCEPT ![m] = r], !.index = f]
  BY DEF Rebound
<1> HIDE DEF m
<1>3. old \in SeatedAddrs(g.match[m])
  BY <1>1 DEF OldAddr, SeatedAddrs
<1> HIDE DEF old
<1>4. MatchOK(m, g.match[m]) /\ \A n \in Matches : a \notin SeatedAddrs(g.match[n])
  BY <1>1, RegistryFields
<1>5. MatchOK(m, r) /\ SeatedAddrs(r) = (SeatedAddrs(g.match[m]) \ {old}) \cup {a}
  BY <1>1, <1>3, <1>4, MovingKeeps
<1>6. /\ old \in Addrs /\ old # a /\ g.index[old] = m
  BY <1>1, <1>3, <1>4, RegistryFields
<1>7. /\ f \in Indexes /\ f[a] = m /\ f[old] = NoMatch
      /\ \A b \in Addrs : b # a /\ b # old => f[b] = g.index[b]
  BY <1>1, <1>6, RegistryFields DEF Indexes
<1> HIDE DEF r, f
<1>8. \A b \in Addrs : f[b] = m <=> b \in SeatedAddrs(r)
  BY <1>1, <1>5, <1>6, <1>7, RegistryFields
<1>9. \A b \in Addrs, n \in Matches : n # m => (f[b] = n <=> g.index[b] = n)
  BY <1>6, <1>7, RegistryFields
<1>10. Rebound(g, a, k) \in [match : {[g.match EXCEPT ![m] = r]}, index : {f}]
  BY <1>2 DEF RegOK, Registries
<1> QED
  BY <1>1, <1>5, <1>7, <1>8, <1>9, <1>10, OneMatch

LEMMA DepartedKeeps ==
  ASSUME NEW g, RegOK(g), NEW a \in Addrs
  PROVE  RegOK(Departed(g, a)) /\ Departed(g, a).index[a] = NoMatch
<1> DEFINE m == g.index[a]
           r == Left(g.match[m], a)
           f == [g.index EXCEPT ![a] = NoMatch]
<1>1. CASE m = NoMatch
  BY <1>1 DEF Departed
<1>2. CASE m # NoMatch
  <2>1. m \in Matches
    BY <1>2, RegistryFields
  <2>2. Departed(g, a) = [g EXCEPT !.match = [g.match EXCEPT ![m] = r], !.index = f]
    BY <1>2 DEF Departed
  <2>3. MatchOK(m, g.match[m]) /\ a \in SeatedAddrs(g.match[m])
    BY <2>1, RegistryFields
  <2>4. g.index[a] = m
    OBVIOUS
  <2> HIDE DEF m
  <2>5. MatchOK(m, r) /\ SeatedAddrs(r) = SeatedAddrs(g.match[m]) \ {a}
    BY <2>1, <2>3, LeavingKeeps
  <2>6. /\ f \in Indexes /\ f[a] = NoMatch /\ \A b \in Addrs : b # a => f[b] = g.index[b]
    BY RegistryFields DEF Indexes
  <2> HIDE DEF r, f
  <2>7. \A b \in Addrs : f[b] = m <=> b \in SeatedAddrs(r)
    BY <1>2, <2>1, <2>5, <2>6, RegistryFields
  <2>8. \A b \in Addrs, n \in Matches : n # m => (f[b] = n <=> g.index[b] = n)
    BY <2>4, <2>6, RegistryFields
  <2>9. Departed(g, a) \in [match : {[g.match EXCEPT ![m] = r]}, index : {f}]
    BY <2>2 DEF RegOK, Registries
  <2> QED
    BY <2>1, <2>5, <2>6, <2>7, <2>8, <2>9, OneMatch
<1> QED
  BY <1>1, <1>2

LEMMA DroppedKeeps ==
  ASSUME NEW g, RegOK(g), NEW ms \in SUBSET Matches
  PROVE  RegOK(Dropped(g, ms))
<1> DEFINE h == Dropped(g, ms)
<1>1. /\ h.match = [m \in Matches |-> IF m \in ms THEN Retired ELSE g.match[m]]
      /\ h.index = [a \in Addrs |-> IF a \in PeersOf(g, ms) THEN NoMatch ELSE g.index[a]]
      /\ h = [match |-> h.match, index |-> h.index]
  BY DEF Dropped
<1> HIDE DEF h
<1>2. \A m \in Matches : MatchOK(m, h.match[m])
  BY <1>1, RegistryFields, EmptyMatches
<1>3. h \in Registries
  <2>1. h.match \in [Matches -> MatchRecords]
    BY <1>1, <1>2 DEF MatchOK
  <2>2. h.index \in [Addrs -> Matches \cup {NoMatch}]
    BY <1>1, RegistryFields DEF Indexes
  <2> QED
    BY <1>1, <2>1, <2>2 DEF Registries
<1>4. ASSUME NEW a \in Addrs, NEW m \in Matches
      PROVE  h.index[a] = m <=> a \in SeatedAddrs(h.match[m])
  <2>1. a \in PeersOf(g, ms) <=> \E n \in ms : g.index[a] = n
    BY RegistryFields DEF PeersOf
  <2>2. CASE m \in ms
    BY <1>1, <2>1, <2>2, RegistryFields, EmptyMatches
  <2>3. CASE m \notin ms
    BY <1>1, <2>1, <2>3, RegistryFields
  <2> QED
    BY <2>2, <2>3
<1> QED
  BY <1>2, <1>3, <1>4 DEF RegOK, h

-----------------------------------------------------------------------------
(* The host: a registry in order, and an address owned only by a connection *)
(* that still delivers packets from it.                                     *)
Connections ==
    [state : ConnStates, addr : Addrs \cup {""}, ticket : Tickets, key : Keys \cup {NoKey}]

ConnsOK ==
    /\ conn \in [Conns -> Connections \cup {NewConn}]
    /\ \A c \in Conns : Delivers(c) => conn[c] \in Connections /\ conn[c].addr \in Addrs
    /\ peerAt \in [Addrs -> Conns \cup {NoConn}]
    /\ \A a \in Addrs, c \in Conns : peerAt[a] = c => Delivers(c) /\ conn[c].addr = a

HostOK == RegOK(reg) /\ ConnsOK

LEMMA NoConnection == NoConn \notin Conns
BY HostAssumption DEF NoConn

(* A step that changes nothing but the owner of the address it heard from.  *)
LEMMA OwnerMoves ==
  ASSUME ConnsOK, NEW c \in Conns, Delivers(c), UNCHANGED conn,
         peerAt' = [peerAt EXCEPT ![conn[c].addr] = c]
  PROVE  ConnsOK'
<1>1. conn[c].addr \in Addrs
  BY DEF ConnsOK
<1>2. peerAt' \in [Addrs -> Conns \cup {NoConn}]
  BY <1>1 DEF ConnsOK
<1>3. \A d \in Conns : Delivers(d)' <=> Delivers(d)
  BY DEF Delivers
<1>4. \A a \in Addrs, d \in Conns : peerAt'[a] = d => Delivers(d) /\ conn[d].addr = a
  BY <1>1 DEF ConnsOK
<1> QED
  BY <1>2, <1>3, <1>4 DEF ConnsOK

(* A connection that had not been used starts delivering.                   *)
LEMMA ConnectionOpens ==
  ASSUME ConnsOK, NEW c \in Conns, NextConn(c), NEW a \in Addrs,
         NEW r \in Connections, r.state = "connected", r.addr = a,
         conn' = [conn EXCEPT ![c] = r], peerAt' = [peerAt EXCEPT ![a] = c]
  PROVE  ConnsOK'
<1>1. conn' \in [Conns -> Connections \cup {NewConn}] /\ peerAt' \in [Addrs -> Conns \cup {NoConn}]
  BY DEF ConnsOK
<1>2. conn'[c] = r /\ \A d \in Conns : d # c => conn'[d] = conn[d]
  BY DEF ConnsOK
<1>3. ~Delivers(c) /\ Delivers(c)' /\ \A d \in Conns : d # c => (Delivers(d)' <=> Delivers(d))
  BY <1>2 DEF Delivers, NextConn
<1>4. \A d \in Conns : Delivers(d)' => conn'[d] \in Connections /\ conn'[d].addr \in Addrs
  BY <1>2, <1>3 DEF ConnsOK
<1>5. peerAt'[a] = c /\ \A b \in Addrs : b # a => peerAt'[b] = peerAt[b]
  BY DEF ConnsOK
<1>6. \A b \in Addrs, d \in Conns : peerAt'[b] = d => Delivers(d)' /\ conn'[d].addr = b
  <2> SUFFICES ASSUME NEW b \in Addrs, NEW d \in Conns, peerAt'[b] = d
               PROVE  Delivers(d)' /\ conn'[d].addr = b
    OBVIOUS
  <2>1. CASE b = a
    BY <1>2, <1>3, <1>5, <2>1
  <2>2. CASE b # a
    <3>1. Delivers(d) /\ conn[d].addr = b
      BY <1>5, <2>2 DEF ConnsOK
    <3> QED
      BY <1>2, <1>3, <3>1
  <2> QED
    BY <2>1, <2>2
<1> QED
  BY <1>1, <1>4, <1>6 DEF ConnsOK

(* Addresses lose their owner.                                              *)
LEMMA OwnersForgotten ==
  ASSUME ConnsOK, NEW A \in SUBSET Addrs,
         peerAt' = [a \in Addrs |-> IF a \in A THEN NoConn ELSE peerAt[a]],
         conn' \in [Conns -> Connections \cup {NewConn}],
         \A c \in Conns : \/ conn'[c] = conn[c]
                          \/ /\ conn'[c] \in Connections /\ conn'[c].addr = conn[c].addr
                             /\ Delivers(c) /\ Delivers(c)'
                          \/ /\ ~Delivers(c)'
                             /\ \A a \in Addrs \ A : peerAt[a] # c
  PROVE  ConnsOK'
<1>1. peerAt' \in [Addrs -> Conns \cup {NoConn}]
  BY DEF ConnsOK
<1>2. \A c \in Conns : conn'[c] = conn[c] => (Delivers(c)' <=> Delivers(c))
  BY DEF Delivers
<1>3. \A c \in Conns : Delivers(c)' => conn'[c] \in Connections /\ conn'[c].addr \in Addrs
  BY <1>2 DEF ConnsOK
<1>4. \A a \in Addrs, c \in Conns : peerAt'[a] = c => Delivers(c)' /\ conn'[c].addr = a
  <2> SUFFICES ASSUME NEW a \in Addrs, NEW c \in Conns, peerAt'[a] = c
               PROVE  Delivers(c)' /\ conn'[c].addr = a
    OBVIOUS
  <2>1. a \notin A /\ peerAt[a] = c
    BY NoConnection
  <2>2. Delivers(c) /\ conn[c].addr = a
    BY <2>1 DEF ConnsOK
  <2> QED
    BY <1>2, <2>1, <2>2
<1> QED
  BY <1>1, <1>3, <1>4 DEF ConnsOK

LEMMA MatchesMove ==
  ASSUME HostOK, NEW m \in Matches, Allocate(m) \/ AbandonUnfilled(m) \/ Start(m) \/ Decide(m) \/ GrowOlder(m)
  PROVE  HostOK'
<1>1. UNCHANGED <<conn, peerAt>>
  BY DEF Allocate, AbandonUnfilled, Start, Decide, GrowOlder
<1>2. ConnsOK'
  BY <1>1 DEF HostOK, ConnsOK, Delivers
<1>3. /\ RegOK(reg) /\ reg \in Registries /\ MatchOK(m, reg.match[m])
  BY DEF HostOK, RegOK
<1>4. ASSUME NEW r, MatchOK(m, r), SeatedAddrs(r) = SeatedAddrs(reg.match[m]),
             reg' = [reg EXCEPT !.match = [reg.match EXCEPT ![m] = r]]
      PROVE  RegOK(reg')
  <2>1. reg' \in [match : {[reg.match EXCEPT ![m] = r]}, index : {reg.index}]
    BY <1>3, <1>4 DEF Registries
  <2> QED
    BY <1>3, <1>4, <2>1, SameSeats
<1>5. CASE Allocate(m)
  <2>1. reg.match[m].phase = "free" /\ reg' = Allocated(reg, m)
    BY <1>5 DEF Allocate
  <2>2. SeatedAddrs(reg.match[m]) = {}
    BY <1>3, <2>1 DEF MatchOK
  <2>3. RegOK(reg')
    BY <1>4, <2>1, <2>2, EmptyMatches DEF Allocated
  <2> QED
    BY <1>2, <2>3 DEF HostOK, RegOK
<1>6. ASSUME NEW r, r \in MatchRecords, r.players = reg.match[m].players, r.slot = reg.match[m].slot,
             r.phase \in {"free", "gone", "live"} => reg.match[m].phase = r.phase
      PROVE  MatchOK(m, r) /\ SeatedAddrs(r) = SeatedAddrs(reg.match[m])
  <2>1. SeatedAddrs(r) = SeatedAddrs(reg.match[m])
    BY <1>6 DEF SeatedAddrs
  <2> QED
    BY <1>3, <1>6, <2>1 DEF MatchOK, IsFull, Unbound
<1>7. CASE Start(m)
  <2> DEFINE r == [CommittedFifo(m, reg.match[m]) EXCEPT !.phase = "live"]
  <2>1. IsFull(m, reg.match[m]) /\ reg' = [reg EXCEPT !.match = [reg.match EXCEPT ![m] = r]]
    BY <1>7 DEF Start
  <2>2. MatchOK(m, r) /\ SeatedAddrs(r) = SeatedAddrs(reg.match[m])
    BY <1>3, <2>1, StartKeeps
  <2> HIDE DEF r
  <2> QED
    BY <1>2, <1>4, <2>1, <2>2 DEF HostOK, RegOK
<1>8. reg.match[m] \in MatchRecords
  BY <1>3 DEF MatchOK
<1>9. CASE AbandonUnfilled(m)
  <2> DEFINE r == [reg.match[m] EXCEPT !.abandoned = TRUE]
  <2>1. reg' = [reg EXCEPT !.match = [reg.match EXCEPT ![m] = r]]
    BY <1>9 DEF AbandonUnfilled
  <2>2. /\ r \in MatchRecords /\ r.players = reg.match[m].players /\ r.slot = reg.match[m].slot
        /\ r.phase = reg.match[m].phase
    BY <1>8 DEF MatchRecords
  <2> HIDE DEF r
  <2> QED
    BY <1>2, <1>4, <1>6, <2>1, <2>2 DEF HostOK, RegOK
<1>10. CASE Decide(m)
  <2> DEFINE r == [reg.match[m] EXCEPT !.phase = "decided"]
  <2>1. reg' = [reg EXCEPT !.match = [reg.match EXCEPT ![m] = r]]
    BY <1>10 DEF Decide
  <2>2. /\ r \in MatchRecords /\ r.players = reg.match[m].players /\ r.slot = reg.match[m].slot
        /\ r.phase = "decided"
    BY <1>8 DEF MatchRecords, Phases
  <2> HIDE DEF r
  <2> QED
    BY <1>2, <1>4, <1>6, <2>1, <2>2 DEF HostOK, RegOK
<1>11. CASE GrowOlder(m)
  <2> DEFINE r == [reg.match[m] EXCEPT !.age = reg.match[m].age + 1]
  <2>1. reg' = [reg EXCEPT !.match = [reg.match EXCEPT ![m] = r]] /\ reg.match[m].age < Ancient
    BY <1>11 DEF GrowOlder
  <2>2. reg.match[m].age + 1 \in Ages
    BY <1>8, <2>1 DEF MatchRecords, Ages, Young, Ancient
  <2>3. /\ r \in MatchRecords /\ r.players = reg.match[m].players /\ r.slot = reg.match[m].slot
        /\ r.phase = reg.match[m].phase
    BY <1>8, <2>2 DEF MatchRecords
  <2> HIDE DEF r
  <2> QED
    BY <1>2, <1>4, <1>6, <2>1, <2>3 DEF HostOK, RegOK
<1> QED
  BY <1>5, <1>7, <1>9, <1>10, <1>11

LEMMA DialKeeps ==
  ASSUME HostOK, NEW c \in Conns, NEW a \in Addrs, NEW t \in Tickets, Dial(c, a, t)
  PROVE  HostOK'
<1> DEFINE r == [state |-> "connected", addr |-> a, ticket |-> t, key |-> NoKey]
<1>1. r \in Connections /\ r.state = "connected" /\ r.addr = a
  BY DEF Connections, ConnStates
<1>2. /\ NextConn(c) /\ conn' = [conn EXCEPT ![c] = r] /\ peerAt' = [peerAt EXCEPT ![a] = c]
      /\ UNCHANGED reg
  BY DEF Dial
<1> HIDE DEF r
<1>3. ConnsOK'
  BY <1>1, <1>2, ConnectionOpens DEF HostOK
<1> QED
  BY <1>2, <1>3 DEF HostOK, RegOK

LEMMA MigrateKeeps ==
  ASSUME HostOK, NEW c \in Conns, NEW d \in Conns, NEW a \in Addrs, Migrate(c, d, a)
  PROVE  HostOK'
<1> DEFINE r == [conn[d] EXCEPT !.addr = a]
<1>1. conn[d] \in Connections /\ conn[d].state = "connected"
  BY DEF Migrate, HostOK, ConnsOK, Delivers
<1>2. r \in Connections /\ r.state = "connected" /\ r.addr = a
  BY <1>1 DEF Connections
<1>3. /\ NextConn(c) /\ conn' = [conn EXCEPT ![c] = r] /\ peerAt' = [peerAt EXCEPT ![a] = c]
      /\ UNCHANGED reg
  BY DEF Migrate
<1> HIDE DEF r
<1>4. ConnsOK'
  BY <1>2, <1>3, ConnectionOpens DEF HostOK
<1> QED
  BY <1>3, <1>4 DEF HostOK, RegOK

LEMMA ExchangeKeeps ==
  ASSUME HostOK, NEW c \in Conns, KeyExchange(c)
  PROVE  HostOK'
<1> DEFINE a == conn[c].addr
           left == IF reg.index[a] = NoMatch THEN reg ELSE Departed(reg, a)
<1>1. /\ Delivers(c) /\ conn[c] \in Connections /\ a \in Addrs /\ RegOK(reg) /\ ConnsOK
  BY DEF KeyExchange, HostOK, ConnsOK, Delivers
<1>2. RegOK(left) /\ left.index[a] = NoMatch
  BY <1>1, DepartedKeeps
<1>3. FreshKey(c) \in Keys
  BY HostAssumption DEF FreshKey
<1>4. /\ \/ reg' \in {reg, left} /\ conn' = conn
         \/ /\ OpenTo(left, a) # {} /\ reg' = Admitted(left, a, FreshKey(c))
            /\ conn' = [conn EXCEPT ![c] = [conn[c] EXCEPT !.key = FreshKey(c)]]
      /\ peerAt' = [peerAt EXCEPT ![a] = c]
  BY DEF KeyExchange
<1> HIDE DEF left
<1>5. RegOK(reg')
  BY <1>1, <1>2, <1>3, <1>4, AdmittedKeeps
<1>6. CASE conn' = conn
  <2>1. ConnsOK'
    BY <1>1, <1>4, <1>6, OwnerMoves
  <2> QED
    BY <1>5, <2>1 DEF HostOK, RegOK
<1>7. CASE conn' = [conn EXCEPT ![c] = [conn[c] EXCEPT !.key = FreshKey(c)]]
  <2> DEFINE r == [conn[c] EXCEPT !.key = FreshKey(c)]
  <2>1. r \in Connections /\ r.addr = conn[c].addr /\ r.state = conn[c].state
    BY <1>1, <1>3 DEF Connections
  <2>2. conn' = [conn EXCEPT ![c] = r]
    BY <1>7
  <2> HIDE DEF r
  <2>3. /\ conn' \in [Conns -> Connections \cup {NewConn}]
        /\ conn'[c] = r /\ \A d \in Conns : d # c => conn'[d] = conn[d]
    BY <1>1, <2>1, <2>2 DEF ConnsOK
  <2>4. \A d \in Conns : /\ Delivers(d)' <=> Delivers(d)
                         /\ conn'[d].addr = conn[d].addr
    BY <2>1, <2>3 DEF Delivers
  <2>5. \A d \in Conns : Delivers(d)' => conn'[d] \in Connections /\ conn'[d].addr \in Addrs
    BY <1>1, <2>1, <2>3, <2>4 DEF ConnsOK
  <2>6. peerAt' \in [Addrs -> Conns \cup {NoConn}]
    BY <1>1, <1>4 DEF ConnsOK
  <2>7. \A b \in Addrs, d \in Conns : peerAt'[b] = d => Delivers(d) /\ conn[d].addr = b
    BY <1>1, <1>4 DEF ConnsOK
  <2>8. ConnsOK'
    BY <2>3, <2>4, <2>5, <2>6, <2>7 DEF ConnsOK
  <2> QED
    BY <1>5, <2>8 DEF HostOK, RegOK
<1> QED
  BY <1>4, <1>6, <1>7

LEMMA FrameKeeps ==
  ASSUME HostOK, NEW c \in Conns, NEW identity \in BOOLEAN, Frame(c, identity)
  PROVE  HostOK'
<1> DEFINE a == conn[c].addr
           k == conn[c].key
           found == reg.index[a] # NoMatch \/ RebindSeats(reg, a, k) # {}
           reg1 == IF reg.index[a] = NoMatch /\ found THEN Rebound(reg, a, k) ELSE reg
           named == IF identity THEN NamedSlots(reg1, c) ELSE {}
<1>1. /\ Delivers(c) /\ a \in Addrs /\ RegOK(reg) /\ ConnsOK
  BY DEF Frame, HostOK, ConnsOK
<1>2. ConnsOK'
  <2>1. UNCHANGED conn /\ peerAt' = [peerAt EXCEPT ![conn[c].addr] = c]
    BY DEF Frame
  <2> QED
    BY <1>1, <2>1, OwnerMoves
<1>3. CASE ~found
  <2>1. reg' = reg
    BY <1>3 DEF Frame
  <2> QED
    BY <1>1, <1>2, <2>1 DEF HostOK
<1>4. CASE found
  <2>1. reg' = Heard(reg1, a, k, named)
    BY <1>4 DEF Frame
  <2>2. RegOK(reg1) /\ reg1.index[a] \in Matches
    BY <1>1, <1>4, ReboundKeeps, RegistryFields
  <2>3. named \subseteq Slots(reg1.index[a])
    BY DEF NamedSlots
  <2> HIDE DEF named, reg1
  <2>4. RegOK(reg')
    BY <1>1, <2>1, <2>2, <2>3, HeardKeeps
  <2> QED
    BY <1>2, <2>4 DEF HostOK, RegOK
<1> QED
  BY <1>3, <1>4

LEMMA DisconnectKeeps ==
  ASSUME HostOK, NEW c \in Conns, Disconnect(c)
  PROVE  HostOK'
<1> DEFINE a == conn[c].addr
           A == IF peerAt[a] = c THEN {a} ELSE {}
<1>1. /\ Delivers(c) /\ conn[c] \in Connections /\ a \in Addrs /\ RegOK(reg) /\ ConnsOK
  BY DEF Disconnect, HostOK, ConnsOK
<1>2. RegOK(reg')
  BY <1>1, DepartedKeeps DEF Disconnect
<1>3. /\ conn' = [conn EXCEPT ![c].state = "closed", ![c].addr = "", ![c].key = NoKey]
      /\ peerAt' = IF peerAt[a] = c THEN [peerAt EXCEPT ![a] = NoConn] ELSE peerAt
  BY DEF Disconnect
<1>4. /\ conn' \in [Conns -> Connections \cup {NewConn}]
      /\ conn'[c].state = "closed" /\ \A d \in Conns : d # c => conn'[d] = conn[d]
  BY <1>1, <1>3 DEF ConnsOK, Connections, ConnStates
<1>5. peerAt' = [b \in Addrs |-> IF b \in A THEN NoConn ELSE peerAt[b]]
  BY <1>1, <1>3 DEF ConnsOK
<1>6. \A b \in Addrs \ A : peerAt[b] # c
  BY <1>1 DEF ConnsOK
<1>7. ~Delivers(c)'
  BY <1>4 DEF Delivers
<1>8. A \subseteq Addrs
  BY <1>1
<1> HIDE DEF A
<1>9. ConnsOK'
  BY <1>1, <1>4, <1>5, <1>6, <1>7, <1>8, OwnersForgotten
<1> QED
  BY <1>2, <1>9 DEF HostOK, RegOK

LEMMA RetireKeeps ==
  ASSUME HostOK, NEW ms \in SUBSET Matches,
         reg' = Dropped(reg, ms), DisconnectLater(PeersOf(reg, ms))
  PROVE  HostOK'
<1> DEFINE A == PeersOf(reg, ms)
<1>1. RegOK(reg) /\ ConnsOK
  BY DEF HostOK
<1>2. RegOK(reg')
  BY <1>1, DroppedKeeps
<1>3. A \subseteq Addrs
  BY <1>1, RegistryFields DEF PeersOf
<1>4. /\ conn' = [c \in Conns |-> IF \E a \in A : peerAt[a] = c
                                  THEN [conn[c] EXCEPT !.state = "leaving"] ELSE conn[c]]
      /\ peerAt' = [a \in Addrs |-> IF a \in A THEN NoConn ELSE peerAt[a]]
  BY DEF DisconnectLater
<1> HIDE DEF A
<1>5. ASSUME NEW c \in Conns
      PROVE  \/ conn'[c] = conn[c]
             \/ /\ conn'[c] \in Connections /\ conn'[c].addr = conn[c].addr
                /\ Delivers(c) /\ conn'[c].state = "leaving"
  <2>1. CASE \E a \in A : peerAt[a] = c
    <3>1. Delivers(c) /\ conn[c] \in Connections
      BY <1>1, <1>3, <2>1 DEF ConnsOK
    <3>2. conn'[c] = [conn[c] EXCEPT !.state = "leaving"]
      BY <1>4, <2>1
    <3>3. conn'[c] \in Connections /\ conn'[c].addr = conn[c].addr /\ conn'[c].state = "leaving"
      BY <3>1, <3>2 DEF Connections, ConnStates
    <3> QED
      BY <3>1, <3>3
  <2>2. CASE ~ \E a \in A : peerAt[a] = c
    BY <1>4, <2>2
  <2> QED
    BY <2>1, <2>2
<1>6. conn' \in [Conns -> Connections \cup {NewConn}]
  <2>1. DOMAIN conn' = Conns /\ conn' = [c \in Conns |-> conn'[c]]
    BY <1>4
  <2>2. \A c \in Conns : conn'[c] \in Connections \cup {NewConn}
    BY <1>1, <1>5 DEF ConnsOK
  <2> QED
    BY <2>1, <2>2
<1>7. \A c \in Conns : conn'[c].state = "leaving" => Delivers(c)'
  BY DEF Delivers
<1>8. ConnsOK'
  BY <1>1, <1>3, <1>4, <1>5, <1>6, <1>7, OwnersForgotten, ZenonT(30)
<1> QED
  BY <1>2, <1>8 DEF HostOK, RegOK

LEMMA HostStep == HostOK /\ [Next]_vars => HostOK'
<1> SUFFICES ASSUME HostOK, [Next]_vars PROVE HostOK'
  OBVIOUS
<1>1. CASE UNCHANGED vars
  BY <1>1 DEF vars, HostOK, RegOK, ConnsOK, Delivers
<1>2. CASE Event
  BY <1>2, DialKeeps, MigrateKeeps, ExchangeKeeps, FrameKeeps, DisconnectKeeps DEF Event
<1>3. CASE Sweep
  <2>1. {m \in Matches : Expired(m, reg.match[m])} \in SUBSET Matches
    OBVIOUS
  <2> QED
    BY <1>3, <2>1, RetireKeeps DEF Sweep
<1>4. ASSUME NEW m \in Matches, Finish(m) PROVE HostOK'
  BY <1>4, RetireKeeps DEF Finish
<1> QED
  BY <1>1, <1>2, <1>3, <1>4, MatchesMove DEF Next

LEMMA InitHost == Init => HostOK
<1> SUFFICES ASSUME Init PROVE HostOK
  OBVIOUS
<1>1. reg.match = [m \in Matches |-> NewMatch] /\ reg.index = [a \in Addrs |-> NoMatch]
  BY DEF Init, NewRegistry
<1>2. \A m \in Matches : /\ MatchOK(m, reg.match[m]) /\ SeatedAddrs(reg.match[m]) = {}
                         /\ reg.match[m] \in MatchRecords
  BY <1>1, EmptyMatches DEF MatchOK
<1>3. reg \in Registries
  <2>1. [m \in Matches |-> NewMatch] \in [Matches -> MatchRecords]
    BY <1>1, <1>2
  <2> QED
    BY <2>1 DEF Init, NewRegistry, Registries
<1>4. \A a \in Addrs, m \in Matches : reg.index[a] = m <=> a \in SeatedAddrs(reg.match[m])
  BY <1>1, <1>2, Capacities
<1>5. ConnsOK
  <2>1. \A c \in Conns : ~Delivers(c)
    BY DEF Init, Delivers, NewConn
  <2>2. conn \in [Conns -> Connections \cup {NewConn}] /\ peerAt \in [Addrs -> Conns \cup {NoConn}]
    BY DEF Init
  <2>3. \A a \in Addrs, c \in Conns : peerAt[a] # c
    BY NoConnection DEF Init
  <2> QED
    BY <2>1, <2>2, <2>3 DEF ConnsOK
<1> QED
  BY <1>2, <1>3, <1>4, <1>5 DEF HostOK, RegOK

-----------------------------------------------------------------------------
(* Whose fighter each peer is.  T gives the ticket of every connection that *)
(* was ever opened.  The seats of a connecting match that hold its own      *)
(* players are bound to their own tickets' fighters; only once all slots    *)
(* are bound may elimination have given an own player another's, and then   *)
(* some seat was a stranger's.                                              *)
Held == [c \in {d \in Conns : conn[d].state # "unused"} |-> conn[c].ticket]

OwnSeats(m, r, T) ==
    /\ \A i \in DOMAIN r.players : T[r.players[i].key[1]] \in ToSet(Allocations[m])
    /\ \A i, j \in DOMAIN r.players : T[r.players[i].key[1]] = T[r.players[j].key[1]] => i = j

KnownSeats(r, T) == \A i \in DOMAIN r.players : r.players[i].key[1] \in DOMAIN T

AllRight(m, r, T) ==
    \A i \in DOMAIN r.players :
        T[r.players[i].key[1]] \in ToSet(Allocations[m]) /\ r.slot[r.players[i].addr] # NoSlot
        => Allocations[m][r.slot[r.players[i].addr]] = T[r.players[i].key[1]]

RightSeats(m, r, T) ==
    /\ KnownSeats(r, T)
    /\ r.phase = "connecting" =>
       AllRight(m, r, T) \/ (IsFull(m, r) /\ Unbound(r) = {} /\ ~OwnSeats(m, r, T))

LEMMA AllocatedTickets ==
  ASSUME NEW m \in Matches
  PROVE  \A t : t \in ToSet(Allocations[m]) <=> \E s \in Slots(m) : Allocations[m][s] = t
<1>1. Allocations[m] \in Seq(Tickets) /\ DOMAIN Allocations[m] = Slots(m)
  BY RegistryAssumption DEF Matches, Slots, Capacity
<1> QED
  BY <1>1 DEF ToSet

(* Elimination leaves an own player the slot of another ticket only in a    *)
(* match with a stranger: with all the others right, the free slot is that  *)
(* of the one ticket nobody else holds.                                     *)
LEMMA EliminationRights ==
  ASSUME NEW m \in Matches, NEW r, MatchOK(m, r), NEW T,
         KnownSeats(r, T), AllRight(m, r, T), NEW q, q = BoundByElimination(m, r)
  PROVE  RightSeats(m, q, T)
<1> DEFINE free == Slots(m) \ TakenSlots(r)
           f == [a \in Addrs |-> IF a \in Unbound(r) THEN CHOOSE s \in free : TRUE ELSE r.slot[a]]
<1>1. CASE q = r
  BY <1>1 DEF RightSeats
<1>2. ASSUME NEW a \in Addrs, NEW s \in Slots(m), IsFull(m, r), Unbound(r) = {a}, free = {s},
             q = [r EXCEPT !.slot = f]
      PROVE  RightSeats(m, q, T)
  <2>1. (CHOOSE t \in free : TRUE) = s
    BY <1>2
  <2>2. f = [b \in Addrs |-> IF b = a THEN s ELSE r.slot[b]]
    BY <1>2, <2>1
  <2>3. s # NoSlot /\ s \notin TakenSlots(r) /\ \A t \in Slots(m) : t # s => t \in TakenSlots(r)
    BY <1>2, Capacities
  <2> HIDE DEF f, free
  <2>4. q.players = r.players /\ q.phase = r.phase /\ q.slot = f
    BY <1>2 DEF MatchOK, MatchRecords
  <2>5. SeatedAddrs(q) = SeatedAddrs(r) /\ SeatedAddrs(r) \subseteq Addrs
    BY <2>4, Seats DEF SeatedAddrs
  <2>6. IsFull(m, q) /\ Unbound(q) = {}
    BY <1>2, <2>2, <2>3, <2>4, <2>5 DEF IsFull, Unbound
  <2>7. a \in SeatedAddrs(r) /\ r.slot[a] = NoSlot
    BY <1>2 DEF Unbound
  <2>8. \A i \in DOMAIN r.players : r.players[i].addr \in SeatedAddrs(r) /\ r.players[i].addr \in Addrs
    BY <2>5 DEF SeatedAddrs
  <2>9. ASSUME OwnSeats(m, r, T), NEW i \in DOMAIN r.players
        PROVE  Allocations[m][f[r.players[i].addr]] = T[r.players[i].key[1]]
    <3> DEFINE t == T[r.players[i].key[1]]
    <3>1. t \in ToSet(Allocations[m])
      BY <2>9 DEF OwnSeats
    <3>2. CASE r.players[i].addr # a
      <4>1. f[r.players[i].addr] = r.slot[r.players[i].addr] /\ r.slot[r.players[i].addr] # NoSlot
        BY <1>2, <2>2, <2>8, <3>2 DEF Unbound
      <4> QED
        BY <3>1, <4>1 DEF AllRight
    <3>3. CASE r.players[i].addr = a
      <4>1. PICK x \in Slots(m) : Allocations[m][x] = t
        BY <3>1, AllocatedTickets
      <4>2. ASSUME x # s PROVE FALSE
        <5>1. PICK b \in SeatedAddrs(r) : r.slot[b] = x /\ x # NoSlot
          BY <2>3, <4>2 DEF TakenSlots
        <5>2. PICK j \in DOMAIN r.players : r.players[j].addr = b
          BY DEF SeatedAddrs
        <5>3. T[r.players[j].key[1]] \in ToSet(Allocations[m])
          BY <2>9 DEF OwnSeats
        <5>4. Allocations[m][x] = T[r.players[j].key[1]]
          BY <5>1, <5>2, <5>3 DEF AllRight
        <5>5. i = j
          BY <2>9, <4>1, <5>4 DEF OwnSeats
        <5> QED
          BY <2>7, <3>3, <5>1, <5>2, <5>5
      <4>3. f[r.players[i].addr] = s
        BY <2>2, <3>3
      <4> QED
        BY <4>1, <4>2, <4>3
    <3> QED
      BY <3>2, <3>3
  <2>10. OwnSeats(m, q, T) => AllRight(m, q, T)
    <3>1. OwnSeats(m, q, T) => OwnSeats(m, r, T)
      BY <2>4 DEF OwnSeats
    <3> QED
      BY <2>4, <2>9, <3>1 DEF AllRight
  <2>11. KnownSeats(q, T)
    BY <2>4 DEF KnownSeats
  <2> QED
    BY <2>6, <2>10, <2>11 DEF RightSeats
<1> QED
  BY <1>1, <1>2 DEF BoundByElimination

(* Binding an own player to its own ticket's slot keeps the seats right.    *)
LEMMA BindRights ==
  ASSUME NEW m \in Matches, NEW r, MatchOK(m, r), r.phase = "connecting",
         NEW T, RightSeats(m, r, T), NEW a \in SeatedAddrs(r), NEW s \in Slots(m),
         \A i \in DOMAIN r.players :
            r.players[i].addr = a /\ T[r.players[i].key[1]] \in ToSet(Allocations[m])
            => Allocations[m][s] = T[r.players[i].key[1]],
         NEW q, q = Bound(m, r, a, s)
  PROVE  RightSeats(m, q, T)
<1>1. CASE q = r
  BY <1>1
<1>2. ASSUME r.slot[a] = NoSlot, s \notin TakenSlots(r),
             NEW f, f = [r.slot EXCEPT ![a] = s], NEW p, p = [r EXCEPT !.slot = f],
             q = BoundByElimination(m, p)
      PROVE  RightSeats(m, q, T)
  <2>0. MatchOK(m, p) /\ p.players = r.players
    BY <1>2, SlotGiven
  <2>1. p.slot[a] = s /\ \A b \in Addrs : b # a => p.slot[b] = r.slot[b]
    <3>1. a \in Addrs /\ r.slot \in [Addrs -> NoSlot..2] /\ p.slot = f
      BY <1>2, Seats DEF MatchOK, MatchRecords
    <3> QED
      BY <1>2, <3>1
  <2>2. AllRight(m, r, T) /\ KnownSeats(r, T)
    BY <1>2 DEF RightSeats, Unbound
  <2>3. \A i \in DOMAIN r.players : r.players[i].addr \in Addrs
    BY Seats DEF SeatedAddrs
  <2>4. AllRight(m, p, T)
    BY <2>0, <2>1, <2>2, <2>3 DEF AllRight
  <2>5. KnownSeats(p, T)
    BY <2>0, <2>2 DEF KnownSeats
  <2>6. MatchOK(m, p) /\ q = BoundByElimination(m, p)
    BY <1>2, <2>0
  <2> QED
    BY <2>4, <2>5, <2>6, EliminationRights
<1> QED
  BY <1>1, <1>2 DEF Bound

(* A phase past "connecting" asks only that the seats be known.             *)
LEMMA BindKnown ==
  ASSUME NEW m \in Matches, NEW r, MatchOK(m, r), r.phase # "connecting",
         NEW T, RightSeats(m, r, T), NEW a \in SeatedAddrs(r), NEW s \in Slots(m),
         NEW q, q = Bound(m, r, a, s)
  PROVE  RightSeats(m, q, T)
<1>1. q.players = r.players /\ q.phase = r.phase
  BY BindKeeps
<1> QED
  BY <1>1 DEF RightSeats, KnownSeats

(* Whoever is admitted is right if its IP is trusted rightly.               *)
LEMMA SeatingRights ==
  ASSUME NEW m \in Matches, NEW r, MatchOK(m, r), AcceptsNewConnection(m, r),
         NEW T, RightSeats(m, r, T),
         NEW a \in Addrs, a \notin SeatedAddrs(r), NEW k \in Keys,
         k[1] \in DOMAIN T, a \in AddrsOf[ClientOf[T[k[1]]]],
         NEW q, q = Seated(m, r, a, k)
  PROVE  RightSeats(m, q, T)
<1> DEFINE p == Joined(m, r, a, k)
           n == Len(r.players) + 1
<1>1. /\ MatchOK(m, p) /\ SeatedAddrs(p) = SeatedAddrs(r) \cup {a}
  BY Joining
<1>2. /\ p.slot = r.slot /\ p.phase = r.phase /\ DOMAIN p.players = 1..n
      /\ \A i \in 1..Len(r.players) : p.players[i] = r.players[i]
      /\ p.players[n].addr = a /\ p.players[n].key = k
  BY JoinedSeats
<1>3. \/ \E s \in Slots(m) : q = Bound(m, p, a, s) /\ (ExpectedSlots(m, IpOf[a]) = {s} \/ Capacity(m) = 1)
      \/ q = BoundByElimination(m, p)
  BY SeatingBinds
<1>4. r.phase = "connecting" /\ AllRight(m, r, T) /\ KnownSeats(r, T) /\ r.slot[a] = NoSlot
  BY DEF AcceptsNewConnection, RightSeats, MatchOK
<1> HIDE DEF p
<1>5. DOMAIN r.players = 1..Len(r.players) /\ Len(r.players) \in Nat
  BY Seats
<1>6. \A i \in DOMAIN p.players : i = n \/ (i \in DOMAIN r.players /\ p.players[i] = r.players[i])
  BY <1>2, <1>5
<1> HIDE DEF n
<1>7. KnownSeats(p, T)
  BY <1>2, <1>4, <1>6 DEF KnownSeats
<1>8. AllRight(m, p, T)
  BY <1>2, <1>4, <1>6 DEF AllRight
<1>9. RightSeats(m, p, T)
  BY <1>7, <1>8 DEF RightSeats
<1>10. CASE q = BoundByElimination(m, p)
  BY <1>1, <1>7, <1>8, <1>10, EliminationRights
<1>11. ASSUME NEW s \in Slots(m), q = Bound(m, p, a, s), ExpectedSlots(m, IpOf[a]) = {s} \/ Capacity(m) = 1
       PROVE  RightSeats(m, q, T)
  <2>1. a \in SeatedAddrs(p) /\ p.phase = "connecting"
    BY <1>1, <1>2, <1>4
  <2>2. \A i \in DOMAIN p.players : p.players[i].addr = a => p.players[i].key = k
    <3>1. \A i \in DOMAIN r.players : r.players[i].addr # a
      BY DEF SeatedAddrs
    <3> QED
      BY <1>2, <1>6, <3>1
  <2>3. T[k[1]] \in ToSet(Allocations[m]) => Allocations[m][s] = T[k[1]]
    <3> SUFFICES ASSUME T[k[1]] \in ToSet(Allocations[m]) PROVE Allocations[m][s] = T[k[1]]
      OBVIOUS
    <3>1. PICK x \in Slots(m) : Allocations[m][x] = T[k[1]]
      BY AllocatedTickets
    <3>2. CASE ExpectedSlots(m, IpOf[a]) = {s}
      BY <3>1, <3>2, TrustedIpAssumption
    <3>3. CASE Capacity(m) = 1
      BY <3>1, <3>3, Capacities
    <3> QED
      BY <1>11, <3>2, <3>3
  <2>4. \A i \in DOMAIN p.players :
            p.players[i].addr = a /\ T[p.players[i].key[1]] \in ToSet(Allocations[m])
            => Allocations[m][s] = T[p.players[i].key[1]]
    BY <2>2, <2>3
  <2> QED
    BY <1>1, <1>9, <1>11, <2>1, <2>4, BindRights
<1> QED
  BY <1>3, <1>10, <1>11

(* A moving peer keeps its key and takes its slot along.                    *)
LEMMA MovingRights ==
  ASSUME NEW m \in Matches, NEW r, MatchOK(m, r), NEW T, RightSeats(m, r, T),
         NEW old \in SeatedAddrs(r), NEW a \in Addrs, a \notin SeatedAddrs(r),
         NEW q, q = Moved(r, old, a)
  PROVE  RightSeats(m, q, T)
<1> DEFINE ps == [i \in DOMAIN r.players |-> IF r.players[i].addr = old
                                             THEN [r.players[i] EXCEPT !.addr = a] ELSE r.players[i]]
           f == [b \in Addrs |-> IF b = a THEN r.slot[old] ELSE IF b = old THEN NoSlot ELSE r.slot[b]]
<1>1. /\ r \in MatchRecords /\ r.players \in Seq(Seat) /\ DOMAIN r.players = 1..Len(r.players)
      /\ Len(r.players) \in Nat /\ SeatedAddrs(r) \subseteq Addrs
  BY Seats DEF MatchOK
<1>2. q.players = ps /\ q.slot = f /\ q.phase = r.phase
  <2>1. q = [r EXCEPT !.players = ps, !.slot = f]
    BY DEF Moved
  <2> HIDE DEF ps, f
  <2> QED
    BY <1>1, <2>1 DEF MatchRecords
<1>3. \A i \in DOMAIN r.players : r.players[i] \in Seat /\ r.players[i].addr \in SeatedAddrs(r)
  BY <1>1 DEF SeatedAddrs
<1>4. DOMAIN q.players = DOMAIN r.players
  BY <1>2
<1>5. ASSUME NEW i \in DOMAIN r.players
      PROVE  /\ q.players[i].key = r.players[i].key
             /\ q.slot[q.players[i].addr] = r.slot[r.players[i].addr]
  <2>1. r.players[i] \in Seat /\ r.players[i].addr \in Addrs /\ r.players[i].addr # a
    BY <1>1, <1>3
  <2>2. CASE r.players[i].addr = old
    <3>1. ps[i] = [r.players[i] EXCEPT !.addr = a]
      BY <2>2
    <3>2. ps[i].key = r.players[i].key /\ ps[i].addr = a
      BY <2>1, <3>1 DEF Seat
    <3>3. f[a] = r.slot[old]
      OBVIOUS
    <3> QED
      BY <1>2, <2>2, <3>2, <3>3
  <2>3. CASE r.players[i].addr # old
    <3>1. ps[i] = r.players[i] /\ f[r.players[i].addr] = r.slot[r.players[i].addr]
      BY <2>1, <2>3
    <3> QED
      BY <1>2, <3>1
  <2> QED
    BY <2>2, <2>3
<1> HIDE DEF ps, f
<1>6. KnownSeats(q, T) /\ (AllRight(m, r, T) => AllRight(m, q, T)) /\ (OwnSeats(m, q, T) => OwnSeats(m, r, T))
  <2>1. KnownSeats(q, T)
    BY <1>4, <1>5 DEF RightSeats, KnownSeats
  <2>2. AllRight(m, r, T) => AllRight(m, q, T)
    BY <1>4, <1>5 DEF AllRight
  <2>3. OwnSeats(m, q, T) => OwnSeats(m, r, T)
    BY <1>4, <1>5 DEF OwnSeats
  <2> QED
    BY <2>1, <2>2, <2>3
<1>7. Unbound(r) = {} => Unbound(q) = {}
  <2>1. \A b \in SeatedAddrs(q) : \E i \in DOMAIN r.players : b = q.players[i].addr
    BY <1>4 DEF SeatedAddrs
  <2> QED
    BY <1>3, <1>5, <2>1 DEF Unbound
<1>8. IsFull(m, r) => IsFull(m, q)
  <2>1. DOMAIN ps = DOMAIN r.players
    BY DEF ps
  <2>2. Len(ps) = Len(r.players)
    BY <1>1, <2>1
  <2> QED
    BY <1>2, <2>2 DEF IsFull
<1> QED
  BY <1>2, <1>6, <1>7, <1>8 DEF RightSeats

(* If a departure does not decide the match, the peer was bound to nothing: *)
(* then elimination has not happened yet.                                   *)
LEMMA LeavingRights ==
  ASSUME NEW m \in Matches, NEW r, MatchOK(m, r), NEW T, RightSeats(m, r, T),
         NEW a \in SeatedAddrs(r), NEW q, q = Left(r, a)
  PROVE  RightSeats(m, q, T)
<1> DEFINE n == SeatNo(r, a)
           ps == RemoveAt(r.players, n)
           f == [r.slot EXCEPT ![a] = NoSlot]
<1>1. /\ r \in MatchRecords /\ r.players \in Seq(Seat) /\ Len(r.players) \in 0..2
      /\ DOMAIN r.players = 1..Len(r.players) /\ a \in Addrs /\ SeatedAddrs(r) \subseteq Addrs
      /\ r.slot \in [Addrs -> NoSlot..2]
  BY Seats DEF MatchOK
<1>2. /\ n \in 1..Len(r.players) /\ \A i \in 1..Len(r.players) : i # n => r.players[i].addr # a
  BY SeatNumbers
<1>3. /\ ps \in Seq(Seat) /\ Len(ps) = Len(r.players) - 1
      /\ \A j \in 1..(Len(r.players) - 1) : ps[j] = IF j < n THEN r.players[j] ELSE r.players[j + 1]
  BY <1>1, <1>2, Removal
<1>4. \A b \in Addrs : b # a => f[b] = r.slot[b]
  BY <1>1
<1> HIDE DEF n, f, ps
<1>5. ASSUME NEW j \in DOMAIN ps
      PROVE  \E i \in DOMAIN r.players : ps[j] = r.players[i] /\ f[ps[j].addr] = r.slot[r.players[i].addr]
  <2>1. j \in 1..(Len(r.players) - 1)
    BY <1>1, <1>3
  <2>2. PICK i \in 1..Len(r.players) : i # n /\ ps[j] = r.players[i]
    <3>1. CASE j < n
      BY <1>1, <1>3, <2>1, <3>1
    <3>2. CASE ~ (j < n)
      <4>1. j + 1 \in 1..Len(r.players) /\ j + 1 # n /\ ps[j] = r.players[j + 1]
        BY <1>1, <1>2, <1>3, <2>1, <3>2
      <4> QED
        BY <4>1
    <3> QED
      BY <3>1, <3>2
  <2>3. r.players[i].addr # a /\ r.players[i].addr \in Addrs
    BY <1>1, <1>2, <2>2 DEF SeatedAddrs
  <2> QED
    BY <1>1, <1>4, <2>2, <2>3
<1>6. KnownSeats(r, T)
  BY DEF RightSeats
<1>7. CASE SeatedAddrs(r) = {a}
  <2>1. q.players = << >> /\ q.phase = "gone"
    BY <1>7 DEF Left, Retired, NewMatch
  <2> QED
    BY <2>1 DEF RightSeats, KnownSeats
<1>8. CASE SeatedAddrs(r) # {a}
  <2>1. Without(r, a) = [r EXCEPT !.players = ps, !.slot = f]
    BY DEF Without, ps, n, f
  <2>2. q.players = ps /\ q.slot = f
    BY <1>1, <1>8, <2>1 DEF Left, MatchRecords
  <2>3. KnownSeats(q, T)
    BY <1>5, <1>6, <2>2 DEF KnownSeats
  <2>4. ASSUME q.phase = "connecting" PROVE AllRight(m, q, T)
    <3>1. r.slot[a] = NoSlot /\ r.phase = "connecting"
      BY <1>1, <1>8, <2>1, <2>4 DEF Left, MatchRecords
    <3>2. AllRight(m, r, T)
      BY <3>1 DEF RightSeats, Unbound
    <3> QED
      BY <1>5, <2>2, <3>2 DEF AllRight
  <2> QED
    BY <2>3, <2>4 DEF RightSeats
<1> QED
  BY <1>7, <1>8

(* More connections become known; those known keep their tickets.           *)
Extends(T, U) == \A c \in DOMAIN T : c \in DOMAIN U /\ U[c] = T[c]

LEMMA MoreTickets ==
  ASSUME NEW m, NEW r, NEW T, NEW U, Extends(T, U), RightSeats(m, r, T)
  PROVE  RightSeats(m, r, U)
<1>1. KnownSeats(r, T) /\ KnownSeats(r, U)
  BY DEF RightSeats, KnownSeats, Extends
<1>2. \A i \in DOMAIN r.players : U[r.players[i].key[1]] = T[r.players[i].key[1]]
  BY <1>1 DEF KnownSeats, Extends
<1>3. AllRight(m, r, T) => AllRight(m, r, U)
  BY <1>2 DEF AllRight
<1>4. OwnSeats(m, r, U) => OwnSeats(m, r, T)
  BY <1>2 DEF OwnSeats
<1> QED
  BY <1>1, <1>3, <1>4 DEF RightSeats

RightReg(g, T) == \A m \in Matches : RightSeats(m, g.match[m], T)

LEMMA EmptyRights ==
  ASSUME NEW m, NEW r, r.players = << >>, NEW T
  PROVE  RightSeats(m, r, T)
BY DEF RightSeats, KnownSeats, AllRight

LEMMA OneRight ==
  ASSUME NEW g, RegOK(g), NEW T, RightReg(g, T), NEW m \in Matches,
         NEW r, RightSeats(m, r, T), NEW h, h.match = [g.match EXCEPT ![m] = r]
  PROVE  RightReg(h, T)
<1>1. g.match \in [Matches -> MatchRecords]
  BY RegistryFields
<1>2. h.match[m] = r /\ \A n \in Matches : n # m => h.match[n] = g.match[n]
  BY <1>1
<1> QED
  BY <1>2 DEF RightReg

LEMMA AdmittedRights ==
  ASSUME NEW g, RegOK(g), NEW T, RightReg(g, T), NEW a \in Addrs, g.index[a] = NoMatch,
         OpenTo(g, a) # {}, NEW k \in Keys,
         k[1] \in DOMAIN T, a \in AddrsOf[ClientOf[T[k[1]]]]
  PROVE  RightReg(Admitted(g, a, k), T)
<1> DEFINE m == SelectedFor(g, a)
           r == Seated(m, g.match[m], a, k)
           h == Admitted(g, a, k)
<1>1. m \in Matches /\ AcceptsNewConnection(m, g.match[m])
  BY Selection DEF OpenTo, Open
<1>2. h = [g EXCEPT !.match = [g.match EXCEPT ![m] = r], !.index = [g.index EXCEPT ![a] = m]]
  BY DEF Admitted
<1> HIDE DEF m
<1>3. MatchOK(m, g.match[m]) /\ a \notin SeatedAddrs(g.match[m])
  BY <1>1, RegistryFields
<1>4. RightSeats(m, r, T)
  BY <1>1, <1>3, SeatingRights DEF RightReg
<1> HIDE DEF r, h
<1>5. h.match = [g.match EXCEPT ![m] = r]
  BY <1>2 DEF RegOK, Registries
<1>6. RightReg(h, T)
  BY <1>1, <1>4, <1>5, OneRight
<1> QED
  BY <1>6 DEF h

LEMMA HeardRights ==
  ASSUME NEW g, RegOK(g), NEW T, RightReg(g, T), NEW a \in Addrs, g.index[a] \in Matches,
         NEW k, NEW S \in SUBSET Slots(g.index[a]),
         \A s \in S : Allocations[g.index[a]][s] = T[k[1]]
  PROVE  RightReg(Heard(g, a, k, S), T)
<1> DEFINE m == g.index[a]
           s == CHOOSE t \in S : TRUE
           r == Bound(m, g.match[m], a, s)
           h == Heard(g, a, k, S)
<1>1. CASE h = g
  BY <1>1
<1>2. ASSUME S # {}, NEW i \in DOMAIN g.match[m].players, g.match[m].players[i] = [addr |-> a, key |-> k],
             h = [g EXCEPT !.match = [g.match EXCEPT ![m] = r]]
      PROVE  RightReg(h, T)
  <2>1. m \in Matches /\ s \in Slots(m) /\ Allocations[m][s] = T[k[1]]
    BY <1>2
  <2>2. MatchOK(m, g.match[m]) /\ a \in SeatedAddrs(g.match[m])
    BY <2>1, RegistryFields
  <2>3. RightSeats(m, g.match[m], T)
    BY <2>1 DEF RightReg
  <2>4. \A j \in DOMAIN g.match[m].players : g.match[m].players[j].addr = a => g.match[m].players[j].key = k
    <3>1. g.match[m].players[i].addr = a /\ g.match[m].players[i].key = k
      BY <1>2
    <3> QED
      BY <1>2, <2>2, <3>1 DEF MatchOK
  <2> HIDE DEF m, s, h
  <2>5. \A j \in DOMAIN g.match[m].players :
            g.match[m].players[j].addr = a /\ T[g.match[m].players[j].key[1]] \in ToSet(Allocations[m])
            => Allocations[m][s] = T[g.match[m].players[j].key[1]]
    BY <2>1, <2>4
  <2>6. RightSeats(m, r, T)
    BY <2>1, <2>2, <2>3, <2>5, BindRights, BindKnown
  <2> HIDE DEF r
  <2>7. h.match = [g.match EXCEPT ![m] = r]
    BY <1>2 DEF RegOK, Registries
  <2> QED
    BY <2>1, <2>6, <2>7, OneRight
<1>3. RightReg(h, T)
  BY <1>1, <1>2 DEF Heard
<1> QED
  BY <1>3

LEMMA ReboundRights ==
  ASSUME NEW g, RegOK(g), NEW T, RightReg(g, T), NEW a \in Addrs, g.index[a] = NoMatch,
         NEW k, RebindSeats(g, a, k) # {}
  PROVE  RightReg(Rebound(g, a, k), T)
<1> DEFINE m == CHOOSE n \in RebindSeats(g, a, k) : TRUE
           old == OldAddr(g.match[m], k)
           r == Moved(g.match[m], old, a)
           h == Rebound(g, a, k)
<1>1. m \in Matches /\ \E i \in DOMAIN g.match[m].players : g.match[m].players[i].key = k
  BY DEF RebindSeats
<1>2. h = [g EXCEPT !.match = [g.match EXCEPT ![m] = r], !.index = [g.index EXCEPT ![a] = m, ![old] = NoMatch]]
  BY DEF Rebound
<1> HIDE DEF m, h
<1>3. old \in SeatedAddrs(g.match[m])
  BY <1>1 DEF OldAddr, SeatedAddrs
<1> HIDE DEF old
<1>4. MatchOK(m, g.match[m]) /\ a \notin SeatedAddrs(g.match[m])
  BY <1>1, RegistryFields
<1>5. RightSeats(m, r, T)
  BY <1>1, <1>3, <1>4, MovingRights DEF RightReg
<1> HIDE DEF r
<1>6. h.match = [g.match EXCEPT ![m] = r]
  BY <1>2 DEF RegOK, Registries
<1>7. RightReg(h, T)
  BY <1>1, <1>5, <1>6, OneRight
<1> QED
  BY <1>7 DEF h

LEMMA DepartedRights ==
  ASSUME NEW g, RegOK(g), NEW T, RightReg(g, T), NEW a \in Addrs
  PROVE  RightReg(Departed(g, a), T)
<1> DEFINE m == g.index[a]
           r == Left(g.match[m], a)
           h == Departed(g, a)
<1>1. CASE m = NoMatch
  BY <1>1 DEF Departed
<1>2. CASE m # NoMatch
  <2>1. m \in Matches
    BY <1>2, RegistryFields
  <2>2. h = [g EXCEPT !.match = [g.match EXCEPT ![m] = r], !.index = [g.index EXCEPT ![a] = NoMatch]]
    BY <1>2 DEF Departed
  <2>3. MatchOK(m, g.match[m]) /\ a \in SeatedAddrs(g.match[m])
    BY <2>1, RegistryFields
  <2> HIDE DEF m, h
  <2>4. RightSeats(m, r, T)
    BY <2>1, <2>3, LeavingRights DEF RightReg
  <2> HIDE DEF r
  <2>5. h.match = [g.match EXCEPT ![m] = r]
    BY <2>2 DEF RegOK, Registries
  <2>6. RightReg(h, T)
    BY <2>1, <2>4, <2>5, OneRight
  <2> QED
    BY <2>6 DEF h
<1> QED
  BY <1>1, <1>2

LEMMA DroppedRights ==
  ASSUME NEW g, NEW T, RightReg(g, T), NEW ms \in SUBSET Matches
  PROVE  RightReg(Dropped(g, ms), T)
<1>1. Retired.players = << >>
  BY DEF Retired, NewMatch
<1>2. \A m \in Matches : RightSeats(m, Retired, T)
  BY <1>1, EmptyRights
<1> QED
  BY <1>2 DEF Dropped, RightReg

(* A connection's key was agreed for its own ticket, also when it was       *)
(* agreed by an earlier connection of a client that moved; a connection     *)
(* sends from an address of its ticket's client.                            *)
TicketsOK ==
    /\ \A c \in Conns : conn[c].key # NoKey =>
          conn[c].key[1] \in DOMAIN Held /\ Held[conn[c].key[1]] = conn[c].ticket
    /\ \A c \in Conns : Delivers(c) => conn[c].addr \in AddrsOf[ClientOf[conn[c].ticket]]

RightInv == HostOK /\ RightReg(reg, Held) /\ TicketsOK

LEMMA HeldTickets ==
  /\ \A c \in Conns : c \in DOMAIN Held <=> conn[c].state # "unused"
  /\ \A c \in DOMAIN Held : c \in Conns /\ Held[c] = conn[c].ticket
BY DEF Held

(* Whatever happens to a connection, it keeps its ticket.                   *)
LEMMA HeldGrows ==
  ASSUME \A c \in Conns : conn[c].state # "unused" =>
             conn'[c].state # "unused" /\ conn'[c].ticket = conn[c].ticket
  PROVE  Extends(Held, Held')
BY DEF Held, Extends

LEMMA RightsMove ==
  ASSUME NEW T, NEW U, Extends(T, U), NEW g, RightReg(g, T)
  PROVE  RightReg(g, U)
BY MoreTickets DEF RightReg

(* Nobody's connection changes but in its state, or in losing its key.      *)
LEMMA TicketsKept ==
  ASSUME TicketsOK,
         \A c \in Conns : /\ conn'[c].ticket = conn[c].ticket
                          /\ conn[c].state # "unused" => conn'[c].state # "unused"
                          /\ conn'[c].key \in {conn[c].key, NoKey}
                          /\ Delivers(c)' => Delivers(c) /\ conn'[c].addr = conn[c].addr
  PROVE  TicketsOK' /\ Extends(Held, Held')
<1>1. Extends(Held, Held')
  BY HeldGrows
<1>2. ASSUME NEW c \in Conns, conn'[c].key # NoKey
      PROVE  conn'[c].key[1] \in DOMAIN Held' /\ Held'[conn'[c].key[1]] = conn'[c].ticket
  <2>1. conn'[c].key = conn[c].key /\ conn[c].key # NoKey
    BY <1>2
  <2>2. conn[c].key[1] \in DOMAIN Held /\ Held[conn[c].key[1]] = conn[c].ticket
    BY <2>1 DEF TicketsOK
  <2> QED
    BY <1>1, <2>1, <2>2 DEF Extends
<1>3. \A c \in Conns : Delivers(c)' => conn'[c].addr \in AddrsOf[ClientOf[conn'[c].ticket]]
  BY DEF TicketsOK
<1> QED
  BY <1>1, <1>2, <1>3 DEF TicketsOK

(* A connection opens: its key, if it has one, is one already agreed for    *)
(* its ticket.                                                              *)
LEMMA TicketsOpen ==
  ASSUME TicketsOK, ConnsOK, NEW c \in Conns, conn[c].state = "unused", NEW r,
         r.state = "connected", r.addr \in AddrsOf[ClientOf[r.ticket]],
         r.key # NoKey => r.key[1] \in DOMAIN Held /\ Held[r.key[1]] = r.ticket,
         conn' = [conn EXCEPT ![c] = r]
  PROVE  TicketsOK' /\ Extends(Held, Held')
<1>1. conn'[c] = r /\ \A d \in Conns : d # c => conn'[d] = conn[d]
  BY DEF ConnsOK
<1>2. Extends(Held, Held')
  BY <1>1, HeldGrows
<1>3. ASSUME NEW d \in Conns, conn'[d].key # NoKey
      PROVE  conn'[d].key[1] \in DOMAIN Held' /\ Held'[conn'[d].key[1]] = conn'[d].ticket
  <2>1. conn'[d].key[1] \in DOMAIN Held /\ Held[conn'[d].key[1]] = conn'[d].ticket
    BY <1>1, <1>3 DEF TicketsOK
  <2> QED
    BY <1>2, <2>1 DEF Extends
<1>4. \A d \in Conns : Delivers(d)' => conn'[d].addr \in AddrsOf[ClientOf[conn'[d].ticket]]
  BY <1>1 DEF TicketsOK, Delivers
<1> QED
  BY <1>2, <1>3, <1>4 DEF TicketsOK

(* Neither its age nor its being abandoned matters to who fights as whom.   *)
LEMMA SameBindings ==
  ASSUME NEW m, NEW p, NEW T, RightSeats(m, p, T),
         NEW r, r.players = p.players, r.slot = p.slot, r.phase = p.phase \/ r.phase # "connecting"
  PROVE  RightSeats(m, r, T)
<1>1. KnownSeats(r, T)
  BY DEF RightSeats, KnownSeats
<1>2. AllRight(m, p, T) => AllRight(m, r, T)
  BY DEF AllRight
<1>3. OwnSeats(m, r, T) => OwnSeats(m, p, T)
  BY DEF OwnSeats
<1>4. SeatedAddrs(r) = SeatedAddrs(p)
  BY DEF SeatedAddrs
<1>5. Unbound(r) = Unbound(p) /\ (IsFull(m, r) <=> IsFull(m, p))
  BY <1>4 DEF Unbound, IsFull
<1> QED
  BY <1>1, <1>2, <1>3, <1>5 DEF RightSeats

LEMMA MatchesMoveRights ==
  ASSUME RightInv, NEW m \in Matches, Allocate(m) \/ AbandonUnfilled(m) \/ Start(m) \/ Decide(m) \/ GrowOlder(m)
  PROVE  RightReg(reg', Held') /\ TicketsOK'
<1>1. UNCHANGED conn
  BY DEF Allocate, AbandonUnfilled, Start, Decide, GrowOlder
<1>2. Held' = Held /\ TicketsOK'
  BY <1>1 DEF RightInv, TicketsOK, Held, Delivers
<1>3. /\ RegOK(reg) /\ reg \in Registries /\ RightReg(reg, Held)
      /\ RightSeats(m, reg.match[m], Held) /\ reg.match[m] \in MatchRecords
  BY DEF RightInv, HostOK, RegOK, RightReg, MatchOK
<1>4. ASSUME NEW r, RightSeats(m, r, Held), reg' = [reg EXCEPT !.match = [reg.match EXCEPT ![m] = r]]
      PROVE  RightReg(reg', Held)
  <2>1. reg'.match = [reg.match EXCEPT ![m] = r]
    BY <1>3, <1>4 DEF Registries
  <2> QED
    BY <1>3, <1>4, <2>1, OneRight
<1>5. CASE Allocate(m)
  <2>1. [NewMatch EXCEPT !.phase = "connecting"].players = << >>
    BY DEF NewMatch
  <2> QED
    BY <1>2, <1>4, <1>5, <2>1, EmptyRights DEF Allocate, Allocated
<1>6. ASSUME NEW r, r.players = reg.match[m].players, r.slot = reg.match[m].slot,
             r.phase = reg.match[m].phase \/ r.phase # "connecting"
      PROVE  RightSeats(m, r, Held)
  BY <1>3, <1>6, SameBindings
<1>7. CASE Start(m)
  <2> DEFINE r == [CommittedFifo(m, reg.match[m]) EXCEPT !.phase = "live"]
  <2>1. reg' = [reg EXCEPT !.match = [reg.match EXCEPT ![m] = r]]
    BY <1>7 DEF Start
  <2>2. r.players = reg.match[m].players /\ r.phase = "live"
    BY <1>3 DEF CommittedFifo, MatchRecords
  <2> HIDE DEF r
  <2>3. RightSeats(m, r, Held)
    BY <1>3, <2>2 DEF RightSeats, KnownSeats
  <2> QED
    BY <1>2, <1>4, <2>1, <2>3
<1>8. CASE AbandonUnfilled(m)
  <2> DEFINE r == [reg.match[m] EXCEPT !.abandoned = TRUE]
  <2>1. reg' = [reg EXCEPT !.match = [reg.match EXCEPT ![m] = r]]
    BY <1>8 DEF AbandonUnfilled
  <2>2. r.players = reg.match[m].players /\ r.slot = reg.match[m].slot /\ r.phase = reg.match[m].phase
    BY <1>3 DEF MatchRecords
  <2> HIDE DEF r
  <2> QED
    BY <1>2, <1>4, <1>6, <2>1, <2>2
<1>9. CASE Decide(m)
  <2> DEFINE r == [reg.match[m] EXCEPT !.phase = "decided"]
  <2>1. reg' = [reg EXCEPT !.match = [reg.match EXCEPT ![m] = r]]
    BY <1>9 DEF Decide
  <2>2. r.players = reg.match[m].players /\ r.slot = reg.match[m].slot /\ r.phase # "connecting"
    BY <1>3 DEF MatchRecords
  <2> HIDE DEF r
  <2> QED
    BY <1>2, <1>4, <1>6, <2>1, <2>2
<1>10. CASE GrowOlder(m)
  <2> DEFINE r == [reg.match[m] EXCEPT !.age = reg.match[m].age + 1]
  <2>1. reg' = [reg EXCEPT !.match = [reg.match EXCEPT ![m] = r]]
    BY <1>10 DEF GrowOlder
  <2>2. r.players = reg.match[m].players /\ r.slot = reg.match[m].slot /\ r.phase = reg.match[m].phase
    BY <1>3 DEF MatchRecords
  <2> HIDE DEF r
  <2> QED
    BY <1>2, <1>4, <1>6, <2>1, <2>2
<1> QED
  BY <1>5, <1>7, <1>8, <1>9, <1>10

LEMMA OpeningRights ==
  ASSUME RightInv, NEW c \in Conns, NEW a \in Addrs,
         (\E t \in Tickets : Dial(c, a, t)) \/ (\E d \in Conns : Migrate(c, d, a))
  PROVE  RightReg(reg', Held') /\ TicketsOK'
<1>1. TicketsOK /\ ConnsOK /\ RightReg(reg, Held)
  BY DEF RightInv, HostOK
<1>2. conn[c].state = "unused" /\ UNCHANGED reg
  BY DEF Dial, Migrate, NextConn
<1>3. ASSUME NEW r, r.state = "connected", r.addr \in AddrsOf[ClientOf[r.ticket]],
             r.key # NoKey => r.key[1] \in DOMAIN Held /\ Held[r.key[1]] = r.ticket,
             conn' = [conn EXCEPT ![c] = r]
      PROVE  RightReg(reg', Held') /\ TicketsOK'
  <2>1. TicketsOK' /\ Extends(Held, Held')
    BY <1>1, <1>2, <1>3, TicketsOpen
  <2> QED
    BY <1>1, <1>2, <2>1, RightsMove
<1>4. ASSUME NEW t \in Tickets, Dial(c, a, t)
      PROVE  RightReg(reg', Held') /\ TicketsOK'
  <2> DEFINE r == [state |-> "connected", addr |-> a, ticket |-> t, key |-> NoKey]
  <2>1. conn' = [conn EXCEPT ![c] = r] /\ a \in AddrsOf[ClientOf[t]]
    BY <1>4 DEF Dial
  <2>2. r.state = "connected" /\ r.addr = a /\ r.ticket = t /\ r.key = NoKey
    OBVIOUS
  <2> HIDE DEF r
  <2> QED
    BY <1>3, <2>1, <2>2
<1>5. ASSUME NEW d \in Conns, Migrate(c, d, a)
      PROVE  RightReg(reg', Held') /\ TicketsOK'
  <2> DEFINE r == [conn[d] EXCEPT !.addr = a]
  <2>1. /\ conn' = [conn EXCEPT ![c] = r] /\ a \in AddrsOf[ClientOf[conn[d].ticket]]
        /\ conn[d].state = "connected" /\ conn[d].key # NoKey
    BY <1>5 DEF Migrate
  <2>2. conn[d] \in Connections
    BY <1>1, <2>1 DEF ConnsOK, Delivers
  <2>3. r.state = "connected" /\ r.addr = a /\ r.ticket = conn[d].ticket /\ r.key = conn[d].key
    BY <2>1, <2>2 DEF Connections
  <2>4. conn[d].key[1] \in DOMAIN Held /\ Held[conn[d].key[1]] = conn[d].ticket
    BY <1>1, <2>1 DEF TicketsOK
  <2> HIDE DEF r
  <2> QED
    BY <1>3, <2>1, <2>3, <2>4
<1> QED
  BY <1>4, <1>5

LEMMA ExchangeRights ==
  ASSUME RightInv, NEW c \in Conns, KeyExchange(c)
  PROVE  RightReg(reg', Held') /\ TicketsOK'
<1> DEFINE a == conn[c].addr
           left == IF reg.index[a] = NoMatch THEN reg ELSE Departed(reg, a)
           k == FreshKey(c)
<1>1. /\ Delivers(c) /\ conn[c] \in Connections /\ a \in Addrs
      /\ RegOK(reg) /\ ConnsOK /\ TicketsOK /\ RightReg(reg, Held)
  BY DEF KeyExchange, RightInv, HostOK, ConnsOK, Delivers
<1>2. RegOK(left) /\ left.index[a] = NoMatch
  BY <1>1, DepartedKeeps
<1>3. RightReg(left, Held)
  BY <1>1, DepartedRights
<1>4. k \in Keys /\ k[1] = c /\ k # NoKey
  <2>1. k \in Conns \X {1, 2} /\ k[1] = c
    BY DEF FreshKey
  <2>2. c # 0
    BY NoConnection DEF NoConn
  <2> QED
    BY <2>1, <2>2, HostAssumption DEF NoKey
<1>5. /\ c \in DOMAIN Held /\ Held[c] = conn[c].ticket /\ a \in AddrsOf[ClientOf[conn[c].ticket]]
  <2>1. conn[c].state # "unused"
    BY <1>1 DEF Delivers
  <2> QED BY <1>1, <2>1, HeldTickets DEF TicketsOK
<1>6. \/ reg' \in {reg, left} /\ conn' = conn
      \/ /\ OpenTo(left, a) # {} /\ reg' = Admitted(left, a, k)
         /\ conn' = [conn EXCEPT ![c] = [conn[c] EXCEPT !.key = k]]
  BY DEF KeyExchange
<1> HIDE DEF left, k
<1>7. CASE reg' \in {reg, left} /\ conn' = conn
  <2>1. Held' = Held /\ TicketsOK'
    BY <1>1, <1>7 DEF TicketsOK, Held, Delivers
  <2> QED
    BY <1>1, <1>3, <1>7, <2>1
<1>8. CASE /\ OpenTo(left, a) # {} /\ reg' = Admitted(left, a, k)
           /\ conn' = [conn EXCEPT ![c] = [conn[c] EXCEPT !.key = k]]
  <2> DEFINE r == [conn[c] EXCEPT !.key = k]
  <2>1. RightReg(reg', Held)
    BY <1>1, <1>2, <1>3, <1>4, <1>5, <1>8, AdmittedRights
  <2>2. r.state = conn[c].state /\ r.ticket = conn[c].ticket /\ r.addr = conn[c].addr /\ r.key = k
    BY <1>1 DEF Connections
  <2>3. conn' = [conn EXCEPT ![c] = r]
    BY <1>8
  <2> HIDE DEF r
  <2>4. conn'[c] = r /\ \A d \in Conns : d # c => conn'[d] = conn[d]
    BY <1>1, <2>3 DEF ConnsOK
  <2>5. Extends(Held, Held')
    BY <2>2, <2>4, HeldGrows
  <2>6. ASSUME NEW d \in Conns, conn'[d].key # NoKey
        PROVE  conn'[d].key[1] \in DOMAIN Held /\ Held[conn'[d].key[1]] = conn'[d].ticket
    BY <1>1, <1>4, <1>5, <2>2, <2>4, <2>6 DEF TicketsOK
  <2>7. \A d \in Conns : Delivers(d)' => conn'[d].addr \in AddrsOf[ClientOf[conn'[d].ticket]]
    BY <1>1, <2>2, <2>4 DEF TicketsOK, Delivers
  <2>8. TicketsOK'
    BY <2>5, <2>6, <2>7 DEF TicketsOK, Extends
  <2> QED
    BY <2>1, <2>5, <2>8, RightsMove
<1> QED
  BY <1>6, <1>7, <1>8

LEMMA FrameRights ==
  ASSUME RightInv, NEW c \in Conns, NEW identity \in BOOLEAN, Frame(c, identity)
  PROVE  RightReg(reg', Held') /\ TicketsOK'
<1> DEFINE a == conn[c].addr
           k == conn[c].key
           found == reg.index[a] # NoMatch \/ RebindSeats(reg, a, k) # {}
           reg1 == IF reg.index[a] = NoMatch /\ found THEN Rebound(reg, a, k) ELSE reg
           named == IF identity THEN NamedSlots(reg1, c) ELSE {}
<1>1. /\ Delivers(c) /\ k # NoKey /\ a \in Addrs
      /\ RegOK(reg) /\ TicketsOK /\ RightReg(reg, Held)
  BY DEF Frame, RightInv, HostOK, ConnsOK
<1>2. Held' = Held /\ TicketsOK'
  <2>1. UNCHANGED conn
    BY DEF Frame
  <2> QED
    BY <1>1, <2>1 DEF TicketsOK, Held, Delivers
<1>3. CASE ~found
  <2>1. reg' = reg
    BY <1>3 DEF Frame
  <2> QED
    BY <1>1, <1>2, <2>1
<1>4. CASE found
  <2>1. reg' = Heard(reg1, a, k, named)
    BY <1>4 DEF Frame
  <2>2. RegOK(reg1) /\ reg1.index[a] \in Matches
    BY <1>1, <1>4, ReboundKeeps, RegistryFields
  <2>3. RightReg(reg1, Held)
    BY <1>1, <1>4, ReboundRights
  <2>4. /\ named \subseteq Slots(reg1.index[a])
        /\ \A s \in named : Allocations[reg1.index[a]][s] = conn[c].ticket
    BY DEF NamedSlots
  <2>5. Held[k[1]] = conn[c].ticket
    BY <1>1 DEF TicketsOK
  <2> HIDE DEF named, reg1
  <2>6. RightReg(reg', Held)
    BY <1>1, <2>1, <2>2, <2>3, <2>4, <2>5, HeardRights
  <2> QED
    BY <1>2, <2>6
<1> QED
  BY <1>3, <1>4

LEMMA DisconnectRights ==
  ASSUME RightInv, NEW c \in Conns, Disconnect(c)
  PROVE  RightReg(reg', Held') /\ TicketsOK'
<1>1. /\ Delivers(c) /\ conn[c] \in Connections /\ conn[c].addr \in Addrs
      /\ RegOK(reg) /\ ConnsOK /\ TicketsOK /\ RightReg(reg, Held)
  BY DEF Disconnect, RightInv, HostOK, ConnsOK
<1>2. RightReg(reg', Held)
  BY <1>1, DepartedRights DEF Disconnect
<1>3. conn' = [conn EXCEPT ![c].state = "closed", ![c].addr = "", ![c].key = NoKey]
  BY DEF Disconnect
<1>4. /\ conn'[c].state = "closed" /\ conn'[c].ticket = conn[c].ticket /\ conn'[c].key = NoKey
      /\ \A d \in Conns : d # c => conn'[d] = conn[d]
  BY <1>1, <1>3 DEF ConnsOK, Connections
<1>5. TicketsOK' /\ Extends(Held, Held')
  BY <1>1, <1>4, TicketsKept DEF Delivers
<1> QED
  BY <1>2, <1>5, RightsMove

LEMMA RetireRights ==
  ASSUME RightInv, NEW ms \in SUBSET Matches,
         reg' = Dropped(reg, ms), DisconnectLater(PeersOf(reg, ms))
  PROVE  RightReg(reg', Held') /\ TicketsOK'
<1>1. RegOK(reg) /\ ConnsOK /\ TicketsOK /\ RightReg(reg, Held)
  BY DEF RightInv, HostOK
<1>2. PeersOf(reg, ms) \subseteq Addrs
  BY <1>1, RegistryFields DEF PeersOf
<1>3. RightReg(reg', Held)
  BY <1>1, DroppedRights
<1>4. conn' = [c \in Conns |-> IF \E a \in PeersOf(reg, ms) : peerAt[a] = c
                               THEN [conn[c] EXCEPT !.state = "leaving"] ELSE conn[c]]
  BY DEF DisconnectLater
<1>5. ASSUME NEW c \in Conns
      PROVE  \/ conn'[c] = conn[c]
             \/ /\ Delivers(c) /\ conn'[c].state = "leaving" /\ conn'[c].ticket = conn[c].ticket
                /\ conn'[c].key = conn[c].key /\ conn'[c].addr = conn[c].addr
  <2>1. CASE \E a \in PeersOf(reg, ms) : peerAt[a] = c
    <3>1. Delivers(c) /\ conn[c] \in Connections
      BY <1>1, <1>2, <2>1 DEF ConnsOK
    <3>2. conn'[c] = [conn[c] EXCEPT !.state = "leaving"]
      BY <1>4, <2>1
    <3> QED
      BY <3>1, <3>2 DEF Connections
  <2>2. CASE ~ \E a \in PeersOf(reg, ms) : peerAt[a] = c
    BY <1>4, <2>2
  <2> QED
    BY <2>1, <2>2
<1>6. TicketsOK' /\ Extends(Held, Held')
  BY <1>1, <1>5, TicketsKept DEF Delivers
<1> QED
  BY <1>3, <1>6, RightsMove

LEMMA RightStep == RightInv /\ [Next]_vars => RightInv'
<1> SUFFICES ASSUME RightInv, [Next]_vars PROVE RightInv'
  OBVIOUS
<1>1. HostOK'
  BY HostStep DEF RightInv
<1> SUFFICES RightReg(reg', Held') /\ TicketsOK'
  BY <1>1 DEF RightInv, RightReg
<1>2. CASE UNCHANGED vars
  BY <1>2 DEF vars, RightInv, TicketsOK, Held, Delivers
<1>3. CASE Event
  BY <1>3, OpeningRights, ExchangeRights, FrameRights, DisconnectRights DEF Event
<1>4. CASE Sweep
  <2>1. {m \in Matches : Expired(m, reg.match[m])} \in SUBSET Matches
    OBVIOUS
  <2> QED
    BY <1>4, <2>1, RetireRights DEF Sweep
<1>5. ASSUME NEW m \in Matches, Finish(m) PROVE RightReg(reg', Held') /\ TicketsOK'
  BY <1>5, RetireRights DEF Finish
<1> QED
  BY <1>2, <1>3, <1>4, <1>5, MatchesMoveRights DEF Next

LEMMA InitRight == Init => RightInv
<1> SUFFICES ASSUME Init PROVE RightInv
  OBVIOUS
<1>1. \A m \in Matches : reg.match[m] = NewMatch
  BY DEF Init, NewRegistry
<1>2. NewMatch.players = << >>
  BY DEF NewMatch
<1>3. RightReg(reg, Held)
  BY <1>1, <1>2, EmptyRights DEF RightReg
<1>4. TicketsOK
  BY DEF Init, NewConn, TicketsOK, Delivers
<1> QED
  BY <1>3, <1>4, InitHost DEF RightInv

-----------------------------------------------------------------------------
(* Every registered match, connection and owner keeps its type, whatever    *)
(* the clients and the network do.                                          *)
THEOREM TypeCorrect == Spec => []TypeOK
<1>1. HostOK => TypeOK
  BY DEF HostOK, RegOK, ConnsOK, Connections, TypeOK
<1> QED
  BY <1>1, InitHost, HostStep, PTL DEF Spec

(* The address index routes each address to the match that seats it and to  *)
(* no other, through re-handshakes, moves to another source port,           *)
(* departures and sweeps (MatchRegistry).                                   *)
THEOREM IndexAndSeatsAgree == Spec => []IndexMatchesSeats
<1>1. HostOK => IndexMatchesSeats
  BY DEF HostOK, RegOK, IndexMatchesSeats
<1> QED
  BY <1>1, InitHost, HostStep, PTL DEF Spec

(* No two peers of a match are one fighter, and only the seated are         *)
(* fighters: identity frames, trusted IPs, elimination, the fallback to     *)
(* admission order and moves between addresses never give a held slot away. *)
THEOREM OneFighterEach == Spec => []OneFighterPerPeer
<1>1. HostOK => OneFighterPerPeer
  BY DEF HostOK, RegOK, MatchOK, OneFighterPerPeer
<1> QED
  BY <1>1, InitHost, HostStep, PTL DEF Spec

(* "Nothing that carries player identity may be addressed before this is    *)
(* complete": while a started fight is undecided every slot is a seated     *)
(* peer's - the start binds whoever evidence has not, and whoever leaves    *)
(* hands the fight to the opponent.                                         *)
THEOREM FightersArePresent == Spec => []EveryFighterHasAPeer
<1>1. ASSUME HostOK, NEW m \in Matches, reg.match[m].phase = "live"
      PROVE  IsFull(m, reg.match[m]) /\ TakenSlots(reg.match[m]) = Slots(m)
  <2> DEFINE r == reg.match[m]
  <2>1. MatchOK(m, r) /\ r.phase = "live"
    BY <1>1 DEF HostOK, RegOK
  <2> HIDE DEF r
  <2>2. IsFull(m, r) /\ \A a \in SeatedAddrs(r) : r.slot[a] # NoSlot /\ r.slot[a] \in Slots(m)
    BY <2>1, Seats DEF MatchOK, Unbound
  <2>3. TakenSlots(r) = {r.slot[a] : a \in SeatedAddrs(r)}
    BY <2>2 DEF TakenSlots
  <2>4. /\ Len(r.players) = Capacity(m) /\ Capacity(m) \in {1, 2} /\ Slots(m) = 1..Capacity(m)
        /\ DOMAIN r.players = 1..Capacity(m)
    <3>1. Len(r.players) \in 0..2 /\ Len(r.players) <= Capacity(m) /\ Len(r.players) >= Capacity(m)
      BY <2>1, <2>2, Seats DEF IsFull
    <3>2. Capacity(m) \in {1, 2} /\ Slots(m) = 1..Capacity(m)
      BY Capacities
    <3>3. Len(r.players) = Capacity(m)
      BY <3>1, <3>2
    <3> QED
      BY <2>1, <3>2, <3>3, Seats
  <2>5. \A i \in 1..Capacity(m) : r.players[i].addr \in SeatedAddrs(r) /\ r.players[i].addr \in Addrs
    BY <2>1, <2>4, Seats DEF SeatedAddrs
  <2>6. \A i, j \in 1..Capacity(m) :
            r.slot[r.players[i].addr] = r.slot[r.players[j].addr] => i = j
    BY <2>1, <2>2, <2>4, <2>5 DEF MatchOK
  <2>7. \A i \in 1..Capacity(m) : r.slot[r.players[i].addr] \in TakenSlots(r)
    BY <2>3, <2>5
  <2>8. TakenSlots(r) \subseteq Slots(m)
    BY <2>2, <2>3
  <2>9. Slots(m) \subseteq TakenSlots(r)
    <3>1. CASE Capacity(m) = 1
      BY <2>4, <2>7, <2>8, <3>1
    <3>2. CASE Capacity(m) = 2
      <4>1. PICK s \in {1, 2}, t \in {1, 2} : s # t /\ s \in TakenSlots(r) /\ t \in TakenSlots(r)
        BY <2>4, <2>6, <2>7, <2>8, <3>2
      <4> QED
        BY <2>4, <3>2, <4>1
    <3> QED
      BY <2>4, <3>1, <3>2
  <2>10. TakenSlots(r) = Slots(m)
    BY <2>8, <2>9
  <2> QED
    BY <2>2, <2>10 DEF r
<1>2. HostOK => EveryFighterHasAPeer
  BY <1>1 DEF EveryFighterHasAPeer
<1> QED
  BY <1>2, InitHost, HostStep, PTL DEF Spec

(* Whoever is bound before the fallback to admission order fights as its    *)
(* own ticket, in every match whose seats its own players hold: behind one  *)
(* NAT or not, after re-dials, moves to another source port and departures. *)
(* That admit_connection's trust in source IPs is well placed is assumed.   *)
THEOREM BoundToOwnTicket == Spec => []RightFighter
<1>1. ASSUME RightInv, NEW m \in Matches, reg.match[m].phase = "connecting", OwnPlayers(m, reg.match[m]),
             NEW i \in DOMAIN reg.match[m].players,
             reg.match[m].slot[reg.match[m].players[i].addr] # NoSlot
      PROVE  Allocations[m][reg.match[m].slot[reg.match[m].players[i].addr]] = TicketOf(reg.match[m], i)
  <2> DEFINE r == reg.match[m]
  <2>1. RightSeats(m, r, Held)
    BY <1>1 DEF RightInv, RightReg
  <2>2. \A j \in DOMAIN r.players : Held[r.players[j].key[1]] = TicketOf(r, j)
    BY <2>1, HeldTickets DEF RightSeats, KnownSeats, TicketOf
  <2>3. OwnSeats(m, r, Held)
    <3>1. /\ \A j \in DOMAIN r.players : TicketOf(r, j) \in ToSet(Allocations[m])
          /\ \A j, n \in DOMAIN r.players : TicketOf(r, j) = TicketOf(r, n) => j = n
      BY <1>1 DEF OwnPlayers
    <3> HIDE DEF r
    <3> QED
      BY <2>2, <3>1 DEF OwnSeats
  <2>4. AllRight(m, r, Held)
    BY <1>1, <2>1, <2>3 DEF RightSeats
  <2>5. Held[r.players[i].key[1]] \in ToSet(Allocations[m])
    BY <2>3 DEF OwnSeats
  <2> QED
    BY <1>1, <2>2, <2>4, <2>5 DEF AllRight
<1>2. RightInv => RightFighter
  BY <1>1 DEF RightFighter
<1> QED
  BY <1>2, InitRight, RightStep, PTL DEF Spec

=============================================================================
