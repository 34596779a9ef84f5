SPECIFICATION Spec
CONSTANTS
    Addrs <- MCAddrs
    IpOf <- OneNat
    Tickets <- MCTickets
    HttpIp <- OneNatHttp
    Allocations <- PairThenSolo
    Conns = {1, 2, 3}
    Keys <- MCKeys
    ClientOf <- AnnAgain
    AddrsOf <- OwnAddrs
    MaxMatches = 2
    Redials = {}
INVARIANTS
    IndexMatchesSeats
    OneFighterPerPeer
    EveryFighterHasAPeer
    RightFighter
CHECK_DEADLOCK FALSE
