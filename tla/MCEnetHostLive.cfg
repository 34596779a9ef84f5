SPECIFICATION FairSpec
CONSTANTS
    Addrs <- MCAddrs
    IpOf <- OwnIp
    Tickets <- MCTickets
    HttpIp <- OwnHttp
    Allocations <- PairThenSolo
    Conns = {1, 2}
    Keys <- MCKeysTwo
    ClientOf <- AnnAgain
    AddrsOf <- OwnAddrs
    MaxMatches = 2
    Redials = {1}
PROPERTIES
    PermitComesBack
CHECK_DEADLOCK FALSE
