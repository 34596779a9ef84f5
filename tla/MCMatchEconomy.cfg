SPECIFICATION FairSpec
CONSTANTS
    NumCharacters = 3
    UserOf <- MCUserOf
    Pairings <- MCPairings
    Quitters = {1}
    GiftEvery = 2
    MaxMatches = 3
    MaxQueue = 3
    MaxFaults = 1
CHECK_DEADLOCK FALSE
INVARIANTS
    RatedAtMostOnce
    EveryMilestonePaysOnce
    EveryRungPaysOnce
PROPERTIES
    ImplementsLedger
    RatingsFollowTheRecord
