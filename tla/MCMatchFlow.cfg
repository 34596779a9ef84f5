SPECIFICATION FairSpec
CONSTANTS
    Humans = {0, 1}
    Editors = {0}
    MaxSaves = 2
    NoOne = NoOne
INVARIANTS
    ResultsAccumulate
    ResultBeforeTheWalk
    CardBeforeGoodbye
PROPERTIES
    ImplementsOutcome
    StagedGearMakesTheRound
    RelayedOncePerProfile
    RoundOpensOnKnownGear
    MatchEnds
CHECK_DEADLOCK FALSE
