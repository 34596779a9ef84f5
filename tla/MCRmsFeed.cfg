SPECIFICATION FairSpec
CONSTANTS
    NumSockets = 3
    NumTickets = 2
    MaxTime = 2
    ReplayCutoff = 1
INVARIANTS
    NoSocketGetsItTwice
    NewestSocketOwnsSlot
    GraceRunsIffVacated
PROPERTIES
    ImplementsDelivery
    AwaitedMatchIsHeard
