SPECIFICATION FairSpec
CONSTANTS
    ann = ann
    bob = bob
    Users <- MCUsers
    Tickets <- MCTickets
    OwnerOf <- MCOwnerOf
    NumMatches = 2
    Capacity = 2
    Cancellable = {1}
    Fickle <- MCFickle
    MayDrain = TRUE
CHECK_DEADLOCK FALSE
PROPERTIES
    ImplementsFate
    CancelDequeues
    NobodyWaitsForEver
