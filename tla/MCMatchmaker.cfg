SPECIFICATION Spec
CONSTANTS
    ann = ann
    bob = bob
    Users <- MCUsers
    Tickets <- MCTickets
    OwnerOf <- MCOwnerOf
    NumMatches = 2
    Capacity = 2
    Cancellable = {1, 2}
    Fickle <- MCFickle
    MayDrain = TRUE
CHECK_DEADLOCK FALSE
INVARIANTS
    NoSelfPair
    ReservationHeldOrDropped
    OneFightAtATime
    RemembersTheNewestSearch
