SPECIFICATION Spec
CONSTANTS
    Users = {u1, u2, u3}
    Guilds = {g1, g2}
    None = None
    Slots = {q1, q2, q3}
    MaxMembers = 2
    MaxApplications = 1
    MaxRequests = 4
SYMMETRY MCSymmetry
CHECK_DEADLOCK FALSE
INVARIANTS
    AlwaysLed
    CapExceededOnlyByOverlap
    BannedStaysOut
