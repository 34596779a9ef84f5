SPECIFICATION Spec
CONSTANTS
    Users = {u1, u2}
    Sessions = {s1, s2, s3, s4}
    NoSession = NoSession
    NoUser = NoUser
    DbMayFail = TRUE
    MayRestart = TRUE
SYMMETRY Symmetry
CHECK_DEADLOCK FALSE
INVARIANTS
    RowsOfOneDevice
    LiveOnOneDevice
    OwnerStaysSignedIn
