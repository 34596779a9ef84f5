SPECIFICATION Spec
CONSTANTS
    Users = {u1}
    Sessions = {s1, s2}
    NoSession = NoSession
    NoUser = NoUser
    DbMayFail = FALSE
    MayRestart = FALSE
CHECK_DEADLOCK FALSE
INVARIANTS
    NeverBothActive
