SPECIFICATION Spec
CONSTANTS
    NumCharacters = 2
    Members <- MCMembers
    Unreadable = {}
    Newcomers = {}
    MaxResults = 3
    MaxCloses = 2
    MaxRepairs = 0
CHECK_DEADLOCK FALSE
INVARIANTS
    RewardIsSafe
