SPECIFICATION FairSpec
CONSTANTS
    NumCharacters = 4
    Members <- MCMembers
    Unreadable <- MCUnreadable
    Newcomers <- MCNewcomers
    MaxResults = 3
    MaxCloses = 2
    MaxRepairs = 1
CHECK_DEADLOCK FALSE
INVARIANTS
    NobodyLeftBehind
    StandingsAreArchived
PROPERTIES
    ImplementsTurn
    ResultsSettle
