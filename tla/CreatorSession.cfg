SPECIFICATION SessionSpec
CONSTANTS
    MaxTexts = 3
    MaxJobs = 1
    MaxCalls = 2
    MaxMoves = 1
    MaxVisits = 2
    MaxLost = 1
CHECK_DEADLOCK FALSE
INVARIANTS
    SessionTypeOK
    BriefIsAVersion
    ShownEndIsTrue
PROPERTIES
    BriefSettles
    EndIsShown
