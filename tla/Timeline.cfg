SPECIFICATION TimelineSpec
CONSTANTS
    Creates = {c1, c2}
    Adds = {a1}
    Patches = {q1}
    SourcePatches = {q2}
    PoolSize = 2
    Researched = 1
    MaxAssemblies = 1
CHECK_DEADLOCK FALSE
INVARIANTS
    TimelineTypeOK
    SamePositionMeansSameTime
    SourcesAreCounted
    ExhaustionTakesPatches
PROPERTY RequestsAnswered
