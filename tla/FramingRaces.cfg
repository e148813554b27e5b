SPECIFICATION FairFramingSpec
CONSTANTS
    Generators = {g1, g2}
    Selectors = {s1, s2}
    BriefEditors = {e1, e2}
    SelectKeys = {k1, k2}
    MaxFrames = 6
    MaxBrief = 2
CHECK_DEADLOCK FALSE
INVARIANTS
    FramingTypeOK
    DraftKeepsItsFrame
    SomethingToChoose
    ReplayIsConsistent
PROPERTY RequestsComplete
