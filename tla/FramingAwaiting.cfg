SPECIFICATION FramingSpec
CONSTANTS
    Generators = {g1}
    Selectors = {s1}
    BriefEditors = {}
    SelectKeys = {k1, k2}
    MaxFrames = 6
    MaxBrief = 1
CHECK_DEADLOCK FALSE
INVARIANT AwaitingMeansSelectable
