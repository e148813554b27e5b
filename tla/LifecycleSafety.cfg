SPECIFICATION Spec
CONSTANTS
    Generators = {g1}
    Selectors = {s1}
    BriefEditors = {}
    SelectKeys = {sk}
    MaxFrames = 6
    MaxBrief = 1
    Workers = {w1, w2}
    Keys = {k1, k2}
    MaxJobs = 2
    MaxApiCrashes = 0
    MaxThrows = 1
    MaxWorkerCrashes = 1
    MaxLapses = 1
    Editors = {}
    Publishers = {p1}
    PublishKeys = {pk}
CHECK_DEADLOCK FALSE
SYMMETRY Symmetry
INVARIANTS
    BusyStoryHasJob
    WorkableMeansDraft
PROPERTY ImplementsGate
