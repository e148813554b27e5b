SPECIFICATION PipelineSpec
CONSTANTS
    Workers = {w1, w2}
    Keys = {k1, k2}
    MaxJobs = 4
    MaxApiCrashes = 1
    MaxThrows = 1
    MaxWorkerCrashes = 1
    MaxLapses = 0
CHECK_DEADLOCK FALSE
SYMMETRY Symmetry
INVARIANTS
    PipelineTypeOK
    JobHoldsStory
    AssemblyUsesNewestResearch
PROPERTY LogIsPath
