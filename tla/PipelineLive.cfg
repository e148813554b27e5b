SPECIFICATION FairPipelineSpec
CONSTANTS
    Workers = {w1, w2}
    Keys = {k1, k2}
    MaxJobs = 3
    MaxApiCrashes = 0
    MaxThrows = 0
    MaxWorkerCrashes = 1
    MaxLapses = 1
CHECK_DEADLOCK FALSE
INVARIANTS
    NoJobForgotten
    OneJobPerKey
PROPERTIES
    JobsEnd
    AssemblyIsTransient
