SPECIFICATION FairPipelineSpec
CONSTANTS
    Workers = {w1, w2}
    Keys = {k1, k2}
    MaxJobs = 2
    MaxApiCrashes = 1
    MaxThrows = 0
    MaxWorkerCrashes = 0
    MaxLapses = 0
CHECK_DEADLOCK FALSE
PROPERTY AssemblyIsTransient
