\* One of two workers may crash: the job it was running is not settled.
SPECIFICATION FairSpec
CONSTANTS
    Jobs = {j1}
    Workers = {w1, w2}
    NoJob = NoJob
    NoWorker = NoWorker
    Unhandled = {}
    Priorities = {0}
    BatchSize = 1
    MaxAttempts = 3
    MaxGone = 1
    MaxFaults = 0
    MaxAdmin = 0
PROPERTIES
    EveryJobEnds
CHECK_DEADLOCK FALSE
