\* Two jobs of two priorities taken one at a time, two workers, a crash or stop and a database failure.
SPECIFICATION FairSpec
CONSTANTS
    Jobs = {j1, j2}
    Workers = {w1, w2}
    NoJob = NoJob
    NoWorker = NoWorker
    Unhandled = {}
    Priorities = {0, 1}
    BatchSize = 1
    MaxAttempts = 2
    MaxGone = 1
    MaxFaults = 1
    MaxAdmin = 0
PROPERTIES
    EveryJobSettles
    ImplementsLifecycle
    ImplementsFairLifecycle
CHECK_DEADLOCK FALSE
