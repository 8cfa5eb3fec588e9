\* Two jobs, one without a handler, in batches of two; a crash or stop, a database failure and a manual operation.
SPECIFICATION Spec
CONSTANTS
    Jobs = {j1, j2}
    Workers = {w1, w2}
    NoJob = NoJob
    NoWorker = NoWorker
    Unhandled = {j2}
    Priorities = {0}
    BatchSize = 2
    MaxAttempts = 3
    MaxGone = 1
    MaxFaults = 1
    MaxAdmin = 1
SYMMETRY WorkerSymmetry
INVARIANTS
    TypeOK
    IInv
    ExclusiveOwnership
    StartsAccounted
    DeadWhenExhausted
PROPERTIES
    SettledIsFinal
    BackoffRespected
CHECK_DEADLOCK FALSE
