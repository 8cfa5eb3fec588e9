\* Three items, two jobs for the feed, two workers, a failure or crash.
SPECIFICATION Spec
CONSTANTS
    Jobs = {j1, j2}
    Workers = {w1, w2}
    NoWorker = NoWorker
    NoJob = NoJob
    NoId = NoId
    i1 = i1
    i2 = i2
    i3 = i3
    Items = {i1, i2, i3}
    Urls = {"u1", "t.co"}
    Resolutions <- SharedPage
    Date <- Dates
    Fractional = {1}
    MaxRecent = 2
    MaxAttempts = 2
    MaxFaults = 1
SYMMETRY Symmetry
INVARIANTS
    IInv
    PassedIsStored
    DoneIsStored
    RowsAreQueued
CHECK_DEADLOCK FALSE
