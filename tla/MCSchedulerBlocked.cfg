\* An old article waits, another is its duplicate, and nothing fails.
SPECIFICATION Spec
CONSTANTS
    Feeds = {f1, f2, f3}
    Tier1 = {f1, f2}
    Slots = {5, 17, 100}
    Second = 2
    ZombieAge = 6
    MaxBusy = 2
    Horizon = 23
    Articles = {a1, a2}
    NoArticle = NoArticle
    MaxFaults = 0
SYMMETRY Symmetry
INVARIANTS
    EverySlotServed
CHECK_DEADLOCK FALSE
