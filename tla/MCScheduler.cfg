\* Two slots twice the zombie age apart, two ticks a second, a failure or crash.
SPECIFICATION Spec
CONSTANTS
    Feeds = {f1, f2, f3}
    Tier1 = {f1, f2}
    Slots = {5, 17, 100}
    Second = 2
    ZombieAge = 6
    MaxBusy = 2
    Horizon = 23
    Articles = {a1, a2}
    NoArticle = NoArticle
    MaxFaults = 1
SYMMETRY Symmetry
INVARIANTS
    TypeOK
    OneRunPerSlot
    NoSlotSkipped
    RunIsFannedOut
    IInv
CHECK_DEADLOCK FALSE
