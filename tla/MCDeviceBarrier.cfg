\* Two operations, one transfer goroutine, one cleaner, two lane objects.
SPECIFICATION FairSpec
CONSTANTS
    Ops = {o1, o2}
    Transfers = {t1}
    Cleaners = {c1}
    Lanes = {l1, l2}
    MaxEpoch = 2
    None = None
INVARIANTS
    OneLane
    GuardHasOneHolder
    AdmissionIsFresh
    TransferRevokes
    CleanerIsAlone
    NoLostWakeup
    LaneIsReclaimed
PROPERTIES
    LeasesSpec
    SleepersWake
