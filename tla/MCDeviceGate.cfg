SPECIFICATION FairSpec
CONSTANTS
    play1 = play1
    ptz1 = ptz1
    Devices <- OneDevice
    Plays <- OnePlay
    Ptzs <- OnePtz
    MaxEpoch = 3
    MaxCrashes = 1
    Batch = 1
INVARIANTS
    OnlyDispatchedRun
    GateOpenMeansClean
PROPERTIES
    CompletionIsProven
    OldUnsettledOnlyShrinks
    GateReopensUnlessStuck
CHECK_DEADLOCK FALSE
