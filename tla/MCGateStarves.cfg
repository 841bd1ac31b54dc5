SPECIFICATION FairSpec
CONSTANTS
    play1 = play1
    ptz1 = ptz1
    Devices <- TwoDevices
    Plays <- OnePlay
    Ptzs <- NoPtz
    MaxEpoch = 2
    MaxCrashes = 0
    Batch = 1
PROPERTY
    GateReopensUnlessStuck
CHECK_DEADLOCK FALSE
