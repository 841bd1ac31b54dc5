SPECIFICATION FairSpec
CONSTANTS
    play1 = play1
    ptz1 = ptz1
    Devices <- OneDevice
    Plays <- OnePlay
    Ptzs <- OnePtz
    MaxEpoch = 2
    MaxCrashes = 1
    Batch = 1
PROPERTY
    GateReopens
CHECK_DEADLOCK FALSE
