\* Two handlers, three transactions, one heartbeat goroutine, a ledger of one entry.
SPECIFICATION FairSpec
CONSTANTS
    k1 = k1
    k2 = k2
    k3 = k3
    Handlers = {h1, h2}
    Beats = {b1}
    Scanner = scanner
    Keys <- TwoRegisters
    NoKey = NoKey
    Unregisters <- OneUnregister
    MaxEntries = 1
INVARIANTS
    OneExecutor
    WaitersHaveAnOwner
    LedgerIsBounded
    ToldUnlessRaced
    DarkOnlineIsAsked
PROPERTIES
    ScanSparesFresh
    StatusSpec
    SilentGoesOffline
    WaitersWake
