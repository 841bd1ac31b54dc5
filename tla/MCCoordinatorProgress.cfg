\* One lane, a device transfer and cleanup jobs whose stop may hang; progress.
SPECIFICATION FairSpec
CONSTANTS
    Lanes = {l1}
    Entries = {e1, e2}
    Callers = {c1}
    Nodes = {}
    MaxEpoch = 2
    Targets = {2}
    None = None
INVARIANTS
    ClearedMeansGone
    CleanupSparesNewer
PROPERTIES
    WaitersWake
    JobReports
