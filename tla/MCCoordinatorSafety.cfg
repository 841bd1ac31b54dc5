\* One lane, two callers, two generations, no device transfer.
SPECIFICATION Spec
CONSTANTS
    Lanes = {l1}
    Entries = {e1, e2}
    Callers = {c1, c2}
    Nodes = {n1, n2}
    MaxEpoch = 1
    Targets = {}
    None = None
SYMMETRY Symmetry
INVARIANTS
    OneGenerationPerLane
    BarrierHasOneActor
    ServedByOwner
    RecoveryExcludesStarts
PROPERTY LaneSpec
