\* The background retry of a failed start.
SPECIFICATION Spec
CONSTANTS
    Lanes = {l1}
    Entries = {e1,e2}
    Callers = {c1}
    Nodes = {}
    MaxEpoch = 1
    Targets = {}
    None = None

INVARIANT RetryStopsOnlyItsGeneration
