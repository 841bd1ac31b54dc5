\* Two channels, two SSRCs, two media nodes; one failure or restart.
SPECIFICATION Spec
CONSTANTS
    Channels = {c1, c2}
    Ssrcs = {s1, s2}
    Nodes = {n1, n2}
    None = None
    Janitor = Janitor
    MaxEvents = 1
SYMMETRY Symmetry
INVARIANTS
    SsrcHasOneUser
    ListenerAccounted
    LiveHasRow
