\* One channel, two SSRCs, two media nodes; four failures or restarts.
SPECIFICATION FairSpec
CONSTANTS
    Channels = {c1}
    Ssrcs = {s1, s2}
    Nodes = {n1, n2}
    None = None
    Janitor = Janitor
    MaxEvents = 4
PROPERTIES
    RowsSettle
