SPECIFICATION FairSpec
CONSTANTS
    c1 = c1
    c2 = c2
    c3 = c3
    k1 = k1
    k2 = k2
    None = None
    Convs = {c1, c2, c3}
    Prefix <- Prefixes
    Calls = {k1, k2}
    Faults = TRUE
    MaxContainers = 2
    MaxStarts = 2
INVARIANTS TypeOK WorkspaceIsolated OneContainer
PROPERTIES EnsureEnds
