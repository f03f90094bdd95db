SPECIFICATION Spec
CONSTANTS
    Runs = {r1}
    Subs = {}
    Pagers = {}
    PinnedHead = 2
    LiveTail = 2
    CompactThreshold = 6
    Limit = 2
    Gaps = {2}
    Faults = FALSE
    MaxRows = 8
INVARIANTS PairsTogether
