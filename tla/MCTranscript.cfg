SPECIFICATION Spec
CONSTANTS
    Runs = {r1}
    Subs = {s1}
    Pagers = {g1}
    PinnedHead = 1
    LiveTail = 1
    CompactThreshold = 3
    Limit = 3
    Gaps = {0, 1}
    Faults = TRUE
    MaxRows = 5
INVARIANTS TypeOK HistoryComplete EndsKept SummaryAfterMiddle PagesExact
