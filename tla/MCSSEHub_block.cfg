SPECIFICATION Spec
CONSTANTS
    p1 = p1
    p2 = p2
    None = None
    Producers = {p1}
    Script <- OneRun
    Streams = {s1}
    Cap = 2
    MaxHubs = 3
INVARIANTS PushNeverBlocks
CHECK_DEADLOCK FALSE
