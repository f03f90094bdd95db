SPECIFICATION FairSpec
CONSTANTS
    p1 = p1
    p2 = p2
    None = None
    Producers = {p1, p2}
    Script <- RunAndSub
    Streams = {s1, s2}
    Cap = 2
    MaxHubs = 5
INVARIANTS TypeOK NoSendOnClosed OneOpenHub
PROPERTIES FeedImplemented StreamEnds
CHECK_DEADLOCK FALSE
