SPECIFICATION FairSpec
CONSTANTS
    Runs = {r1, r2}
    Subs = {s1, s2}
    Cancels = {}
    None = None
    MaxCrashes = 0
PROPERTIES WaitEnds
CHECK_DEADLOCK FALSE
