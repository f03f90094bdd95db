SPECIFICATION FairTurn
CONSTANTS
    Runs = {r1}
    Subs = {s1}
    Cancels = {}
    None = None
    MaxCrashes = 0
    Streams = {c1, c2}
    Cap = 2
    MaxHubs = 4
INVARIANTS ClientSeesSubagents
PROPERTIES TurnReachesClient
CHECK_DEADLOCK FALSE
