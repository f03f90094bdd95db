SPECIFICATION FairSpec
CONSTANTS
    None = None
    Configs <- SomeConfigs
    ToolLists <- SomeToolLists
    Builtins <- SomeBuiltins
    Requests = {q1, q2}
INVARIANTS TypeOK CallReachesOfferer ReleasedOnReturn RequestsServed
PROPERTIES ShutdownEnds
