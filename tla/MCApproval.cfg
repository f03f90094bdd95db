SPECIFICATION FairSpec
CONSTANTS
    r1 = r1
    w1 = w1
    x1 = x1
    w2 = w2
    Rounds = {r1}
    Calls <- OneRound
    Blocks = {w1, x1, w2}
    HighRisk = {w1, w2}
    Deciders = {d1, d2}
    None = None
    DBFaults = TRUE
    MaxCrashes = 1
INVARIANTS TypeOK RiskNeedsApproval DatabaseFirst ChannelsReleased AuditMatchesApprovals
PROPERTIES GateImplemented RoundEnds
