SPECIFICATION Spec
CONSTANTS
    s1 = s1
    s2 = s2
    u1 = u1
    u2 = u2
    Servers = {s1, s2}
    Clients = {u1, u2}
    Agents = {"code-reviewer"}
    Skills = {"go-style"}
    Reports = {"daily-report"}
    UserNames <- Names
    Loadout <- Loadouts
    Earlier <- Tables
    Faults = TRUE
    MaxRows = 4
    MaxLinks = 1
SYMMETRY Symmetry
INVARIANTS TypeOK StartsSucceed SeedsThere
PROPERTIES SystemRowsStay
