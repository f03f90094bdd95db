SPECIFICATION Spec
CONSTANTS
    Runs = {r1}
    Subs = {s1, s2}
    Cancels = {}
    None = None
    MaxCrashes = 0
SYMMETRY Symmetry
INVARIANTS EveryResultInjected
