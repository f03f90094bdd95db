SPECIFICATION Spec
CONSTANTS
    Runs = {r1, r2}
    Subs = {s1, s2}
    Cancels = {c1}
    None = None
    MaxCrashes = 1
SYMMETRY Symmetry
INVARIANTS TypeOK PendingAccurate NoPanic WaitCoversAll ResultOnce ResultAfterRow
PROPERTIES CancelKeepsTerminal
CHECK_DEADLOCK FALSE
