CONSTANTS
    c1 = c1
    c2 = c2
    t1 = t1
    t2 = t2
    t3 = t3
    None = None
    Callers <- TwoCallers
    Turns <- ThreeTurns
    MaxSessions = 3
SPECIFICATION Spec
CHECK_DEADLOCK FALSE
INVARIANTS OneSession SpinnerTruth NothingLeaks AllPendingShown
PROPERTY DiscardOwn
