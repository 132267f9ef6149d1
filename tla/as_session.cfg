CONSTANTS
    t1 = t1
    t2 = t2
    k1 = k1
    None = None
    Turns <- TwoTurns
    Recording <- TwoTurns
    Tasks <- OneTask
    Faults <- Failing
    MaxErrors = 0
    MaxStream = 2
    MaxAttempts = 1
    MaxStops = 1
    MaxReconnects = 1
SYMMETRY SameTurns
SPECIFICATION PairSpec
INVARIANTS SkippedNeverRuns PendingIsWaiting RunsOnce IndicatorTruth
PROPERTIES ImplementsTurnQueue MisplacedOnlyAfterLeak
