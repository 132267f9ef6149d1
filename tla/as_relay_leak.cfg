CONSTANTS
    t1 = t1
    t2 = t2
    k1 = k1
    None = None
    Turns <- TwoTurns
    Recording <- TwoTurns
    Tasks <- NoTasks
    Faults <- DbErrors
    MaxErrors = 0
    MaxStream = 2
    MaxAttempts = 2
    MaxStops = 0
    MaxReconnects = 0
SPECIFICATION Spec
INVARIANT RepliesMatchPrompt
