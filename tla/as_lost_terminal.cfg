CONSTANTS
    t1 = t1
    t2 = t2
    k1 = k1
    None = None
    Turns <- OneTurn
    Recording <- OneTurn
    Tasks <- NoTasks
    Faults <- LostTerminal
    MaxErrors = 0
    MaxStream = 2
    MaxAttempts = 2
    MaxStops = 1
    MaxReconnects = 0
SPECIFICATION FairSpec
PROPERTY StopEndsTurn
