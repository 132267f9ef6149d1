CONSTANTS
    t1 = t1
    t2 = t2
    k1 = k1
    None = None
    Turns <- TwoTurns
    Recording <- OneTurn
    Tasks <- NoTasks
    Faults <- NoFaults
    MaxErrors = 2
    MaxStream = 2
    MaxAttempts = 2
    MaxStops = 1
    MaxReconnects = 1
SPECIFICATION FairSpec
PROPERTIES NoResendAfterReply EveryTurnServed StopEndsTurn ReconnectServed
