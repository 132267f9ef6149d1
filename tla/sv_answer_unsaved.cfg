CONSTANTS
    c1 = c1
    c2 = c2
    m1 = m1
    m2 = m2
    Ask = Ask
    Bubble = Bubble
    None = None
    Sockets <- OneTab
    Early <- OneTab
    Texts <- NoText
    MaxBills = 0
    MaxCrashes = 1
SPECIFICATION Spec
CHECK_DEADLOCK FALSE
PROPERTY AnswerPersisted
