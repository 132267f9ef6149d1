CONSTANTS
    c1 = c1
    c2 = c2
    m1 = m1
    m2 = m2
    Ask = Ask
    Bubble = Bubble
    None = None
    Sockets <- TwoTabs
    Early <- NoTab
    Texts <- NoText
    MaxBills = 1
    MaxCrashes = 1
SPECIFICATION Spec
CHECK_DEADLOCK FALSE
SYMMETRY TabsAlike
INVARIANTS RecordedStays ViewConverges BubbleOnce
