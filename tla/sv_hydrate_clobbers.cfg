CONSTANTS
    c1 = c1
    c2 = c2
    m1 = m1
    m2 = m2
    Ask = Ask
    Bubble = Bubble
    None = None
    Sockets <- TwoTabs
    Early <- NoTab
    Texts <- OneText
    MaxBills = 0
    MaxCrashes = 0
SPECIFICATION Spec
CHECK_DEADLOCK FALSE
PROPERTY HydrationKeepsLive
