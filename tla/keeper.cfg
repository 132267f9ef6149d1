CONSTANTS
    MaxWrites = 3
    MaxFaults = 2
    MaxBackoff = 2
SPECIFICATION FairSpec
INVARIANTS OneProxy NoneLeftBehind
PROPERTIES RefreshOnce PickedUp Settles
