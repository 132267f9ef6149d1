CONSTANTS
    c1 = c1
    c2 = c2
    t1 = t1
    Chats <- TwoChats
    Tabs <- OneTab
    MaxEvents = 3
    MaxIds = 1
SPECIFICATION Spec
SYMMETRY Alike
CHECK_DEADLOCK FALSE
INVARIANT RenameShown
