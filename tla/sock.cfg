CONSTANTS
    MaxFrames = 4
    MaxFaults = 2
    MaxBackoff = 2
SPECIFICATION FairSpec
INVARIANTS HandledInOrder StopNotLate
PROPERTIES GapServed UnmountIsFinal
