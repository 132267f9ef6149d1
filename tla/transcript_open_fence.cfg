CONSTANTS
    Pieces <- SomePieces
    Cuts <- OpenFence
    Questions <- TwoQuestions
    Texts <- SomeTexts
    MaxPieces = 3
SPECIFICATION Spec
CHECK_DEADLOCK FALSE
INVARIANT FeedShown
