CONSTANTS
    Pieces <- SomePieces
    Cuts <- SomeCuts
    Questions <- TwoQuestions
    Texts <- SomeTexts
    MaxPieces = 3
SPECIFICATION Spec
CHECK_DEADLOCK FALSE
INVARIANT TextIsNoMarker
