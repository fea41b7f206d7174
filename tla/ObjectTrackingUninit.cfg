SPECIFICATION Spec
CONSTANTS
    Points <- MCPoints
    InVideo <- MCInVideo
    InitialFlags <- UninitialisedFlags
    InitialSels <- ZeroedSels
    MaxFrames = 4
    MaxSelections = 3
CHECK_DEADLOCK FALSE
INVARIANT
    NeverUpdatesBeforeStart
