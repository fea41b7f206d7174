SPECIFICATION Spec
CONSTANTS
    Points <- MCPoints
    InVideo <- MCInVideo
    InitialFlags <- UninitialisedFlags
    InitialSels <- UninitialisedSels
    MaxFrames = 4
    MaxSelections = 3
CHECK_DEADLOCK FALSE
INVARIANTS
    TypeOK
    StopsOnlyUnselected
    DetsFollowTheirTracks
    NewestDetIsCurrent
    LatestSelectionWins
    TracksBeginOnSelections
PROPERTIES
    OldDetsStayPut
