SPECIFICATION Spec
CONSTANTS
    Sizes <- EmptyOrFew
    Memory <- ZeroedMemory
    Catches = TRUE
    MaxSetups = 2
    MaxKeys = 6
CHECK_DEADLOCK FALSE
INVARIANTS
    TypeOK
    TestCursorInRange
    RectsMatchPictures
    EveryImageIsShown
