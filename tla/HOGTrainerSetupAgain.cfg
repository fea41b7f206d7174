SPECIFICATION Spec
CONSTANTS
    Sizes <- NonEmpty
    Memory <- ZeroedMemory
    Catches = FALSE
    MaxSetups = 2
    MaxKeys = 8
CHECK_DEADLOCK FALSE
INVARIANT
    AccessInRange
