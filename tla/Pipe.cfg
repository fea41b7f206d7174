SPECIFICATION FairSpec
CONSTANTS
    a = a
    b = b
    c = c
    Threads <- ThreeThreads
    Calls <- CallsOf
    Owner = a
    MaxSizes = {0, 2}
    Nums = {1}
    MaxItems = 3
INVARIANTS
    TypeOK
    WaitersCounted
    SleepersHaveReason
    ItemsHaveTakers
    FreedOnlyWhenLeft
PROPERTIES
    ImplementsChannel
    DisableReleases
    DestructionEnds
