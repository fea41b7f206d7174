SPECIFICATION Spec
CONSTANTS
    a = a
    b = b
    c = c
    Threads <- ThreeThreads
    Calls <- CallsOf
    Owner = a
    MaxSizes = {1}
    Nums = {1}
    MaxItems = 2
INVARIANTS
    BlockedDequeuesSeen
