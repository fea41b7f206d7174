SPECIFICATION Spec
CONSTANTS
    w1 = w1
    w2 = w2
    c1 = c1
    c2 = c2
    s1 = s1
    s2 = s2
    Workers <- TwoWorkers
    Owner = c1
    Slots <- TwoSlots
    NoThread = NoThread
    NoSlot = NoSlot
    Callers <- OneCaller
    MaxTasks = 3
    Structured = TRUE
PROPERTY
    AddTaskRethrows
