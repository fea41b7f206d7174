SPECIFICATION Spec
CONSTANTS
    NumImages = 2
    Outcomes <- AllOutcomes
    InitialFiles <- MCFiles
    MaxBoxes = 2
    MaxSaves = 3
    MaxNudges = 1
INVARIANT
    EveryNSaves
