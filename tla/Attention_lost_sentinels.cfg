SPECIFICATION Spec
CONSTANTS
    Units <- mcUnits
    MaxFaults = 1
    Layers = 2
    NKv = 2
    NCtx = 5
    Pair = 2
    Step = 150
    Copies <- mcCopied
    Memories <- mcMemoryAmple
    Heads = 4
    HeadDim <- mcUnlike
    Groups = 2
    Area = 8
    Lens <- mcLens
    Chunk = 3
    Transient = FALSE
    MaxTurns = 1
INVARIANT DeadJobsNoticed
CHECK_DEADLOCK FALSE
