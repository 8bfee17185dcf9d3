SPECIFICATION Spec
CONSTANTS
    Units <- mcUnits
    MaxFaults = 1
    Layers = 2
    NKv = 2
    NCtx = 5
    Pair = 2
    Step = 150
    Copies <- mcCopies
    Memories <- mcMemories
    Heads = 4
    HeadDim <- mcAlike
    Groups = 2
    Area = 8
    Lens <- mcLens
    Chunk = 3
    Transient = FALSE
    MaxTurns = 3
INVARIANTS AttentionRight DeadJobsNoticed
PROPERTIES BuffersStill EveryLayerEnds
CHECK_DEADLOCK FALSE
