SPECIFICATION Spec
CONSTANTS
    Units <- mcUnits
    MaxFaults = 0
    Layers = 2
    NKv = 2
    NCtx = 5
    Pair = 2
    Step = 150
    Copies <- mcCopied
    Memories <- mcMemories
    Heads = 4
    HeadDim <- mcAlike
    Groups = 2
    Area = 8
    Lens <- mcLens
    Chunk = 3
    Transient = TRUE
    MaxTurns = 3
INVARIANT NothingScrambled
CHECK_DEADLOCK FALSE
