SPECIFICATION Spec
CONSTANTS
    W1Bank = 7
    Corpora <- MCCorpora
    Merges = 3
    Words <- MCWords
    Texts <- MCTexts
    Turns <- MCTurns
    Tokenizers <- MCTokenizers
    Shapes <- MCShapes
    PackShapes <- MCPackShapes
    Regrows <- MCRegrows
    Jobs <- MCJobs
    Captures <- MCCaptures
    Files <- MCFiles
    Written <- MCWritten
    NCtx = 6
    Sessions <- MCSessions
    Multiplies <- MCMultiplies
    Tiles <- MCTiles
    Quantisings <- MCQuantisings
    Histories <- MCHistories
    BatchMax = 3
    Quad = 2
    Octet = 4
INVARIANTS
    SegmentationAgrees
    PretokLikeRegex
    RoundTrip
    PlacesApart
    SplitPackIsWhole
    RegrowIsRepack
    StreamsRight
    LoadedModelRuns
    BatchIsTokenwise
    KernelsAgree
    CacheIsQuantiser
CHECK_DEADLOCK FALSE
