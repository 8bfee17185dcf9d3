SPECIFICATION Spec
CONSTANTS
    W1Bank = 7
    Corpora = {}
    Merges = 3
    Words = {}
    Texts = {}
    Turns = {}
    Tokenizers = {}
    Shapes = {}
    PackShapes = {}
    Regrows = {}
    Jobs = {}
    Captures = {}
    Files = {}
    Written = {}
    NCtx = 6
    Sessions = {}
    Multiplies = {}
    Tiles = {}
    Quantisings = {}
    Histories <- MCArithmeticChanged
    BatchMax = 3
    Quad = 2
    Octet = 4
INVARIANTS
    NeverSilentlyDisagrees
CHECK_DEADLOCK FALSE
