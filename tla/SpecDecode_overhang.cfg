SPECIFICATION FairSpec
CONSTANTS
    TokA = TokA
    TokB = TokB
    Eog = Eog
    NoToken = NoToken
    Token <- MCToken
    Models <- MCModels
    Argmax <- MCArgmax
    Prompts <- MCPrompts
    Configs <- MCSpecChat
    NCtx = 14
    Slack = 5
    MirrorMin = 3
    AtomRows = 3
    NGen = 3
    Chunk = 4
    Cap = 4
    NGram = 3
    MaxTurns = 2
    MaxRefusals = 1
PROPERTY ImplementsGreedy
CHECK_DEADLOCK FALSE
