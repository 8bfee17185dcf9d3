SPECIFICATION Spec
CONSTANTS
    TokA = TokA
    TokB = TokB
    Eog = Eog
    NoToken = NoToken
    Token <- MCToken
    Models <- MCModels
    Argmax <- MCArgmax
    Prompts <- MCPrompts
    Configs <- MCChat
    NCtx = 11
    Slack = 5
    MirrorMin = 3
    AtomRows = 3
    NGen = 3
    Chunk = 4
    Cap = 4
    NGram = 3
    MaxTurns = 2
    MaxRefusals = 1
INVARIANT MirrorFilled
CHECK_DEADLOCK FALSE
