SPECIFICATION FairSpec
CONSTANTS
    TokA = A
    TokB = B
    Eog = EOG
    NoToken = none
    Token <- MCToken
    Models <- MCModels
    Argmax <- MCArgmax
    Requests <- MCRequests
    Warm <- MCWarm
    Clients = {c1, c2}
    NCtx = 7
    Slack = 1
    MirrorMin = 0
    AtomRows = 0
    Headroom = 1
    CachedMax = 4
    MaxAsks = 3
    MaxFailures = 1
INVARIANTS
    RememberedIsHeld
    HoldOnlyWhileServing
PROPERTIES
    ImplementsEndpoint
    EveryClientAnswered
CHECK_DEADLOCK FALSE
