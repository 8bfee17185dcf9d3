SPECIFICATION FairSpec
CONSTANTS
    Devs = {0, 1}
    Tensors <- MCTensors
    Deal <- MCDeal
    Wide <- MCWide
    Factor <- MCFactor
    Layer <- MCLayer
    Rows = {2, 4}
    SerialRows = {2}
    Staged <- MCTensors
    Taken <- MCTaken
    Int8 = TRUE
    DeferReads = {1, 2, 3, 5}
    Faults <- FaultPoints
    MaxFaults = 2
    MaxWrites = 3
INVARIANTS AnswersRight KeyTruthful OneJobPerBuffer
PROPERTIES NoGatherReplaced EveryGroupAnswered
CHECK_DEADLOCK FALSE
