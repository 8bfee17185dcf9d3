SPECIFICATION FairSpec
CONSTANTS
    Tensors <- MCTensors
    Shape <- MCShape
    Configs <- MCConfigs
    RowAtom = 1
    TaskCost = 1
    Faults = {"build", "outbuf", "slice", "submit"}
    MaxFaults = 1
    Calls <- MCCalls
    MaxCalls = 2
    AwqShare = FALSE
INVARIANTS FencedAnswersRight SlicesTile OutputsApart MemoTruthful
PROPERTIES EveryCallAnswered
CHECK_DEADLOCK FALSE
