SPECIFICATION FairSpec
CONSTANTS
    MaxThreads = 3
    MaxRows = 4
    Grains <- MCGrains
    GenLimit = 2
INVARIANTS
    TypeOK
    NoWorkerOutlivesItsCall
    RangesDisjoint
    RowsRunOnce
PROPERTIES
    ImplementsParallelFor
    EveryCallReturns
CHECK_DEADLOCK FALSE
