SPECIFICATION FairSpec
CHECK_DEADLOCK FALSE
CONSTANTS
    Unit = {0, 1}
    Shapes <- MCShapes
    Default <- MCDefault
    MaxCount = 3
INVARIANTS
    TypeOK
    RingInOrder
    SyncMeansPlayed
    PollTruth
PROPERTIES
    StreamIsFifo
    CallReturns
