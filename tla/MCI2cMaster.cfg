SPECIFICATION FairSpec
CONSTANTS
    Size = 3
    Data <- MCData
    Lens <- MCLens
    Junk <- MCJunk
INVARIANTS
    TypeOK
    WriteOutcome
    ReadOutcome
    WaitsForInterrupts
PROPERTIES
    StopsAfterNack
    CallReturns
\* After a read of length zero main may spin for ever, or be lost.
CHECK_DEADLOCK FALSE
