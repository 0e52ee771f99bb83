SPECIFICATION Spec
CONSTANTS
    p1 = p1
    p2 = p2
    Nobody = Nobody
    MYLOG_BUF_LEN = 4
    Readers <- MCReaders
    NonBlock <- MCNonBlock
    Counts <- MCCounts
    IrqLogs = FALSE
    MaxChars = 6
INVARIANTS
    TypeOK
    LogIsTail
    NoSleepOnData
PROPERTIES
    ReadInOrder
