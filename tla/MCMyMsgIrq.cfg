SPECIFICATION Spec
CONSTANTS
    p1 = p1
    p2 = p2
    Nobody = Nobody
    MYLOG_BUF_LEN = 4
    Readers <- MCOneReader
    NonBlock <- MCNone
    Counts <- MCCounts
    IrqLogs = TRUE
    MaxChars = 6
PROPERTY ReadInOrder
