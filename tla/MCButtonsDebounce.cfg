SPECIFICATION FairSpec
CONSTANTS
    p1 = p1
    p2 = p2
    t1 = t1
    t2 = t2
    Procs <- MCProcs
    Threads <- MCThreads
    NonBlock <- MCNonBlock
    NLines = 2
    UpFirst = FALSE
    WaitTwice = FALSE
    Debounced = TRUE
INVARIANTS
    TypeOK
    OneUser
    OpenHasIrqs
    DebouncedValue
    NoSleepOnEvent
PROPERTIES
    PressReachesReader
