SPECIFICATION Spec
CONSTANTS
    p1 = p1
    p2 = p2
    t1 = t1
    t2 = t2
    Procs <- MCProcs
    Threads <- MCThreads
    NonBlock <- MCNonBlock
    NLines = 2
    UpFirst = TRUE
    WaitTwice = TRUE
    Debounced = FALSE
INVARIANT OneUser
