SPECIFICATION FairSpec
CONSTANTS
    w1 = w1
    w2 = w2
    w3 = w3
    p1 = p1
    p2 = p2
    j1 = j1
    j2 = j2
    Workers <- MCWorkers
    Producers <- MCProducers
    Jobs <- MCJobs
    Requests <- MCRequests
    Owner = owner
    None = none
INVARIANTS
    TypeOK
    WorkConserving
    NoneSleepsThroughDestroy
    EveryWorkerTold
PROPERTIES
    NothingStartsAfterDestroy
    ImplementsPool
    PushedJobRuns
    DestroyEnds
CHECK_DEADLOCK FALSE
