SPECIFICATION FairSpec
CONSTANTS
    RxSlots = 1
    CONT_RX_PKT_CNT = 2
INVARIANTS
    TypeOK
    NoOverrun
    EventIsServed
    RxNotForgotten
PROPERTIES
    QueueRestarts
