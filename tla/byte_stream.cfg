CONSTANTS
    Script <- MCScript
    Incoming <- MCIncoming
    Garbage = garbage
    MaxInterrupts = 1
    MaxSent = 12
SPECIFICATION Spec
INVARIANTS
    TypeOK
    SentOnceInOrder
    NoneLost
    ExitsOnlyIfClosed
PROPERTIES
    IsBytePipe
    Finishes
CHECK_DEADLOCK FALSE
