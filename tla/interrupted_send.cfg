CONSTANTS
    Script <- WriteOnly
    Incoming <- MCIncoming
    Garbage = garbage
    MaxInterrupts = 1
    MaxSent = 12
SPECIFICATION Spec
INVARIANTS
    NeverOversent
CHECK_DEADLOCK FALSE
