CONSTANTS
    TeamSize = 2
    MaxContexts = 3
SPECIFICATION Spec
INVARIANTS
    TypeOK
    InStep
    NeverBothWaiting
    OneAnswerEach
    SuccessMeansGameOver
PROPERTIES
    EndsWhenAlone
CHECK_DEADLOCK FALSE
