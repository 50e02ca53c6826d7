CONSTANTS
    Width = 3
    Height = 3
SPECIFICATION Spec
INVARIANTS
    TypeOK
    ShortestSoFar
CHECK_DEADLOCK FALSE
