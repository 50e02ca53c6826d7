SPECIFICATION Spec
CONSTANTS
    Widths = {1, 2, 3, 4, 5}
    Heights = {1, 2, 3, 4}
    IntLimit = 512
INVARIANTS LooksUpOwnEntry ReadsWholeGrid
PROPERTIES Concludes
CHECK_DEADLOCK FALSE
