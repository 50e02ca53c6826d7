SPECIFICATION BatchSpec
CONSTANTS
    TeamSize = 1
    MaxContexts = 1
    Places = {1, 2, 3}
    MaxGames = 2
INVARIANTS PlusesAreEarned
CHECK_DEADLOCK FALSE
