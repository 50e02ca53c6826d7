CONSTANTS
    TeamSize = 1
    MaxContexts = 1
    Places = {1, 2, 3}
    MaxGames = 2
SPECIFICATION BatchSpec
INVARIANTS
    CountersAreTrue
    ReportsOwnGame
PROPERTIES
    RestartsOnlyUnheard
    OneGameAtATime
    SlowSimulatorServed
    EnteredGamesEnd
CHECK_DEADLOCK FALSE
