CONSTANTS
    Width <- MCWidth
    Height <- MCHeight
    WorldCells <- MCWorldCells
    Visibilities <- MCVisibilities
    FloydTable <- MCFloydTable
    Team <- MCTeam
    Enemies <- MCEnemies
    EnemyCells <- MCEnemyCells
    Contexts <- NoContexts
    Game <- MCGame
    MaxActionNumber = 2
    ResetPeriod = 2
SPECIFICATION Spec
INVARIANTS
    TypeOK
    SearchCanStart
    NothingLeftBehind
    NoCollision
PROPERTY
    Decides
