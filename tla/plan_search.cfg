CONSTANTS
    Contexts <- MCContexts
    Game <- MCGame
    MaxActionNumber = 5
SPECIFICATION Spec
INVARIANTS
    TypeOK
    OneOfEachPerPlan
    StackIsPlan
    FirstActionLegal
PROPERTIES
    AnswersWithBestPlan
    Answers
