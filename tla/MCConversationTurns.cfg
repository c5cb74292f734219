SPECIFICATION FairSpec
CONSTANTS
    Turns = {t1, t2}
    TeamTurns = {t2}
    Callers = {c1, c2}
    NoTurn = NoTurn
    MaxContinuations = 1
    Settings <- SmallSettings
INVARIANTS
    TypeOK
    WorkingTurnHoldsClaim
    DeletingIsCleared
    WithdrawnWasAsked
    SleeperIsNotForgotten
PROPERTIES
    CancelEndsTurn
CHECK_DEADLOCK FALSE
