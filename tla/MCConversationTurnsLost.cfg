SPECIFICATION FairSpec
CONSTANTS
    Turns = {t1, t2}
    TeamTurns = {t2}
    Callers = {c1, c2}
    NoTurn = NoTurn
    MaxContinuations = 1
    Settings <- SmallSettings
INVARIANTS
    DeferredCancelIsApplied
CHECK_DEADLOCK FALSE
