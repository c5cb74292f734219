SPECIFICATION FairSpec
CONSTANTS
    p1 = p1
    p2 = p2
    Procs = {p1, p2}
    Settings <- FewDisturbances
    Occs = {o1, o2}
    Tasks = {t1, t2}
    NoProc = NoProc
    NoOcc = NoOcc
    MaxRetries = 1
INVARIANTS
    TypeOK
    OccurrenceRunsAlone
    
PROPERTIES
    KeepsItsPromise
    OccurrencesEnd
    OwnersEndTheirRuns
CHECK_DEADLOCK FALSE
