SPECIFICATION Spec
CONSTANTS
    Callers = {c1, c2, c3}
    Versions = {0, 2}
    MaxCells = 2
    MaxTokens = 3
SYMMETRY CallerSymmetry
INVARIANTS
    TypeOK
    NoAgentEscapesByBuilding
    RemovedAgentsHaveNoToken
PROPERTIES
    KillWaitsForBuilds
CHECK_DEADLOCK FALSE
