SPECIFICATION Spec
CONSTANTS
    Callers = {c1, c2}
    Versions = {2}
    MaxCells = 2
    MaxTokens = 2
INVARIANTS
    AtMostOneAgent
CHECK_DEADLOCK FALSE
