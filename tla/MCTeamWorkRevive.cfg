SPECIFICATION WorkSpec
CONSTANTS
    s1 = s1
    r1 = r1
    r2 = r2
    c1 = c1
    c2 = c2
    Slots = {s1}
    NoSlot = NoSlot
    Sources = {"McpSendMessage"}
    Messages = {1, 2}
    Runs = {r1, r2}
    NoRun = NoRun
    NoRecord = NoRecord
    NoMessage = 0
    Leases = {l1, l2}
    Constraints = {"Ready"}
    MaxIntents = 2
    MaxOps = 2
    Callers = {c1, c2}
SYMMETRY RunSymmetry
PROPERTIES
    FinishedRunStaysFinished
CHECK_DEADLOCK FALSE
