SPECIFICATION Spec
CONSTANTS
    s1 = s1
    s2 = s2
    r1 = r1
    r2 = r2
    Slots = {s1}
    Sources = {"UserMessage", "UserCommand", "TeamMembershipChanged"}
    Messages = {1, 2}
    Runs = {r1}
    NoRun = NoRun
    NoMessage = 0
    Leases = {l1}
    Constraints = {"Ready", "Failed", "Removing", "SessionStopped"}
    MaxIntents = 3
    MaxOps = 2
CONSTRAINT TwoUnlessUndisturbed
INVARIANTS
    CommandsTravelAlone
    NoOvertaking
    TypeOK
    EveryIntentHasOnePlace
PROPERTIES
    TerminalIsFinal
    CancelRunIsExact
CHECK_DEADLOCK FALSE
