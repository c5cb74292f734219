SPECIFICATION DeliverySpec
CONSTANTS
    s1 = s1
    interruption = interruption
    teammate = teammate
    message = message
    signal = signal
    r1 = r1
    r2 = r2
    Slots = {s1}
    NoSlot = NoSlot
    Sources = {"InterruptedNotification", "McpSendMessage", "UserMessage", "TeamMembershipChanged"}
    Messages = {1, 2}
    Runs = {r1, r2}
    NoRun = NoRun
    NoRecord = NoRecord
    NoMessage = 0
    Producers = {interruption, teammate, message, signal}
    Leases = {interruption, teammate, message, signal}
    User = user
    Callers = {interruption, teammate, message, signal, s1, user}
    SourceOf <- CallSources
    TargetOf <- AllToFirst
    Constraints = {"Ready", "Starting"}
    MaxIntents = 7
    MaxOps = 6
    Settings <- TwoMessages
ACTION_CONSTRAINT FirstRunFirst
INVARIANTS
    TurnsReadWhatTheyWereGiven
CHECK_DEADLOCK FALSE
