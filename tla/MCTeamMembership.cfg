SPECIFICATION FairMembershipSpec
CONSTANTS
    Agents = {a1}
    NoAgent = NoAgent
    MaxOps = 3
    Callers = {c1, c2}
    NoCaller = NoCaller
INVARIANTS
    MembershipTypeOK
    RemovedIsUnknown
    RemovedIsGone
    ReadyHasLoop
    EntryReflectsLatest
PROPERTIES
    OutcomeIsFinal
    RemovalIsExclusive
    SupersededLeaseIsInert
    OperationsEnd
CHECK_DEADLOCK FALSE
