------------------------ MODULE MemberRuntimeProofs ------------------------
(***************************************************************************)
(* Proofs about MemberRuntime, for every set of slots and every bound on    *)
(* the number of operations.                                               *)
(***************************************************************************)
EXTENDS MemberRuntime, TLAPS

\* The initial state satisfies the inductive invariant.
LEMMA InitIInv == Init => IInv
<1> SUFFICES ASSUME Init PROVE IInv
  OBVIOUS
<1> USE NoAgentAssumption, MaxOpsAssumption DEF Init
<1>1. TypeOK
  <2>1. entries \in [Agents -> MemberRuntimeEntry]
    BY DEF MemberRuntimeEntry
  <2>2. nextOp \in 1..(MaxOps + 1)
    OBVIOUS
  <2>3. signal \in [OpId -> AttachSignal] /\ opAgent \in [OpId -> Agents \cup {NoAgent}]
    BY DEF AttachSignal
  <2> QED BY <2>1, <2>2, <2>3 DEF TypeOK
<1>2. Bookkeeping
  BY DEF Bookkeeping, OpId, Absent
<1>3. EntryReflectsLatest
  BY DEF EntryReflectsLatest, Latest
<1>4. NoOrphanWaiter
  BY DEF NoOrphanWaiter, OpId
<1> QED BY <1>1, <1>2, <1>3, <1>4 DEF IInv

\* Starting an operation on a slot whose current operation, if any, has ended or
\* ends in this very step keeps the invariant.
LEMMA StartOperationIInv ==
  ASSUME IInv, NEW a \in Agents, NEW st \in {"Attaching", "Removing"},
         NEW kind \in {"attach", "remove"},
         StartOperation(a, st, kind), ~stopped, stopped' = stopped,
         \/ /\ signal' = signal
            /\ entries[a].state \in {"Absent", "Ready", "Failed"}
         \/ /\ entries[a].state = "Attaching"
            /\ signal' = [signal EXCEPT ![entries[a].op] = "Removed"]
  PROVE  IInv'
<1> USE NoAgentAssumption, MaxOpsAssumption
<1>1. TypeOK'
  <2>1. nextOp \in OpId /\ nextOp' = nextOp + 1
    BY DEF StartOperation
  <2>2. InFlight(st, nextOp) \in MemberRuntimeEntry
    BY <2>1 DEF MemberRuntimeEntry
  <2>3. entries' \in [Agents -> MemberRuntimeEntry]
    BY <2>2 DEF StartOperation, IInv, TypeOK
  <2>4. nextOp' \in 1..(MaxOps + 1)
    BY <2>1 DEF OpId
  <2>5. signal' \in [OpId -> AttachSignal]
    BY DEF IInv, TypeOK, AttachSignal, AttachOutcome
  <2>6. leases' \subseteq Lease
    BY <2>1 DEF StartOperation, IInv, TypeOK, Lease
  <2>7. opAgent' \in [OpId -> Agents \cup {NoAgent}]
    BY DEF StartOperation, IInv, TypeOK
  <2> QED BY <2>3, <2>4, <2>5, <2>6, <2>7 DEF IInv, TypeOK
<1>a. nextOp \in OpId /\ nextOp' = nextOp + 1
  BY DEF StartOperation
<1>b. ASSUME entries[a].state = "Attaching"
      PROVE  entries[a].op \in OpId /\ entries[a].op < nextOp /\ Latest(a, entries[a].op)
  BY <1>b DEF IInv, TypeOK, Bookkeeping, MemberRuntimeEntry, InFlight, Absent, Ready, OpId
<1>c. \A op \in OpId : op # nextOp => opAgent'[op] = opAgent[op]
  BY DEF StartOperation, IInv, TypeOK
<1>d. opAgent'[nextOp] = a /\ opAgent[nextOp] = NoAgent
  BY <1>a DEF StartOperation, IInv, TypeOK, Bookkeeping, OpId
<1>e. \A op \in OpId : Latest(a, op)' => op = nextOp
  <2> SUFFICES ASSUME NEW op \in OpId, Latest(a, op)', op # nextOp PROVE FALSE
    OBVIOUS
  <2>1. op < nextOp => FALSE
    BY <1>a, <1>d DEF Latest, OpId
  <2>2. op > nextOp => FALSE
    BY <1>a, <1>c DEF Latest, OpId, IInv, Bookkeeping
  <2> QED BY <2>1, <2>2, <1>a DEF OpId
<1>f. \A b \in Agents, op \in OpId : b # a => (Latest(b, op)' <=> Latest(b, op))
  BY <1>a, <1>c, <1>d DEF Latest, OpId
<1>g. \A op \in OpId : op = nextOp => Latest(a, op)'
  BY <1>a, <1>c, <1>d DEF Latest, OpId, IInv, Bookkeeping
<1>h. \A op \in OpId : op >= nextOp => signal'[op] = "Pending"
  BY <1>a, <1>b DEF IInv, TypeOK, Bookkeeping, OpId
<1>i. \A b \in Agents : b # a => entries'[b] = entries[b]
  BY DEF StartOperation, IInv, TypeOK
<1>j. entries'[a] = InFlight(st, nextOp)
  BY DEF StartOperation, IInv, TypeOK
<1>2. Bookkeeping'
  <2>1. \A op \in OpId : op >= nextOp' => opAgent'[op] = NoAgent /\ signal'[op] = "Pending"
    BY <1>a, <1>c, <1>h DEF IInv, Bookkeeping, OpId
  <2>2. \A op \in OpId : op < nextOp' => opAgent'[op] \in Agents
    BY <1>a, <1>c, <1>d DEF IInv, Bookkeeping, OpId
  <2>3. ASSUME NEW b \in Agents, entries'[b].op # 0
        PROVE  entries'[b].op < nextOp' /\ Latest(b, entries[b].op)'
    <3>1. CASE b = a
      BY <3>1, <1>a, <1>g, <1>j DEF InFlight, Latest, OpId
    <3>2. CASE b # a
      <4>1. entries[b].op \in OpId /\ entries[b].op < nextOp /\ Latest(b, entries[b].op)
        BY <3>2, <2>3, <1>i DEF IInv, TypeOK, Bookkeeping, MemberRuntimeEntry, InFlight, Absent, Ready
      <4>2. Latest(b, entries[b].op)'
        BY <4>1, <3>2, <1>f, <1>i DEF Latest
      <4> QED BY <4>1, <4>2, <3>2, <1>a, <1>i DEF OpId
    <3> QED BY <3>1, <3>2
  <2>4. \A l \in leases' : l.op < nextOp' /\ opAgent'[l.op] = l.agent
    BY <1>a, <1>c, <1>d DEF IInv, TypeOK, Bookkeeping, StartOperation, OpId, Lease
  <2> QED BY <2>1, <2>2, <2>3, <2>4 DEF Bookkeeping
<1>3. EntryReflectsLatest'
  <2> SUFFICES ASSUME NEW b \in Agents, NEW op \in OpId, Latest(b, op)'
               PROVE  \/ signal'[op] = "Pending" /\ entries'[b] \in {InFlight("Attaching", op), InFlight("Removing", op)}
                      \/ signal'[op] = "Ready" /\ entries'[b] = Ready
                      \/ signal'[op] = "Failed" /\ entries'[b] = InFlight("Failed", op)
                      \/ signal'[op] = "Removed" /\ entries'[b] = Absent
    BY DEF EntryReflectsLatest
  <2>1. CASE b = a
    BY <2>1, <1>a, <1>e, <1>h, <1>j DEF OpId
  <2>2. CASE b # a
    <3>1. Latest(b, op) /\ entries'[b] = entries[b]
      BY <2>2, <1>f, <1>i
    <3>2. signal'[op] = signal[op]
      BY <3>1, <2>2, <1>b DEF Latest, IInv, TypeOK
    <3> QED BY <3>1, <3>2 DEF IInv, EntryReflectsLatest
  <2> QED BY <2>1, <2>2
<1>4. NoOrphanWaiter'
  BY DEF IInv, TypeOK, Bookkeeping, EntryReflectsLatest, NoOrphanWaiter, StartOperation, OpId, Latest, InFlight, MemberRuntimeEntry, Absent, Ready
<1> QED BY <1>1, <1>2, <1>3, <1>4 DEF IInv

\* A commit keeps the invariant, whether its lease is current (the entry and the
\* channel change together) or superseded (nothing changes but the leases).
LEMMA CommitIInv ==
  ASSUME IInv, NEW l \in leases, NEW st \in {"Attaching", "Removing"},
         NEW outcome, NEW entry, Commit(l, st, entry, outcome),
         \/ outcome = "Ready" /\ entry = Ready
         \/ outcome = "Failed" /\ entry = InFlight("Failed", l.op)
         \/ outcome = "Removed" /\ entry = Absent
  PROVE  IInv'
<1> USE NoAgentAssumption, MaxOpsAssumption
<1>0. /\ l \in Lease /\ l.agent \in Agents /\ l.op \in OpId
      /\ l.op < nextOp /\ opAgent[l.op] = l.agent
  BY DEF IInv, TypeOK, Bookkeeping, Lease
<1>1. CASE ~Current(l, st)
  BY <1>1 DEF Commit, IInv, TypeOK, Bookkeeping, EntryReflectsLatest, NoOrphanWaiter, Latest
<1>2. CASE Current(l, st)
  <2>1. /\ ~stopped /\ entries[l.agent] = InFlight(st, l.op)
        /\ entries' = [entries EXCEPT ![l.agent] = entry]
        /\ signal' = [signal EXCEPT ![l.op] = outcome]
        /\ leases' \subseteq leases
        /\ UNCHANGED <<nextOp, stopped, opAgent>>
    BY <1>2 DEF Commit, Current, Settle
  <2>2. Latest(l.agent, l.op)
    BY <1>0, <2>1 DEF IInv, Bookkeeping, InFlight, OpId
  <2>3. \A op \in OpId : Latest(l.agent, op) => op = l.op
    BY <1>0, <2>2 DEF Latest, OpId
  <2>4. \A b \in Agents, op \in OpId : Latest(b, op)' <=> Latest(b, op)
    BY <2>1 DEF Latest
  <2>5. entry \in MemberRuntimeEntry /\ entry.op \in {0, l.op}
    BY <1>0 DEF MemberRuntimeEntry, InFlight, Absent, Ready
  <2>6. TypeOK'
    BY <2>1, <2>5 DEF IInv, TypeOK, AttachSignal, AttachOutcome
  <2>7. Bookkeeping'
    <3>1. ASSUME NEW b \in Agents, entries'[b].op # 0
          PROVE  entries'[b].op < nextOp' /\ Latest(b, entries[b].op)'
      <4>1. CASE b = l.agent
        <5>1. entries'[b] = entry /\ entries'[b].op = l.op
          BY <4>1, <3>1, <2>1, <2>5, <1>0 DEF IInv, TypeOK
        <5> QED BY <5>1, <4>1, <2>1, <2>2, <1>0 DEF Latest
      <4>2. CASE b # l.agent
        <5>1. entries'[b] = entries[b]
          BY <4>2, <2>1 DEF IInv, TypeOK
        <5> QED BY <5>1, <3>1, <2>1 DEF IInv, Bookkeeping, Latest
      <4> QED BY <4>1, <4>2
    <3>2. \A op \in OpId : op >= nextOp' => opAgent'[op] = NoAgent /\ signal'[op] = "Pending"
      BY <2>1, <1>0 DEF IInv, TypeOK, Bookkeeping, OpId
    <3>3. \A op \in OpId : op < nextOp' => opAgent'[op] \in Agents
      BY <2>1 DEF IInv, Bookkeeping
    <3>4. \A k \in leases' : k.op < nextOp' /\ opAgent'[k.op] = k.agent
      BY <2>1 DEF IInv, Bookkeeping
    <3> QED BY <3>1, <3>2, <3>3, <3>4 DEF Bookkeeping
  <2>8. EntryReflectsLatest'
    <3> SUFFICES ASSUME NEW b \in Agents, NEW op \in OpId, Latest(b, op)
                 PROVE  \/ signal'[op] = "Pending" /\ entries'[b] \in {InFlight("Attaching", op), InFlight("Removing", op)}
                        \/ signal'[op] = "Ready" /\ entries'[b] = Ready
                        \/ signal'[op] = "Failed" /\ entries'[b] = InFlight("Failed", op)
                        \/ signal'[op] = "Removed" /\ entries'[b] = Absent
      BY <2>1, <2>4 DEF EntryReflectsLatest
    <3>1. CASE b = l.agent
      <4>1. op = l.op
        BY <3>1, <2>3
      <4> QED BY <4>1, <3>1, <2>1, <1>0 DEF IInv, TypeOK
    <3>2. CASE b # l.agent
      <4>1. op # l.op
        BY <3>2, <1>0 DEF Latest
      <4> QED BY <4>1, <3>2, <2>1 DEF IInv, TypeOK, EntryReflectsLatest
    <3> QED BY <3>1, <3>2
  <2>9. NoOrphanWaiter'
    <3> SUFFICES ASSUME NEW op \in OpId, op < nextOp, signal'[op] = "Pending"
                 PROVE  entries'[opAgent[op]] \in {InFlight("Attaching", op), InFlight("Removing", op)}
      BY <2>1 DEF NoOrphanWaiter
    <3>1. op # l.op /\ signal[op] = "Pending"
      BY <2>1, <1>0 DEF IInv, TypeOK
    <3>2. opAgent[op] # l.agent
      <4>0. entries[opAgent[op]] \in {InFlight("Attaching", op), InFlight("Removing", op)}
        BY <3>1 DEF IInv, NoOrphanWaiter
      <4>1. entries[opAgent[op]].op = op
        BY <4>0 DEF InFlight
      <4>2. entries[l.agent].op = l.op
        BY <2>1 DEF InFlight
      <4> QED BY <4>1, <4>2, <3>1
    <3> QED BY <3>1, <3>2, <2>1 DEF IInv, TypeOK, Bookkeeping, NoOrphanWaiter
  <2> QED BY <2>6, <2>7, <2>8, <2>9 DEF IInv
<1> QED BY <1>1, <1>2

\* Stop keeps the invariant: every pending channel gets SessionStopped.
LEMMA StopIInv ==
  ASSUME IInv, Stop
  PROVE  IInv'
<1> USE NoAgentAssumption, MaxOpsAssumption DEF Stop
<1>1. TypeOK'
  BY DEF IInv, TypeOK, AttachSignal, AttachOutcome, MemberRuntimeEntry
<1>2. Bookkeeping'
  <2>1. \A op \in OpId : op >= nextOp => signal'[op] = "Pending"
    <3> SUFFICES ASSUME NEW op \in OpId, op >= nextOp,
                        NEW a \in Agents, NEW st \in {"Attaching", "Removing"},
                        entries[a] = InFlight(st, op)
                 PROVE  FALSE
      BY DEF IInv, TypeOK, Bookkeeping
    <3> QED BY DEF IInv, TypeOK, Bookkeeping, InFlight, OpId
  <2> QED BY <2>1 DEF IInv, Bookkeeping, Absent, Latest
<1>3. EntryReflectsLatest'
  BY DEF EntryReflectsLatest
<1>4. NoOrphanWaiter'
  <2> SUFFICES ASSUME NEW op \in OpId, op < nextOp, signal'[op] = "Pending" PROVE FALSE
    BY DEF NoOrphanWaiter
  <2>1. signal[op] = "Pending"
    BY DEF IInv, TypeOK
  <2>2. opAgent[op] \in Agents
    BY DEF IInv, Bookkeeping
  <2> QED BY <2>1, <2>2 DEF IInv, NoOrphanWaiter, TypeOK
<1> QED BY <1>1, <1>2, <1>3, <1>4 DEF IInv

\* Every step of the registry keeps the inductive invariant.
LEMMA NextIInv == IInv /\ [Next]_vars => IInv'
<1> SUFFICES ASSUME IInv, [Next]_vars PROVE IInv'
  OBVIOUS
<1> USE NoAgentAssumption, MaxOpsAssumption
<1>0. ASSUME UNCHANGED vars
      PROVE  IInv'
  BY <1>0 DEF vars, IInv, TypeOK, Bookkeeping, EntryReflectsLatest, NoOrphanWaiter, Latest
<1>1. ASSUME NEW a \in Agents, StartAttach(a), ~stopped,
             entries[a].state \in {"Absent", "Ready", "Failed"}
      PROVE  IInv'
  BY <1>1, StartOperationIInv DEF StartAttach
<1>2. ASSUME NEW a \in Agents, NEW retryFailed \in BOOLEAN, ReserveAttach(a, retryFailed)
      PROVE  IInv'
  BY <1>0, <1>1, <1>2 DEF ReserveAttach, Join
<1>3. ASSUME NEW a \in Agents, ReserveRepair(a)
      PROVE  IInv'
  BY <1>0, <1>1, <1>3 DEF ReserveRepair, Join
<1>4. ASSUME NEW a \in Agents, BeginRemove(a)
      PROVE  IInv'
  BY <1>0, <1>4, StartOperationIInv DEF BeginRemove, Join
<1>5. ASSUME NEW l \in leases, CommitSome(l)
      PROVE  IInv'
  BY <1>5, CommitIInv DEF CommitSome, CommitReady, CommitFailed, FinishRemove, RestoreAttachRequired
<1>6. CASE Stop
  BY <1>6, StopIInv
<1>7. ASSUME NEW l \in leases, DropLease(l)
      PROVE  IInv'
  BY <1>7 DEF DropLease, IInv, TypeOK, Bookkeeping, EntryReflectsLatest, NoOrphanWaiter, Latest
<1> QED BY <1>0, <1>2, <1>3, <1>4, <1>5, <1>6, <1>7 DEF Next

----------------------------------------------------------------------------
\* The only steps that change the channel of an operation that has started are
\* its own commit, the removal of its slot and stop.
LEMMA NextOutcomeIsFinal ==
  ASSUME IInv, [Next]_vars, NEW op \in OpId, signal[op] # "Pending"
  PROVE  signal'[op] = signal[op]
<1> USE NoAgentAssumption, MaxOpsAssumption
<1>1. ASSUME NEW a \in Agents, NEW retryFailed \in BOOLEAN, ReserveAttach(a, retryFailed)
      PROVE  signal' = signal
  BY <1>1 DEF ReserveAttach, Join, StartAttach, vars
<1>2. ASSUME NEW a \in Agents, ReserveRepair(a)
      PROVE  signal' = signal
  BY <1>2 DEF ReserveRepair, Join, StartAttach, vars
<1>3. ASSUME NEW a \in Agents, entries[a].state \in {"Attaching", "Removing"}
      PROVE  entries[a].op \in OpId /\ signal[entries[a].op] = "Pending"
  <2>1. /\ entries[a].op \in OpId /\ Latest(a, entries[a].op) /\ entries[a] # Absent
        /\ entries[a] # Ready /\ entries[a] # InFlight("Failed", entries[a].op)
    BY <1>3 DEF IInv, TypeOK, Bookkeeping, MemberRuntimeEntry, InFlight, Absent, Ready, OpId
  <2> QED BY <2>1 DEF IInv, EntryReflectsLatest
<1>4. ASSUME NEW a \in Agents, BeginRemove(a)
      PROVE  signal'[op] = signal[op]
  BY <1>3, <1>4 DEF BeginRemove, Join, vars, IInv, TypeOK
<1>5. ASSUME NEW l \in leases, CommitSome(l)
      PROVE  signal'[op] = signal[op]
  <2>1. PICK st \in {"Attaching", "Removing"} :
            \/ signal' = signal
            \/ Current(l, st) /\ \E outcome : signal' = [signal EXCEPT ![l.op] = outcome]
    BY <1>5 DEF CommitSome, CommitReady, CommitFailed, FinishRemove, RestoreAttachRequired,
                Commit, Settle
  <2>2. CASE signal' = signal
    BY <2>2
  <2>3. ASSUME Current(l, st), NEW outcome, signal' = [signal EXCEPT ![l.op] = outcome]
        PROVE  signal'[op] = signal[op]
    <3>1. l.agent \in Agents /\ entries[l.agent].state = st /\ entries[l.agent].op = l.op
      BY <2>3 DEF Current, InFlight, IInv, TypeOK, Lease
    <3> QED BY <3>1, <1>3, <2>3 DEF IInv, TypeOK
  <2> QED BY <2>1, <2>2, <2>3
<1>6. ASSUME Stop
      PROVE  signal'[op] = signal[op]
  <2> SUFFICES ASSUME NEW a \in Agents, NEW st \in {"Attaching", "Removing"},
                      entries[a] = InFlight(st, op)
               PROVE  FALSE
    BY <1>6 DEF Stop
  <2> QED BY <1>3 DEF InFlight
<1>7. ASSUME NEW l \in leases, DropLease(l)
      PROVE  signal' = signal
  BY <1>7 DEF DropLease
<1> QED BY <1>1, <1>2, <1>4, <1>5, <1>6, <1>7 DEF Next, vars

----------------------------------------------------------------------------
\* What a commit does: it consumes its lease, and it touches the slot and the
\* channel only while the lease is the slot's last operation.
LEMMA CommitFacts ==
  ASSUME IInv, NEW l \in leases, CommitSome(l)
  PROVE  /\ leases' = leases \ {l}
         /\ Latest(l.agent, l.op) \/ (entries' = entries /\ signal' = signal)
         /\ \A a \in Agents : entries[a].state = "Removing" =>
               \/ entries'[a] = entries[a]
               \/ l.kind = "remove" /\ l.op = entries[a].op
<1>1. PICK st, entry, outcome :
          /\ Commit(l, st, entry, outcome)
          /\ \/ l.kind = "attach" /\ st = "Attaching"
             \/ l.kind = "remove" /\ st = "Removing"
  BY DEF CommitSome, CommitReady, CommitFailed, FinishRemove, RestoreAttachRequired
<1>2. l.agent \in Agents /\ l.op \in OpId /\ l.op # 0
  BY MaxOpsAssumption DEF IInv, TypeOK, Lease, OpId
<1>3. CASE Current(l, st)
  <2>1. entries[l.agent].state = st /\ entries[l.agent].op = l.op
    BY <1>3 DEF Current, InFlight
  <2>2. Latest(l.agent, l.op)
    BY <1>2, <2>1 DEF IInv, Bookkeeping
  <2>3. \A a \in Agents : a # l.agent => entries'[a] = entries[a]
    BY <1>1, <1>2, <1>3 DEF Commit, Settle, IInv, TypeOK
  <2> QED BY <1>1, <2>1, <2>2, <2>3 DEF Commit
<1>4. CASE ~Current(l, st)
  BY <1>1, <1>4 DEF Commit
<1> QED BY <1>3, <1>4

\* Only its own lease or stop ends a removal.
LEMMA NextRemovalIsExclusive ==
  ASSUME IInv, [Next]_vars, NEW a \in Agents, entries[a].state = "Removing"
  PROVE  \/ entries'[a] = entries[a]
         \/ stopped'
         \/ \E l \in leases \ leases' : l.kind = "remove" /\ l.op = entries[a].op
<1>1. ASSUME NEW b \in Agents, NEW st, NEW kind, StartOperation(b, st, kind), b # a
      PROVE  entries'[a] = entries[a]
  BY <1>1 DEF StartOperation, IInv, TypeOK
<1>2. ASSUME NEW b \in Agents, NEW retryFailed \in BOOLEAN, ReserveAttach(b, retryFailed)
      PROVE  entries'[a] = entries[a]
  BY <1>1, <1>2 DEF ReserveAttach, Join, StartAttach, vars
<1>3. ASSUME NEW b \in Agents, ReserveRepair(b)
      PROVE  entries'[a] = entries[a]
  BY <1>1, <1>3 DEF ReserveRepair, Join, StartAttach, vars
<1>4. ASSUME NEW b \in Agents, BeginRemove(b)
      PROVE  entries'[a] = entries[a]
  BY <1>1, <1>4 DEF BeginRemove, Join, vars
<1>5. ASSUME NEW l \in leases, CommitSome(l)
      PROVE  \/ entries'[a] = entries[a]
             \/ l \in leases \ leases' /\ l.kind = "remove" /\ l.op = entries[a].op
  BY <1>5, CommitFacts
<1>6. ASSUME Stop
      PROVE  stopped'
  BY <1>6 DEF Stop
<1>7. ASSUME NEW l \in leases, DropLease(l)
      PROVE  entries' = entries
  BY <1>7 DEF DropLease
<1> QED BY <1>2, <1>3, <1>4, <1>5, <1>6, <1>7 DEF Next, vars

\* A lease goes in a commit, and a commit with a superseded lease changes nothing.
LEMMA NextSupersededLeaseIsInert ==
  ASSUME IInv, [Next]_vars, NEW l \in leases \ leases', ~Latest(l.agent, l.op)
  PROVE  entries' = entries /\ signal' = signal
<1>1. ASSUME NEW a \in Agents, NEW retryFailed \in BOOLEAN, ReserveAttach(a, retryFailed)
      PROVE  FALSE
  BY <1>1 DEF ReserveAttach, Join, StartAttach, StartOperation, vars
<1>2. ASSUME NEW a \in Agents, ReserveRepair(a)
      PROVE  FALSE
  BY <1>2 DEF ReserveRepair, Join, StartAttach, StartOperation, vars
<1>3. ASSUME NEW a \in Agents, BeginRemove(a)
      PROVE  FALSE
  BY <1>3 DEF BeginRemove, Join, StartOperation, vars
<1>4. ASSUME NEW k \in leases, CommitSome(k)
      PROVE  entries' = entries /\ signal' = signal
  BY <1>4, CommitFacts
<1>5. ASSUME NEW k \in leases, DropLease(k)
      PROVE  entries' = entries /\ signal' = signal
  BY <1>5 DEF DropLease
<1>6. ASSUME Stop
      PROVE  FALSE
  BY <1>6 DEF Stop
<1> QED BY <1>1, <1>2, <1>3, <1>4, <1>5, <1>6 DEF Next, vars

----------------------------------------------------------------------------
\* The inductive invariant holds in every reachable state.
THEOREM Invariant == Spec => []IInv
  BY InitIInv, NextIInv, PTL DEF Spec

\* The registry's variables keep their types.
THEOREM TypeCorrect == Spec => []TypeOK
  BY Invariant, PTL DEF IInv

\* What a snapshot answers and what the waiters are told never disagree: an entry
\* always follows from the outcome of the last operation started on its slot.
THEOREM SnapshotAgreesWithWaiters == Spec => []EntryReflectsLatest
  BY Invariant, PTL DEF IInv

\* A pending channel always has an entry that will settle it.
THEOREM WaitersHaveSender == Spec => []NoOrphanWaiter
  BY Invariant, PTL DEF IInv

\* An outcome a waiter may have seen is never replaced by another.
THEOREM OutcomesAreFinal == Spec => OutcomeIsFinal
<1>1. IInv /\ [Next]_vars => [\A op \in OpId : signal[op] # "Pending" => signal'[op] = signal[op]]_vars
  BY NextOutcomeIsFinal
<1> QED BY <1>1, Invariant, PTL DEF Spec, OutcomeIsFinal

\* While a removal runs, nothing but its own lease or stop ends it.
THEOREM RemovalsAreExclusive == Spec => RemovalIsExclusive
<1>1. IInv /\ [Next]_vars =>
        [\A a \in Agents : entries[a].state = "Removing" =>
            \/ entries'[a] = entries[a]
            \/ stopped'
            \/ \E l \in leases \ leases' : l.kind = "remove" /\ l.op = entries[a].op]_vars
  BY NextRemovalIsExclusive
<1> QED BY <1>1, Invariant, PTL DEF Spec, RemovalIsExclusive

\* A commit with a lease that was superseded changes neither a slot nor an outcome.
THEOREM SupersededLeasesAreInert == Spec => SupersededLeaseIsInert
<1>1. IInv /\ [Next]_vars =>
        [\A l \in leases \ leases' :
            ~Latest(l.agent, l.op) => entries' = entries /\ signal' = signal]_vars
  BY NextSupersededLeaseIsInert
<1> QED BY <1>1, Invariant, PTL DEF Spec, SupersededLeaseIsInert
=============================================================================
