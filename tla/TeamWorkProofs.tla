--------------------------- MODULE TeamWorkProofs ---------------------------
(***************************************************************************)
(* Proofs about TeamWork, for any number of slots, runs, messages, leases,  *)
(* intents, batches and callers, and any order in which the callers hand    *)
(* their summaries to the run manager.  The composition implements the      *)
(* coordinator alone, and what the manager believes of its run is right as  *)
(* long as no call has come to it late.                                     *)
(***************************************************************************)
EXTENDS TeamWork, WorkCoordinatorProofs, WellFoundedInduction

LEMMA LeastNat ==
  ASSUME NEW T, T \subseteq Nat, T # {}
  PROVE  \E x \in T : \A y \in T : x <= y
  <1>1. PICK x \in T : \A y \in T : <<y, x>> \notin OpToRel(<, Nat)
    BY NatLessThanWellFounded, WFMin
  <1>2. \A y \in T : ~(y < x)
    BY <1>1 DEF OpToRel
  <1> QED
    BY <1>2

\* The calls that wait name runs, and so does the manager's record.
PortTyped ==
    /\ run \in TeamRunRecord \cup {NoRecord}
    /\ pending \in [Callers -> SUBSET PortCall]
    /\ lapses \subseteq {"late", "untold"}

WorkIInv == IInv /\ PortTyped

----------------------------------------------------------------------------
LEMMA SummaryTyped ==
  ASSUME NEW r \in Runs, NEW I, NEW L
  PROVE  LET sum == Summary(r, I, L)
         IN  /\ sum \in RunWorkSummary /\ sum \in PortCall
             /\ sum.call = "apply_work_summary" /\ sum.run = r
             /\ sum.work <=> \/ \E i \in DOMAIN I : I[i].run = r /\ I[i].state \in Live
                             \/ \E l \in L : l.run = r
             /\ sum.failed <=> \E i \in DOMAIN I : I[i].run = r /\ I[i].state = "Failed"
             /\ sum.running <=> \E i \in DOMAIN I : I[i].run = r /\ I[i].state = "Running"
  BY Zenon DEF Summary, RunWorkSummary, PortCall

\* The run a batch passes on is the run of one of its intents.
LEMMA FirstRunIsBound ==
  ASSUME IInv, NEW from \in Slots \cup {NoSlot}, InheritsFrom(from)
  PROVE  \E i \in batches[active[from]].intents :
            /\ i \in DOMAIN intents /\ IsLive(intents[i])
            /\ intents[i].run = FirstRun(active[from])
            /\ intents[i].run \in Runs
  <1> DEFINE op == active[from]
             bound == {i \in batches[op].intents : intents[i].run # NoRun}
             least == CHOOSE i \in bound : \A j \in bound : intents[i].pos <= intents[j].pos
  <1>1. from \in Slots /\ op # 0 /\ bound # {}
    BY DEF InheritsFrom
  <1>2. Current(op)
    BY <1>1 DEF IInv, EveryIntentHasOnePlace, Current
  <1>3. \A i \in batches[op].intents : i \in DOMAIN intents /\ IsBusy(intents[i])
    BY <1>2, BatchIsBusy
  <1>4. \A i \in DOMAIN intents : intents[i] \in WorkIntent
    BY Facts
  <1>5. \A i \in bound : intents[i].pos \in Nat
    BY <1>3, <1>4 DEF WorkIntent
  <1>6. \E i \in bound : \A j \in bound : intents[i].pos <= intents[j].pos
    <2> DEFINE T == {intents[i].pos : i \in bound}
    <2>1. T \subseteq Nat /\ T # {}
      BY <1>1, <1>5
    <2>2. PICK x \in T : \A y \in T : x <= y
      BY <2>1, LeastNat
    <2> QED
      BY <2>2
  <1>7. least \in bound
    BY <1>6
  <1>8. FirstRun(op) = intents[least].run
    BY DEF FirstRun
  <1> HIDE DEF least
  <1>9. IsLive(intents[least]) /\ intents[least].run \in Runs
    <2>1. IsBusy(intents[least]) /\ intents[least] \in WorkIntent /\ intents[least].run # NoRun
      BY <1>3, <1>4, <1>7
    <2> QED
      BY <2>1 DEF IsLive, IsBusy, Live, WorkIntent
  <1> QED
    BY <1>3, <1>7, <1>8, <1>9

LEMMA PublishTyped ==
  ASSUME PortTyped, NEW c \in Callers, NEW rs \in SUBSET Runs, Publish(c, rs)
  PROVE  PortTyped'
  <1>1. {Summary(r, intents', leases') : r \in rs} \subseteq PortCall
    BY SummaryTyped
  <1> QED
    BY <1>1 DEF Publish, PortTyped

LEMMA RunsOfTyped ==
  ASSUME NEW ids, \A i \in ids : intents'[i].run \in Runs \cup {NoRun}
  PROVE  RunsOf(ids) \in SUBSET Runs
  BY DEF RunsOf

\* What the proofs use of a step of the coordinator.
LEMMA StepRuns ==
  ASSUME IInv, Good
  PROVE  /\ \A i \in DOMAIN intents : i \in DOMAIN intents' /\ intents'[i].run = intents[i].run
         /\ \A i \in DOMAIN intents' : intents'[i] \in WorkIntent /\ intents'[i].run \in Runs \cup {NoRun}
         /\ \A i \in DOMAIN intents : intents[i] \in WorkIntent /\ intents[i].run \in Runs \cup {NoRun}
         /\ \A l \in leases : l.run \in Runs \cup {NoRun}
         /\ \A i \in DOMAIN intents : IsLive(intents'[i]) => IsLive(intents[i])
         /\ \A i \in DOMAIN intents : intents[i].state = "Failed" => intents'[i].state = "Failed"
  <1>1. \A i \in DOMAIN intents' : intents'[i] \in WorkIntent
    BY IntentsShape DEF Good, IInv, TypeOK
  <1>2. \A i \in DOMAIN intents : intents[i] \in WorkIntent
    BY Facts
  <1>3. \A i \in DOMAIN intents : i \in DOMAIN intents' /\ intents'[i].run = intents[i].run
    BY DEF Good, Keeps
  <1>4. \A i \in DOMAIN intents : IsLive(intents'[i]) => IsLive(intents[i])
    <2> SUFFICES ASSUME NEW i \in DOMAIN intents, IsLive(intents'[i]) PROVE IsLive(intents[i])
      OBVIOUS
    <2>1. intents[i].state \notin Terminal
      BY <1>1, <1>3, StatesDiffer DEF Good, EndedStays
    <2> QED
      BY <1>2, <2>1, StatesDiffer
  <1>5. \A i \in DOMAIN intents : intents[i].state = "Failed" => intents'[i].state = "Failed"
    BY DEF Good, EndedStays, Terminal
  <1> QED
    BY <1>1, <1>2, <1>3, <1>4, <1>5 DEF WorkIntent, IInv, TypeOK, EnqueueLease

----------------------------------------------------------------------------
\* Every step of the composition is a step of the coordinator, or leaves it alone.
Maps == Good /\ PortTyped' /\ [Next]_coordinatorVars

\* A step of the coordinator that is published for the runs of some intents.
LEMMA PublishedMaps ==
  ASSUME WorkIInv, NEW c \in Callers, Good, Next,
         NEW ids, ids \subseteq DOMAIN intents,
         NEW rs, RunsOf(ids) \subseteq rs, rs \subseteq RunsOf(ids) \cup Runs, Publish(c, rs)
  PROVE  Maps
  <1>1. \A i \in ids : intents'[i].run \in Runs \cup {NoRun}
    BY StepRuns DEF WorkIInv
  <1>2. rs \in SUBSET Runs
    BY <1>1, RunsOfTyped
  <1>3. PortTyped'
    BY <1>2, PublishTyped DEF WorkIInv
  <1> QED
    BY <1>3 DEF Maps

LEMMA AcquireMaps ==
  ASSUME WorkIInv, NEW c \in Callers, NEW id \in Leases, NEW s \in Slots, NEW source \in Sources,
         NEW from \in Slots \cup {NoSlot}, Acquire(c, id, s, source, from)
  PROVE  \E r \in Runs : AcquireEnqueue(id, s, source, r) /\ Maps
  <1>1. \E r \in Runs : AcquireEnqueue(id, s, source, r) /\ PortTyped'
    <2>1. CASE InheritsFrom(from) /\ UNCHANGED run
      <3>1. FirstRun(active[from]) \in Runs
        BY <2>1, FirstRunIsBound DEF WorkIInv
      <3> QED
        BY <2>1, <3>1 DEF Acquire, WorkIInv, PortTyped
    <2>2. CASE ~InheritsFrom(from) /\ Active(run) /\ UNCHANGED run
      <3>1. run.id \in Runs
        BY <2>2 DEF Active, WorkIInv, PortTyped, TeamRunRecord
      <3> QED
        BY <2>2, <3>1 DEF Acquire, WorkIInv, PortTyped
    <2>3. CASE ~InheritsFrom(from) /\ ~Active(run)
      <3>1. PICK r \in Runs : AcquireEnqueue(id, s, source, r) /\ run' = [id |-> r, status |-> "Accepted"]
        BY <2>3 DEF Acquire
      <3>2. run' \in TeamRunRecord
        BY <3>1 DEF TeamRunRecord, ActiveStatus
      <3> QED
        BY <3>1, <3>2 DEF Acquire, WorkIInv, PortTyped
    <2> QED
      BY <2>1, <2>2, <2>3 DEF Acquire
  <1>2. PICK r \in Runs : AcquireEnqueue(id, s, source, r) /\ PortTyped'
    BY <1>1
  <1>3. Good
    BY <1>2, AcquireStep DEF WorkIInv
  <1>4. Next
    BY <1>2 DEF Next, ProducerStep
  <1> QED
    BY <1>2, <1>3, <1>4 DEF Maps

LEMMA CommitTyped ==
  ASSUME WorkIInv, NEW c \in Callers, NEW l \in leases, NEW m \in Messages \cup {NoMessage}, Commit(c, l, m)
  PROVE  Good /\ PortTyped'
  <1>1. Good
    BY CommitStep DEF WorkIInv, Commit
  <1>2. {l.run} \ {NoRun} \in SUBSET Runs
    BY DEF WorkIInv, IInv, TypeOK, EnqueueLease
  <1> QED
    BY <1>1, <1>2, PublishTyped DEF WorkIInv, Commit

LEMMA CommitMaps ==
  ASSUME WorkIInv, NEW c \in Callers, NEW l \in leases, NEW m \in Messages \cup {NoMessage},
         Commits(l, m), Commit(c, l, m)
  PROVE  Maps
  <1>1. Next
    BY DEF Next, ProducerStep, Commit
  <1> QED
    BY <1>1, CommitTyped DEF Maps

LEMMA AbortMaps ==
  ASSUME WorkIInv, NEW c \in Callers, NEW l \in leases, Abort(c, l)
  PROVE  Maps
  <1>1. Good
    BY AbortStep DEF WorkIInv, Abort
  <1>2. Next
    BY DEF Next, ProducerStep, Abort
  <1>3. {l.run} \ {NoRun} \in SUBSET Runs
    BY DEF WorkIInv, IInv, TypeOK, EnqueueLease
  <1>4. {Summary(r, intents', leases') : r \in {l.run} \ {NoRun}} \subseteq PortCall
    BY <1>3, SummaryTyped
  <1>5. {[call |-> "abort_binding", run |-> r] : r \in {r \in {l.run} \ {NoRun} : Empty(r, intents', leases')}}
            \subseteq PortCall
    BY <1>3 DEF PortCall
  <1>6. PortTyped'
    BY <1>4, <1>5 DEF WorkIInv, PortTyped, Abort
  <1> QED
    BY <1>1, <1>2, <1>6 DEF Maps

LEMMA EnqueueMaps ==
  ASSUME WorkIInv, NEW c \in Callers, Enqueue(c)
  PROVE  Maps
  BY AcquireMaps, CommitMaps, AbortMaps DEF Enqueue

LEMMA ExecuteMaps ==
  ASSUME WorkIInv, NEW c \in Callers, Execute(c)
  PROVE  Maps
  <1>0. IInv
    BY DEF WorkIInv
  <1>1. ASSUME NEW s \in Slots, Claim(c, s) PROVE Maps
    <2>1. Good
      BY <1>0, <1>1, ClaimStep DEF Claim
    <2>2. Next
      BY <1>1 DEF Next, LoopStep, Claim
    <2>3. batches'[active'[s]].intents \subseteq DOMAIN intents
      <3>1. BatchesHoldTheirSlot' /\ EveryIntentHasOnePlace' /\ active'[s] # 0
        BY <1>0, <1>1, <2>1 DEF Good, IInv, Ordered, Claim, ClaimBatch, TypeOK
      <3>2. DOMAIN intents' = DOMAIN intents
        BY <1>1 DEF Claim, ClaimBatch, Move
      <3> QED
        BY <3>1, <3>2 DEF BatchesHoldTheirSlot, EveryIntentHasOnePlace
    <2> DEFINE ids == batches'[active'[s]].intents
               rs == RunsOf(ids)
    <2>4. ids \subseteq DOMAIN intents /\ Publish(c, rs) /\ RunsOf(ids) \subseteq rs /\ rs \subseteq RunsOf(ids)
      BY <1>1, <2>3 DEF Claim
    <2> HIDE DEF ids, rs
    <2> QED
      BY <2>1, <2>2, <2>4, PublishedMaps
  <1>2. ASSUME NEW s \in Slots, NEW ids \in SUBSET DOMAIN intents, SettleSignals(c, s, ids) PROVE Maps
    <2>1. Good
      BY <1>0, <1>2, SignalsStep DEF SettleSignals
    <2>2. Next
      BY <1>2 DEF Next, LoopStep, SettleSignals
    <2> DEFINE rs == RunsOf(ids)
    <2>3. Publish(c, rs) /\ RunsOf(ids) \subseteq rs /\ rs \subseteq RunsOf(ids)
      BY <1>2 DEF SettleSignals
    <2> HIDE DEF rs
    <2> QED
      BY <2>1, <2>2, <2>3, PublishedMaps
  <1>3. ASSUME NEW op \in DOMAIN batches, NEW st \in Terminal,
               Start(c, op) \/ Retry(c, op) \/ Terminalize(c, op, st)
        PROVE  Maps
    <2>1. Good
      BY <1>0, <1>3, StartStep, RetryStep, TerminalizeStep DEF Start, Retry, Terminalize
    <2>2. Next
      BY <1>3 DEF Next, BatchStep, Start, Retry, Terminalize
    <2>3. Current(op)
      BY <1>3 DEF Start, Retry, Terminalize, MarkStarted, RetryStart, TerminalizeBatch
    <2>4. batches[op].intents \subseteq DOMAIN intents
      BY <1>0, <2>3, BatchIsBusy
    <2> DEFINE ids == batches[op].intents
               rs == RunsOf(ids)
    <2>5. ids \subseteq DOMAIN intents /\ Publish(c, rs) /\ RunsOf(ids) \subseteq rs /\ rs \subseteq RunsOf(ids)
      BY <1>3, <2>4 DEF Start, Retry, Terminalize
    <2> HIDE DEF ids, rs
    <2> QED
      BY <2>1, <2>2, <2>5, PublishedMaps
  <1>4. "Failed" \in Terminal
    BY DEF Terminal
  <1> QED
    BY <1>1, <1>2, <1>3, <1>4 DEF Execute

LEMMA ControlMaps ==
  ASSUME WorkIInv, NEW c \in Callers, Control(c)
  PROVE  Maps
  <1>0. IInv
    BY DEF WorkIInv
  <1>1. ASSUME NEW s \in Slots, NEW k \in Constraints, Constrain(c, s, k) PROVE Maps
    <2>1. Good /\ Next
      <3>1. [Next]_coordinatorVars /\ Next
        BY <1>1 DEF Next, ControlStep, Constrain
      <3> QED
        BY <1>0, <3>1, StepGood
    <2> DEFINE ids == {i \in LiveOf(s) : intents'[i].state \in Terminal}
               rs == RunsOf(ids)
    <2>2. ids \subseteq DOMAIN intents /\ Publish(c, rs) /\ RunsOf(ids) \subseteq rs /\ rs \subseteq RunsOf(ids)
      BY <1>1 DEF Constrain, LiveOf
    <2> HIDE DEF ids, rs
    <2> QED
      BY <2>1, <2>2, PublishedMaps
  <1>2. ASSUME NEW s \in Slots, Remove(c, s) PROVE Maps
    <2>1. Good
      BY <1>0, <1>2, RemoveStep DEF Remove
    <2>2. Next
      BY <1>2 DEF Next, ControlStep, Remove
    <2> DEFINE ids == LiveOf(s)
               rs == RunsOf(ids)
    <2>3. ids \subseteq DOMAIN intents /\ Publish(c, rs) /\ RunsOf(ids) \subseteq rs /\ rs \subseteq RunsOf(ids)
      BY <1>2 DEF Remove, LiveOf
    <2> HIDE DEF ids, rs
    <2> QED
      BY <2>1, <2>2, <2>3, PublishedMaps
  <1>3. CASE StopWork(c)
    <2>1. Good
      BY <1>0, <1>3, StopStep DEF StopWork
    <2>2. Next
      BY <1>3 DEF Next, ControlStep, StopWork
    <2>3. {l.run : l \in leases} \ {NoRun} \in SUBSET Runs
      BY <1>0 DEF IInv, TypeOK, EnqueueLease
    <2> DEFINE ids == DOMAIN intents
               rs == RunsOf(ids) \cup ({l.run : l \in leases} \ {NoRun})
    <2>4. ids \subseteq DOMAIN intents /\ Publish(c, rs) /\ RunsOf(ids) \subseteq rs /\ rs \subseteq RunsOf(ids) \cup Runs
      BY <1>3, <2>3 DEF StopWork
    <2> HIDE DEF ids, rs
    <2> QED
      BY <2>1, <2>2, <2>4, PublishedMaps
  <1>5. ASSUME NEW s \in Slots, Pause(c, s) PROVE Maps
    <2>1. Good
      BY <1>0, <1>5, PauseStep DEF Pause
    <2>2. Next /\ PortTyped'
      BY <1>5 DEF Next, ControlStep, Pause, WorkIInv, PortTyped
    <2> QED
      BY <2>1, <2>2 DEF Maps
  <1>4. CASE BeginCancel(c)
    <2>1. Good
      <3>1. [Next]_coordinatorVars
        BY <1>4 DEF BeginCancel
      <3> QED
        BY <1>0, <3>1, StepGood
    <2>2. run \in TeamRunRecord
      BY <1>4 DEF BeginCancel, Active, WorkIInv, PortTyped
    <2>3. run' \in TeamRunRecord /\ {[call |-> "cancel_run", run |-> run.id]} \subseteq PortCall
      BY <1>4, <2>2 DEF BeginCancel, TeamRunRecord, ActiveStatus, PortCall
    <2>4. PortTyped'
      BY <1>4, <2>3 DEF BeginCancel, WorkIInv, PortTyped
    <2> QED
      BY <1>4, <2>1, <2>4 DEF Maps, BeginCancel
  <1> QED
    BY <1>1, <1>2, <1>3, <1>4, <1>5 DEF Control

LEMMA UntoldMaps ==
  ASSUME WorkIInv, UntoldStep
  PROVE  Maps
  <1>0. IInv /\ PortTyped
    BY DEF WorkIInv
  <1>1. ASSUME NEW s \in Slots, NEW unread \in SUBSET Messages, ReconcileUntold(s, unread) PROVE Maps
    <2>1. Good
      BY <1>0, <1>1, ReconcileStep DEF ReconcileUntold
    <2>2. Next /\ PortTyped'
      BY <1>0, <1>1 DEF Next, LoopStep, ReconcileUntold, PortTyped
    <2> QED
      BY <2>1, <2>2 DEF Maps
  <1>2. ASSUME NEW s \in Slots, BecomeReady(s) PROVE Maps
    <2>1. Next /\ PortTyped'
      BY <1>0, <1>2, ReadyAssumption DEF Next, ControlStep, BecomeReady, PortTyped
    <2>2. Good
      BY <1>0, <2>1, StepGood
    <2> QED
      BY <2>1, <2>2 DEF Maps
  <1> QED
    BY <1>1, <1>2 DEF UntoldStep

LEMMA PortMaps ==
  ASSUME WorkIInv, NEW c \in Callers, PortStep(c)
  PROVE  Maps
  <1>0. IInv /\ PortTyped
    BY DEF WorkIInv
  <1>1. CASE UNCHANGED coordinatorVars /\ PortTyped'
    <2>1. Good
      BY <1>0, <1>1, StepGood
    <2> QED
      BY <1>1, <2>1 DEF Maps
  <1>2. CASE AbortBinding(c)
    <2>1. PortTyped'
      BY <1>0, <1>2 DEF AbortBinding, PortTyped, LateFor
    <2> QED
      BY <1>1, <1>2, <2>1 DEF AbortBinding
  <1>3. CASE ApplyWorkSummary(c)
    <2>1. PICK sum \in pending[c] :
             /\ pending' = [pending EXCEPT ![c] = @ \ {sum}]
             /\ run' = IF run # NoRecord /\ run.id = sum.run
                       THEN [run EXCEPT !.status = StatusAfter(@, sum)]
                       ELSE run
             /\ lapses' \subseteq lapses \cup {"late"}
      BY <1>3 DEF ApplyWorkSummary, LateFor
    <2>2. run' \in TeamRunRecord \cup {NoRecord}
      <3>1. ASSUME run \in TeamRunRecord
            PROVE  StatusAfter(run.status, sum) \in ActiveStatus \cup FinishedStatus
        BY <3>1 DEF StatusAfter, TeamRunRecord, ActiveStatus, FinishedStatus
      <3>2. CASE run # NoRecord /\ run.id = sum.run
        <4>1. run \in TeamRunRecord /\ run' = [run EXCEPT !.status = StatusAfter(run.status, sum)]
          BY <1>0, <2>1, <3>2 DEF PortTyped
        <4> QED
          BY <3>1, <4>1 DEF TeamRunRecord
      <3>3. CASE ~(run # NoRecord /\ run.id = sum.run)
        BY <1>0, <2>1, <3>3 DEF PortTyped
      <3> QED
        BY <3>2, <3>3
    <2>3. PortTyped'
      BY <1>0, <2>1, <2>2 DEF PortTyped
    <2> QED
      BY <1>1, <1>3, <2>3 DEF ApplyWorkSummary
  <1>4. CASE FinishCancel(c)
    <2>1. PICK call \in pending[c] : CancelRun(call.run) /\ Publish(c, {call.run})
      BY <1>4 DEF FinishCancel
    <2>2. call.run \in Runs
      BY <1>0, <2>1 DEF PortTyped, PortCall, RunWorkSummary
    <2>3. Good
      BY <1>0, <2>1, <2>2, CancelStep
    <2>4. Next
      BY <2>1, <2>2 DEF Next, ControlStep
    <2>5. PortTyped'
      BY <1>0, <2>1, <2>2, PublishTyped
    <2> QED
      BY <2>3, <2>4, <2>5 DEF Maps
  <1> QED
    BY <1>2, <1>3, <1>4 DEF PortStep

LEMMA WorkStepMaps == WorkIInv /\ [WorkNext]_workVars => Maps
  <1> SUFFICES ASSUME WorkIInv, [WorkNext]_workVars PROVE Maps
    OBVIOUS
  <1>1. CASE UNCHANGED workVars
    <2>1. UNCHANGED coordinatorVars /\ PortTyped'
      BY <1>1 DEF workVars, WorkIInv, PortTyped
    <2>2. Good
      BY <2>1, StepGood DEF WorkIInv
    <2> QED
      BY <2>1, <2>2 DEF Maps
  <1>2. CASE WorkNext
    BY <1>2, EnqueueMaps, ExecuteMaps, ControlMaps, PortMaps, UntoldMaps DEF WorkNext
  <1> QED
    BY <1>1, <1>2

LEMMA WorkInitGood == WorkInit => WorkIInv
  <1> SUFFICES ASSUME WorkInit PROVE WorkIInv
    OBVIOUS
  <1>1. IInv
    BY InitGood DEF WorkInit
  <1>2. PortTyped
    BY DEF WorkInit, PortTyped
  <1> QED
    BY <1>1, <1>2 DEF WorkIInv

THEOREM WorkInvariant == WorkSpec => []WorkIInv
  <1>1. WorkIInv /\ [WorkNext]_workVars => WorkIInv'
    BY WorkStepMaps DEF Maps, Good, WorkIInv
  <1> QED
    BY WorkInitGood, <1>1, PTL DEF WorkSpec

\* The types of the composition: intents and batches as in the coordinator, the
\* manager's record and the calls on their way to it (WorkTypeOK).
THEOREM WorkTypeCorrect == WorkSpec => []WorkTypeOK
  <1>1. WorkIInv => WorkTypeOK
    BY DEF WorkIInv, IInv, PortTyped, WorkTypeOK
  <1> QED
    BY WorkInvariant, <1>1, PTL

\* With the run manager attached and any number of callers the coordinator still
\* does what it does alone, so that its theorems hold of the composition.
THEOREM ImplementsCoordinator == WorkSpec => Spec
  <1>1. WorkInit => Init
    BY DEF WorkInit
  <1>2. WorkIInv /\ [WorkNext]_workVars => [Next]_coordinatorVars
    BY WorkStepMaps DEF Maps
  <1> QED
    BY WorkInvariant, <1>1, <1>2, PTL DEF WorkSpec, Spec

----------------------------------------------------------------------------
(***************************************************************************)
(* What the manager knows.                                                  *)
(***************************************************************************)
HasFailed(r) == \E i \in OfRun(r) : intents[i].state = "Failed"

\* A cancellation is all its caller has to do.
CancelsAlone ==
    \A c \in Callers : \A call \in pending[c] : call.call = "cancel_run" => pending[c] = {call}

\* An active run that has lost its last work is about to hear of it.
EndIsOnItsWay ==
    lapses = {} /\ Active(run) /\ ~HasWork(run.id) =>
        \E c \in Callers : Summary(run.id, intents, leases) \in pending[c]

\* A run that has finished has no work, unless it failed.
FinishedHasNoWork ==
    run # NoRecord /\ HasWork(run.id) /\ ~HasFailed(run.id) => Active(run)

FailedForAReason == run # NoRecord /\ run.status = "Failed" => HasFailed(run.id)

RunIsRight == BoundWorkKeepsItsRun /\ FinishedHasNoWork /\ FailedForAReason

ManagerKnows ==
    /\ CancelsAlone
    /\ EndIsOnItsWay
    /\ "late" \notin lapses => RunIsRight

ManagerIInv == WorkIInv /\ ManagerKnows

\* What a step may never do with the status of the run.
StatusMoves ==
    SameRun /\ run.status \in FinishedStatus /\ "late" \notin lapses' => run'.status \in FinishedStatus

Knows == ManagerKnows' /\ StatusMoves

\* A summary of the work as it is.
LEMMA SummaryTells ==
  ASSUME NEW r \in Runs
  PROVE  LET sum == Summary(r, intents, leases)
         IN  /\ sum.call = "apply_work_summary" /\ sum.run = r
             /\ sum.work <=> HasWork(r)
             /\ sum.failed <=> HasFailed(r)
             /\ sum.running => HasWork(r)
  <1> DEFINE sum == Summary(r, intents, leases)
  <1>1. /\ sum.call = "apply_work_summary" /\ sum.run = r
        /\ sum.work <=> \/ \E i \in DOMAIN intents : intents[i].run = r /\ intents[i].state \in Live
                        \/ \E l \in leases : l.run = r
        /\ sum.failed <=> \E i \in DOMAIN intents : intents[i].run = r /\ intents[i].state = "Failed"
        /\ sum.running <=> \E i \in DOMAIN intents : intents[i].run = r /\ intents[i].state = "Running"
    BY SummaryTyped
  <1> HIDE DEF sum
  <1>2. sum.work <=> HasWork(r)
    BY <1>1 DEF HasWork, OfRun
  <1>3. sum.failed <=> HasFailed(r)
    BY <1>1 DEF HasFailed, OfRun
  <1>4. sum.running => HasWork(r)
    BY <1>1 DEF HasWork, OfRun, Live
  <1> QED
    BY <1>1, <1>2, <1>3, <1>4 DEF sum

\* While a run is without work its summary is what it was.
LEMMA EndedSummaryStays ==
  ASSUME IInv, Good, NEW r \in Runs, ~HasWork(r), ~HasWork(r)',
         \A i \in DOMAIN intents' \ DOMAIN intents : IsLive(intents'[i])
  PROVE  Summary(r, intents', leases') = Summary(r, intents, leases)
  <1>1. /\ \A i \in DOMAIN intents : i \in DOMAIN intents' /\ intents'[i].run = intents[i].run
        /\ \A i \in DOMAIN intents : intents[i] \in WorkIntent
        /\ \A i \in DOMAIN intents : intents[i].state = "Failed" => intents'[i].state = "Failed"
    BY StepRuns
  <1>2. ASSUME NEW i \in DOMAIN intents', intents'[i].run = r
        PROVE  i \in DOMAIN intents /\ intents'[i].state = intents[i].state
    <2>1. ~IsLive(intents'[i])
      BY <1>2 DEF HasWork, OfRun, IsLive
    <2>2. i \in DOMAIN intents
      BY <2>1
    <2>3. intents[i].run = r /\ intents[i].state \in Live \cup Terminal
      BY <1>1, <1>2, <2>2 DEF WorkIntent
    <2>4. intents[i].state \in Terminal
      BY <2>2, <2>3 DEF HasWork, OfRun
    <2> QED
      BY <2>2, <2>4 DEF Good, EndedStays
  <1>3. (\E i \in DOMAIN intents' : intents'[i].run = r /\ intents'[i].state = "Failed")
          <=> \E i \in DOMAIN intents : intents[i].run = r /\ intents[i].state = "Failed"
    BY <1>1, <1>2
  <1>4. (\E i \in DOMAIN intents' : intents'[i].run = r /\ intents'[i].state = "Running")
          <=> \E i \in DOMAIN intents : intents[i].run = r /\ intents[i].state = "Running"
    <2>1. ~\E i \in DOMAIN intents : intents[i].run = r /\ intents[i].state = "Running"
      BY DEF HasWork, OfRun, Live
    <2>2. ~\E i \in DOMAIN intents' : intents'[i].run = r /\ intents'[i].state = "Running"
      BY DEF HasWork, OfRun, Live
    <2> QED
      BY <2>1, <2>2
  <1>5. /\ ~(\/ \E i \in DOMAIN intents' : intents'[i].run = r /\ intents'[i].state \in Live
             \/ \E l \in leases' : l.run = r)
        /\ ~(\/ \E i \in DOMAIN intents : intents[i].run = r /\ intents[i].state \in Live
             \/ \E l \in leases : l.run = r)
    BY DEF HasWork, OfRun
  <1> QED
    BY <1>3, <1>4, <1>5, Zenon DEF Summary

----------------------------------------------------------------------------
\* A step that leaves the run alone and gives no run work: what it takes from a run
\* it publishes, or it lapses.
LEMMA EndingKnows ==
  ASSUME ManagerIInv, Good, UNCHANGED run, lapses \subseteq lapses',
         "late" \in lapses' => "late" \in lapses,
         \A i \in DOMAIN intents' \ DOMAIN intents : IsLive(intents'[i]),
         \A r \in Runs : HasWork(r)' => HasWork(r),
         CancelsAlone',
         \A c \in Callers : \A call \in pending[c] : call.call = "apply_work_summary" => call \in pending'[c],
         lapses' = {} /\ Active(run) /\ HasWork(run.id) /\ ~HasWork(run.id)' =>
             \E c \in Callers : Summary(run.id, intents', leases') \in pending'[c]
  PROVE  Knows
  <1>1. /\ IInv /\ ManagerKnows /\ run \in TeamRunRecord \cup {NoRecord}
    BY DEF ManagerIInv, WorkIInv, PortTyped
  <1>2. \A r \in Runs : HasFailed(r) => HasFailed(r)'
    <2>1. \A i \in DOMAIN intents :
             /\ i \in DOMAIN intents' /\ intents'[i].run = intents[i].run
             /\ intents[i].state = "Failed" => intents'[i].state = "Failed"
      BY <1>1, StepRuns
    <2> QED
      BY <2>1 DEF HasFailed, OfRun
  <1>3. run # NoRecord => run.id \in Runs
    BY <1>1 DEF TeamRunRecord
  <1>4. EndIsOnItsWay'
    <2> SUFFICES ASSUME lapses' = {}, Active(run), ~HasWork(run.id)'
                 PROVE  \E c \in Callers : Summary(run.id, intents', leases') \in pending'[c]
      BY DEF EndIsOnItsWay, Active, HasWork, OfRun
    <2>1. CASE HasWork(run.id)
      BY <2>1
    <2>2. CASE ~HasWork(run.id)
      <3>1. PICK c \in Callers : Summary(run.id, intents, leases) \in pending[c]
        BY <1>1, <2>2 DEF ManagerKnows, EndIsOnItsWay
      <3>2. PICK r \in Runs : r = run.id
        BY <1>3 DEF Active
      <3>3. ~HasWork(r) /\ ~HasWork(r)'
        BY <2>2, <3>2 DEF HasWork, OfRun
      <3>4. Summary(r, intents', leases') = Summary(r, intents, leases)
        BY <1>1, <3>3, EndedSummaryStays
      <3>5. Summary(r, intents, leases).call = "apply_work_summary"
        BY SummaryTells
      <3> QED
        BY <3>1, <3>2, <3>4, <3>5
    <2> QED
      BY <2>1, <2>2
  <1>5. ASSUME "late" \notin lapses' PROVE RunIsRight'
    <2>1. RunIsRight
      BY <1>1, <1>5 DEF ManagerKnows
    <2>2. BoundWorkKeepsItsRun'
      <3> SUFFICES ASSUME NEW r \in Runs, HasWork(r)', ~HasFailed(r)'
                   PROVE  run # NoRecord /\ run.id = r
        BY DEF BoundWorkKeepsItsRun, HasFailed
      <3>1. HasWork(r) /\ ~HasFailed(r)
        BY <1>2
      <3> QED
        BY <2>1, <3>1 DEF RunIsRight, BoundWorkKeepsItsRun, HasFailed
    <2>3. FinishedHasNoWork'
      <3> SUFFICES ASSUME run # NoRecord, HasWork(run.id)', ~HasFailed(run.id)' PROVE Active(run)
        BY DEF FinishedHasNoWork, Active, HasFailed, HasWork, OfRun
      <3>1. HasWork(run.id) /\ ~HasFailed(run.id)
        BY <1>2, <1>3
      <3> QED
        BY <2>1, <3>1 DEF RunIsRight, FinishedHasNoWork
    <2>4. FailedForAReason'
      <3> SUFFICES ASSUME run # NoRecord, run.status = "Failed" PROVE HasFailed(run.id)'
        BY DEF FailedForAReason, HasFailed, OfRun
      <3>1. HasFailed(run.id)
        BY <2>1 DEF RunIsRight, FailedForAReason
      <3> QED
        BY <1>2, <1>3, <3>1
    <2> QED
      BY <2>2, <2>3, <2>4 DEF RunIsRight
  <1>6. StatusMoves
    BY DEF StatusMoves, SameRun
  <1> QED
    BY <1>4, <1>5, <1>6 DEF ManagerKnows, Knows

\* A step of caller c that publishes every run whose last work it takes away.
LEMMA PublishedKnows ==
  ASSUME ManagerIInv, Good, UNCHANGED <<run, lapses>>, NEW c \in Callers,
         \A call \in pending[c] : call.call # "apply_work_summary",
         \A i \in DOMAIN intents' \ DOMAIN intents : IsLive(intents'[i]),
         NEW rs \in SUBSET Runs, NEW aborts,
         pending' = [pending EXCEPT ![c] = {Summary(r, intents', leases') : r \in rs} \cup aborts],
         \A call \in aborts : call.call = "abort_binding",
         \A r \in Runs : HasWork(r)' => HasWork(r),
         \A r \in Runs : HasWork(r) /\ ~HasWork(r)' => r \in rs
  PROVE  Knows
  <1>1. pending \in [Callers -> SUBSET PortCall] /\ CancelsAlone
    BY DEF ManagerIInv, WorkIInv, PortTyped, ManagerKnows
  <1>2. /\ pending'[c] = {Summary(r, intents', leases') : r \in rs} \cup aborts
        /\ \A d \in Callers \ {c} : pending'[d] = pending[d]
    BY <1>1
  <1>3. \A r \in rs : Summary(r, intents', leases').call = "apply_work_summary"
    BY SummaryTyped
  <1>4. CancelsAlone'
    <2> SUFFICES ASSUME NEW d \in Callers, NEW call \in pending'[d], call.call = "cancel_run"
                 PROVE  pending'[d] = {call}
      BY DEF CancelsAlone
    <2>1. d # c
      BY <1>2, <1>3
    <2> QED
      BY <1>1, <1>2, <2>1 DEF CancelsAlone
  <1>5. \A d \in Callers : \A call \in pending[d] : call.call = "apply_work_summary" => call \in pending'[d]
    BY <1>2
  <1>6. Active(run) /\ HasWork(run.id) /\ ~HasWork(run.id)' =>
            \E d \in Callers : Summary(run.id, intents', leases') \in pending'[d]
    <2> SUFFICES ASSUME Active(run), HasWork(run.id), ~HasWork(run.id)'
                 PROVE  Summary(run.id, intents', leases') \in pending'[c]
      OBVIOUS
    <2>1. PICK r \in Runs : r = run.id
      BY DEF Active, ManagerIInv, WorkIInv, PortTyped, TeamRunRecord
    <2>2. HasWork(r) /\ ~HasWork(r)'
      BY <2>1 DEF HasWork, OfRun
    <2> QED
      BY <1>2, <2>1, <2>2
  <1> QED
    BY <1>4, <1>5, <1>6, EndingKnows

\* A step that ends some intents and takes some leases away, and tells.
LEMMA ToldKnows ==
  ASSUME ManagerIInv, Good, NEW c \in Callers, Idle(c),
         NEW ids, ids \subseteq DOMAIN intents, DOMAIN intents' = DOMAIN intents,
         NEW rs, RunsOf(ids) \subseteq rs, rs \subseteq RunsOf(ids) \cup Runs, Publish(c, rs),
         leases' \subseteq leases,
         \A l \in leases \ leases' : l.run \in rs \cup {NoRun},
         \A i \in DOMAIN intents \ ids : IsLive(intents[i]) => IsLive(intents'[i])
  PROVE  Knows
  <1>1. IInv
    BY DEF ManagerIInv, WorkIInv
  <1>2. /\ \A i \in DOMAIN intents : i \in DOMAIN intents' /\ intents'[i].run = intents[i].run
        /\ \A i \in DOMAIN intents' : intents'[i].run \in Runs \cup {NoRun}
        /\ \A i \in DOMAIN intents : IsLive(intents'[i]) => IsLive(intents[i])
    BY <1>1, StepRuns
  <1>3. rs \in SUBSET Runs
    <2>1. \A i \in ids : intents'[i].run \in Runs \cup {NoRun}
      BY <1>2
    <2> QED
      BY <2>1, RunsOfTyped
  <1>4. \A r \in Runs : HasWork(r)' => HasWork(r)
    BY <1>2 DEF HasWork, OfRun, IsLive
  <1>5. ASSUME NEW r \in Runs, HasWork(r), ~HasWork(r)'
        PROVE  r \in rs
    <2>1. r # NoRun
      BY NoRunAssumption
    <2>2. CASE \E l \in leases : l.run = r
      <3>1. PICK l \in leases : l.run = r
        BY <2>2
      <3>2. l \notin leases'
        BY <1>5, <3>1 DEF HasWork
      <3> QED
        BY <2>1, <3>1, <3>2
    <2>3. CASE \E i \in OfRun(r) : intents[i].state \in Live
      <3>1. PICK i \in DOMAIN intents : intents[i].run = r /\ IsLive(intents[i])
        BY <2>3 DEF OfRun, IsLive
      <3>2. ~IsLive(intents'[i])
        BY <1>2, <1>5, <3>1 DEF HasWork, OfRun, IsLive
      <3>3. i \in ids
        BY <3>1, <3>2
      <3>4. r \in RunsOf(ids)
        BY <1>2, <2>1, <3>1, <3>3 DEF RunsOf
      <3> QED
        BY <3>4
    <2> QED
      BY <1>5, <2>2, <2>3 DEF HasWork
  <1> DEFINE aborts == {}
  <1>6. /\ pending' = [pending EXCEPT ![c] = {Summary(r, intents', leases') : r \in rs} \cup aborts]
        /\ UNCHANGED <<run, lapses>>
        /\ \A call \in aborts : call.call = "abort_binding"
        /\ \A call \in pending[c] : call.call # "apply_work_summary"
    BY DEF Publish, Idle
  <1> HIDE DEF aborts
  <1> QED
    BY <1>3, <1>4, <1>5, <1>6, PublishedKnows

\* ... no lease among what it takes away.
LEMMA LeasesKeptKnows ==
  ASSUME ManagerIInv, Maps, NEW c \in Callers, Idle(c),
         NEW ids, ids \subseteq DOMAIN intents, DOMAIN intents' = DOMAIN intents,
         Publish(c, RunsOf(ids)), UNCHANGED leases,
         \A i \in DOMAIN intents \ ids : IsLive(intents[i]) => IsLive(intents'[i])
  PROVE  Knows
  <1> DEFINE rs == RunsOf(ids)
  <1>1. /\ Good /\ Publish(c, rs) /\ RunsOf(ids) \subseteq rs /\ rs \subseteq RunsOf(ids) \cup Runs
        /\ leases' \subseteq leases
        /\ \A l \in leases \ leases' : l.run \in rs \cup {NoRun}
    BY DEF Maps
  <1> HIDE DEF rs
  <1> QED
    BY <1>1, ToldKnows

\* A step of the manager alone, on a run it keeps or replaces.
LEMMA WorkStands ==
  ASSUME UNCHANGED <<intents, leases>>
  PROVE  \A r : /\ HasWork(r)' <=> HasWork(r)
                /\ HasFailed(r)' <=> HasFailed(r)
                /\ Summary(r, intents', leases') = Summary(r, intents, leases)
  BY DEF HasWork, HasFailed, OfRun

----------------------------------------------------------------------------
\* What Move leaves alone, and where it moves the rest.
LEMMA MoveLive ==
  ASSUME NEW I, NEW st, NEW op, intents' = Move(I, st, op)
  PROVE  /\ DOMAIN intents' = DOMAIN intents
         /\ \A i \in DOMAIN intents \ I : intents'[i] = intents[i]
  BY DEF Move

LEMMA MoveToLive ==
  ASSUME IInv, NEW I, NEW st \in Live, NEW op \in 0..MaxOps, intents' = Move(I, st, op)
  PROVE  /\ DOMAIN intents' = DOMAIN intents
         /\ \A i \in DOMAIN intents : IsLive(intents[i]) => IsLive(intents'[i])
  <1>1. IsMove(intents', I, st, op)
    BY Moved DEF IInv
  <1> QED
    BY <1>1 DEF IsMove, IsLive

LEMMA AcquireKnows ==
  ASSUME ManagerIInv, Maps, NEW c \in Callers,
         NEW id \in Leases, NEW s \in Slots, NEW source \in Sources,
         NEW from \in Slots \cup {NoSlot}, Acquire(c, id, s, source, from)
  PROVE  Knows
  <1>1. IInv /\ ManagerKnows
    BY DEF ManagerIInv, WorkIInv
  <1>2. UNCHANGED <<intents, pending, lapses>>
    BY DEF Acquire, AcquireEnqueue
  <1>3. CancelsAlone'
    BY <1>1, <1>2 DEF ManagerKnows, CancelsAlone
  <1>4. \A r \in Runs : HasFailed(r)' <=> HasFailed(r)
    BY <1>2 DEF HasFailed, OfRun
  <1>5. run # NoRecord => run.id \in Runs
    BY DEF ManagerIInv, WorkIInv, PortTyped, TeamRunRecord
  \* The lease is for work that is there, or for the run that is active.
  <1>6. ASSUME NEW r \in Runs, AcquireEnqueue(id, s, source, r), UNCHANGED run,
               HasWork(r) \/ (Active(run) /\ run.id = r)
        PROVE  Knows
    <2> DEFINE lease == [id |-> id, slot |-> s, source |-> source, run |-> r]
    <2>1. leases' = leases \cup {lease} /\ lease.run = r
      BY <1>6 DEF AcquireEnqueue
    <2> HIDE DEF lease
    <2>2. \A x \in Runs : HasWork(x)' <=> HasWork(x) \/ x = r
      BY <1>2, <2>1 DEF HasWork, OfRun
    <2>3. \A x \in Runs : x # r => Summary(x, intents', leases') = Summary(x, intents, leases)
      BY <1>2, <2>1, Zenon DEF Summary
    <2>4. EndIsOnItsWay'
      <3> SUFFICES ASSUME lapses = {}, Active(run), ~HasWork(run.id)'
                   PROVE  \E d \in Callers : Summary(run.id, intents', leases') \in pending[d]
        BY <1>2, <1>6 DEF EndIsOnItsWay, Active, HasWork, OfRun
      <3>1. PICK x \in Runs : x = run.id
        BY <1>5 DEF Active
      <3>2. ~HasWork(x)'
        BY <1>6, <3>1 DEF HasWork, OfRun
      <3>3. x # r /\ ~HasWork(x)
        BY <2>2, <3>2
      <3> QED
        BY <1>1, <2>3, <3>1, <3>3 DEF ManagerKnows, EndIsOnItsWay
    <2>5. ASSUME "late" \notin lapses PROVE RunIsRight'
      <3>1. RunIsRight
        BY <1>1, <2>5 DEF ManagerKnows
      <3>2. BoundWorkKeepsItsRun'
        <4> SUFFICES ASSUME NEW r1 \in Runs, HasWork(r1)', ~HasFailed(r1)'
                     PROVE  run # NoRecord /\ run.id = r1
          BY <1>6 DEF BoundWorkKeepsItsRun, HasFailed
        <4>1. (HasWork(r1) /\ ~HasFailed(r1)) \/ (Active(run) /\ run.id = r1)
          BY <1>4, <1>6, <2>2
        <4> QED
          BY <3>1, <4>1 DEF RunIsRight, BoundWorkKeepsItsRun, HasFailed, Active
      <3>3. FinishedHasNoWork'
        <4> SUFFICES ASSUME run # NoRecord, HasWork(run.id)', ~HasFailed(run.id)' PROVE Active(run)
          BY <1>6 DEF FinishedHasNoWork, Active, HasFailed, HasWork, OfRun
        <4>1. PICK x \in Runs : x = run.id
          BY <1>5
        <4>2. HasWork(x)' /\ ~HasFailed(x)'
          BY <1>6, <4>1 DEF HasFailed, HasWork, OfRun
        <4>3. (HasWork(x) /\ ~HasFailed(x)) \/ Active(run)
          BY <1>4, <1>6, <2>2, <4>1, <4>2
        <4> QED
          BY <3>1, <4>1, <4>3 DEF RunIsRight, FinishedHasNoWork
      <3>4. FailedForAReason'
        BY <1>2, <1>6, <3>1 DEF RunIsRight, FailedForAReason, HasFailed, OfRun
      <3> QED
        BY <3>2, <3>3, <3>4 DEF RunIsRight
    <2>6. StatusMoves
      BY <1>6 DEF StatusMoves, SameRun
    <2> QED
      BY <1>2, <1>3, <2>4, <2>5, <2>6 DEF Knows, ManagerKnows
  <1>7. CASE InheritsFrom(from) /\ AcquireEnqueue(id, s, source, FirstRun(active[from])) /\ UNCHANGED run
    <2>1. PICK i \in batches[active[from]].intents :
            /\ i \in DOMAIN intents /\ IsLive(intents[i])
            /\ intents[i].run = FirstRun(active[from])
            /\ intents[i].run \in Runs
      BY <1>1, <1>7, FirstRunIsBound
    <2>2. HasWork(FirstRun(active[from]))
      BY <2>1 DEF HasWork, OfRun, IsLive
    <2> QED
      BY <1>6, <1>7, <2>1, <2>2
  <1>8. CASE Active(run) /\ AcquireEnqueue(id, s, source, run.id) /\ UNCHANGED run
    <2>1. run.id \in Runs
      BY <1>5, <1>8 DEF Active
    <2> QED
      BY <1>6, <1>8, <2>1
  <1>9. ASSUME ~Active(run), NEW r \in Runs, Fresh(r), AcquireEnqueue(id, s, source, r),
               run' = [id |-> r, status |-> "Accepted"]
        PROVE  Knows
    <2> DEFINE lease == [id |-> id, slot |-> s, source |-> source, run |-> r]
    <2>1. leases' = leases \cup {lease} /\ lease.run = r
      BY <1>9 DEF AcquireEnqueue
    <2> HIDE DEF lease
    <2>2. /\ \A x \in Runs : HasWork(x)' => HasWork(x) \/ x = r
          /\ HasWork(r)'
      BY <1>2, <2>1 DEF HasWork, OfRun
    <2>3. run'.id = r /\ run'.status = "Accepted" /\ (run # NoRecord => run.id # r)
      BY <1>9 DEF Fresh
    <2>4. run' # NoRecord
      BY <1>9, NoRecordAssumption DEF TeamRunRecord, ActiveStatus
    <2>5. Active(run')
      BY <2>3, <2>4 DEF Active, ActiveStatus
    <2>6. EndIsOnItsWay'
      BY <2>2, <2>3 DEF EndIsOnItsWay, HasWork, OfRun
    <2>7. ASSUME "late" \notin lapses PROVE BoundWorkKeepsItsRun'
      <3> SUFFICES ASSUME NEW x \in Runs, HasWork(x)', ~HasFailed(x)'
                   PROVE  run'.id = x
        BY <2>4 DEF BoundWorkKeepsItsRun, HasFailed
      <3>1. RunIsRight
        BY <1>1, <2>7 DEF ManagerKnows
      <3>2. CASE x = r
        BY <2>3, <3>2
      <3>3. CASE HasWork(x)
        <4>1. run # NoRecord /\ run.id = x /\ ~HasFailed(x)
          BY <1>4, <3>1, <3>3 DEF RunIsRight, BoundWorkKeepsItsRun, HasFailed
        <4>2. Active(run)
          BY <3>1, <3>3, <4>1 DEF RunIsRight, FinishedHasNoWork
        <4> QED
          BY <1>9, <4>2
      <3> QED
        BY <2>2, <3>2, <3>3
    <2>8. FinishedHasNoWork'
      BY <2>5 DEF FinishedHasNoWork, Active
    <2>9. FailedForAReason'
      BY <2>3 DEF FailedForAReason
    <2>10. StatusMoves
      BY <2>3 DEF StatusMoves, SameRun
    <2> QED
      BY <1>2, <1>3, <2>6, <2>7, <2>8, <2>9, <2>10 DEF Knows, ManagerKnows, RunIsRight
  <1> QED
    BY <1>7, <1>8, <1>9 DEF Acquire

LEMMA CommitKnows ==
  ASSUME ManagerIInv, Good, NEW c \in Callers,
         NEW l \in leases, NEW m \in Messages \cup {NoMessage}, Commit(c, l, m)
  PROVE  Knows
  <1> DEFINE n == Len(intents)
             w == NewIntent(l.slot, l.source, m, l.run, n + 1)
             rs == {l.run} \ {NoRun}
             aborts == {}
  <1>1. /\ Idle(c) /\ Publish(c, rs) /\ CommitEnqueue(l, m)
        /\ intents' = Append(intents, w) /\ leases' = leases \ {l}
    BY DEF Commit, CommitEnqueue
  <1>2. IInv /\ Good
    BY DEF ManagerIInv, WorkIInv
  <1>3. l.slot \in Slots /\ l.source \in WorkSources /\ l.run \in Runs \cup {NoRun}
    BY <1>2 DEF IInv, TypeOK, EnqueueLease
  <1>4. n \in Nat /\ DOMAIN intents = 1..n /\ intents \in Seq(WorkIntent)
    BY <1>2, Facts DEF IInv, TypeOK
  <1>5. w.run = l.run /\ w.state = "Queued"
    BY DEF NewIntent
  <1>6. w \in WorkIntent
    <2>1. n + 1 \in Nat /\ 0 \in 0..MaxOps /\ "Queued" \in Live
      BY <1>4, BoundsAssumption DEF Live
    <2> HIDE DEF n
    <2> QED
      BY <1>3, <2>1 DEF NewIntent, WorkIntent
  <1> HIDE DEF w
  <1>7. /\ \A i \in 1..n : intents'[i] = intents[i]
        /\ intents'[n + 1] = w
        /\ DOMAIN intents' = 1..(n + 1)
    <2>1. /\ intents' \in Seq(WorkIntent) /\ Len(intents') = n + 1
          /\ \A i \in 1..n : intents'[i] = intents[i]
          /\ intents'[n + 1] = w
      BY <1>1, <1>4, <1>6, AppendProperties
    <2> QED
      BY <2>1, LenProperties
  <1>8. ASSUME NEW r \in Runs PROVE HasWork(r)' <=> HasWork(r)
    <2>1. ASSUME HasWork(r)' PROVE HasWork(r)
      <3>1. CASE \E x \in leases' : x.run = r
        BY <1>1, <3>1 DEF HasWork
      <3>2. CASE \E i \in DOMAIN intents' : intents'[i].run = r /\ intents'[i].state \in Live
        <4>1. PICK i \in DOMAIN intents' : intents'[i].run = r /\ intents'[i].state \in Live
          BY <3>2
        <4>2. CASE i = n + 1
          BY <1>5, <1>7, <4>1, <4>2 DEF HasWork
        <4>3. CASE i # n + 1
          <5>1. i \in DOMAIN intents /\ intents'[i] = intents[i]
            BY <1>4, <1>7, <4>3
          <5> QED
            BY <4>1, <5>1 DEF HasWork, OfRun
        <4> QED
          BY <4>2, <4>3
      <3> QED
        BY <2>1, <3>1, <3>2 DEF HasWork, OfRun
    <2>2. ASSUME HasWork(r) PROVE HasWork(r)'
      <3>1. CASE l.run = r
        <4>1. n + 1 \in DOMAIN intents' /\ intents'[n + 1].run = r /\ intents'[n + 1].state \in Live
          BY <1>4, <1>5, <1>7, <3>1 DEF Live
        <4> QED
          BY <4>1 DEF HasWork, OfRun
      <3>2. CASE l.run # r /\ \E x \in leases : x.run = r
        BY <1>1, <3>2 DEF HasWork
      <3>3. CASE \E i \in DOMAIN intents : intents[i].run = r /\ intents[i].state \in Live
        <4>1. PICK i \in DOMAIN intents : intents[i].run = r /\ intents[i].state \in Live
          BY <3>3
        <4>2. i \in DOMAIN intents' /\ intents'[i] = intents[i]
          BY <1>4, <1>7
        <4> QED
          BY <4>1, <4>2 DEF HasWork, OfRun
      <3> QED
        BY <2>2, <3>1, <3>2, <3>3 DEF HasWork, OfRun
    <2> QED
      BY <2>1, <2>2
  <1>9. rs \in SUBSET Runs /\ UNCHANGED <<run, lapses>>
    BY <1>1, <1>3 DEF Publish
  <1>10. /\ pending' = [pending EXCEPT ![c] = {Summary(r, intents', leases') : r \in rs} \cup aborts]
         /\ \A call \in aborts : call.call = "abort_binding"
         /\ \A call \in pending[c] : call.call # "apply_work_summary"
    BY <1>1 DEF Publish, Idle
  <1>11. \A i \in DOMAIN intents' \ DOMAIN intents : IsLive(intents'[i])
    BY <1>4, <1>5, <1>7 DEF IsLive, Live
  <1> HIDE DEF rs, aborts
  <1> QED
    BY <1>2, <1>8, <1>9, <1>10, <1>11, PublishedKnows

LEMMA AbortKnows ==
  ASSUME ManagerIInv, Maps, NEW c \in Callers, NEW l \in leases, Abort(c, l)
  PROVE  Knows
  <1> DEFINE rs == {l.run} \ {NoRun}
             aborts == {[call |-> "abort_binding", run |-> r] : r \in {r \in {l.run} \ {NoRun} : Empty(r, intents', leases')}}
  <1>1. /\ Idle(c) /\ UNCHANGED <<intents, run, lapses>> /\ leases' = leases \ {l}
        /\ pending' = [pending EXCEPT ![c] = {Summary(r, intents', leases') : r \in rs} \cup aborts]
    BY DEF Abort, AbortEnqueue
  <1>2. Good /\ rs \in SUBSET Runs
    BY DEF ManagerIInv, WorkIInv, IInv, TypeOK, EnqueueLease, Maps
  <1>3. /\ \A call \in aborts : call.call = "abort_binding"
        /\ \A call \in pending[c] : call.call # "apply_work_summary"
        /\ DOMAIN intents' = DOMAIN intents
    BY <1>1 DEF Idle
  <1>4. \A r \in Runs : HasWork(r)' => HasWork(r)
    BY <1>1 DEF HasWork, OfRun
  <1>5. \A r \in Runs : HasWork(r) /\ ~HasWork(r)' => r \in rs
    BY <1>1, NoRunAssumption DEF HasWork, OfRun
  <1> HIDE DEF rs, aborts
  <1> QED
    BY <1>1, <1>2, <1>3, <1>4, <1>5, PublishedKnows

LEMMA ExecuteKnows ==
  ASSUME ManagerIInv, Maps, NEW c \in Callers, Execute(c)
  PROVE  Knows
  <1>0. IInv /\ Good
    BY DEF ManagerIInv, WorkIInv, Maps
  <1>1. ASSUME NEW s \in Slots, Claim(c, s) PROVE Knows
    <2> DEFINE ids == batches'[active'[s]].intents
    <2>1. PICK batch, op : op = Len(batches) + 1 /\ op <= MaxOps /\ intents' = Move(batch, "Starting", op)
      BY <1>1 DEF Claim, ClaimBatch
    <2>2. op \in 0..MaxOps /\ "Starting" \in Live
      BY <1>0, <2>1, Facts, BoundsAssumption DEF Live
    <2>3. DOMAIN intents' = DOMAIN intents /\ \A i \in DOMAIN intents : IsLive(intents[i]) => IsLive(intents'[i])
      BY <1>0, <2>1, <2>2, MoveToLive
    <2>4. ids \subseteq DOMAIN intents
      <3>1. BatchesHoldTheirSlot' /\ EveryIntentHasOnePlace' /\ active'[s] # 0
        BY <1>0, <1>1 DEF Good, IInv, Ordered, Claim, ClaimBatch, TypeOK
      <3> QED
        BY <2>3, <3>1 DEF BatchesHoldTheirSlot, EveryIntentHasOnePlace
    <2>5. Idle(c) /\ Publish(c, RunsOf(ids)) /\ UNCHANGED leases
      BY <1>1 DEF Claim, ClaimBatch
    <2> HIDE DEF ids
    <2> QED
      BY <2>3, <2>4, <2>5, LeasesKeptKnows
  <1>2. ASSUME NEW s \in Slots, NEW ids \in SUBSET DOMAIN intents, SettleSignals(c, s, ids)
        PROVE  Knows
    <2>1. /\ Idle(c) /\ Publish(c, RunsOf(ids)) /\ UNCHANGED leases
          /\ intents' = Move(ids, "Completed", 0)
      BY <1>2 DEF SettleSignals, CompleteSignals
    <2> QED
      BY <2>1, MoveLive, LeasesKeptKnows
  <1>3. ASSUME NEW op \in DOMAIN batches, Start(c, op) \/ Retry(c, op) PROVE Knows
    <2> DEFINE ids == batches[op].intents
    <2>1. Current(op) /\ Idle(c) /\ Publish(c, RunsOf(ids)) /\ UNCHANGED leases
      BY <1>3 DEF Start, Retry, MarkStarted, RetryStart
    <2>2. ids \subseteq DOMAIN intents /\ op \in 0..MaxOps
      BY <1>0, <2>1, BatchIsBusy
    <2>3. DOMAIN intents' = DOMAIN intents /\ \A i \in DOMAIN intents : IsLive(intents[i]) => IsLive(intents'[i])
      <3>1. intents' = Move(ids, "Running", op) \/ intents' = Move(ids, "Queued", 0)
        BY <1>3 DEF Start, Retry, MarkStarted, RetryStart
      <3>2. 0 \in 0..MaxOps /\ "Running" \in Live /\ "Queued" \in Live
        BY BoundsAssumption DEF Live
      <3> HIDE DEF ids
      <3> QED
        BY <1>0, <2>2, <3>1, <3>2, MoveToLive
    <2> HIDE DEF ids
    <2> QED
      BY <2>1, <2>2, <2>3, LeasesKeptKnows
  <1>4. ASSUME NEW op \in DOMAIN batches, NEW st \in Terminal, Terminalize(c, op, st) PROVE Knows
    <2> DEFINE ids == batches[op].intents
    <2>1. /\ Current(op) /\ Idle(c) /\ Publish(c, RunsOf(ids)) /\ UNCHANGED leases
          /\ intents' = Move(ids, st, 0)
      BY <1>4 DEF Terminalize, TerminalizeBatch
    <2>2. ids \subseteq DOMAIN intents
      BY <1>0, <2>1, BatchIsBusy
    <2> HIDE DEF ids
    <2> QED
      BY <2>1, <2>2, MoveLive, LeasesKeptKnows
  <1> QED
    BY <1>1, <1>2, <1>3, <1>4 DEF Execute

LEMMA ControlKnows ==
  ASSUME ManagerIInv, Maps, NEW c \in Callers, Control(c)
  PROVE  Knows
  <1>0. IInv /\ Good
    BY DEF ManagerIInv, WorkIInv, Maps
  <1>1. /\ \A i \in DOMAIN intents : intents[i] \in WorkIntent
        /\ \A i \in DOMAIN intents' : intents'[i] \in WorkIntent
    BY <1>0, StepRuns
  <1>2. ASSUME NEW s \in Slots, NEW k \in Constraints, Constrain(c, s, k) PROVE Knows
    <2> DEFINE ids == {i \in LiveOf(s) : intents'[i].state \in Terminal}
    <2>1. Idle(c) /\ Publish(c, RunsOf(ids)) /\ UNCHANGED leases
      BY <1>2 DEF Constrain, SetConstraint
    <2>2. ids \subseteq DOMAIN intents
      BY DEF LiveOf
    <2>3. DOMAIN intents' = DOMAIN intents /\ \A i \in DOMAIN intents \ LiveOf(s) : intents'[i] = intents[i]
      BY <1>2 DEF Constrain, SetConstraint
    <2>4. ASSUME NEW i \in DOMAIN intents \ ids, IsLive(intents[i]) PROVE IsLive(intents'[i])
      <3>1. CASE i \in LiveOf(s)
        <4>1. intents'[i].state \notin Terminal
          BY <2>4, <3>1
        <4> QED
          BY <1>1, <2>3, <4>1, StatesDiffer
      <3>2. CASE i \notin LiveOf(s)
        BY <2>3, <2>4, <3>2
      <3> QED
        BY <3>1, <3>2
    <2> HIDE DEF ids
    <2> QED
      BY <2>1, <2>2, <2>3, <2>4, LeasesKeptKnows
  <1>3. ASSUME NEW s \in Slots, Remove(c, s) PROVE Knows
    <2> DEFINE ids == LiveOf(s)
               members == IF active[s] = 0 THEN {} ELSE batches[active[s]].intents
               I == members \cup queued[s] \cup LiveOf(s)
    <2>1. Idle(c) /\ Publish(c, RunsOf(ids)) /\ UNCHANGED leases /\ intents' = Move(I, "Cancelled", 0)
      BY <1>3 DEF Remove, RemoveSlot
    <2>2. ids \subseteq DOMAIN intents
      BY DEF LiveOf
    <2>3. \A i \in DOMAIN intents \ ids : IsLive(intents[i]) => intents[i].slot # s
      BY DEF LiveOf, IsLive
    <2>4. \A i \in I : i \in DOMAIN intents => intents[i].slot = s
      <3>1. \A i \in queued[s] : intents[i].slot = s
        BY <1>0 DEF IInv, EveryIntentHasOnePlace
      <3>2. \A i \in members : intents[i].slot = s
        <4>1. active[s] # 0 => active[s] \in DOMAIN batches /\ batches[active[s]].slot = s
          BY <1>0 DEF IInv, EveryIntentHasOnePlace
        <4> QED
          BY <1>0, <4>1 DEF IInv, Ordered, BatchesHoldTheirSlot
      <3> QED
        BY <3>1, <3>2 DEF LiveOf
    <2> HIDE DEF ids, members, I
    <2>5. DOMAIN intents' = DOMAIN intents /\ \A i \in DOMAIN intents \ I : intents'[i] = intents[i]
      BY <2>1, MoveLive
    <2>6. \A i \in DOMAIN intents \ ids : IsLive(intents[i]) => IsLive(intents'[i])
      BY <2>3, <2>4, <2>5
    <2> QED
      BY <2>1, <2>2, <2>5, <2>6, LeasesKeptKnows
  <1>4. CASE StopWork(c)
    <2> DEFINE ids == DOMAIN intents
               rs == RunsOf(ids) \cup ({l.run : l \in leases} \ {NoRun})
    <2>1. Idle(c) /\ Publish(c, rs) /\ leases' = {} /\ DOMAIN intents' = DOMAIN intents
      BY <1>4 DEF StopWork, StopSession, Move
    <2>2. /\ RunsOf(ids) \subseteq rs /\ ids = DOMAIN intents
          /\ rs \subseteq RunsOf(ids) \cup Runs
          /\ \A l \in leases : l.run \in rs \cup {NoRun}
      BY <1>0, StepRuns
    <2> HIDE DEF ids, rs
    <2>3. ids \subseteq DOMAIN intents /\ leases' \subseteq leases
          /\ \A l \in leases \ leases' : l.run \in rs \cup {NoRun}
          /\ \A i \in DOMAIN intents \ ids : IsLive(intents[i]) => IsLive(intents'[i])
      BY <2>1, <2>2
    <2> QED
      BY <1>0, <2>1, <2>2, <2>3, ToldKnows
  <1>5. CASE BeginCancel(c)
    <2> DEFINE call == [call |-> "cancel_run", run |-> run.id]
    <2>1. /\ Idle(c) /\ Active(run) /\ UNCHANGED <<intents, leases, lapses>>
          /\ run' = [run EXCEPT !.status = "Cancelling"]
          /\ pending' = [pending EXCEPT ![c] = {call}]
      BY <1>5 DEF BeginCancel, coordinatorVars
    <2>2. /\ run \in TeamRunRecord /\ pending \in [Callers -> SUBSET PortCall]
          /\ ManagerKnows
      BY <2>1 DEF ManagerIInv, WorkIInv, PortTyped, Active
    <2>3. /\ run' \in TeamRunRecord /\ run'.id = run.id /\ run'.status = "Cancelling"
          /\ run' # NoRecord /\ run # NoRecord /\ run.id \in Runs
      BY <2>1, <2>2, NoRecordAssumption DEF TeamRunRecord, ActiveStatus
    <2>4. pending'[c] = {call} /\ \A d \in Callers \ {c} : pending'[d] = pending[d]
      BY <2>1, <2>2
    <2>5. pending[c] = {}
      BY <2>1 DEF Idle
    <2> HIDE DEF call
    <2>6. Active(run')
      BY <2>3 DEF Active, ActiveStatus
    <2>7. CancelsAlone'
      BY <2>2, <2>4 DEF ManagerKnows, CancelsAlone
    <2>8. EndIsOnItsWay'
      <3> SUFFICES ASSUME lapses = {}, ~HasWork(run.id)
                   PROVE  \E d \in Callers : Summary(run.id, intents, leases) \in pending'[d]
        BY <2>1, <2>3 DEF EndIsOnItsWay, HasWork, OfRun
      <3>1. PICK d \in Callers : Summary(run.id, intents, leases) \in pending[d]
        BY <2>1, <2>2 DEF ManagerKnows, EndIsOnItsWay
      <3> QED
        BY <2>4, <2>5, <3>1
    <2>9. ASSUME "late" \notin lapses PROVE RunIsRight'
      <3>1. RunIsRight
        BY <2>2, <2>9 DEF ManagerKnows
      <3>2. BoundWorkKeepsItsRun'
        BY <2>1, <2>3, <3>1 DEF RunIsRight, BoundWorkKeepsItsRun, HasWork, OfRun
      <3>3. FinishedHasNoWork' /\ FailedForAReason'
        BY <2>3, <2>6 DEF FinishedHasNoWork, FailedForAReason, Active
      <3> QED
        BY <3>2, <3>3 DEF RunIsRight
    <2>10. StatusMoves
      BY <2>1 DEF StatusMoves, SameRun, Active, ActiveStatus, FinishedStatus
    <2> QED
      BY <2>1, <2>7, <2>8, <2>9, <2>10 DEF Knows, ManagerKnows
  <1>6. ASSUME NEW s \in Slots, Pause(c, s) PROVE Knows
    <2>1. UNCHANGED <<intents, run, pending, leases, lapses>>
      BY <1>6 DEF Pause, PauseSlot
    <2>2. /\ HasWork(run.id) => HasWork(run.id)'
          /\ \A r \in Runs : HasWork(r)' => HasWork(r)
      BY <2>1 DEF HasWork, OfRun
    <2>3. CancelsAlone' /\ (\A d \in Callers : \A x \in pending[d] : x \in pending'[d])
      BY <2>1 DEF ManagerIInv, ManagerKnows, CancelsAlone
    <2>4. DOMAIN intents' \ DOMAIN intents = {}
      BY <2>1
    <2> QED
      BY <1>0, <2>1, <2>2, <2>3, <2>4, EndingKnows
  <1> QED
    BY <1>2, <1>3, <1>4, <1>5, <1>6 DEF Control

LEMMA PortKnows ==
  ASSUME ManagerIInv, Maps, NEW c \in Callers, PortStep(c)
  PROVE  Knows
  <1>0. /\ IInv /\ Good /\ ManagerKnows
        /\ run \in TeamRunRecord \cup {NoRecord}
        /\ pending \in [Callers -> SUBSET PortCall]
    BY DEF ManagerIInv, WorkIInv, PortTyped, Maps
  <1>1. CASE AbortBinding(c)
    <2>1. PICK call \in pending[c] :
             /\ call.call = "abort_binding"
             /\ pending' = [pending EXCEPT ![c] = @ \ {call}]
             /\ run' = IF run # NoRecord /\ run.id = call.run THEN NoRecord ELSE run
             /\ LateFor(call.run, Empty(call.run, intents, leases))
             /\ UNCHANGED coordinatorVars
      BY <1>1 DEF AbortBinding
    <2>2. /\ UNCHANGED <<intents, leases>> /\ pending'[c] = pending[c] \ {call}
          /\ \A d \in Callers \ {c} : pending'[d] = pending[d]
      BY <1>0, <2>1 DEF coordinatorVars
    <2>3. CancelsAlone'
      BY <1>0, <2>1, <2>2 DEF ManagerKnows, CancelsAlone
    <2>4. CASE run # NoRecord /\ run.id = call.run
      <3>1. run' = NoRecord /\ lapses \subseteq lapses'
        BY <2>1, <2>4 DEF LateFor
      <3>2. ASSUME "late" \notin lapses', NEW r \in Runs, HasWork(r)', ~HasFailed(r)' PROVE FALSE
        <4>1. HasWork(r) /\ ~HasFailed(r) /\ RunIsRight
          BY <1>0, <2>2, <3>1, <3>2, WorkStands DEF ManagerKnows
        <4>2. r = call.run
          BY <2>4, <4>1 DEF RunIsRight, BoundWorkKeepsItsRun, HasFailed
        <4>3. Empty(call.run, intents, leases)
          BY <2>1, <2>4, <3>2 DEF LateFor
        <4> QED
          BY <4>1, <4>2, <4>3 DEF Empty, HasWork, OfRun
      <3>3. "late" \notin lapses' => BoundWorkKeepsItsRun'
        BY <3>2 DEF BoundWorkKeepsItsRun, HasFailed
      <3> QED
        BY <2>3, <3>1, <3>3 DEF Knows, ManagerKnows, EndIsOnItsWay, RunIsRight, Active, FinishedHasNoWork,
           FailedForAReason, StatusMoves, SameRun
    <2>5. CASE ~(run # NoRecord /\ run.id = call.run)
      <3>1. UNCHANGED <<run, lapses>>
        BY <2>1, <2>5 DEF LateFor
      <3>2. \A d \in Callers : \A x \in pending[d] : x.call = "apply_work_summary" => x \in pending'[d]
        BY <2>1, <2>2
      <3>3. ~(HasWork(run.id) /\ ~HasWork(run.id)') /\ \A r \in Runs : HasWork(r)' => HasWork(r)
        BY <2>2, <3>1, WorkStands DEF HasWork, OfRun
      <3>4. DOMAIN intents' = DOMAIN intents
        BY <2>2
      <3> QED
        BY <1>0, <2>3, <3>1, <3>2, <3>3, <3>4, EndingKnows
    <2> QED
      BY <2>4, <2>5
  <1>2. CASE ApplyWorkSummary(c)
    <2>1. PICK sum \in pending[c] :
             /\ pending' = [pending EXCEPT ![c] = @ \ {sum}]
             /\ run' = IF run # NoRecord /\ run.id = sum.run
                       THEN [run EXCEPT !.status = StatusAfter(@, sum)]
                       ELSE run
             /\ LateFor(sum.run, sum = Summary(sum.run, intents, leases))
             /\ \A call \in pending[c] : call.call = "apply_work_summary"
      BY <1>2 DEF ApplyWorkSummary
    <2>2. /\ UNCHANGED <<intents, leases>> /\ pending'[c] = pending[c] \ {sum}
          /\ \A d \in Callers \ {c} : pending'[d] = pending[d]
          /\ sum.run \in Runs
      BY <1>0, <1>2, <2>1 DEF coordinatorVars, ApplyWorkSummary, PortCall, RunWorkSummary
    <2>3. CancelsAlone'
      BY <1>0, <2>1, <2>2 DEF ManagerKnows, CancelsAlone
    <2>4. lapses \subseteq lapses'
      BY <2>1 DEF LateFor
    <2>5. CASE ~(run # NoRecord /\ run.id = sum.run)
      <3>1. UNCHANGED <<run, lapses>>
        BY <2>1, <2>5 DEF LateFor
      <3>2. EndIsOnItsWay'
        <4> SUFFICES ASSUME lapses = {}, Active(run), ~HasWork(run.id)
                     PROVE  \E d \in Callers : Summary(run.id, intents, leases) \in pending'[d]
          BY <2>2, <3>1, WorkStands DEF EndIsOnItsWay, Active, HasWork, OfRun
        <4>1. PICK d \in Callers : Summary(run.id, intents, leases) \in pending[d]
          BY <1>0 DEF ManagerKnows, EndIsOnItsWay
        <4>2. PICK r \in Runs : r = run.id
          BY <1>0 DEF Active, TeamRunRecord
        <4>3. Summary(run.id, intents, leases) # sum
          BY <2>5, <4>2, SummaryTells DEF Active
        <4> QED
          BY <2>2, <4>1, <4>3
      <3>3. "late" \notin lapses' => RunIsRight'
        <4>1. RunIsRight => RunIsRight'
          BY <2>2, <3>1 DEF RunIsRight, BoundWorkKeepsItsRun, FinishedHasNoWork, FailedForAReason,
             HasWork, HasFailed, OfRun, Active
        <4> QED
          BY <1>0, <3>1, <4>1 DEF ManagerKnows
      <3>4. StatusMoves
        BY <3>1 DEF StatusMoves, SameRun
      <3> QED
        BY <2>3, <3>2, <3>3, <3>4 DEF Knows, ManagerKnows
    \* A summary of the manager's run that is late.
    <2>6. CASE run # NoRecord /\ run.id = sum.run /\ sum # Summary(sum.run, intents, leases)
      <3>1. "late" \in lapses'
        BY <2>1, <2>6 DEF LateFor
      <3> QED
        BY <2>3, <3>1 DEF Knows, ManagerKnows, EndIsOnItsWay, StatusMoves
    <2>7. CASE run # NoRecord /\ run.id = sum.run /\ sum = Summary(sum.run, intents, leases)
      <3> DEFINE status == StatusAfter(run.status, sum)
      <3>1. PICK r \in Runs : r = run.id /\ r = sum.run /\ sum = Summary(r, intents, leases)
        BY <2>2, <2>7
      <3>2. run \in TeamRunRecord /\ run' = [run EXCEPT !.status = status] /\ lapses' = lapses
        BY <1>0, <2>1, <2>7 DEF LateFor
      <3>3. run' # NoRecord /\ run'.id = r /\ run'.status = status
        <4>1. run'.id = r /\ run'.status = status
          BY <3>1, <3>2 DEF TeamRunRecord
        <4>2. status \in ActiveStatus \cup FinishedStatus
          BY <3>2 DEF StatusAfter, TeamRunRecord, ActiveStatus, FinishedStatus
        <4>3. run' \in TeamRunRecord
          BY <3>2, <4>2 DEF TeamRunRecord
        <4> QED
          BY <4>1, <4>3, NoRecordAssumption
      <3>4. /\ sum.work <=> HasWork(r)
            /\ sum.failed <=> HasFailed(r)
            /\ sum.running => HasWork(r)
        BY <3>1, SummaryTells
      <3>5. /\ HasFailed(r) => status = "Failed"
            /\ ~HasFailed(r) /\ ~HasWork(r) => status \in {"Completed", "Cancelled"}
            /\ ~HasFailed(r) /\ HasWork(r) => status \in {"Running", run.status}
        <4>1. CASE sum.failed
          BY <3>4, <4>1 DEF StatusAfter
        <4>2. CASE ~sum.failed /\ ~sum.work
          BY <3>4, <4>2 DEF StatusAfter
        <4>3. CASE ~sum.failed /\ sum.work
          BY <3>4, <4>3 DEF StatusAfter
        <4> QED
          BY <4>1, <4>2, <4>3
      <3> HIDE DEF status
      <3>6. EndIsOnItsWay'
        <4>1. Active(run)' => HasWork(r)
          BY <3>3, <3>5 DEF Active, ActiveStatus
        <4>2. Active(run)' => HasWork(run.id)'
          BY <2>2, <3>3, <4>1 DEF HasWork, OfRun
        <4> QED
          BY <4>2 DEF EndIsOnItsWay
      <3>7. ASSUME "late" \notin lapses'
            PROVE  /\ HasWork(r) /\ ~HasFailed(r) => run.status \in ActiveStatus
                   /\ run.status = "Failed" => HasFailed(r)
                   /\ RunIsRight
        BY <1>0, <2>7, <3>1, <3>2, <3>7 DEF ManagerKnows, RunIsRight, FinishedHasNoWork, FailedForAReason, Active
      <3>8. ASSUME "late" \notin lapses' PROVE RunIsRight'
        <4>1. BoundWorkKeepsItsRun'
          <5> SUFFICES ASSUME NEW x \in Runs, HasWork(x)', ~HasFailed(x)' PROVE x = r
            BY <3>3 DEF BoundWorkKeepsItsRun, HasFailed
          <5>1. HasWork(x) /\ ~HasFailed(x)
            BY <2>2 DEF HasWork, HasFailed, OfRun
          <5> QED
            BY <3>1, <3>7, <3>8, <5>1 DEF RunIsRight, BoundWorkKeepsItsRun, HasFailed
        <4>2. FinishedHasNoWork'
          <5> SUFFICES ASSUME HasWork(run.id)', ~HasFailed(run.id)' PROVE Active(run)'
            BY DEF FinishedHasNoWork
          <5>1. HasWork(r) /\ ~HasFailed(r)
            BY <2>2, <3>3 DEF HasWork, HasFailed, OfRun
          <5> QED
            BY <3>3, <3>5, <3>7, <3>8, <5>1 DEF Active, ActiveStatus
        <4>3. FailedForAReason'
          <5> SUFFICES ASSUME run'.status = "Failed" PROVE HasFailed(run.id)'
            BY DEF FailedForAReason
          <5>1. HasFailed(r)
            BY <3>3, <3>5, <3>7, <3>8
          <5> QED
            BY <2>2, <3>3, <5>1 DEF HasFailed, OfRun
        <4> QED
          BY <4>1, <4>2, <4>3 DEF RunIsRight
      <3>9. StatusMoves
        <4> SUFFICES ASSUME run.status \in FinishedStatus, "late" \notin lapses'
                     PROVE  run'.status \in FinishedStatus
          BY DEF StatusMoves
        <4>1. run.status \notin ActiveStatus
          BY DEF FinishedStatus, ActiveStatus
        <4> QED
          BY <3>3, <3>5, <3>7, <4>1 DEF FinishedStatus
      <3> QED
        BY <2>3, <3>6, <3>8, <3>9 DEF Knows, ManagerKnows
    <2> QED
      BY <2>5, <2>6, <2>7
  <1>3. CASE FinishCancel(c)
    <2>1. PICK call \in pending[c] : call.call = "cancel_run" /\ CancelRun(call.run) /\ Publish(c, {call.run})
      BY <1>3 DEF FinishCancel
    <2>2. pending[c] = {call} /\ call.run \in Runs
      BY <1>0, <2>1 DEF ManagerKnows, CancelsAlone, PortCall, RunWorkSummary
    <2> DEFINE r == call.run
               rs == {r}
               aborts == {}
    <2>3. /\ rs \in SUBSET Runs /\ r \in rs /\ UNCHANGED <<run, lapses>>
          /\ pending' = [pending EXCEPT ![c] = {Summary(x, intents', leases') : x \in rs} \cup aborts]
          /\ \A x \in aborts : x.call = "abort_binding"
          /\ \A x \in pending[c] : x.call # "apply_work_summary"
      BY <2>1, <2>2 DEF Publish
    <2>4. CancelRun(r) /\ r \in Runs
      BY <2>1, <2>2
    <2> HIDE DEF r, rs, aborts
    <2>5. /\ DOMAIN intents' = DOMAIN intents
          /\ \A i \in DOMAIN intents : intents'[i].run = intents[i].run
          /\ \A i \in DOMAIN intents : IsLive(intents'[i]) => IsLive(intents[i])
          /\ \A i \in DOMAIN intents : intents[i].run # r /\ IsLive(intents[i]) => IsLive(intents'[i])
          /\ \A i \in DOMAIN intents : intents[i].run = r => ~IsLive(intents'[i])
          /\ leases' = {l \in leases : l.run # r}
      <3>1. /\ leases' = {l \in leases : l.run # r}
            /\ DOMAIN intents' = DOMAIN intents
            /\ \A i \in DOMAIN intents :
                  IF intents[i].run = r /\ IsLive(intents[i])
                  THEN intents'[i].state = "Cancelled"
                  ELSE \/ intents'[i] = intents[i]
                       \/ IsLive(intents[i]) /\ intents'[i].state = "Queued"
        BY <1>0, <2>4, CancelMoves
      <3>2. \A i \in DOMAIN intents : intents'[i].run = intents[i].run
        BY <1>0, StepRuns
      <3>3. "Cancelled" \notin Live /\ "Queued" \in Live
        BY DEF Live
      <3> QED
        BY <3>1, <3>2, <3>3 DEF IsLive
    <2>6. \A x \in Runs : HasWork(x)' => HasWork(x)
      BY <2>5 DEF HasWork, OfRun, IsLive
    <2>7. \A x \in Runs : HasWork(x) /\ ~HasWork(x)' => x \in rs
      <3> SUFFICES ASSUME NEW x \in Runs, x # r, HasWork(x) PROVE HasWork(x)'
        BY <2>3
      <3>1. CASE \E l \in leases : l.run = x
        BY <2>5, <3>1 DEF HasWork
      <3>2. CASE \E i \in DOMAIN intents : intents[i].run = x /\ IsLive(intents[i])
        BY <2>5, <3>2 DEF HasWork, OfRun, IsLive
      <3> QED
        BY <3>1, <3>2 DEF HasWork, OfRun, IsLive
    <2>8. DOMAIN intents' \ DOMAIN intents = {}
      BY <2>5
    <2> QED
      BY <1>0, <2>3, <2>6, <2>7, <2>8, PublishedKnows
  <1> QED
    BY <1>1, <1>2, <1>3 DEF PortStep

\* What no summary is published for: work that reconcile_mailbox ends is a lapse.
LEMMA UntoldKnows ==
  ASSUME ManagerIInv, Maps, UntoldStep
  PROVE  Knows
  <1>0. IInv /\ Good /\ ManagerKnows
    BY DEF ManagerIInv, WorkIInv, Maps
  <1>1. /\ \A i \in DOMAIN intents : intents'[i].run = intents[i].run
        /\ \A i \in DOMAIN intents' : intents'[i] \in WorkIntent
        /\ \A i \in DOMAIN intents : IsLive(intents'[i]) => IsLive(intents[i])
    BY <1>0, StepRuns
  <1>2. ASSUME UNCHANGED <<run, pending, leases>>,
               \A i \in DOMAIN intents' \ DOMAIN intents : intents'[i].run = NoRun
        PROVE  /\ CancelsAlone'
               /\ \A d \in Callers : \A x \in pending[d] : x \in pending'[d]
               /\ \A r \in Runs : HasWork(r)' => HasWork(r)
    <2>1. ASSUME NEW r \in Runs, HasWork(r)' PROVE HasWork(r)
      <3>1. CASE \E l \in leases : l.run = r
        BY <3>1 DEF HasWork
      <3>2. CASE \E i \in DOMAIN intents' : intents'[i].run = r /\ IsLive(intents'[i])
        <4>1. PICK i \in DOMAIN intents' : intents'[i].run = r /\ IsLive(intents'[i])
          BY <3>2
        <4>2. i \in DOMAIN intents
          BY <1>2, <4>1, NoRunAssumption
        <4> QED
          BY <1>1, <4>1, <4>2 DEF HasWork, OfRun, IsLive
      <3> QED
        BY <1>2, <2>1, <3>1, <3>2 DEF HasWork, OfRun, IsLive
    <2> QED
      BY <1>0, <1>2, <2>1 DEF ManagerKnows, CancelsAlone
  <1>3. ASSUME NEW s \in Slots, NEW unread \in SUBSET Messages, ReconcileUntold(s, unread) PROVE Knows
    <2> DEFINE n == Len(intents)
               k == Cardinality(Unowned(s, unread))
               new == (n + 1)..(n + k)
    <2>1. PICK recovers : intents' = [i \in 1..(n + k) |->
                IF i \in new
                THEN NewIntent(s, "RecoveryDrain", recovers[i], NoRun, i)
                ELSE Move(Stale(s, unread), "Completed", 0)[i]]
      BY <1>3 DEF ReconcileUntold, ReconcileMailbox
    <2>2. n \in Nat /\ DOMAIN intents = 1..n
      BY <1>0, Facts
    <2>3. k \in Nat
      BY MessagesAssumption, FS_Subset, FS_CardinalityType DEF Unowned
    <2> HIDE DEF n, k
    <2>4. \A i \in DOMAIN intents' \ DOMAIN intents : intents'[i].run = NoRun /\ IsLive(intents'[i])
      BY <2>1, <2>2, <2>3 DEF NewIntent, IsLive, Live
    <2>5. UNCHANGED <<run, pending, leases>> /\ lapses \subseteq lapses'
          /\ ("late" \in lapses' => "late" \in lapses)
          /\ (run # NoRecord /\ HasWork(run.id) /\ ~HasWork(run.id)' => lapses' # {})
      BY <1>3 DEF ReconcileUntold, ReconcileMailbox
    <2> QED
      BY <1>0, <1>2, <2>4, <2>5, EndingKnows DEF Active
  <1>4. ASSUME NEW s \in Slots, BecomeReady(s) PROVE Knows
    <2>1. UNCHANGED <<intents, run, pending, leases, lapses>>
      BY <1>4 DEF BecomeReady, SetConstraint
    <2>2. HasWork(run.id) => HasWork(run.id)'
      BY <2>1 DEF HasWork, OfRun
    <2>3. DOMAIN intents' \ DOMAIN intents = {}
      BY <2>1
    <2>4. CancelsAlone' /\ (\A d \in Callers : \A x \in pending[d] : x \in pending'[d])
          /\ \A r \in Runs : HasWork(r)' => HasWork(r)
      BY <1>2, <2>1, <2>3
    <2> QED
      BY <1>0, <2>1, <2>2, <2>3, <2>4, EndingKnows
  <1> QED
    BY <1>3, <1>4 DEF UntoldStep

LEMMA EnqueueKnows ==
  ASSUME ManagerIInv, Maps, NEW c \in Callers, Enqueue(c)
  PROVE  Knows
  BY AcquireKnows, CommitKnows, AbortKnows DEF Enqueue, Maps

LEMMA ManagerStep ==
  ASSUME ManagerIInv, [WorkNext]_workVars
  PROVE  ManagerIInv' /\ StatusMoves
  <1>1. Maps
    BY WorkStepMaps DEF ManagerIInv
  <1>2. WorkIInv'
    BY <1>1 DEF Maps, Good, WorkIInv
  <1>3. CASE UNCHANGED workVars
    <2>1. UNCHANGED <<intents, leases, run, pending, lapses>>
      BY <1>3 DEF workVars, coordinatorVars
    <2>2. ManagerKnows'
      BY <2>1 DEF ManagerIInv, ManagerKnows, CancelsAlone, EndIsOnItsWay, RunIsRight, BoundWorkKeepsItsRun,
         FinishedHasNoWork, FailedForAReason, HasWork, HasFailed, OfRun, Active
    <2>3. StatusMoves
      BY <2>1 DEF StatusMoves, SameRun
    <2> QED
      BY <1>2, <2>2, <2>3 DEF ManagerIInv
  <1>4. CASE WorkNext
    <2>1. Knows
      BY <1>1, <1>4, EnqueueKnows, ExecuteKnows, ControlKnows, PortKnows, UntoldKnows DEF WorkNext
    <2> QED
      BY <1>2, <2>1 DEF Knows, ManagerIInv
  <1> QED
    BY <1>3, <1>4

LEMMA ManagerInit == WorkInit => ManagerIInv
  <1> SUFFICES ASSUME WorkInit PROVE ManagerIInv
    OBVIOUS
  <1>1. run = NoRecord /\ intents = <<>> /\ leases = {} /\ \A c \in Callers : pending[c] = {}
    BY DEF WorkInit, Init
  <1>2. \A r : ~HasWork(r)
    BY <1>1 DEF HasWork, OfRun
  <1>3. ManagerKnows
    BY <1>1, <1>2 DEF ManagerKnows, CancelsAlone, EndIsOnItsWay, RunIsRight, BoundWorkKeepsItsRun,
       FinishedHasNoWork, FailedForAReason, Active
  <1> QED
    BY <1>3, WorkInitGood DEF ManagerIInv

LEMMA ManagerInvariant == WorkSpec => []ManagerIInv
  <1>1. ManagerIInv /\ [WorkNext]_workVars => ManagerIInv'
    BY ManagerStep
  <1> QED
    BY ManagerInit, <1>1, PTL DEF WorkSpec

\* With any number of callers, an active run with nothing left to hand over still
\* has a lease or live work that will end it, unless a call came late or
\* reconcile_mailbox ended its last work (RunEndsWithItsWork).
THEOREM RunsEndWithTheirWork == WorkSpec => []RunEndsWithItsWork
  <1>1. ManagerIInv => RunEndsWithItsWork
    BY DEF ManagerIInv, ManagerKnows, EndIsOnItsWay, RunEndsWithItsWork, Quiet, Idle
  <1> QED
    BY <1>1, ManagerInvariant, PTL

\* With any number of callers, no run is completed, cancelled or aborted under a
\* lease or an intent that has not failed but by a late call
\* (WorkKeepsItsRunUnlessLate).
THEOREM WorkKeepsItsRun == WorkSpec => []WorkKeepsItsRunUnlessLate
  <1>1. ManagerIInv => WorkKeepsItsRunUnlessLate
    BY DEF ManagerIInv, ManagerKnows, RunIsRight, WorkKeepsItsRunUnlessLate
  <1> QED
    BY <1>1, ManagerInvariant, PTL

\* With any number of callers, only a late summary revives a run that has ended
\* (FinishedStaysUnlessLate).
THEOREM FinishedRunsStay == WorkSpec => FinishedStaysUnlessLate
  <1>1. ManagerIInv /\ [WorkNext]_workVars =>
           [SameRun /\ run.status \in FinishedStatus /\ "late" \notin lapses' =>
               run'.status \in FinishedStatus]_workVars
    BY ManagerStep DEF StatusMoves
  <1> QED
    BY <1>1, ManagerInvariant, PTL DEF WorkSpec, FinishedStaysUnlessLate
=============================================================================
