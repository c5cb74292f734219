------------------------------ MODULE TeamWork ------------------------------
(***************************************************************************)
(* The work coordinator of a team session together with its team run        *)
(* manager (crates/aionui-team/src/team_run/manager.rs).  Work is bound to  *)
(* a team run when its enqueue lease is taken, under the coordinator's      *)
(* lock.  Every later change of the run's work computes a summary under     *)
(* that lock, releases it, and only then hands the summary to the manager,  *)
(* which has a lock of its own and derives the status of the run from it:   *)
(* what is still to be handed over is the caller's pending set.             *)
(*                                                                         *)
(* Callers are not ordered, so a summary may reach the manager when it is    *)
(* no longer true, and reconcile_mailbox hands over none: lapses remembers   *)
(* that this has happened.                                                  *)
(***************************************************************************)
EXTENDS WorkCoordinator

CONSTANTS
    Callers,   \* threads that call the coordinator
    NoRecord,  \* the manager has no run
    NoSlot     \* no caller slot to inherit a run from

ASSUME NoSlotAssumption == NoSlot \notin Slots
ASSUME ReadyAssumption == "Ready" \in Constraints

VARIABLES
    run,       \* the manager's run record
    pending,   \* caller -> port calls it still has to make
    lapses     \* history: "late", "untold" (see LateFor, ReconcileUntold)

workVars == <<coordinatorVars, run, pending, lapses>>

ActiveStatus == {"Accepted", "Running", "Cancelling"}
FinishedStatus == {"Completed", "Failed", "Cancelled"}

TeamRunRecord == [id : Runs, status : ActiveStatus \cup FinishedStatus]

ASSUME NoRecordAssumption == NoRecord \notin TeamRunRecord

\* What a summary tells the manager: some intent failed; some intent or lease
\* is live; some batch is running.
RunWorkSummary ==
    [call : {"apply_work_summary"}, run : Runs,
     failed : BOOLEAN, work : BOOLEAN, running : BOOLEAN]

PortCall == RunWorkSummary \cup [call : {"abort_binding", "cancel_run"}, run : Runs]

WorkInit ==
    /\ Init
    /\ run = NoRecord
    /\ pending = [c \in Callers |-> {}]
    /\ lapses = {}

----------------------------------------------------------------------------
\* is_active
Active(record) == record # NoRecord /\ record.status \in ActiveStatus

\* Mutant: a lease does not count as work.
SummaryWithoutLeases(r, I, L) ==
    [call |-> "apply_work_summary", run |-> r,
     failed |-> \E i \in DOMAIN I : I[i].run = r /\ I[i].state = "Failed",
     work |-> \E i \in DOMAIN I : I[i].run = r /\ I[i].state \in Live,
     running |-> \E i \in DOMAIN I : I[i].run = r /\ I[i].state = "Running"]

\* run_summary_locked, over the intents I and the leases L.
Summary(r, I, L) ==
    [call |-> "apply_work_summary", run |-> r,
     failed |-> \E i \in DOMAIN I : I[i].run = r /\ I[i].state = "Failed",
     work |-> \/ \E i \in DOMAIN I : I[i].run = r /\ I[i].state \in Live
              \/ \E l \in L : l.run = r,
     running |-> \E i \in DOMAIN I : I[i].run = r /\ I[i].state = "Running"]

\* Mutant: only the intents are looked at.
EmptyButForLeases(r, I, L) == \A i \in DOMAIN I : I[i].run # r

\* Nothing was ever enqueued for run r and no lease is bound to it, with the
\* intents I and the leases L.
Empty(r, I, L) == (\A i \in DOMAIN I : I[i].run # r) /\ \A l \in L : l.run # r

\* Run r has work to come.
HasWork(r) ==
    \/ \E l \in leases : l.run = r
    \/ \E i \in OfRun(r) : intents[i].state \in Live

\* Mutant: the summaries of a change are not handed over.
PublishNothing(c, rs) == UNCHANGED <<run, pending, lapses>>

\* publish_run_summaries, for the runs of the intents in ids and the runs in extra.
RunsOf(ids) == {intents'[i].run : i \in ids} \ {NoRun}

Publish(c, rs) ==
    /\ pending' = [pending EXCEPT ![c] = {Summary(r, intents', leases') : r \in rs}]
    /\ UNCHANGED <<run, lapses>>

Idle(c) == pending[c] = {}

\* team_run_ids.first() of an active batch
FirstRun(op) ==
    LET bound == {i \in batches[op].intents : intents[i].run # NoRun}
    IN  intents[CHOOSE i \in bound : \A j \in bound : intents[i].pos <= intents[j].pos].run

InheritsFrom(from) ==
    from # NoSlot /\ active[from] # 0 /\ \E i \in batches[active[from]].intents : intents[i].run # NoRun

\* A run id nothing refers to.
Fresh(r) ==
    /\ run # NoRecord => run.id # r
    /\ \A i \in DOMAIN intents : intents[i].run # r
    /\ \A l \in leases : l.run # r
    /\ \A c \in Callers : \A call \in pending[c] : call.run # r

----------------------------------------------------------------------------
\* acquire_enqueue with its binding: the run of the batch the calling slot is
\* executing (InheritRunningBatch, SystemInitiated), else the active run
\* (bind_user_enqueue, bind_system_enqueue), else a new one.  The bindings without
\* a run are not modelled: "no longer have production callers" (model.rs:86).
Acquire(c, id, s, source, from) ==
    /\ Idle(c)
    /\ \/ /\ InheritsFrom(from)
          /\ AcquireEnqueue(id, s, source, FirstRun(active[from]))
          /\ UNCHANGED run
       \/ /\ ~InheritsFrom(from)
          /\ Active(run)
          /\ AcquireEnqueue(id, s, source, run.id)
          /\ UNCHANGED run
       \/ /\ ~InheritsFrom(from)
          /\ ~Active(run)
          /\ \E r \in Runs :
                /\ Fresh(r)
                /\ AcquireEnqueue(id, s, source, r)
                /\ run' = [id |-> r, status |-> "Accepted"]
    /\ UNCHANGED <<pending, lapses>>

Commit(c, l, m) ==
    /\ Idle(c)
    /\ CommitEnqueue(l, m)
    /\ Publish(c, {l.run} \ {NoRun})

\* abort_enqueue; a run that was opened for the lease and is still empty goes too.
Abort(c, l) ==
    /\ Idle(c)
    /\ AbortEnqueue(l)
    /\ pending' = [pending EXCEPT ![c] =
          {Summary(r, intents', leases') : r \in {l.run} \ {NoRun}}
            \cup {[call |-> "abort_binding", run |-> r] :
                     r \in {r \in {l.run} \ {NoRun} : Empty(r, intents', leases')}}]
    /\ UNCHANGED <<run, lapses>>

Claim(c, s) ==
    /\ Idle(c)
    /\ ClaimBatch(s)
    /\ Publish(c, RunsOf(batches'[active'[s]].intents))

SettleSignals(c, s, ids) ==
    /\ Idle(c)
    /\ CompleteSignals(s, ids)
    /\ Publish(c, RunsOf(ids))

Start(c, op) == Idle(c) /\ MarkStarted(op) /\ Publish(c, RunsOf(batches[op].intents))

Retry(c, op) == Idle(c) /\ RetryStart(op) /\ Publish(c, RunsOf(batches[op].intents))

Terminalize(c, op, st) ==
    Idle(c) /\ TerminalizeBatch(op, st) /\ Publish(c, RunsOf(batches[op].intents))

\* The live work of the slot that is bound to a run and ends.
Constrain(c, s, k) ==
    /\ Idle(c)
    /\ SetConstraint(s, k)
    /\ Publish(c, RunsOf({i \in LiveOf(s) : intents'[i].state \in Terminal}))

Remove(c, s) == Idle(c) /\ RemoveSlot(s) /\ Publish(c, RunsOf(LiveOf(s)))

Pause(c, s) == Idle(c) /\ PauseSlot(s) /\ UNCHANGED <<run, pending, lapses>>

\* The end of an attach: nothing ends, so there is nothing to publish.
BecomeReady(s) == SetConstraint(s, "Ready") /\ UNCHANGED <<run, pending, lapses>>

\* reconcile_mailbox, which publishes no summary; it may end a run's last work.
ReconcileUntold(s, unread) ==
    /\ ReconcileMailbox(s, unread)
    /\ UNCHANGED <<run, pending>>
    /\ lapses' = IF run # NoRecord /\ HasWork(run.id) /\ ~HasWork(run.id)'
                 THEN lapses \cup {"untold"} ELSE lapses

\* stop publishes every run ever seen, those of the leases it drops included.
StopWork(c) ==
    /\ Idle(c)
    /\ StopSession
    /\ Publish(c, RunsOf(DOMAIN intents) \cup ({l.run : l \in leases} \ {NoRun}))

\* Mutant: a run that has ended can be cancelled.
BeginCancelEnded(c) ==
    /\ Idle(c)
    /\ run # NoRecord
    /\ run' = [run EXCEPT !.status = "Cancelling"]
    /\ pending' = [pending EXCEPT ![c] = {[call |-> "cancel_run", run |-> run.id]}]
    /\ UNCHANGED <<coordinatorVars, lapses>>

\* begin_cancel: the manager's half of cancel_run; the coordinator's half follows
\* without a lock in between.
BeginCancel(c) ==
    /\ Idle(c)
    /\ Active(run)
    /\ run' = [run EXCEPT !.status = "Cancelling"]
    /\ pending' = [pending EXCEPT ![c] = {[call |-> "cancel_run", run |-> run.id]}]
    /\ UNCHANGED <<coordinatorVars, lapses>>

FinishCancel(c) ==
    \E call \in pending[c] :
        /\ call.call = "cancel_run"
        /\ CancelRun(call.run)
        /\ Publish(c, {call.run})

\* Mutant: the record stays, marked as aborted.
AbortBindingMarks(c) ==
    \E call \in pending[c] :
        /\ call.call = "abort_binding"
        /\ pending' = [pending EXCEPT ![c] = @ \ {call}]
        /\ run' = IF run # NoRecord /\ run.id = call.run THEN [run EXCEPT !.status = "Aborted"] ELSE run
        /\ UNCHANGED <<coordinatorVars, lapses>>

\* The manager's run is run r, and acts on a call that is no longer true.
LateFor(r, holds) ==
    lapses' = IF run # NoRecord /\ run.id = r /\ ~holds THEN lapses \cup {"late"} ELSE lapses

\* abort_binding
AbortBinding(c) ==
    \E call \in pending[c] :
        /\ call.call = "abort_binding"
        /\ pending' = [pending EXCEPT ![c] = @ \ {call}]
        /\ run' = IF run # NoRecord /\ run.id = call.run THEN NoRecord ELSE run
        /\ LateFor(call.run, Empty(call.run, intents, leases))
        /\ UNCHANGED coordinatorVars

StatusAfter(status, sum) ==
    IF sum.failed THEN "Failed"
    ELSE IF ~sum.work THEN (IF status = "Cancelling" THEN "Cancelled" ELSE "Completed")
    ELSE IF sum.running THEN "Running"
    ELSE status

\* apply_work_summary: a summary of another run than the manager's is ignored.
ApplyWorkSummary(c) ==
    /\ \A call \in pending[c] : call.call = "apply_work_summary"
    /\ \E sum \in pending[c] :
          /\ pending' = [pending EXCEPT ![c] = @ \ {sum}]
          /\ run' = IF run # NoRecord /\ run.id = sum.run
                    THEN [run EXCEPT !.status = StatusAfter(@, sum)]
                    ELSE run
          /\ LateFor(sum.run, sum = Summary(sum.run, intents, leases))
    /\ UNCHANGED coordinatorVars

----------------------------------------------------------------------------
Enqueue(c) ==
    \/ \E id \in Leases, s \in Slots, source \in Sources, from \in Slots \cup {NoSlot} :
          Acquire(c, id, s, source, from)
    \/ \E l \in leases, m \in Messages \cup {NoMessage} : Commits(l, m) /\ Commit(c, l, m)
    \/ \E l \in leases : Abort(c, l)

Execute(c) ==
    \/ \E s \in Slots : Claim(c, s)
    \/ \E s \in Slots, ids \in SUBSET DOMAIN intents : SettleSignals(c, s, ids)
    \/ \E op \in DOMAIN batches : Start(c, op) \/ Retry(c, op)
    \/ \E op \in DOMAIN batches, st \in Terminal : Terminalize(c, op, st)

Control(c) ==
    \/ \E s \in Slots, k \in Constraints : Constrain(c, s, k)
    \/ \E s \in Slots : Remove(c, s) \/ Pause(c, s)
    \/ StopWork(c)
    \/ BeginCancel(c)

PortStep(c) == AbortBinding(c) \/ ApplyWorkSummary(c) \/ FinishCancel(c)

\* What no summary is published for.
UntoldStep ==
    \/ \E s \in Slots, unread \in SUBSET Messages : ReconcileUntold(s, unread)
    \/ \E s \in Slots : BecomeReady(s)

WorkNext ==
    \/ \E c \in Callers : Enqueue(c) \/ Execute(c) \/ Control(c) \/ PortStep(c)
    \/ UntoldStep

WorkSpec == WorkInit /\ [][WorkNext]_workVars

----------------------------------------------------------------------------
WorkTypeOK ==
    /\ TypeOK
    /\ run \in TeamRunRecord \cup {NoRecord}
    /\ pending \in [Callers -> SUBSET PortCall]
    /\ lapses \subseteq {"late", "untold"}

Quiet == \A c \in Callers : Idle(c)

\* A run does not dangle: once everything has been handed over, an active run
\* still has a lease or a live intent that will end it ("an idle-settle system
\* run must not dangle after its only batch completes", team_run/tests.rs:489).
\* It may only after a summary came late, or when reconcile_mailbox ended its last
\* work (coordinator.rs:336), which tells the manager nothing.
RunEndsWithItsWork ==
    Quiet /\ Active(run) /\ lapses = {} => HasWork(run.id)

\* Work keeps its run: while a run that has not failed has a lease or a live
\* intent, it is the manager's run.  Without it the acknowledgement of a message
\* that has been stored and queued becomes an error (session.rs:745; "the
\* concurrent enqueue must retain its run", team_run/tests.rs:127).
BoundWorkKeepsItsRun ==
    \A r \in Runs :
        HasWork(r) /\ (\A i \in OfRun(r) : intents[i].state # "Failed") =>
            run # NoRecord /\ run.id = r

\* Only a late call takes its run from the work: however the callers of the
\* coordinator and of the manager interleave, each holding its own lock, a run is
\* aborted, ended or replaced under its work by nothing else.
WorkKeepsItsRunUnlessLate == "late" \notin lapses => BoundWorkKeepsItsRun

SameRun == run # NoRecord /\ run' # NoRecord /\ run'.id = run.id

\* A finished run is never active again, whatever starts late
\* (s9d_late_child_start_after_team_cancel_is_cancelled_without_reviving_run,
\* tests/e2e_team_flow.rs:1786).
FinishedRunStaysFinished ==
    [][SameRun /\ run.status \in FinishedStatus => run'.status \in FinishedStatus]_workVars

\* Only a late summary revives a finished run: a cancel, a retry, a start or a
\* recovery does not.
FinishedStaysUnlessLate ==
    [][SameRun /\ run.status \in FinishedStatus /\ "late" \notin lapses' =>
          run'.status \in FinishedStatus]_workVars
=============================================================================
