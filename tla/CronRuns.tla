------------------------------ MODULE CronRuns ------------------------------
(***************************************************************************)
(* The occurrences of one scheduled job (crates/aionui-cron and             *)
(* aionui-db/src/repository/sqlite_cron.rs).  Every server process keeps a  *)
(* timer for the job; a timer that fires starts a tick, which claims the    *)
(* occurrence in the database with a lease, runs a conversation turn while  *)
(* a heartbeat renews the lease, records the outcome and sets the timer     *)
(* again.  Processes crash and restart, leases expire, users edit and       *)
(* remove the job or run it at once, and the system resumes from sleep.     *)
(* A task is one call of the service (tick, handle_system_resume,           *)
(* update_job, remove_job, run_now); it moves from one await to the next.   *)
(*                                                                         *)
(* Time is abstract.  An occurrence is the identity of its scheduled_at; a  *)
(* lease is valid or expired; a timer may fire at any time.  An identity    *)
(* nothing refers to any more stands for a later time stamp.  Everything is *)
(* keyed by the job, so the module is about one.                            *)
(***************************************************************************)
EXTENDS Naturals, FiniteSets

CONSTANTS
    Procs,           \* processes on the database
    Settings,        \* what differs between the systems considered
    Occs,            \* time stamps of occurrences
    Tasks,           \* bound on the calls in progress
    NoProc,          \* owner_id = NULL, or the id of a process that died
    NoOcc,           \* next_run_at = None
    MaxRetries       \* the most retries a job is given

\* What users ask of update_job, and the other calls of the service.
Updates == {"enable", "disable", "every", "at", "retries", "queue", "mode", "other"}
Requests == Updates \cup {"remove", "now", "resume"}

\* The processes in use, what the job begins with (its schedule, queue_enabled, a
\* new conversation for every run), what users may ask for, whether ticks may fail,
\* and the bound on disturbances: crashes, leases that run out under their holder,
\* ticks that fail, requests and system resumes.
ASSUME SettingsAssumption ==
    Settings \subseteq [procs : SUBSET Procs, recurring : BOOLEAN, queue : BOOLEAN, fresh : BOOLEAN,
                        requests : SUBSET Requests, fails : BOOLEAN, bound : Nat]
ASSUME NullsAssumption == NoProc \notin Procs /\ NoOcc \notin Occs /\ "every" \notin Occs
ASSUME MaxRetriesAssumption == MaxRetries \in Nat

VARIABLES
    setting, \* one of Settings
    up,      \* process -> running
    job,     \* the row of cron_jobs
    runs,    \* occurrence -> its row of cron_job_runs
    timer,   \* process -> the timer of the job
    task,    \* the calls in progress
    missed,  \* history: occurrences reported as missed
    late,    \* history: a lease has run out under its holder
    spent    \* disturbances so far

vars == <<setting, up, job, runs, timer, task, missed, late, spent>>
ghosts == <<setting, missed, late, spent>>

\* The schedule: a recurring one, or the one occurrence of an at-job.
Schedule == {"every"} \cup Occs
IsAt(sched) == sched # "every"

\* retry is retry_count, max is max_retries, fresh is execution_mode = new_conversation.
JobSnapshot ==
    [enabled : BOOLEAN, sched : Schedule, next : Occs \cup {NoOcc}, retry : 0..MaxRetries,
     max : 0..MaxRetries, queue : BOOLEAN, fresh : BOOLEAN]
Job == [exists : BOOLEAN, row : JobSnapshot]

RunRow ==
    [status : {"none", "running", "retrying", "done"},
     owner : Procs \cup {NoProc}, lease : {"none", "valid", "expired"}]
NoRun == [status |-> "none", owner |-> NoProc, lease |-> "none"]
Finished == [status |-> "done", owner |-> NoProc, lease |-> "none"]

\* A timer is lost when the tick it started has failed and nobody has set it again.
Timer == [kind : {"none", "lost", "once", "loop"}, occ : Occs \cup {NoOcc}]
NoTimer == [kind |-> "none", occ |-> NoOcc]
LostTimer == [kind |-> "lost", occ |-> NoOcc]
Once(o) == [kind |-> "once", occ |-> o]
Loop(o) == [kind |-> "loop", occ |-> o]

Outcome == {"none", "ok", "error", "skipped", "retrying"}
Stage == {"idle", "load", "claim", "prepare", "start", "turn", "ended", "record", "look",
          "rearm", "advance", "arm", "missed", "write", "delete"}
Task ==
    [kind : {"none", "tick", "resume", "update", "remove", "now"},
     proc : Procs \cup {NoProc}, occ : Occs \cup {NoOcc}, stage : Stage,
     snap : JobSnapshot, outcome : Outcome \cup Updates, to : Occs \cup {NoOcc}]

NoSnapshot ==
    [enabled |-> FALSE, sched |-> "every", next |-> NoOcc, retry |-> 0,
     max |-> 0, queue |-> FALSE, fresh |-> FALSE]
NoTask ==
    [kind |-> "none", proc |-> NoProc, occ |-> NoOcc, stage |-> "idle",
     snap |-> NoSnapshot, outcome |-> "none", to |-> NoOcc]

\* The processes start with a job in the database that has never run.
Init ==
    /\ setting \in Settings
    /\ up = [p \in Procs |-> FALSE]
    /\ \E o \in Occs, sched \in Schedule :
          /\ sched \in IF setting.recurring THEN {"every"} ELSE {o}
          /\ job = [exists |-> TRUE,
                    row |-> [enabled |-> TRUE, sched |-> sched, next |-> o, retry |-> 0,
                             max |-> MaxRetries, queue |-> setting.queue, fresh |-> setting.fresh]]
    /\ runs = [o \in Occs |-> NoRun]
    /\ timer = [p \in Procs |-> NoTimer]
    /\ task = [t \in Tasks |-> NoTask]
    /\ missed = {}
    /\ late = FALSE
    /\ spent = 0

----------------------------------------------------------------------------
\* The run has a row with status running or retrying.
Active(o) == runs[o].status \in {"running", "retrying"}
Valid(o) == Active(o) /\ runs[o].lease = "valid"

\* Time stamps that have not come yet.
Upcoming == {o \in Occs : runs[o].status = "none"} \ missed

\* schedule_job: the timer set for a job as the caller knows it.
TimerFor(j) ==
    IF ~j.enabled \/ j.next = NoOcc THEN NoTimer
    ELSE IF IsAt(j.sched) THEN Once(j.next) ELSE Loop(j.next)

\* Mutant: a run whose process died is not looked for.
RecoverDeferred ==
    {o \in Occs : /\ runs[o].status = "retrying"
                 /\ runs[o].lease = "valid" => \A x \in Occs : Active(x) => Valid(x)}

\* get_recoverable_run: an active run with the earliest lease.
Recoverable ==
    {o \in Occs : Active(o) /\ (runs[o].lease = "valid" => \A x \in Occs : Active(x) => Valid(x))}

\* The execution of an occurrence, from its claim to the update of its row.
Holding(t) == task[t].kind = "tick" /\ task[t].stage \in {"prepare", "start", "turn", "ended"}

\* The row of the task's occurrence is running and owned by the task's process.
Owns(t) ==
    /\ runs[task[t].occ].status = "running"
    /\ runs[task[t].occ].owner = task[t].proc

Held(o) == \E t \in Tasks : Holding(t) /\ task[t].occ = o /\ Owns(t)

\* A turn of the job's own conversation is running in process p.
ConversationBusy(p) ==
    \E t \in Tasks : task[t].proc = p /\ task[t].stage = "turn" /\ ~task[t].snap.fresh

\* find_active_cron_conversation
RunsInProcess(p) == \E t \in Tasks : task[t].proc = p /\ task[t].stage = "turn"

\* Mutant: a busy conversation is tried again for ever.
HandleBusyForEver(t) == IF task[t].snap.queue THEN "skipped" ELSE "retrying"

\* handle_busy, with the job as the tick has loaded it.
HandleBusy(t) ==
    LET snap == task[t].snap
    IN  IF snap.queue \/ snap.retry >= snap.max THEN "skipped" ELSE "retrying"

\* What a call that sets a timer uses of the job.
Timing(row) ==
    [enabled |-> row.enabled, sched |-> row.sched, next |-> row.next, retry |-> 0,
     max |-> 0, queue |-> FALSE, fresh |-> FALSE]

\* The occurrence is dealt with; what is left is to set the timer.
Settled(t) ==
    task' = [task EXCEPT ![t].stage = "look", ![t].occ = NoOcc, ![t].outcome = "none",
                         ![t].snap = Timing(@)]

Goto(t, stage) == task' = [task EXCEPT ![t].stage = stage]
Ends(t, outcome) == task' = [task EXCEPT ![t].stage = "ended", ![t].outcome = outcome]
Return(t) == task' = [task EXCEPT ![t] = NoTask]
SetTimer(p, w) == timer' = [timer EXCEPT ![p] = w]

Disturbance ==
    /\ spent < setting.bound
    /\ spent' = spent + 1

\* Requests and resumes come one at a time.
NoneAsks == \A t \in Tasks : task[t].kind \in {"none", "tick"}

Call(t, p, kind, stage, snap, request) ==
    /\ up[p]
    /\ {kind, request} \cap setting.requests # {}
    /\ task[t] = NoTask
    /\ NoneAsks
    /\ Disturbance
    /\ task' = [task EXCEPT ![t] =
          [NoTask EXCEPT !.kind = kind, !.proc = p, !.stage = stage, !.snap = snap,
                         !.outcome = request]]
    /\ UNCHANGED <<setting, up, job, runs, missed, late>>

----------------------------------------------------------------------------
\* A process starts: init.
Start(p) ==
    /\ p \in setting.procs /\ ~up[p]
    /\ up' = [up EXCEPT ![p] = TRUE]
    /\ \/ /\ job.exists /\ job.row.enabled
          /\ \/ \E o \in Recoverable : SetTimer(p, Once(o))
             \/ Recoverable = {} /\ SetTimer(p, TimerFor(job.row))
       \/ ~(job.exists /\ job.row.enabled) /\ UNCHANGED timer
    /\ UNCHANGED <<job, runs, task, ghosts>>

\* A process dies.  The next one has another instance_id, so nobody owns its runs.
Crash(p) ==
    /\ up[p]
    /\ Disturbance
    /\ up' = [up EXCEPT ![p] = FALSE]
    /\ timer' = [timer EXCEPT ![p] = NoTimer]
    /\ task' = [t \in Tasks |-> IF task[t].proc = p THEN NoTask ELSE task[t]]
    /\ runs' = [o \in Occs |-> IF runs[o].owner = p THEN [runs[o] EXCEPT !.owner = NoProc] ELSE runs[o]]
    /\ UNCHANGED <<setting, job, missed, late>>

\* A timer fires.  The timer of a recurring job goes on to its next time stamp,
\* which may also be one another process is just dealing with.
DueAt(p) ==
    IF timer[p].occ # NoOcc THEN {timer[p].occ}
    ELSE Upcoming \cup {o \in Occs : \E t \in Tasks : task[t].proc # p /\ task[t].occ = o}

Fire(p, t) ==
    /\ timer[p].kind \in {"once", "loop"}
    /\ task[t] = NoTask
    /\ \/ timer[p].kind = "once" /\ SetTimer(p, NoTimer)
       \/ timer[p].kind = "loop" /\ SetTimer(p, Loop(NoOcc))
    /\ \E o \in DueAt(p) :
          task' = [task EXCEPT ![t] =
             [NoTask EXCEPT !.kind = "tick", !.proc = p, !.stage = "load", !.occ = o]]
    /\ UNCHANGED <<up, job, runs, ghosts>>

\* tick loads the job.  It does not look at next_run_at.
Load(t) ==
    /\ task[t].stage = "load"
    /\ \/ /\ ~job.exists
          /\ SetTimer(task[t].proc, NoTimer)
          /\ Return(t)
       \/ /\ job.exists /\ ~job.row.enabled
          /\ Return(t)
          /\ UNCHANGED timer
       \/ /\ job.exists /\ job.row.enabled
          /\ task' = [task EXCEPT ![t].stage = "claim", ![t].snap = [job.row EXCEPT !.next = NoOcc]]
          /\ UNCHANGED timer
    /\ UNCHANGED <<up, job, runs, ghosts>>

\* A tick fails: the job cannot be loaded, its row parsed or its agent resolved, or
\* claim_run returns an error.  It does not set the timer that its firing consumed.
FailTick(t) ==
    /\ setting.fails
    /\ task[t].kind = "tick" /\ task[t].stage \in {"load", "claim"}
    /\ Disturbance
    /\ timer' = [timer EXCEPT ![task[t].proc] = IF @.kind = "none" THEN LostTimer ELSE @]
    /\ Return(t)
    /\ UNCHANGED <<setting, up, job, runs, missed, late>>

\* claim_run: one transaction.

\* Mutant: the lease of an active run is not looked at.
ExpiredOrNot(o) == Active(o)

Expired(o) == Active(o) /\ runs[o].lease = "expired"

\* Mutant: a run that is over is claimed like a new one.
MayClaimAgain(o, queue) ==
    /\ job.exists
    /\ \/ Expired(o)
       \/ ~Active(o) /\ ~(queue /\ \E x \in Occs : Valid(x))

MayClaim(o, queue) ==
    /\ job.exists
    /\ \/ Expired(o)
       \/ runs[o].status = "none" /\ ~(queue /\ \E x \in Occs : Valid(x))

QueueBusy(o, queue) ==
    /\ job.exists
    /\ runs[o].status = "none"
    /\ queue /\ \E x \in Occs : Valid(x)

\* Mutant: a duplicate is dropped without setting the timer again.
ClaimDropsDuplicates(t) ==
    LET o == task[t].occ
        queue == task[t].snap.queue
    IN  /\ task[t].stage = "claim"
        /\ \/ /\ MayClaim(o, queue)
              /\ runs' = [runs EXCEPT ![o] =
                    [status |-> "running", owner |-> task[t].proc, lease |-> "valid"]]
              /\ Goto(t, "prepare")
           \/ /\ ~MayClaim(o, queue)
              /\ Return(t)
              /\ UNCHANGED runs
        /\ UNCHANGED <<up, job, timer, ghosts>>

Claim(t) ==
    LET o == task[t].occ
        queue == task[t].snap.queue
    IN  /\ task[t].stage = "claim"
        /\ \/ /\ MayClaim(o, queue)
              /\ runs' = [runs EXCEPT ![o] =
                    [status |-> "running", owner |-> task[t].proc, lease |-> "valid"]]
              /\ Goto(t, "prepare")
           \/ /\ QueueBusy(o, queue)
              /\ runs' = [runs EXCEPT ![o] = Finished]
              /\ task' = [task EXCEPT ![t].stage = "record", ![t].outcome = "skipped"]
           \/ /\ ~MayClaim(o, queue) /\ ~QueueBusy(o, queue)
              /\ Settled(t)
              /\ UNCHANGED runs
        /\ UNCHANGED <<up, job, timer, ghosts>>

\* prepare_scheduled: it fails, finds an execution it must not overlap with, finds
\* the conversation busy (with a turn of the job or of the user), or is ready.
Prepare(t) ==
    LET p == task[t].proc
        snap == task[t].snap
    IN  /\ task[t].stage = "prepare"
        /\ \/ Ends(t, "error")
           \/ snap.queue /\ snap.fresh /\ RunsInProcess(p) /\ Ends(t, "skipped")
           \/ ~snap.fresh /\ Ends(t, HandleBusy(t))
           \/ /\ ~(snap.queue /\ snap.fresh /\ RunsInProcess(p))
              /\ snap.fresh \/ ~ConversationBusy(p)
              /\ Goto(t, "start")
        /\ UNCHANGED <<up, job, runs, timer, ghosts>>

\* run_agent_turn claims the conversation, or finds it busy or fails before.
StartTurn(t) ==
    LET busy == IF task[t].kind = "now" THEN "error" ELSE HandleBusy(t)
        fresh == task[t].snap.fresh
    IN  /\ task[t].stage = "start"
        /\ \/ (fresh \/ ~ConversationBusy(task[t].proc)) /\ Goto(t, "turn")
           \/ ~fresh /\ Ends(t, busy)
           \/ Ends(t, "error")
        /\ UNCHANGED <<up, job, runs, timer, ghosts>>

\* The turn is over and the heartbeat is aborted.
EndTurn(t) ==
    /\ task[t].stage = "turn"
    /\ \E outcome \in {"ok", "error"} : Ends(t, outcome)
    /\ UNCHANGED <<up, job, runs, timer, ghosts>>

\* Mutant: whoever has executed the run ends it.
FinishUnowned(t) ==
    LET o == task[t].occ
    IN  /\ task[t].stage = "ended"
        /\ \/ task[t].kind = "now" /\ UNCHANGED runs
           \/ task[t].kind = "tick" /\ runs' = [runs EXCEPT ![o] = IF @ = NoRun THEN @ ELSE Finished]
        /\ Goto(t, "record")
        /\ UNCHANGED <<up, job, timer, ghosts>>

\* finish_run or defer_run; a run that is not owned any more is left to its owner.
Finish(t) ==
    LET o == task[t].occ
        deferred == [status |-> "retrying", owner |-> NoProc, lease |-> "valid"]
    IN  /\ task[t].stage = "ended"
        /\ \/ /\ task[t].kind = "now"
              /\ Goto(t, "record")
              /\ UNCHANGED runs
           \/ /\ task[t].kind = "tick" /\ ~Owns(t)
              /\ Return(t)
              /\ UNCHANGED runs
           \/ /\ task[t].kind = "tick" /\ Owns(t) /\ task[t].outcome = "retrying"
              /\ runs' = [runs EXCEPT ![o] = deferred]
              /\ task' = [task EXCEPT ![t].stage = "rearm", ![t].to = o]
           \/ /\ task[t].kind = "tick" /\ Owns(t) /\ task[t].outcome # "retrying"
              /\ runs' = [runs EXCEPT ![o] = Finished]
              /\ Goto(t, "record")
        /\ UNCHANGED <<up, job, timer, ghosts>>

\* The retry count goes into the job; after a retry the tick is over.
Record(t) ==
    LET count == IF task[t].outcome = "retrying" THEN task[t].snap.retry + 1 ELSE 0
    IN  /\ task[t].stage = "record"
        /\ job' = [job EXCEPT !.row.retry = IF job.exists THEN count ELSE @]
        /\ IF task[t].kind = "now" \/ task[t].outcome = "retrying" THEN Return(t) ELSE Settled(t)
        /\ UNCHANGED <<up, runs, timer, ghosts>>

\* get_recoverable_run, before a job is scheduled again.
Look(t) ==
    /\ task[t].stage = "look"
    /\ \/ \E o \in Recoverable :
             task' = [task EXCEPT ![t].stage = "rearm", ![t].to = o]
       \/ Recoverable = {} /\ task[t].kind = "tick" /\ Goto(t, "advance")
       \/ /\ Recoverable = {} /\ task[t].kind = "resume"
          /\ task[t].snap.next # NoOcc
          /\ Goto(t, "missed")
       \/ /\ Recoverable = {} /\ task[t].kind = "resume"
          /\ task[t].snap.next \in Upcoming \cup {NoOcc}
          /\ Goto(t, "arm")
    /\ UNCHANGED <<up, job, runs, timer, ghosts>>

\* schedule_retry of the scheduler, for a run that is recovered or deferred.
Rearm(t) ==
    /\ task[t].stage = "rearm"
    /\ SetTimer(task[t].proc, Once(task[t].to))
    /\ IF task[t].outcome = "retrying" THEN Goto(t, "record") ELSE Return(t)
    /\ UNCHANGED <<up, job, runs, ghosts>>

\* reschedule_after_execution and reschedule_after_missed write next_run_at.  Both
\* go by the schedule the call has loaded; an at-job is disabled.
NextRuns(sched, after) == IF IsAt(sched) THEN {NoOcc} ELSE Upcoming \ after

Advance(t) ==
    LET snap == task[t].snap
        enabled == ~IsAt(snap.sched)
    IN  /\ task[t].stage = "advance"
        /\ \E n \in NextRuns(snap.sched, {snap.next}) :
              /\ job' = IF job.exists
                        THEN [job EXCEPT !.row.next = n, !.row.enabled = @ /\ enabled]
                        ELSE job
              /\ IF task[t].kind = "resume" /\ enabled /\ ~job.exists
                 THEN Return(t)
                 ELSE task' = [task EXCEPT ![t].stage = "arm",
                                           ![t].snap = [snap EXCEPT !.next = n, !.enabled = @ /\ enabled]]
        /\ UNCHANGED <<up, runs, timer, ghosts>>

\* schedule_job of the scheduler, with the job as the call knows it.
Arm(t) ==
    /\ task[t].stage = "arm"
    /\ SetTimer(task[t].proc, TimerFor(task[t].snap))
    /\ Return(t)
    /\ UNCHANGED <<up, job, runs, ghosts>>

\* handle_system_resume lists the enabled jobs.
Resume(p, t) ==
    /\ job.exists /\ job.row.enabled
    /\ Call(t, p, "resume", "look", Timing(job.row), "none")
    /\ UNCHANGED timer

\* Resume reports an occurrence as missed.
RecordMissed(t) ==
    /\ task[t].stage = "missed"
    /\ missed' = missed \cup {task[t].snap.next}
    /\ job' = [job EXCEPT !.row.retry = 0]
    /\ Goto(t, "advance")
    /\ UNCHANGED <<setting, up, runs, timer, late, spent>>

\* update_job reads the job and computes what it will be.
Edited(request) ==
    LET next(sched) == IF IsAt(sched) THEN {sched} ELSE Upcoming
        row == [job.row EXCEPT !.retry = 0]
    IN  CASE request \in {"enable", "disable"} ->
               {[row EXCEPT !.enabled = (request = "enable"), !.next = n] : n \in next(row.sched)}
          [] request = "every" -> {[row EXCEPT !.sched = "every", !.next = n] : n \in Upcoming}
          [] request = "at" -> {[row EXCEPT !.sched = n, !.next = n] : n \in Upcoming}
          [] request = "retries" -> {[row EXCEPT !.max = n] : n \in 0..MaxRetries}
          [] request = "queue" -> {[row EXCEPT !.queue = ~@]}
          [] request = "mode" -> {[row EXCEPT !.fresh = ~@]}
          [] request = "other" -> {row}

BeginUpdate(p, t) ==
    /\ job.exists
    /\ \E request \in Updates : \E edited \in Edited(request) :
          Call(t, p, "update", "write", edited, request)
    /\ UNCHANGED timer

\* Only the fields the request names are written.
WriteUpdate(t) ==
    LET edited == task[t].snap
        request == task[t].outcome
    IN  /\ task[t].stage = "write"
        /\ IF job.exists
           THEN /\ job' = [job EXCEPT
                     !.row.enabled = IF request \in {"enable", "disable"} THEN edited.enabled ELSE @,
                     !.row.sched = IF request \in {"every", "at"} THEN edited.sched ELSE @,
                     !.row.next = IF request \in {"enable", "disable", "every", "at"} THEN edited.next ELSE @,
                     !.row.max = IF request = "retries" THEN edited.max ELSE @,
                     !.row.queue = IF request = "queue" THEN edited.queue ELSE @,
                     !.row.fresh = IF request = "mode" THEN edited.fresh ELSE @]
                /\ task' = [task EXCEPT ![t].stage = "arm", ![t].outcome = "none", ![t].snap = Timing(@)]
           ELSE Return(t) /\ UNCHANGED job
        /\ UNCHANGED <<up, runs, timer, ghosts>>

\* remove_job cancels the timer of its process and deletes the job with its runs.
BeginRemove(p, t) ==
    /\ job.exists
    /\ Call(t, p, "remove", "delete", NoSnapshot, "none")
    /\ SetTimer(p, NoTimer)

Delete(t) ==
    /\ task[t].stage = "delete"
    /\ job' = [exists |-> FALSE, row |-> NoSnapshot]
    /\ runs' = [o \in Occs |-> NoRun]
    /\ Return(t)
    /\ UNCHANGED <<up, timer, ghosts>>

\* run_now, when the conversation is free.
RunNow(p, t) ==
    /\ job.exists
    /\ job.row.fresh \/ ~ConversationBusy(p)
    /\ Call(t, p, "now", "start", [NoSnapshot EXCEPT !.fresh = job.row.fresh], "none")
    /\ UNCHANGED timer

----------------------------------------------------------------------------
\* The heartbeat of an execution.
RenewLease(t) ==
    /\ Holding(t) /\ task[t].stage # "ended"
    /\ Owns(t)
    /\ runs' = [runs EXCEPT ![task[t].occ].lease = "valid"]
    /\ UNCHANGED <<up, job, timer, task, ghosts>>

\* A lease runs out that no heartbeat renews, or the time of a retry comes.
ExpireLease(o) ==
    /\ Valid(o) /\ ~Held(o)
    /\ runs' = [runs EXCEPT ![o].lease = "expired"]
    /\ UNCHANGED <<up, job, timer, task, ghosts>>

\* A lease runs out although its holder is at work (the machine slept).
LoseLease(o) ==
    /\ Valid(o) /\ Held(o)
    /\ Disturbance
    /\ late' = TRUE
    /\ runs' = [runs EXCEPT ![o].lease = "expired"]
    /\ UNCHANGED <<setting, up, job, timer, task, missed>>

\* Nothing refers to a past time stamp any more: the identity stands for a later one.
Referenced(o) ==
    \/ o \in {job.row.sched, job.row.next}
    \/ \E p \in Procs : timer[p].occ = o
    \/ \E t \in Tasks : o \in {task[t].occ, task[t].to, task[t].snap.sched, task[t].snap.next}

Forget(o) ==
    /\ \/ runs[o].status = "done"
       \/ runs[o].status = "none" /\ o \in missed
    /\ ~Referenced(o)
    /\ runs' = [runs EXCEPT ![o] = NoRun]
    /\ missed' = missed \ {o}
    /\ UNCHANGED <<setting, up, job, timer, task, late, spent>>

----------------------------------------------------------------------------
TickStep(t) ==
    \/ Load(t) \/ Claim(t) \/ Prepare(t) \/ StartTurn(t) \/ EndTurn(t) \/ Finish(t)
    \/ Record(t) \/ Look(t) \/ Rearm(t) \/ Advance(t) \/ Arm(t)
    \/ RecordMissed(t) \/ WriteUpdate(t) \/ Delete(t)

RequestStep(p, t) ==
    \/ Resume(p, t) \/ BeginUpdate(p, t) \/ BeginRemove(p, t) \/ RunNow(p, t)

LeaseStep(o) == ExpireLease(o) \/ LoseLease(o) \/ Forget(o)

Next ==
    \/ \E p \in Procs : Start(p) \/ Crash(p)
    \/ \E p \in Procs, t \in Tasks : Fire(p, t) \/ RequestStep(p, t)
    \/ \E t \in Tasks : TickStep(t) \/ FailTick(t) \/ RenewLease(t)
    \/ \E o \in Occs : LeaseStep(o)

Spec == Init /\ [][Next]_vars

Fairness ==
    /\ \A p \in Procs : WF_vars(Start(p)) /\ WF_vars(\E t \in Tasks : Fire(p, t))
    /\ \A t \in Tasks : WF_vars(TickStep(t))
    /\ \A o \in Occs : WF_vars(ExpireLease(o)) /\ WF_vars(Forget(o))

FairSpec == Spec /\ Fairness

----------------------------------------------------------------------------
\* The executions of an occurrence, and what they promise.
ExecutionsOf(o) == {t \in Tasks : Holding(t) /\ task[t].occ = o}

Promise == INSTANCE Occurrences WITH
    Executions <- Tasks,
    exists <- job.exists,
    executing <- [o \in Occs |-> ExecutionsOf(o)],
    ended <- {o \in Occs : runs[o].status = "done"},
    onTime <- ~late

\* The claims, leases, timers and retries of all processes implement that promise.
KeepsItsPromise == Promise!Spec

TypeOK ==
    /\ setting \in Settings
    /\ up \in [Procs -> BOOLEAN]
    /\ job \in Job
    /\ runs \in [Occs -> RunRow]
    /\ timer \in [Procs -> Timer]
    /\ task \in [Tasks -> Task]
    /\ missed \in SUBSET Occs
    /\ late \in BOOLEAN
    /\ spent \in 0..setting.bound

\* As long as no lease runs out under its holder, an execution is alone: its row
\* is running and owned by the process that executes it (or the job was removed),
\* and no other tick executes the same occurrence, whatever processes crash,
\* restart and take over runs in between (claim_run, finish_run, defer_run).
OccurrenceRunsAlone ==
    ~late =>
        \A t \in Tasks : Holding(t) =>
            /\ job.exists => Owns(t)
            /\ ExecutionsOf(task[t].occ) = {t}

\* A call in progress that will set the timer of its process.
Arms(t) ==
    \/ task[t].kind = "tick" /\ ~(task[t].stage = "record" /\ task[t].outcome = "retrying")
    \/ task[t].kind \in {"resume", "update", "remove"}

\* The job is recurring and nobody edits it into an at-job.
AlwaysRecurs == setting.recurring /\ "at" \notin setting.requests

\* The timer of process p is set.
Set(p) == timer[p].kind \in {"once", "loop"}

\* A recurring job that is enabled does not fall asleep: its process has a timer
\* for it or a call in progress that will set one (tick, schedule_job), unless a
\* tick has failed and nothing has set the timer since: "Tick: failed to parse job"
\* (service.rs:635) and the other error returns of a tick leave the timer its firing
\* consumed as it is.  With several processes a request arms the timer of the
\* process it came to only; and a tick that has loaded the job as an at-job disables
\* the row when it is done and later cancels the timer, also one that an update has
\* armed in between.
EnabledJobWakes ==
    \A p \in Procs :
        /\ setting.procs = {p} /\ AlwaysRecurs /\ ~late
        /\ up[p] /\ job.exists /\ job.row.enabled
        => Set(p) \/ timer[p].kind = "lost" \/ \E t \in Tasks : task[t].proc = p /\ Arms(t)

\* A claimed occurrence ends, through busy conversations, crashes and restarts,
\* unless the job is disabled or removed, or a tick fails and takes the timer with
\* it.
OccurrencesEnd ==
    \A o \in Occs :
        Active(o) /\ Cardinality(setting.procs) = 1 ~>
            ~Active(o) \/ ~job.row.enabled \/ \E p \in setting.procs : timer[p].kind = "lost"

\* The outcome of a run is recorded by the process that owns it: one whose lease ran
\* out while it was executing, and which finishes or defers the run after another
\* has taken it over, changes nothing (finish_run, defer_run).
OwnersEndTheirRuns ==
    [][\A o \in Occs :
          runs[o].status = "running" /\ runs'[o].status \in {"retrying", "done"} =>
              \E t \in ExecutionsOf(o) : task[t].proc = runs[o].owner /\ ~Holding(t)']_vars
=============================================================================
