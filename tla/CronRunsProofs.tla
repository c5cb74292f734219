--------------------------- MODULE CronRunsProofs ---------------------------
(***************************************************************************)
(* Proofs about CronRuns, for any number of processes, occurrences, calls,  *)
(* retries and disturbances.                                               *)
(***************************************************************************)
EXTENDS CronRuns, TLAPS

\* What a call knows at the stages where it uses it.
Shape ==
    \A t \in Tasks :
        /\ task[t].stage \in {"load", "claim"} => task[t].kind = "tick" /\ task[t].occ \in Occs
        /\ Holding(t) => task[t].occ \in Occs
        /\ task[t].kind = "tick" => task[t].proc # NoProc
        /\ task[t].stage = "missed" => task[t].snap.next \in Occs
        /\ task[t].stage = "rearm" => task[t].to \in Occs
        /\ task[t].stage \in {"ended", "rearm", "record"} /\ task[t].outcome = "retrying"
              => task[t].snap.retry < MaxRetries
        /\ task[t].stage = "look" => task[t].outcome # "retrying"

Typed == TypeOK /\ Shape

----------------------------------------------------------------------------
LEMMA NoSnapshotTyped == NoSnapshot \in JobSnapshot
  BY MaxRetriesAssumption DEF NoSnapshot, JobSnapshot, Schedule

LEMMA NoTaskTyped == NoTask \in Task
  BY NoSnapshotTyped DEF NoTask, Task, Stage, Outcome, Updates

LEMMA TimingTyped ==
  ASSUME NEW row \in JobSnapshot
  PROVE  /\ Timing(row) \in JobSnapshot /\ Timing(row).retry = 0 /\ Timing(row).enabled = row.enabled
         /\ Timing(row).sched = row.sched /\ Timing(row).next = row.next
  BY MaxRetriesAssumption DEF Timing, JobSnapshot

\* Init
LEMMA InitTyped == Init => Typed
  <1> SUFFICES ASSUME Init PROVE Typed
    OBVIOUS
  <1>1. setting \in Settings /\ setting.bound \in Nat
    BY SettingsAssumption DEF Init
  <1>2. job \in Job
    BY <1>1, MaxRetriesAssumption, SettingsAssumption DEF Init, Job, JobSnapshot, Schedule
  <1>3. runs \in [Occs -> RunRow] /\ timer \in [Procs -> Timer]
    BY DEF Init, RunRow, NoRun, Timer, NoTimer
  <1>4. task \in [Tasks -> Task]
    BY NoTaskTyped DEF Init
  <1>5. Shape
    BY DEF Init, Shape, NoTask, Holding
  <1>6. spent \in 0..setting.bound
    BY <1>1 DEF Init
  <1>7. up \in [Procs -> BOOLEAN] /\ missed \in SUBSET Occs /\ late \in BOOLEAN
    BY DEF Init
  <1> QED
    BY <1>1, <1>2, <1>3, <1>4, <1>5, <1>6, <1>7 DEF Typed, TypeOK

----------------------------------------------------------------------------
\* The moves of a call.
LEMMA GotoTyped ==
  ASSUME task \in [Tasks -> Task], NEW t \in Tasks, NEW stage \in Stage, Goto(t, stage)
  PROVE  task' \in [Tasks -> Task]
  BY DEF Goto, Task

LEMMA ReturnTyped ==
  ASSUME task \in [Tasks -> Task], NEW t \in Tasks, Return(t)
  PROVE  task' \in [Tasks -> Task]
  BY NoTaskTyped DEF Return

LEMMA EndsTyped ==
  ASSUME task \in [Tasks -> Task], NEW t \in Tasks, NEW outcome \in Outcome, Ends(t, outcome)
  PROVE  task' \in [Tasks -> Task]
  <1>0. task[t] \in Task
    OBVIOUS
  <1>1. [task[t] EXCEPT !.stage = "ended", !.outcome = outcome] \in Task
    BY <1>0, Zenon DEF Task, Stage
  <1>2. task' = [task EXCEPT ![t] = [task[t] EXCEPT !.stage = "ended", !.outcome = outcome]]
    BY DEF Ends
  <1> QED
    BY <1>1, <1>2

LEMMA SettledTyped ==
  ASSUME task \in [Tasks -> Task], NEW t \in Tasks, Settled(t)
  PROVE  task' \in [Tasks -> Task]
  <1> DEFINE timing == Timing(task[t].snap)
             settled == [task[t] EXCEPT !.stage = "look", !.occ = NoOcc, !.outcome = "none", !.snap = timing]
  <1>0. task[t] \in Task /\ timing \in JobSnapshot
    BY TimingTyped DEF Task
  <1>1. task' = [task EXCEPT ![t] = settled]
    BY DEF Settled
  <1> HIDE DEF timing
  <1>2. settled \in Task
    BY <1>0, Zenon DEF Task, Stage, Outcome
  <1> QED
    BY <1>1, <1>2

LEMMA TimerForTyped ==
  ASSUME NEW j \in JobSnapshot
  PROVE  TimerFor(j) \in Timer
  BY DEF TimerFor, JobSnapshot, Timer, NoTimer, Once, Loop
----------------------------------------------------------------------------
\* Each action keeps Typed.
LEMMA StartTyped == ASSUME Typed, NEW p \in Procs, Start(p) PROVE Typed'
  <1>1. timer' \in [Procs -> Timer]
    <2>1. \A o \in Occs : Once(o) \in Timer
      BY DEF Once, Timer
    <2>2. TimerFor(job.row) \in Timer
      BY TimerForTyped DEF Typed, TypeOK, Job
    <2>3. Recoverable \subseteq Occs
      BY DEF Recoverable
    <2> QED
      BY <2>1, <2>2, <2>3 DEF Start, SetTimer, Typed, TypeOK
  <1>2. up' \in [Procs -> BOOLEAN]
    BY DEF Start, Typed, TypeOK
  <1> QED
    BY <1>1, <1>2 DEF Start, ghosts, Typed, TypeOK, Shape, Holding

LEMMA CrashTyped == ASSUME Typed, NEW p \in Procs, Crash(p) PROVE Typed'
  <1>1. timer' \in [Procs -> Timer] /\ up' \in [Procs -> BOOLEAN]
    BY DEF Crash, Typed, TypeOK, NoTimer, Timer
  <1>2. task' \in [Tasks -> Task]
    BY NoTaskTyped DEF Crash, Typed, TypeOK
  <1>3. runs' \in [Occs -> RunRow]
    BY DEF Crash, Typed, TypeOK, RunRow
  <1>4. spent' \in 0..setting'.bound
    BY SettingsAssumption DEF Crash, Disturbance, Typed, TypeOK
  <1>5. Shape'
    BY DEF Crash, Typed, TypeOK, Shape, Holding, NoTask
  <1> QED
    BY <1>1, <1>2, <1>3, <1>4, <1>5 DEF Crash, Typed, TypeOK

LEMMA FireTyped == ASSUME Typed, NEW p \in Procs, NEW t \in Tasks, Fire(p, t) PROVE Typed'
  <1>1. timer' \in [Procs -> Timer]
    BY DEF Fire, SetTimer, Loop, Timer, NoTimer, Typed, TypeOK
  <1>2. PICK o \in DueAt(p) :
           task' = [task EXCEPT ![t] =
             [NoTask EXCEPT !.kind = "tick", !.proc = p, !.stage = "load", !.occ = o]]
    BY DEF Fire
  <1>3. o \in Occs
    BY DEF DueAt, Upcoming, Typed, TypeOK, Timer
  <1>4. [NoTask EXCEPT !.kind = "tick", !.proc = p, !.stage = "load", !.occ = o] \in Task
    BY <1>3, NoTaskTyped DEF Task, Stage
  <1>5. task' \in [Tasks -> Task]
    BY <1>2, <1>4 DEF Typed, TypeOK
  <1>6. Shape'
    BY <1>2, <1>3, NullsAssumption DEF Typed, TypeOK, Shape, Holding, NoTask
  <1> QED
    BY <1>1, <1>5, <1>6 DEF Fire, ghosts, Typed, TypeOK

LEMMA LoadTyped == ASSUME Typed, NEW t \in Tasks, Load(t) PROVE Typed'
  <1>1. timer' \in [Procs -> Timer]
    BY DEF Load, SetTimer, Timer, NoTimer, Typed, TypeOK
  <1>2. task' \in [Tasks -> Task]
    <2>1. CASE Return(t)
      BY <2>1, ReturnTyped DEF Typed, TypeOK
    <2>2. CASE task' = [task EXCEPT ![t].stage = "claim", ![t].snap = [job.row EXCEPT !.next = NoOcc]]
      <3> DEFINE loaded ==
            [task[t] EXCEPT !.stage = "claim", !.snap = [job.row EXCEPT !.next = NoOcc]]
      <3>0. [job.row EXCEPT !.next = NoOcc] \in JobSnapshot
        BY DEF Typed, TypeOK, Job, JobSnapshot
      <3>a. task \in [Tasks -> Task] /\ task[t] \in Task
        BY DEF Typed, TypeOK
      <3>1. loaded \in Task
        BY <3>0, <3>a, Zenon DEF Task, Stage
      <3>2. task' = [task EXCEPT ![t] = loaded]
        BY <2>2, <3>a
      <3> QED
        BY <3>1, <3>2 DEF Typed, TypeOK
    <2> QED
      BY <2>1, <2>2 DEF Load
  <1>3. Shape'
    BY DEF Load, Return, Typed, TypeOK, Shape, Holding, NoTask, Task
  <1> QED
    BY <1>1, <1>2, <1>3 DEF Load, ghosts, Typed, TypeOK

LEMMA ClaimTyped == ASSUME Typed, NEW t \in Tasks, Claim(t) PROVE Typed'
  <1>1. task[t].occ \in Occs /\ task[t].proc \in Procs \cup {NoProc}
    BY DEF Claim, Typed, TypeOK, Shape, Task
  <1>2. runs' \in [Occs -> RunRow]
    BY <1>1 DEF Claim, Finished, RunRow, Typed, TypeOK
  <1>3. task' \in [Tasks -> Task]
    <2>1. CASE Goto(t, "prepare")
      BY <2>1, GotoTyped DEF Typed, TypeOK, Stage
    <2>2. CASE task' = [task EXCEPT ![t].stage = "record", ![t].outcome = "skipped"]
      <3>0. task \in [Tasks -> Task] /\ task[t] \in Task
        BY DEF Typed, TypeOK
      <3>1. [task[t] EXCEPT !.stage = "record", !.outcome = "skipped"] \in Task
        BY <3>0, Zenon DEF Task, Stage, Outcome
      <3>2. task' = [task EXCEPT ![t] = [task[t] EXCEPT !.stage = "record", !.outcome = "skipped"]]
        BY <2>2, <3>0
      <3> QED
        BY <3>1, <3>2 DEF Typed, TypeOK
    <2>3. CASE Settled(t)
      BY <2>3, SettledTyped DEF Typed, TypeOK
    <2> QED
      BY <2>1, <2>2, <2>3 DEF Claim
  <1>4. Shape'
    <2>0. task \in [Tasks -> Task] /\ Shape /\ task[t].kind = "tick"
      BY DEF Claim, Typed, TypeOK, Shape
    <2>1. CASE Goto(t, "prepare")
      BY <1>1, <2>0, <2>1 DEF Goto, Shape, Holding, Task
    <2>2. CASE task' = [task EXCEPT ![t].stage = "record", ![t].outcome = "skipped"]
      BY <1>1, <2>0, <2>2 DEF Shape, Holding, Task
    <2>3. CASE Settled(t)
      BY <1>1, <2>0, <2>3 DEF Settled, Shape, Holding, Task
    <2> QED
      BY <2>1, <2>2, <2>3 DEF Claim
  <1> QED
    BY <1>2, <1>3, <1>4 DEF Claim, ghosts, Typed, TypeOK

LEMMA HandleBusyTyped ==
  ASSUME Typed, NEW t \in Tasks
  PROVE  /\ HandleBusy(t) \in Outcome
         /\ HandleBusy(t) = "retrying" => task[t].snap.retry < MaxRetries
  <1>1. task[t].snap \in JobSnapshot
    BY DEF Typed, TypeOK, Task
  <1>2. /\ task[t].snap.retry \in 0..MaxRetries /\ task[t].snap.max \in 0..MaxRetries
        /\ task[t].snap.queue \in BOOLEAN
    BY <1>1 DEF JobSnapshot
  <1>3. task[t].snap.retry \in Nat /\ task[t].snap.max \in Nat /\ task[t].snap.max <= MaxRetries
    BY <1>2, MaxRetriesAssumption
  <1>4. HandleBusy(t) = "retrying" => ~(task[t].snap.retry >= task[t].snap.max)
    BY DEF HandleBusy
  <1>5. HandleBusy(t) \in Outcome
    BY DEF HandleBusy, Outcome
  <1> QED
    BY <1>3, <1>4, <1>5, MaxRetriesAssumption

\* An execution ends, or goes on.
LEMMA EndsShape ==
  ASSUME Typed, NEW t \in Tasks, NEW outcome, Ends(t, outcome), task[t].stage \in {"prepare", "start", "turn"},
         outcome = "retrying" => task[t].snap.retry < MaxRetries
  PROVE  Shape'
  <1>1. task \in [Tasks -> Task]
    BY DEF Typed, TypeOK
  <1>2. /\ task'[t].kind = task[t].kind /\ task'[t].proc = task[t].proc /\ task'[t].occ = task[t].occ
        /\ task'[t].snap = task[t].snap /\ task'[t].stage = "ended" /\ task'[t].outcome = outcome
        /\ \A x \in Tasks \ {t} : task'[x] = task[x]
    BY <1>1 DEF Ends, Task
  <1> QED
    BY <1>2 DEF Typed, Shape, Holding

LEMMA GotoShape ==
  ASSUME Typed, NEW t \in Tasks, NEW stage \in {"start", "turn"}, Goto(t, stage),
         task[t].stage \in {"prepare", "start"}
  PROVE  Shape'
  <1>1. task \in [Tasks -> Task]
    BY DEF Typed, TypeOK
  <1>2. /\ task'[t].kind = task[t].kind /\ task'[t].proc = task[t].proc /\ task'[t].occ = task[t].occ
        /\ task'[t].stage = stage
        /\ \A x \in Tasks \ {t} : task'[x] = task[x]
    BY <1>1 DEF Goto, Task
  <1> QED
    BY <1>2 DEF Typed, Shape, Holding

LEMMA PrepareTyped == ASSUME Typed, NEW t \in Tasks, Prepare(t) PROVE Typed'
  <1>1. task' \in [Tasks -> Task]
    BY EndsTyped, GotoTyped, HandleBusyTyped DEF Prepare, Outcome, Stage, Typed, TypeOK
  <1>2. Shape'
    BY HandleBusyTyped, EndsShape, GotoShape DEF Prepare, Holding
  <1> QED
    BY <1>1, <1>2 DEF Prepare, ghosts, Typed, TypeOK

LEMMA StartTurnTyped == ASSUME Typed, NEW t \in Tasks, StartTurn(t) PROVE Typed'
  <1>1. task' \in [Tasks -> Task]
    BY EndsTyped, GotoTyped, HandleBusyTyped DEF StartTurn, Outcome, Stage, Typed, TypeOK
  <1>2. Shape'
    BY HandleBusyTyped, EndsShape, GotoShape DEF StartTurn, Holding
  <1> QED
    BY <1>1, <1>2 DEF StartTurn, ghosts, Typed, TypeOK

LEMMA EndTurnTyped == ASSUME Typed, NEW t \in Tasks, EndTurn(t) PROVE Typed'
  <1>1. task' \in [Tasks -> Task]
    BY EndsTyped DEF EndTurn, Outcome, Typed, TypeOK
  <1>2. Shape'
    BY DEF EndTurn, Ends, Typed, TypeOK, Shape, Holding, Task
  <1> QED
    BY <1>1, <1>2 DEF EndTurn, ghosts, Typed, TypeOK

LEMMA FinishTyped == ASSUME Typed, NEW t \in Tasks, Finish(t) PROVE Typed'
  <1>1. runs' \in [Occs -> RunRow]
    BY DEF Finish, Finished, RunRow, Typed, TypeOK
  <1>2. task' \in [Tasks -> Task]
    <2>1. CASE Goto(t, "record")
      BY <2>1, GotoTyped DEF Typed, TypeOK, Stage
    <2>2. CASE Return(t)
      BY <2>2, ReturnTyped DEF Typed, TypeOK
    <2>3. CASE task' = [task EXCEPT ![t].stage = "rearm", ![t].to = task[t].occ]
      <3>0. task \in [Tasks -> Task] /\ task[t] \in Task
        BY DEF Typed, TypeOK
      <3>1. [task[t] EXCEPT !.stage = "rearm", !.to = task[t].occ] \in Task
        BY <3>0, Zenon DEF Task, Stage, Outcome
      <3>2. task' = [task EXCEPT ![t] = [task[t] EXCEPT !.stage = "rearm", !.to = task[t].occ]]
        BY <2>3, <3>0
      <3> QED
        BY <3>1, <3>2 DEF Typed, TypeOK
    <2> QED
      BY <2>1, <2>2, <2>3 DEF Finish
  <1>3. Shape'
    BY DEF Finish, Goto, Return, NoTask, Typed, TypeOK, Shape, Holding, Task
  <1> QED
    BY <1>1, <1>2, <1>3 DEF Finish, ghosts, Typed, TypeOK

LEMMA RecordTyped == ASSUME Typed, NEW t \in Tasks, Record(t) PROVE Typed'
  <1>1. (IF task[t].outcome = "retrying" THEN task[t].snap.retry + 1 ELSE 0) \in 0..MaxRetries
    BY MaxRetriesAssumption DEF Record, Typed, TypeOK, Shape, Task, JobSnapshot
  <1>2. job' \in Job
    BY <1>1 DEF Record, Job, JobSnapshot, Typed, TypeOK
  <1>3. task' \in [Tasks -> Task]
    BY ReturnTyped, SettledTyped DEF Record, Typed, TypeOK
  <1>4. Shape'
    BY DEF Record, Return, Settled, NoTask, Typed, TypeOK, Shape, Holding, Task
  <1> QED
    BY <1>2, <1>3, <1>4 DEF Record, ghosts, Typed, TypeOK

LEMMA LookTyped == ASSUME Typed, NEW t \in Tasks, Look(t) PROVE Typed'
  <1>1. task' \in [Tasks -> Task]
    <2>1. CASE \E o \in Recoverable : task' = [task EXCEPT ![t].stage = "rearm", ![t].to = o]
      <3>1. PICK o \in Occs : task' = [task EXCEPT ![t].stage = "rearm", ![t].to = o]
        BY <2>1 DEF Recoverable
      <3>0. task \in [Tasks -> Task] /\ task[t] \in Task
        BY DEF Typed, TypeOK
      <3>2. [task[t] EXCEPT !.stage = "rearm", !.to = o] \in Task
        BY <3>0, Zenon DEF Task, Stage
      <3>3. task' = [task EXCEPT ![t] = [task[t] EXCEPT !.stage = "rearm", !.to = o]]
        BY <3>0, <3>1
      <3> QED
        BY <3>2, <3>3 DEF Typed, TypeOK
    <2>2. CASE \E stage \in {"advance", "missed", "arm"} : Goto(t, stage)
      BY <2>2, GotoTyped DEF Stage, Typed, TypeOK
    <2> QED
      BY <2>1, <2>2 DEF Look
  <1>2. Shape'
    <2>1. task[t].snap \in JobSnapshot /\ task[t].stage = "look"
      BY DEF Look, Typed, TypeOK, Task
    <2>2. CASE \E o \in Recoverable : task' = [task EXCEPT ![t].stage = "rearm", ![t].to = o]
      <3>1. PICK o \in Occs : task' = [task EXCEPT ![t].stage = "rearm", ![t].to = o]
        BY <2>2 DEF Recoverable
      <3>2. \A x \in Tasks \ {t} : task'[x] = task[x]
        BY <3>1 DEF Typed, TypeOK
      <3>3. /\ task'[t].stage = "rearm" /\ task'[t].to = o
            /\ task'[t].outcome = task[t].outcome
            /\ task'[t].kind = task[t].kind /\ task'[t].proc = task[t].proc
        BY <3>1 DEF Typed, TypeOK, Task
      <3>4. task[t].outcome # "retrying" /\ (task[t].kind = "tick" => task[t].proc # NoProc)
        BY <2>1 DEF Typed, Shape
      <3> QED
        BY <3>2, <3>3, <3>4 DEF Typed, Shape, Holding
    <2>3. CASE Goto(t, "missed") /\ task[t].snap.next # NoOcc
      BY <2>1, <2>3 DEF Goto, Typed, TypeOK, Shape, Holding, Task, JobSnapshot
    <2>4. CASE \E stage \in {"advance", "arm"} : Goto(t, stage)
      BY <2>4 DEF Goto, Typed, TypeOK, Shape, Holding, Task
    <2> QED
      BY <2>2, <2>3, <2>4 DEF Look
  <1> QED
    BY <1>1, <1>2 DEF Look, ghosts, Typed, TypeOK

LEMMA RearmTyped == ASSUME Typed, NEW t \in Tasks, Rearm(t) PROVE Typed'
  <1>1. task[t].to \in Occs
    BY DEF Rearm, Typed, Shape
  <1>2. timer' \in [Procs -> Timer]
    BY <1>1 DEF Rearm, SetTimer, Once, Timer, Typed, TypeOK
  <1>3. task' \in [Tasks -> Task]
    BY ReturnTyped, GotoTyped DEF Rearm, Stage, Typed, TypeOK
  <1>4. Shape'
    BY DEF Rearm, Goto, Return, NoTask, Typed, TypeOK, Shape, Holding, Task
  <1> QED
    BY <1>2, <1>3, <1>4 DEF Rearm, ghosts, Typed, TypeOK

LEMMA AdvanceTyped == ASSUME Typed, NEW t \in Tasks, Advance(t) PROVE Typed'
  <1> DEFINE snap == task[t].snap
             enabled == ~IsAt(snap.sched)
  <1>1. PICK n \in NextRuns(snap.sched, {snap.next}) :
          /\ job' = IF job.exists
                    THEN [job EXCEPT !.row.next = n, !.row.enabled = @ /\ enabled]
                    ELSE job
          /\ IF task[t].kind = "resume" /\ enabled /\ ~job.exists
             THEN Return(t)
             ELSE task' = [task EXCEPT ![t].stage = "arm",
                                       ![t].snap = [snap EXCEPT !.next = n, !.enabled = @ /\ enabled]]
    BY DEF Advance
  <1>2. n \in Occs \cup {NoOcc}
    BY DEF NextRuns, Upcoming
  <1>3. snap \in JobSnapshot /\ job.row \in JobSnapshot
    BY DEF Typed, TypeOK, Task, Job
  <1>4. [snap EXCEPT !.next = n, !.enabled = @ /\ enabled] \in JobSnapshot
    BY <1>2, <1>3 DEF JobSnapshot
  <1>5. job' \in Job
    BY <1>1, <1>2, <1>3 DEF Typed, TypeOK, Job, JobSnapshot
  <1>6. task' \in [Tasks -> Task]
    <2>1. CASE Return(t)
      BY <2>1, ReturnTyped DEF Typed, TypeOK
    <2>2. CASE task' = [task EXCEPT ![t].stage = "arm",
                                    ![t].snap = [snap EXCEPT !.next = n, !.enabled = @ /\ enabled]]
      <3> DEFINE armed == [task[t] EXCEPT !.stage = "arm",
                                !.snap = [snap EXCEPT !.next = n, !.enabled = @ /\ enabled]]
      <3>0. task \in [Tasks -> Task] /\ task[t] \in Task
        BY DEF Typed, TypeOK
      <3>1. armed \in Task
        BY <1>4, <3>0, Zenon DEF Task, Stage
      <3>2. task' = [task EXCEPT ![t] = armed]
        BY <2>2, <3>0
      <3> QED
        BY <3>1, <3>2 DEF Typed, TypeOK
    <2> QED
      BY <1>1, <2>1, <2>2
  <1>7. Shape'
    BY <1>1 DEF Return, NoTask, Typed, TypeOK, Shape, Holding, Task
  <1> QED
    BY <1>5, <1>6, <1>7 DEF Advance, ghosts, Typed, TypeOK

LEMMA ArmTyped == ASSUME Typed, NEW t \in Tasks, Arm(t) PROVE Typed'
  <1>1. TimerFor(task[t].snap) \in Timer
    BY TimerForTyped DEF Typed, TypeOK, Task
  <1>2. timer' \in [Procs -> Timer]
    BY <1>1 DEF Arm, SetTimer, Typed, TypeOK
  <1>3. task' \in [Tasks -> Task]
    BY ReturnTyped DEF Arm, Typed, TypeOK
  <1>4. Shape'
    BY DEF Arm, Return, NoTask, Typed, TypeOK, Shape, Holding
  <1> QED
    BY <1>2, <1>3, <1>4 DEF Arm, ghosts, Typed, TypeOK

LEMMA RecordMissedTyped == ASSUME Typed, NEW t \in Tasks, RecordMissed(t) PROVE Typed'
  <1>1. missed' \in SUBSET Occs
    BY DEF RecordMissed, Typed, TypeOK, Shape
  <1>2. job' \in Job
    BY MaxRetriesAssumption DEF RecordMissed, Typed, TypeOK, Job, JobSnapshot
  <1>3. task' \in [Tasks -> Task]
    BY GotoTyped DEF RecordMissed, Stage, Typed, TypeOK
  <1>4. Shape'
    BY DEF RecordMissed, Goto, Typed, TypeOK, Shape, Holding, Task
  <1> QED
    BY <1>1, <1>2, <1>3, <1>4 DEF RecordMissed, Typed, TypeOK

\* A request begins.
LEMMA CallTyped ==
  ASSUME Typed, NEW t \in Tasks, NEW p \in Procs,
         NEW kind \in {"resume", "update", "remove", "now"},
         NEW stage \in {"look", "write", "delete", "start"},
         NEW snap \in JobSnapshot, NEW request \in {"none"} \cup Updates,
         Call(t, p, kind, stage, snap, request),
         timer' \in [Procs -> Timer]
  PROVE  Typed'
  <1> DEFINE new == [NoTask EXCEPT !.kind = kind, !.proc = p, !.stage = stage, !.snap = snap,
                                   !.outcome = request]
  <1>1. new \in Task
    BY NoTaskTyped DEF NoTask, Task, Stage, Outcome
  <1>2. task' \in [Tasks -> Task]
    BY <1>1 DEF Call, Typed, TypeOK
  <1>3. spent' \in 0..setting'.bound
    BY SettingsAssumption DEF Call, Disturbance, Typed, TypeOK
  <1>4. Shape'
    BY DEF Call, NoTask, Typed, TypeOK, Shape, Holding, Updates
  <1> QED
    BY <1>2, <1>3, <1>4 DEF Call, Typed, TypeOK

LEMMA RequestTyped ==
  ASSUME Typed, NEW p \in Procs, NEW t \in Tasks, RequestStep(p, t)
  PROVE  Typed'
  <1>0. job.row \in JobSnapshot /\ timer \in [Procs -> Timer]
    BY DEF Typed, TypeOK, Job
  <1>1. CASE Resume(p, t)
    <2>1. Timing(job.row) \in JobSnapshot
      BY <1>0, TimingTyped
    <2> QED
      BY <1>0, <1>1, <2>1, CallTyped DEF Resume
  <1>2. CASE BeginUpdate(p, t)
    <2>0. PICK request \in Updates :
             \E edited \in Edited(request) : Call(t, p, "update", "write", edited, request)
      BY <1>2 DEF BeginUpdate
    <2>1. PICK edited \in Edited(request) : Call(t, p, "update", "write", edited, request)
      BY <2>0
    <2> DEFINE row == [job.row EXCEPT !.retry = 0]
    <2>2. row \in JobSnapshot
      BY <1>0, MaxRetriesAssumption DEF JobSnapshot
    <2>3. ASSUME NEW e \in BOOLEAN, NEW n \in Occs, NEW sched \in Schedule
          PROVE  /\ [row EXCEPT !.enabled = e, !.next = n] \in JobSnapshot
                 /\ [row EXCEPT !.sched = sched, !.next = n] \in JobSnapshot
      BY <2>2 DEF JobSnapshot
    <2>7. ASSUME NEW n \in 0..MaxRetries
          PROVE  [row EXCEPT !.max = n] \in JobSnapshot
      BY <2>2 DEF JobSnapshot
    <2>8. [row EXCEPT !.queue = ~@] \in JobSnapshot /\ [row EXCEPT !.fresh = ~@] \in JobSnapshot
      BY <2>2 DEF JobSnapshot
    <2>4. Upcoming \subseteq Occs /\ Occs \subseteq Schedule /\ "every" \in Schedule
      BY DEF Upcoming, Schedule
    <2>5. row.sched \in Schedule /\ (IsAt(row.sched) => row.sched \in Occs)
      BY <2>2 DEF JobSnapshot, Schedule, IsAt
    <2> HIDE DEF row
    <2>6. edited \in JobSnapshot
      <3>1. CASE request \in {"enable", "disable"}
        <4>1. PICK n \in Occs : edited = [row EXCEPT !.enabled = (request = "enable"), !.next = n]
          BY <2>1, <2>4, <2>5, <3>1 DEF Edited, row
        <4> QED
          BY <2>3, <2>5, <4>1
      <3>2. CASE request = "every"
        <4>1. PICK n \in Occs : edited = [row EXCEPT !.sched = "every", !.next = n]
          BY <2>1, <2>4, <3>2 DEF Edited, row
        <4> QED
          BY <2>3, <2>4, <4>1
      <3>3. CASE request = "at"
        <4>1. PICK n \in Occs : edited = [row EXCEPT !.sched = n, !.next = n]
          BY <2>1, <2>4, <3>3 DEF Edited, row
        <4> QED
          BY <2>3, <2>4, <4>1
      <3>4. CASE request = "other"
        BY <2>1, <2>2, <3>4 DEF Edited, row
      <3>5. CASE request = "retries"
        <4>1. PICK n \in 0..MaxRetries : edited = [row EXCEPT !.max = n]
          BY <2>1, <3>5 DEF Edited, row
        <4> QED
          BY <2>7, <4>1
      <3>6. CASE request = "queue"
        BY <2>1, <2>8, <3>6 DEF Edited, row
      <3>7. CASE request = "mode"
        BY <2>1, <2>8, <3>7 DEF Edited, row
      <3> QED
        BY <2>0, <3>1, <3>2, <3>3, <3>4, <3>5, <3>6, <3>7 DEF Updates
    <2> QED
      BY <1>0, <1>2, <2>1, <2>6, CallTyped DEF BeginUpdate
  <1>3. CASE BeginRemove(p, t)
    <2>1. NoSnapshot \in JobSnapshot
      BY NoSnapshotTyped
    <2>2. timer' \in [Procs -> Timer]
      BY <1>0, <1>3 DEF BeginRemove, SetTimer, NoTimer, Timer
    <2> QED
      BY <1>3, <2>1, <2>2, CallTyped DEF BeginRemove
  <1>4. CASE RunNow(p, t)
    <2>1. [NoSnapshot EXCEPT !.fresh = job.row.fresh] \in JobSnapshot
      BY <1>0, NoSnapshotTyped DEF JobSnapshot
    <2> QED
      BY <1>0, <1>4, <2>1, CallTyped DEF RunNow
  <1> QED
    BY <1>1, <1>2, <1>3, <1>4 DEF RequestStep

LEMMA WriteUpdateTyped == ASSUME Typed, NEW t \in Tasks, WriteUpdate(t) PROVE Typed'
  <1>0. job.row \in JobSnapshot /\ task[t].snap \in JobSnapshot
    BY DEF Typed, TypeOK, Task, Job
  <1>1. job' \in Job
    <2>1. CASE ~job.exists
      BY <2>1 DEF WriteUpdate, Typed, TypeOK
    <2>2. CASE job.exists
      <3> DEFINE edited == task[t].snap
                 request == task[t].outcome
                 written == [job.row EXCEPT
                     !.enabled = IF request \in {"enable", "disable"} THEN edited.enabled ELSE @,
                     !.sched = IF request \in {"every", "at"} THEN edited.sched ELSE @,
                     !.next = IF request \in {"enable", "disable", "every", "at"} THEN edited.next ELSE @,
                     !.max = IF request = "retries" THEN edited.max ELSE @,
                     !.queue = IF request = "queue" THEN edited.queue ELSE @,
                     !.fresh = IF request = "mode" THEN edited.fresh ELSE @]
      <3>1. written \in JobSnapshot
        BY <1>0 DEF JobSnapshot
      <3>2. job' = [job EXCEPT !.row = written]
        BY <2>2 DEF WriteUpdate, Typed, TypeOK, Job, JobSnapshot
      <3> QED
        BY <3>1, <3>2 DEF Typed, TypeOK, Job
    <2> QED
      BY <2>1, <2>2
  <1>2. task' \in [Tasks -> Task]
    <2>1. CASE Return(t)
      BY <2>1, ReturnTyped DEF Typed, TypeOK
    <2>2. CASE task' = [task EXCEPT ![t].stage = "arm", ![t].outcome = "none", ![t].snap = Timing(@)]
      <3> DEFINE timing == Timing(task[t].snap)
                 armed == [task[t] EXCEPT !.stage = "arm", !.outcome = "none", !.snap = timing]
      <3>0. task \in [Tasks -> Task] /\ task[t] \in Task /\ timing \in JobSnapshot
        BY <1>0, TimingTyped DEF Typed, TypeOK
      <3>2. task' = [task EXCEPT ![t] = armed]
        BY <2>2, <3>0
      <3> HIDE DEF timing
      <3>1. armed \in Task
        BY <3>0, Zenon DEF Task, Stage, Outcome
      <3> QED
        BY <3>1, <3>2, <3>0 DEF Typed, TypeOK
    <2> QED
      BY <2>1, <2>2 DEF WriteUpdate
  <1>3. Shape'
    BY DEF WriteUpdate, Return, NoTask, Typed, TypeOK, Shape, Holding, Task
  <1> QED
    BY <1>1, <1>2, <1>3 DEF WriteUpdate, ghosts, Typed, TypeOK

LEMMA DeleteTyped == ASSUME Typed, NEW t \in Tasks, Delete(t) PROVE Typed'
  <1>1. job' \in Job /\ runs' \in [Occs -> RunRow]
    BY MaxRetriesAssumption
    DEF Delete, Job, NoSnapshot, JobSnapshot, Schedule, NoRun, RunRow
  <1>2. task' \in [Tasks -> Task]
    BY ReturnTyped DEF Delete, Typed, TypeOK
  <1>3. Shape'
    BY DEF Delete, Return, NoTask, Typed, TypeOK, Shape, Holding
  <1> QED
    BY <1>1, <1>2, <1>3 DEF Delete, ghosts, Typed, TypeOK

LEMMA LeaseTyped ==
  ASSUME Typed, NEW o \in Occs, LeaseStep(o)
  PROVE  Typed'
  <1>1. runs' \in [Occs -> RunRow]
    BY DEF LeaseStep, ExpireLease, LoseLease, Forget, NoRun, RunRow, Typed, TypeOK
  <1>2. late' \in BOOLEAN /\ missed' \in SUBSET Occs /\ setting' = setting
    BY DEF LeaseStep, ExpireLease, LoseLease, Forget, ghosts, Typed, TypeOK
  <1>3. spent' \in 0..setting'.bound
    BY SettingsAssumption
    DEF LeaseStep, ExpireLease, LoseLease, Forget, Disturbance, ghosts, Typed, TypeOK
  <1>4. UNCHANGED <<up, job, timer, task>>
    BY DEF LeaseStep, ExpireLease, LoseLease, Forget
  <1>5. Shape'
    BY <1>4 DEF Typed, Shape, Holding
  <1> QED
    BY <1>1, <1>2, <1>3, <1>4, <1>5 DEF Typed, TypeOK

LEMMA RenewTyped == ASSUME Typed, NEW t \in Tasks, RenewLease(t) PROVE Typed'
  <1>1. runs' \in [Occs -> RunRow]
    <2>1. runs \in [Occs -> RunRow] /\ runs' = [runs EXCEPT ![task[t].occ].lease = "valid"]
      BY DEF RenewLease, Typed, TypeOK
    <2>2. \A r \in RunRow : [r EXCEPT !.lease = "valid"] \in RunRow
      BY DEF RunRow
    <2> QED
      BY <2>1, <2>2
  <1> QED
    BY <1>1 DEF RenewLease, ghosts, Typed, TypeOK, Shape, Holding

LEMMA FailTyped == ASSUME Typed, NEW t \in Tasks, FailTick(t) PROVE Typed'
  <1>1. timer' \in [Procs -> Timer]
    BY DEF FailTick, LostTimer, Timer, Typed, TypeOK
  <1>2. task' \in [Tasks -> Task]
    BY ReturnTyped DEF FailTick, Typed, TypeOK
  <1>3. spent' \in 0..setting'.bound
    BY SettingsAssumption DEF FailTick, Disturbance, Typed, TypeOK
  <1>4. Shape'
    BY DEF FailTick, Return, NoTask, Typed, TypeOK, Shape, Holding
  <1> QED
    BY <1>1, <1>2, <1>3, <1>4 DEF FailTick, Typed, TypeOK

LEMMA NextTyped == Typed /\ [Next]_vars => Typed'
  <1> SUFFICES ASSUME Typed, [Next]_vars PROVE Typed'
    OBVIOUS
  <1>1. ASSUME NEW p \in Procs, Start(p) \/ Crash(p) PROVE Typed'
    BY <1>1, StartTyped, CrashTyped
  <1>2. ASSUME NEW p \in Procs, NEW t \in Tasks, Fire(p, t) \/ RequestStep(p, t) PROVE Typed'
    BY <1>2, FireTyped, RequestTyped
  <1>3. ASSUME NEW t \in Tasks, TickStep(t) PROVE Typed'
    BY <1>3, LoadTyped, ClaimTyped, PrepareTyped, StartTurnTyped, EndTurnTyped, FinishTyped,
       RecordTyped, LookTyped, RearmTyped, AdvanceTyped, ArmTyped, RecordMissedTyped,
       WriteUpdateTyped, DeleteTyped DEF TickStep
  <1>4. ASSUME NEW t \in Tasks, RenewLease(t) \/ FailTick(t) PROVE Typed'
    BY <1>4, RenewTyped, FailTyped
  <1>5. ASSUME NEW o \in Occs, LeaseStep(o) PROVE Typed'
    BY <1>5, LeaseTyped
  <1>6. CASE UNCHANGED vars
    BY <1>6 DEF vars, Typed, TypeOK, Shape, Holding
  <1> QED
    BY <1>1, <1>2, <1>3, <1>4, <1>5, <1>6 DEF Next

\* The state has its type: in particular the retry count of a job never exceeds the
\* most retries it is given, whatever ticks, resumes and edits of max_retries write
\* the row while a tick goes by the limit it has loaded (handle_busy, update_job).
THEOREM TypeCorrect == Spec => []TypeOK
  <1>1. Typed => TypeOK
    BY DEF Typed
  <1> QED
    BY InitTyped, NextTyped, <1>1, PTL DEF Spec

----------------------------------------------------------------------------
\* An execution has its row, or the job was removed.
RowsHeld == \A t \in Tasks : Holding(t) /\ job.exists => Owns(t)

\* No two executions of one occurrence.
Apart == \A t, x \in Tasks : Holding(t) /\ Holding(x) /\ task[t].occ = task[x].occ => t = x

\* A lease that has run out has no holder: this is what a takeover relies on.
LeasesHeld == \A o \in Occs : runs[o].lease = "expired" => ~Held(o)

Alone == ~late => RowsHeld /\ Apart /\ LeasesHeld

IInv == Typed /\ Alone

LEMMA InitAlone == Init => Alone
  BY DEF Init, Alone, RowsHeld, Apart, LeasesHeld, NoRun, NoTask, Holding

\* What the promise sees of a step.
Simulated == [Promise!Next]_(Promise!vars)

\* A step that leaves the executions, the rows and the existence of the job alone.
Silent ==
    /\ runs' = runs
    /\ job'.exists = job.exists
    /\ late' = late
    /\ \A t \in Tasks :
          /\ Holding(t)' <=> Holding(t)
          /\ Holding(t) => task'[t].occ = task[t].occ /\ task'[t].proc = task[t].proc

LEMMA SilentStep == IInv /\ Silent => Alone' /\ Simulated
  <1> SUFFICES ASSUME IInv, Silent PROVE Alone' /\ Simulated
    OBVIOUS
  <1>1. Alone'
    BY DEF IInv, Silent, Alone, RowsHeld, Apart, LeasesHeld, Held, Owns
  <1>2. \A o \in Occs : ExecutionsOf(o)' = ExecutionsOf(o)
    BY DEF Silent, ExecutionsOf
  <1>3. UNCHANGED Promise!vars
    BY <1>2 DEF Silent, Promise!vars
  <1> QED
    BY <1>1, <1>3 DEF Simulated

\* Once a lease has run out under its holder nothing is promised any more.
LEMMA LateStep == late' = TRUE => Alone' /\ Simulated
  BY DEF Alone, Simulated, Promise!Next

LEMMA QuietSteps ==
  ASSUME IInv, NEW t \in Tasks,
         \/ Load(t) \/ Prepare(t) \/ StartTurn(t) \/ EndTurn(t) \/ Record(t) \/ Look(t)
         \/ Rearm(t) \/ Advance(t) \/ Arm(t) \/ RecordMissed(t) \/ WriteUpdate(t)
         \/ FailTick(t)
  PROVE  Silent
  <1>0. /\ task \in [Tasks -> Task] /\ job \in Job
        /\ task[t].stage \in {"load", "claim"} => task[t].kind = "tick"
    BY DEF IInv, Typed, TypeOK, Shape
  <1>1. CASE Load(t)
    BY <1>0, <1>1 DEF Load, Return, NoTask, Silent, Holding, ghosts, Task
  <1>2. CASE Prepare(t)
    BY <1>0, <1>2 DEF Prepare, Ends, Goto, Silent, Holding, ghosts, Task
  <1>3. CASE StartTurn(t)
    BY <1>0, <1>3 DEF StartTurn, Ends, Goto, Silent, Holding, ghosts, Task
  <1>4. CASE EndTurn(t)
    BY <1>0, <1>4 DEF EndTurn, Ends, Silent, Holding, ghosts, Task
  <1>5. CASE Record(t)
    BY <1>0, <1>5 DEF Record, Return, Settled, NoTask, Silent, Holding, ghosts, Task, Job
  <1>6. CASE Look(t)
    BY <1>0, <1>6 DEF Look, Goto, Silent, Holding, ghosts, Task
  <1>7. CASE Rearm(t)
    BY <1>0, <1>7 DEF Rearm, Goto, Return, NoTask, Silent, Holding, ghosts, Task
  <1>8. CASE Advance(t)
    <2>1. runs' = runs /\ late' = late /\ task[t].stage = "advance" /\ job'.exists = job.exists
      BY <1>0, <1>8 DEF Advance, ghosts, Job
    <2>2. \A x \in Tasks \ {t} : task'[x] = task[x]
      BY <1>0, <1>8 DEF Advance, Return
    <2>3. task'[t].stage \in {"arm", "idle"}
      <3>1. CASE Return(t)
        BY <1>0, <3>1 DEF Return, NoTask
      <3>2. CASE ~Return(t)
        <4>1. PICK snap : task' = [task EXCEPT ![t].stage = "arm", ![t].snap = snap]
          BY <1>8, <3>2 DEF Advance
        <4> QED
          BY <1>0, <4>1 DEF Task
      <3> QED
        BY <3>1, <3>2
    <2> QED
      BY <2>1, <2>2, <2>3 DEF Silent, Holding
  <1>9. CASE Arm(t)
    BY <1>0, <1>9 DEF Arm, Return, NoTask, Silent, Holding, ghosts, Task
  <1>10. CASE RecordMissed(t)
    BY <1>0, <1>10 DEF RecordMissed, Goto, Silent, Holding, ghosts, Task, Job
  <1>11. CASE WriteUpdate(t)
    <2>1. runs' = runs /\ late' = late /\ task[t].stage = "write" /\ job'.exists = job.exists
      BY <1>0, <1>11 DEF WriteUpdate, ghosts, Job
    <2>2. \A x \in Tasks \ {t} : task'[x] = task[x]
      BY <1>0, <1>11 DEF WriteUpdate, Return
    <2>3. task'[t].stage \in {"arm", "idle"}
      BY <1>0, <1>11 DEF WriteUpdate, Return, NoTask, Task
    <2> QED
      BY <2>1, <2>2, <2>3 DEF Silent, Holding
  <1>12. CASE FailTick(t)
    BY <1>0, <1>12 DEF FailTick, Return, NoTask, Silent, Holding, Task
  <1> QED
    BY <1>1, <1>2, <1>3, <1>4, <1>5, <1>6, <1>7, <1>8, <1>9, <1>10, <1>11, <1>12

LEMMA QuietCalls ==
  ASSUME IInv, NEW p \in Procs, NEW t \in Tasks, Fire(p, t) \/ RequestStep(p, t)
  PROVE  Silent
  <1>0. task \in [Tasks -> Task]
    BY DEF IInv, Typed, TypeOK
  <1>1. CASE Fire(p, t)
    <2>1. /\ runs' = runs /\ late' = late /\ job' = job /\ task[t] = NoTask
          /\ \A x \in Tasks \ {t} : task'[x] = task[x]
      BY <1>0, <1>1 DEF Fire, ghosts
    <2>2. task'[t].stage = "load"
      BY <1>0, <1>1 DEF Fire, NoTask
    <2> QED
      BY <2>1, <2>2 DEF NoTask, Silent, Holding
  <1>2. ASSUME NEW kind \in {"resume", "update", "remove", "now"}, NEW stage, NEW snap, NEW request,
               Call(t, p, kind, stage, snap, request)
        PROVE  Silent
    <2>1. /\ runs' = runs /\ late' = late /\ job' = job /\ task[t] = NoTask
          /\ \A x \in Tasks \ {t} : task'[x] = task[x]
          /\ task'[t].kind = kind
      BY <1>0, <1>2 DEF Call, NoTask
    <2> QED
      BY <2>1 DEF NoTask, Silent, Holding
  <1>3. CASE RequestStep(p, t)
    BY <1>2, <1>3 DEF RequestStep, Resume, BeginUpdate, BeginRemove, RunNow
  <1> QED
    BY <1>1, <1>3

\* The claim: with every lease on time, an expired row has no holder.
LEMMA ClaimStep == ASSUME IInv, NEW t \in Tasks, Claim(t) PROVE Alone' /\ Simulated
  <1>0. /\ task \in [Tasks -> Task] /\ runs \in [Occs -> RunRow]
        /\ task[t].kind = "tick" /\ task[t].stage = "claim" /\ task[t].occ \in Occs
        /\ late' = late /\ job' = job
    BY DEF IInv, Typed, TypeOK, Shape, Claim, ghosts
  <1>1. CASE late = TRUE
    BY <1>0, <1>1, LateStep
  <1>o. PICK o \in Occs : o = task[t].occ
    BY <1>0
  <1> DEFINE queue == task[t].snap.queue
  <1>2. CASE ~late /\ MayClaim(o, queue)
    <2>1. /\ runs' = [runs EXCEPT ![o] = [status |-> "running", owner |-> task[t].proc, lease |-> "valid"]]
          /\ task' = [task EXCEPT ![t].stage = "prepare"]
      <3>1. ~QueueBusy(o, queue)
        BY <1>o, <1>2 DEF QueueBusy, MayClaim, Expired, Active
      <3> QED
        BY <1>o, <1>2, <3>1 DEF Claim, Goto
    <2>2. \A x \in Tasks : Holding(x) => task[x].occ # o
      <3> SUFFICES ASSUME NEW x \in Tasks, Holding(x), task[x].occ = o PROVE FALSE
        OBVIOUS
      <3>1. Owns(x)
        BY <1>o, <1>2 DEF IInv, Alone, RowsHeld, MayClaim
      <3>2. runs[o].lease = "expired"
        BY <1>o, <1>2, <3>1 DEF MayClaim, Expired, Owns
      <3>3. ~Held(o)
        BY <1>0, <1>o, <1>2, <3>2 DEF IInv, Alone, LeasesHeld
      <3> QED
        BY <3>1, <3>3 DEF Held
    <2>3. /\ Holding(t)' /\ ~Holding(t) /\ task'[t].occ = o /\ task'[t].proc = task[t].proc
          /\ \A x \in Tasks \ {t} : task'[x] = task[x]
      BY <1>0, <1>o, <2>1 DEF Holding, Task
    <2>4. Alone'
      BY <1>0, <1>o, <1>2, <2>1, <2>2, <2>3
      DEF IInv, Alone, RowsHeld, Apart, LeasesHeld, Held, Owns, Holding, RunRow
    <2>5. /\ ExecutionsOf(o) = {}
          /\ \A x \in Occs : ExecutionsOf(x)' = IF x = o THEN {t} ELSE ExecutionsOf(x)
      BY <1>0, <1>o, <2>2, <2>3 DEF ExecutionsOf, Holding
    <2>6. runs[o].status # "done" /\ job.exists
      BY <1>o, <1>2 DEF MayClaim, Expired, Active
    <2>7. {x \in Occs : runs[x].status = "done"}' = {x \in Occs : runs[x].status = "done"}
      BY <1>0, <1>o, <2>1, <2>6
    <2>8. Promise!Begin(o, t)
      BY <1>0, <1>o, <2>5, <2>6, <2>7 DEF Promise!Begin
    <2>9. Promise!Step
      BY <2>8 DEF Promise!Step
    <2> QED
      BY <2>4, <2>9 DEF Simulated, Promise!Next
  <1>3. CASE ~late /\ QueueBusy(o, queue)
    <2>1. /\ runs' = [runs EXCEPT ![o] = Finished]
          /\ task' = [task EXCEPT ![t].stage = "record", ![t].outcome = "skipped"]
      BY <1>0, <1>o, <1>3 DEF Claim, QueueBusy, MayClaim, Expired, Active
    <2>2. \A x \in Tasks : Holding(x) => task[x].occ # o
      BY <1>o, <1>3 DEF IInv, Alone, RowsHeld, Owns, QueueBusy
    <2>3. \A x \in Tasks : (Holding(x)' <=> Holding(x)) /\ (Holding(x) => task'[x] = task[x])
      BY <1>0, <1>o, <2>1 DEF Holding, Task
    <2>4. Alone'
      BY <1>0, <1>o, <1>3, <2>1, <2>2, <2>3
      DEF IInv, Alone, RowsHeld, Apart, LeasesHeld, Held, Owns, RunRow, Finished
    <2>5. \A x \in Occs : ExecutionsOf(x)' = ExecutionsOf(x)
      BY <2>3 DEF ExecutionsOf
    <2>6. ExecutionsOf(o) = {} /\ job.exists
      BY <1>o, <1>3, <2>2 DEF ExecutionsOf, QueueBusy
    <2>7. {x \in Occs : runs[x].status = "done"}' = {x \in Occs : runs[x].status = "done"} \cup {o}
      BY <1>0, <1>o, <2>1 DEF Finished
    <2>8. Promise!Skip(o)
      BY <1>0, <1>o, <2>5, <2>6, <2>7 DEF Promise!Skip
    <2>9. Promise!Step
      BY <2>8 DEF Promise!Step
    <2> QED
      BY <2>4, <2>9 DEF Simulated, Promise!Next
  <1>4. CASE ~MayClaim(o, queue) /\ ~QueueBusy(o, queue)
    <2>1. Silent
      BY <1>0, <1>o, <1>4 DEF Claim, Settled, Silent, Holding, Task
    <2> QED
      BY <2>1, SilentStep
  <1> QED
    BY <1>0, <1>o, <1>1, <1>2, <1>3, <1>4 DEF IInv, Typed, TypeOK

\* The end of an execution: it closes its own row or leaves it to its owner.
LEMMA FinishStep == ASSUME IInv, NEW t \in Tasks, Finish(t) PROVE Alone' /\ Simulated
  <1>0. /\ task \in [Tasks -> Task] /\ runs \in [Occs -> RunRow]
        /\ task[t].stage = "ended" /\ late \in BOOLEAN
        /\ late' = late /\ job' = job
        /\ \A x \in Tasks \ {t} : task'[x] = task[x]
    BY DEF IInv, Typed, TypeOK, Finish, Goto, Return, ghosts
  <1>1. CASE late = TRUE
    BY <1>0, <1>1, LateStep
  <1>2. CASE task[t].kind = "now"
    <2>1. Silent
      BY <1>0, <1>2 DEF Finish, Goto, Silent, Holding, Task
    <2> QED
      BY <2>1, SilentStep
  <1>3. CASE ~late /\ task[t].kind = "tick"
    <2>1. Holding(t) /\ task[t].occ \in Occs
      BY <1>0, <1>3 DEF Holding, IInv, Typed, Shape
    <2>o. PICK o \in Occs : o = task[t].occ
      BY <2>1
    <2>2. ~Holding(t)'
      BY <1>0, <1>3 DEF Finish, Goto, Return, NoTask, Holding, Task
    <2>3. \A x \in Tasks : Holding(x)' <=> Holding(x) /\ x # t
      BY <1>0, <2>2 DEF Holding
    <2>4. ExecutionsOf(o) = {t}
      BY <1>3, <2>1, <2>o DEF IInv, Alone, Apart, ExecutionsOf
    <2>5. \A x \in Occs : ExecutionsOf(x)' = ExecutionsOf(x) \ {t}
      BY <1>0, <2>3 DEF ExecutionsOf
    <2>6. \A x \in Tasks : Holding(x) /\ x # t => task[x].occ # o
      BY <1>3, <2>1, <2>o DEF IInv, Alone, Apart
    <2>7. CASE runs' = runs
      <3>1. Alone'
        BY <1>0, <1>3, <2>3, <2>7
        DEF IInv, Alone, RowsHeld, Apart, LeasesHeld, Held, Owns
      <3>2. Promise!GiveUp({t})
        BY <1>0, <2>5, <2>7 DEF Promise!GiveUp
      <3>3. Promise!Step
        BY <3>2 DEF Promise!Step
      <3> QED
        BY <3>1, <3>3 DEF Simulated, Promise!Next
    <2>8. CASE Owns(t) /\ runs' = [runs EXCEPT ![o] = [status |-> "retrying", owner |-> NoProc, lease |-> "valid"]]
      <3>1. Alone'
        BY <1>0, <1>3, <2>3, <2>6, <2>8
        DEF IInv, Alone, RowsHeld, Apart, LeasesHeld, Held, Owns, RunRow
      <3>2. {x \in Occs : runs[x].status = "done"}' = {x \in Occs : runs[x].status = "done"}
        BY <1>0, <2>o, <2>8 DEF Owns
      <3>3. Promise!GiveUp({t})
        BY <1>0, <2>5, <3>2 DEF Promise!GiveUp
      <3>4. Promise!Step
        BY <3>3 DEF Promise!Step
      <3> QED
        BY <3>1, <3>4 DEF Simulated, Promise!Next
    <2>9. CASE runs' = [runs EXCEPT ![o] = Finished]
      <3>1. Alone'
        BY <1>0, <1>3, <2>3, <2>6, <2>9
        DEF IInv, Alone, RowsHeld, Apart, LeasesHeld, Held, Owns, RunRow, Finished
      <3>2. {x \in Occs : runs[x].status = "done"}' = {x \in Occs : runs[x].status = "done"} \cup {o}
        BY <1>0, <2>9 DEF Finished
      <3>3. \A x \in Occs \ {o} : ExecutionsOf(x) \ {t} = ExecutionsOf(x)
        BY <2>o DEF ExecutionsOf
      <3>4. Promise!End(o, t)
        BY <1>0, <2>4, <2>5, <3>2, <3>3 DEF Promise!End
      <3>5. Promise!Step
        BY <3>4 DEF Promise!Step
      <3> QED
        BY <3>1, <3>5 DEF Simulated, Promise!Next
    <2> QED
      BY <1>3, <2>o, <2>7, <2>8, <2>9 DEF Finish
  <1> QED
    BY <1>0, <1>1, <1>2, <1>3 DEF Finish

\* A crash gives up every execution of its process.
LEMMA CrashStep == ASSUME IInv, NEW p \in Procs, Crash(p) PROVE Alone' /\ Simulated
  <1>0. /\ late' = late /\ job' = job
        /\ task' = [t \in Tasks |-> IF task[t].proc = p THEN NoTask ELSE task[t]]
        /\ runs' = [o \in Occs |-> IF runs[o].owner = p THEN [runs[o] EXCEPT !.owner = NoProc] ELSE runs[o]]
        /\ runs \in [Occs -> RunRow]
    BY DEF Crash, IInv, Typed, TypeOK
  <1> DEFINE gone == {t \in Tasks : task[t].proc = p}
  <1>1. \A t \in Tasks : /\ Holding(t)' <=> Holding(t) /\ task[t].proc # p
                         /\ task[t].proc # p => task'[t] = task[t]
    BY <1>0 DEF Holding, NoTask
  <1>2. \A o \in Occs : /\ runs'[o].status = runs[o].status /\ runs'[o].lease = runs[o].lease
                        /\ runs[o].owner # p => runs'[o].owner = runs[o].owner
                        /\ runs[o].owner = p => runs'[o].owner = NoProc
    BY <1>0 DEF RunRow
  <1>3. \A t \in Tasks : Holding(t) => task[t].occ \in Occs
    BY DEF IInv, Typed, Shape
  <1>4. Alone'
    <2> SUFFICES ASSUME ~late PROVE (RowsHeld /\ Apart /\ LeasesHeld)'
      BY <1>0 DEF Alone
    <2>1. RowsHeld'
      BY <1>0, <1>1, <1>2, <1>3 DEF IInv, Alone, RowsHeld, Owns
    <2>2. Apart'
      BY <1>1 DEF IInv, Alone, Apart
    <2>3. LeasesHeld'
      <3> SUFFICES ASSUME NEW o \in Occs, runs'[o].lease = "expired", NEW t \in Tasks,
                          Holding(t)', task'[t].occ = o, Owns(t)'
                   PROVE  FALSE
        BY DEF LeasesHeld, Held
      <3>1. Holding(t) /\ task[t].occ = o /\ task'[t] = task[t] /\ task[t].proc # p
        BY <1>1
      <3>2. ~Owns(t)
        BY <1>2, <3>1 DEF IInv, Alone, LeasesHeld, Held
      <3>3. task[t].proc # NoProc
        BY <3>1 DEF Holding, IInv, Typed, Shape
      <3>4. runs[o].owner = p /\ task[t].proc = NoProc
        BY <1>2, <3>1, <3>2 DEF Owns
      <3> QED
        BY <3>3, <3>4
    <2> QED
      BY <2>1, <2>2, <2>3
  <1>5. \A o \in Occs : ExecutionsOf(o)' = ExecutionsOf(o) \ gone
    BY <1>1 DEF ExecutionsOf
  <1>6. Promise!GiveUp(gone)
    BY <1>0, <1>2, <1>5 DEF Promise!GiveUp
  <1>7. Promise!Step
    BY <1>6 DEF Promise!Step
  <1> QED
    BY <1>4, <1>7 DEF Simulated, Promise!Next

LEMMA StartStep == ASSUME IInv, NEW p \in Procs, Start(p) PROVE Silent
  BY DEF Start, ghosts, Silent, Holding

\* The job goes with its rows; whatever executes goes on without one.
LEMMA DeleteStep == ASSUME IInv, NEW t \in Tasks, Delete(t) PROVE Alone' /\ Simulated
  <1>0. /\ task \in [Tasks -> Task] /\ task[t].stage = "delete"
        /\ late' = late /\ job' = [exists |-> FALSE, row |-> NoSnapshot]
        /\ runs' = [o \in Occs |-> NoRun] /\ task' = [task EXCEPT ![t] = NoTask]
    BY DEF IInv, Typed, TypeOK, Delete, Return, ghosts
  <1>1. \A x \in Tasks : (Holding(x)' <=> Holding(x)) /\ (Holding(x) => task'[x] = task[x])
    BY <1>0 DEF Holding, NoTask
  <1>2. Alone'
    BY <1>0, <1>1 DEF IInv, Alone, RowsHeld, Apart, LeasesHeld, NoRun
  <1>3. \A x \in Occs : ExecutionsOf(x)' = ExecutionsOf(x)
    BY <1>1 DEF ExecutionsOf
  <1>4. {x \in Occs : runs[x].status = "done"}' = {}
    BY <1>0 DEF NoRun
  <1>5. Promise!Remove
    BY <1>0, <1>3, <1>4 DEF Promise!Remove
  <1>6. Promise!Step
    BY <1>5 DEF Promise!Step
  <1> QED
    BY <1>2, <1>6 DEF Simulated, Promise!Next

LEMMA RenewStep == ASSUME IInv, NEW t \in Tasks, RenewLease(t) PROVE Alone' /\ Simulated
  <1>0. /\ runs \in [Occs -> RunRow] /\ task' = task /\ job' = job /\ late' = late
        /\ runs' = [runs EXCEPT ![task[t].occ].lease = "valid"]
    BY DEF IInv, Typed, TypeOK, RenewLease, ghosts
  <1>1. \A o \in Occs : /\ runs'[o].status = runs[o].status /\ runs'[o].owner = runs[o].owner
                        /\ runs'[o].lease \in {runs[o].lease, "valid"}
    BY <1>0 DEF RunRow
  <1>2. \A x \in Tasks : Holding(x) => task[x].occ \in Occs
    BY DEF IInv, Typed, Shape
  <1>3. Alone'
    BY <1>0, <1>1, <1>2 DEF IInv, Alone, RowsHeld, Apart, LeasesHeld, Held, Owns, Holding
  <1>4. UNCHANGED Promise!vars
    BY <1>0, <1>1 DEF Promise!vars, ExecutionsOf, Holding
  <1> QED
    BY <1>3, <1>4 DEF Simulated

LEMMA LeaseSteps == ASSUME IInv, NEW o \in Occs, LeaseStep(o) PROVE Alone' /\ Simulated
  <1>0. /\ runs \in [Occs -> RunRow] /\ task' = task /\ job' = job
    BY DEF IInv, Typed, TypeOK, LeaseStep, ExpireLease, LoseLease, Forget
  <1>1. CASE ExpireLease(o)
    <2>1. \A x \in Occs : /\ runs'[x].status = runs[x].status /\ runs'[x].owner = runs[x].owner
                          /\ x # o => runs'[x].lease = runs[x].lease
      BY <1>0, <1>1 DEF ExpireLease, RunRow
    <2>2. late' = late /\ ~Held(o)
      BY <1>1 DEF ExpireLease, ghosts
    <2>3. \A x \in Tasks : Holding(x) => task[x].occ \in Occs
      BY DEF IInv, Typed, Shape
    <2>4. Alone'
      BY <1>0, <2>1, <2>2, <2>3 DEF IInv, Alone, RowsHeld, Apart, LeasesHeld, Held, Owns, Holding
    <2>5. UNCHANGED Promise!vars
      BY <1>0, <2>1, <2>2 DEF Promise!vars, ExecutionsOf, Holding
    <2> QED
      BY <2>4, <2>5 DEF Simulated
  <1>2. CASE LoseLease(o)
    BY <1>2, LateStep DEF LoseLease
  <1>3. CASE Forget(o)
    <2>1. runs' = [runs EXCEPT ![o] = NoRun] /\ late' = late /\ runs[o].status \in {"done", "none"}
      BY <1>3 DEF Forget
    <2>2. CASE late
      BY <2>1, <2>2, LateStep
    <2>3. CASE ~late
      <3>1. job.exists => \A x \in Tasks : Holding(x) => task[x].occ # o
        BY <2>1, <2>3 DEF IInv, Alone, RowsHeld, Owns
      <3>2. Alone'
        BY <1>0, <2>1, <2>3, <3>1
        DEF IInv, Alone, RowsHeld, Apart, LeasesHeld, Held, Owns, Holding, NoRun
      <3>3. {x \in Occs : runs[x].status = "done"}' = {x \in Occs : runs[x].status = "done"} \ {o}
        BY <1>0, <2>1 DEF NoRun
      <3>4. \A x \in Occs : ExecutionsOf(x)' = ExecutionsOf(x)
        BY <1>0 DEF ExecutionsOf, Holding
      <3>5. ExecutionsOf(o) = {} \/ ~job.exists
        BY <3>1 DEF ExecutionsOf
      <3>6. Promise!Recycle(o)
        BY <1>0, <2>1, <3>3, <3>4, <3>5 DEF Promise!Recycle
      <3>7. Promise!Step
        BY <3>6 DEF Promise!Step
      <3> QED
        BY <3>2, <3>7 DEF Simulated, Promise!Next
    <2> QED
      BY <2>2, <2>3
  <1> QED
    BY <1>1, <1>2, <1>3 DEF LeaseStep

LEMMA NextStep == IInv /\ [Next]_vars => Alone' /\ Simulated
  <1> SUFFICES ASSUME IInv, [Next]_vars PROVE Alone' /\ Simulated
    OBVIOUS
  <1>1. ASSUME NEW p \in Procs, Start(p) \/ Crash(p) PROVE Alone' /\ Simulated
    BY <1>1, StartStep, SilentStep, CrashStep
  <1>2. ASSUME NEW p \in Procs, NEW t \in Tasks, Fire(p, t) \/ RequestStep(p, t)
        PROVE  Alone' /\ Simulated
    BY <1>2, QuietCalls, SilentStep
  <1>3. ASSUME NEW t \in Tasks, TickStep(t) PROVE Alone' /\ Simulated
    BY <1>3, QuietSteps, SilentStep, ClaimStep, FinishStep, DeleteStep DEF TickStep
  <1>4. ASSUME NEW t \in Tasks, RenewLease(t) \/ FailTick(t) PROVE Alone' /\ Simulated
    BY <1>4, RenewStep, QuietSteps, SilentStep
  <1>5. ASSUME NEW o \in Occs, LeaseStep(o) PROVE Alone' /\ Simulated
    BY <1>5, LeaseSteps
  <1>6. CASE UNCHANGED vars
    BY <1>6, SilentStep DEF vars, Silent, Holding
  <1> QED
    BY <1>1, <1>2, <1>3, <1>4, <1>5, <1>6 DEF Next

LEMMA IInvariant == Spec => []IInv
  <1>1. Init => IInv
    BY InitTyped, InitAlone DEF IInv
  <1>2. IInv /\ [Next]_vars => IInv'
    BY NextTyped, NextStep DEF IInv
  <1> QED
    BY <1>1, <1>2, PTL DEF Spec

\* As long as no lease runs out under its holder, an execution is alone with its
\* occurrence and owns its row, whatever crashes, takeovers, retries and removals
\* come (claim_run, renew_run_lease, finish_run, defer_run).
THEOREM RunsAlone == Spec => []OccurrenceRunsAlone
  <1>1. IInv => OccurrenceRunsAlone
    BY DEF IInv, Alone, RowsHeld, Apart, OccurrenceRunsAlone, ExecutionsOf
  <1> QED
    BY IInvariant, <1>1, PTL

\* The claims, leases and retries of any number of processes implement the promise
\* of Occurrences: one execution at a time, and none after one has ended.
THEOREM Implements == Spec => KeepsItsPromise
  <1>1. Init => Promise!Init
    BY DEF Init, Promise!Init, ExecutionsOf, Holding, NoTask, NoRun
  <1>2. IInv /\ [Next]_vars => [Promise!Next]_(Promise!vars)
    BY NextStep DEF Simulated
  <1> QED
    BY IInvariant, <1>1, <1>2, PTL DEF Spec, KeepsItsPromise, Promise!Spec
----------------------------------------------------------------------------
\* A run that ends or is deferred in a step has been ended by its owner.
EndedByOwner ==
    \A o \in Occs :
        runs[o].status = "running" /\ runs'[o].status \in {"retrying", "done"} =>
            \E t \in ExecutionsOf(o) : task[t].proc = runs[o].owner /\ ~Holding(t)'

LEMMA OwnersEnd == Typed /\ [Next]_vars => EndedByOwner
  <1> SUFFICES ASSUME Typed, [Next]_vars PROVE EndedByOwner
    OBVIOUS
  <1>0. task \in [Tasks -> Task] /\ runs \in [Occs -> RunRow]
    BY DEF Typed, TypeOK
  <1>a. ASSUME runs' = runs PROVE EndedByOwner
    BY <1>a DEF EndedByOwner
  <1>b. ASSUME NEW o \in Occs, NEW row, runs' = [runs EXCEPT ![o] = row],
               row.status \notin {"retrying", "done"} \/ runs[o].status # "running"
        PROVE  EndedByOwner
    BY <1>0, <1>b DEF EndedByOwner
  <1>1. ASSUME NEW t \in Tasks, Claim(t) PROVE EndedByOwner
    <2>1. task[t].occ \in Occs
      BY <1>1 DEF Claim, Typed, Shape
    <2>2. CASE QueueBusy(task[t].occ, task[t].snap.queue)
      BY <1>1, <1>b, <2>1, <2>2 DEF Claim, QueueBusy, MayClaim, Expired, Active
    <2>3. CASE ~QueueBusy(task[t].occ, task[t].snap.queue)
      BY <1>1, <1>a, <1>b, <2>1, <2>3 DEF Claim
    <2> QED
      BY <2>2, <2>3
  <1>2. ASSUME NEW t \in Tasks, Finish(t) PROVE EndedByOwner
    <2>1. CASE runs' = runs
      BY <1>a, <2>1
    <2>2. CASE runs' # runs
      <3>1. /\ Holding(t) /\ Owns(t) /\ task[t].occ \in Occs
            /\ \A o \in Occs \ {task[t].occ} : runs'[o] = runs[o]
        BY <1>0, <1>2, <2>2 DEF Finish, Holding, Typed, Shape
      <3>2. task'[t].stage \in {"rearm", "record"}
        BY <1>0, <1>2, <2>2 DEF Finish, Goto, Task
      <3> QED
        BY <3>1, <3>2 DEF EndedByOwner, ExecutionsOf, Owns, Holding
    <2> QED
      BY <2>1, <2>2
  <1>3. ASSUME NEW t \in Tasks, Delete(t) PROVE EndedByOwner
    BY <1>3 DEF Delete, EndedByOwner, NoRun
  <1>4. ASSUME NEW t \in Tasks, TickStep(t) PROVE EndedByOwner
    BY <1>1, <1>2, <1>3, <1>4, <1>a DEF TickStep, Load, Prepare, StartTurn, EndTurn, Record, Look,
       Rearm, Advance, Arm, RecordMissed, WriteUpdate
  <1>5. ASSUME NEW p \in Procs, Start(p) \/ Crash(p) PROVE EndedByOwner
    <2>1. CASE Start(p)
      BY <1>a, <2>1 DEF Start
    <2>2. CASE Crash(p)
      <3>1. \A o \in Occs : runs'[o].status = runs[o].status
        BY <1>0, <2>2 DEF Crash, RunRow
      <3> QED
        BY <3>1 DEF EndedByOwner
    <2> QED
      BY <1>5, <2>1, <2>2
  <1>6. ASSUME NEW p \in Procs, NEW t \in Tasks, Fire(p, t) \/ RequestStep(p, t) PROVE EndedByOwner
    BY <1>6, <1>a DEF Fire, RequestStep, Resume, BeginUpdate, BeginRemove, RunNow, Call
  <1>7. ASSUME NEW t \in Tasks, RenewLease(t) \/ FailTick(t) PROVE EndedByOwner
    <2>1. CASE RenewLease(t)
      <3>1. \A o \in Occs : runs'[o].status = runs[o].status
        BY <1>0, <2>1 DEF RenewLease, RunRow
      <3> QED
        BY <3>1 DEF EndedByOwner
    <2>2. CASE FailTick(t)
      BY <1>a, <2>2 DEF FailTick
    <2> QED
      BY <1>7, <2>1, <2>2
  <1>8. ASSUME NEW o \in Occs, LeaseStep(o) PROVE EndedByOwner
    <2>1. \A x \in Occs : runs'[x].status \in {runs[x].status, "none"}
      BY <1>0, <1>8 DEF LeaseStep, ExpireLease, LoseLease, Forget, NoRun, RunRow
    <2> QED
      BY <2>1 DEF EndedByOwner
  <1>9. CASE UNCHANGED vars
    BY <1>9, <1>a DEF vars
  <1> QED
    BY <1>4, <1>5, <1>6, <1>7, <1>8, <1>9 DEF Next

\* The outcome of a run is recorded by the process that owns it, for any number of
\* processes, whatever leases run out under their holders and whoever takes the run
\* over in between (claim_run, finish_run, defer_run).
THEOREM OwnersEndRuns == Spec => OwnersEndTheirRuns
  <1>1. Typed /\ [Next]_vars => [EndedByOwner]_vars
    BY OwnersEnd
  <1>2. Init => Typed
    BY InitTyped
  <1>3. Typed /\ [Next]_vars => Typed'
    BY NextTyped
  <1> QED
    BY <1>1, <1>2, <1>3, PTL DEF Spec, OwnersEndTheirRuns, EndedByOwner

----------------------------------------------------------------------------
\* What a call knows of a job that always recurs: the stages it goes through, and
\* that the job as it has loaded or computed it recurs at some time stamp.
Fits(call) ==
    /\ call.kind = "none" => call.stage = "idle"
    /\ call.kind = "tick" => call.stage \notin {"idle", "missed", "write", "delete"}
    /\ call.kind = "resume" => call.stage \in {"look", "rearm", "missed", "advance", "arm"}
    /\ call.kind = "update" => call.stage \in {"write", "arm"}
    /\ call.kind = "remove" => call.stage = "delete"
    /\ call.kind = "now" => call.stage \in {"start", "turn", "ended", "record"}
    /\ call.snap.sched = "every"
    /\ call.kind = "tick" /\ call.stage # "load" => call.snap.enabled
    /\ call.kind = "resume" => call.snap.enabled /\ call.outcome # "retrying"
    /\ call.kind \in {"resume", "update"} \/ (call.kind = "tick" /\ call.stage = "arm")
          => call.snap.next # NoOcc
    /\ call.stage = "write" => call.outcome \in Updates \ {"at"}

\* An update goes by the enabled of the row, unless it is about to write it.
UpToDate(call, j) ==
    call.kind = "update" /\ j.exists
    /\ ~(call.stage = "write" /\ call.outcome \in {"enable", "disable"})
        => call.snap.enabled = j.row.enabled

\* The row of a job that recurs at some time stamp.
Recurs(j) == j.exists => j.row.sched = "every" /\ j.row.next # NoOcc

\* No two requests are in progress.
OneAsks ==
    \A t, u \in Tasks : {task[t].kind, task[u].kind} \cap {"none", "tick"} = {} => t = u

\* The inductive part of EnabledJobWakes.
Wakes ==
    AlwaysRecurs =>
        /\ Recurs(job)
        /\ \A t \in Tasks : Fits(task[t]) /\ UpToDate(task[t], job)
        /\ OneAsks

\* The call goes on, with the job as it knows it.
Keeps(t) ==
    /\ \A x \in Tasks \ {t} : task'[x] = task[x]
    /\ task'[t].kind = task[t].kind /\ task'[t].proc = task[t].proc
    /\ task'[t].snap.enabled = task[t].snap.enabled
    /\ task'[t].snap.sched = task[t].snap.sched
    /\ task'[t].snap.next = task[t].snap.next

LEMMA GotoKeeps ==
  ASSUME task \in [Tasks -> Task], NEW t \in Tasks, NEW stage, Goto(t, stage)
  PROVE  Keeps(t) /\ task'[t].stage = stage /\ task'[t].outcome = task[t].outcome
  BY DEF Goto, Keeps, Task

LEMMA EndsKeeps ==
  ASSUME task \in [Tasks -> Task], NEW t \in Tasks, NEW outcome, Ends(t, outcome)
  PROVE  Keeps(t) /\ task'[t].stage = "ended" /\ task'[t].outcome = outcome
  BY DEF Ends, Keeps, Task

LEMMA SettledKeeps ==
  ASSUME task \in [Tasks -> Task], NEW t \in Tasks, Settled(t)
  PROVE  Keeps(t) /\ task'[t].stage = "look" /\ task'[t].outcome = "none"
  <1>1. task[t].snap \in JobSnapshot
    BY DEF Task
  <1> QED
    BY <1>1, TimingTyped DEF Settled, Keeps, Task

LEMMA RearmKeeps ==
  ASSUME task \in [Tasks -> Task], NEW t \in Tasks, NEW o,
         task' = [task EXCEPT ![t].stage = "rearm", ![t].to = o]
  PROVE  Keeps(t) /\ task'[t].stage = "rearm" /\ task'[t].outcome = task[t].outcome
  BY DEF Keeps, Task

LEMMA ReturnFits ==
  ASSUME task \in [Tasks -> Task], NEW t \in Tasks, Return(t)
  PROVE  /\ \A x \in Tasks \ {t} : task'[x] = task[x]
         /\ task'[t].kind = "none" /\ Fits(task'[t])
  BY DEF Return, NoTask, NoSnapshot, Fits

LEMMA InitWakes == Init => Wakes /\ EnabledJobWakes
  <1> SUFFICES ASSUME Init PROVE Wakes /\ EnabledJobWakes
    OBVIOUS
  <1>1. EnabledJobWakes
    BY DEF Init, EnabledJobWakes
  <1>2. AlwaysRecurs => Recurs(job)
    BY NullsAssumption DEF Init, AlwaysRecurs, Recurs
  <1>3. \A t \in Tasks : Fits(task[t]) /\ UpToDate(task[t], job) /\ task[t].kind = "none"
    BY DEF Init, NoTask, NoSnapshot, Fits, UpToDate
  <1> QED
    BY <1>1, <1>2, <1>3 DEF Wakes, OneAsks

\* One call moves on: what is left to show is that it fits and keeps to the row.
LEMMA CallMoves ==
  ASSUME Wakes, setting' = setting, NEW t \in Tasks,
         \A x \in Tasks \ {t} : task'[x] = task[x],
         task'[t].kind \in {"none", "tick", task[t].kind} \/ NoneAsks,
         AlwaysRecurs =>
            /\ Fits(task'[t]) /\ UpToDate(task'[t], job')
            /\ job'.exists => job.exists
            /\ job'.row.enabled = job.row.enabled \/ task[t].kind = "update" \/ ~job'.exists
            /\ Recurs(job')
  PROVE  Wakes'
  <1> SUFFICES ASSUME AlwaysRecurs
               PROVE  /\ \A x \in Tasks \ {t} : Fits(task'[x]) /\ UpToDate(task'[x], job')
                      /\ OneAsks'
    BY DEF Wakes, AlwaysRecurs, Recurs, Fits, UpToDate
  <1>1. ASSUME NEW x \in Tasks \ {t} PROVE Fits(task'[x])
    BY DEF Wakes
  <1>2. ASSUME NEW x \in Tasks \ {t} PROVE UpToDate(task'[x], job')
    <2>1. UpToDate(task[x], job) /\ task'[x] = task[x]
      BY DEF Wakes
    <2>2. task[t].kind = "update" => task[x].kind # "update"
      BY DEF Wakes, OneAsks
    <2> QED
      BY <2>1, <2>2 DEF UpToDate
  <1>3. OneAsks'
    BY DEF Wakes, OneAsks, NoneAsks
  <1> QED
    BY <1>1, <1>2, <1>3

\* A call that keeps the job as it knows it and leaves the row to others.
LEMMA KeepsUp ==
  ASSUME Wakes, NEW t \in Tasks, Keeps(t), AlwaysRecurs, job' = job, task[t].kind # "update"
  PROVE  /\ UpToDate(task'[t], job')
         /\ job'.exists => job.exists
         /\ job'.row.enabled = job.row.enabled
         /\ Recurs(job')
         /\ task'[t].kind = task[t].kind
  BY DEF Wakes, Keeps, UpToDate

LEMMA TickFits ==
  ASSUME Wakes, NEW t \in Tasks, Keeps(t), AlwaysRecurs,
         task[t].kind \in {"tick", "now"}, task[t].stage # "load",
         task'[t].stage \in IF task[t].kind = "now" THEN {"start", "turn", "ended", "record"}
                            ELSE Stage \ {"idle", "missed", "write", "delete", "arm"}
  PROVE  Fits(task'[t])
  <1>1. Fits(task[t])
    BY DEF Wakes
  <1> QED
    BY <1>1 DEF Fits, Keeps

\* The steps of an execution.
LEMMA ExecutionMoves ==
  ASSUME Typed, NEW t \in Tasks, Claim(t) \/ Prepare(t) \/ StartTurn(t) \/ EndTurn(t)
  PROVE  /\ task[t].stage \in {"claim", "prepare", "start", "turn"}
         /\ task[t].stage \in {"start", "turn"} \/ task'[t].stage # "turn"
         /\ Keeps(t) /\ task'[t].stage \in {"prepare", "record", "look", "ended", "start", "turn"}
         /\ task[t].stage # "claim" => task'[t].stage \in {"ended", "start", "turn"}
         /\ task'[t].stage = "record" => task'[t].outcome = "skipped"
  <1>0. task \in [Tasks -> Task]
    BY DEF Typed, TypeOK
  <1>1. CASE Claim(t)
    <2>1. task' = [task EXCEPT ![t].stage = "record", ![t].outcome = "skipped"]
            => Keeps(t) /\ task'[t].stage = "record" /\ task'[t].outcome = "skipped"
      BY <1>0 DEF Keeps, Task
    <2> QED
      BY <1>0, <1>1, <2>1, GotoKeeps, SettledKeeps DEF Claim
  <1>2. CASE Prepare(t) \/ StartTurn(t) \/ EndTurn(t)
    BY <1>0, <1>2, GotoKeeps, EndsKeeps DEF Prepare, StartTurn, EndTurn
  <1> QED
    BY <1>1, <1>2

LEMMA ExecutionWakes ==
  ASSUME Typed, Wakes, NEW t \in Tasks,
         Claim(t) \/ Prepare(t) \/ StartTurn(t) \/ EndTurn(t)
  PROVE  Wakes'
  <1>0. task \in [Tasks -> Task] /\ job' = job /\ setting' = setting
    BY DEF Typed, TypeOK, Claim, Prepare, StartTurn, EndTurn, ghosts
  <1>1. /\ task[t].stage \in {"claim", "prepare", "start", "turn"}
        /\ task[t].stage \in {"start", "turn"} \/ task'[t].stage # "turn"
        /\ Keeps(t) /\ task'[t].stage \in {"prepare", "record", "look", "ended", "start", "turn"}
        /\ task[t].stage # "claim" => task'[t].stage \in {"ended", "start", "turn"}
    BY ExecutionMoves
  <1>2. ASSUME AlwaysRecurs PROVE Fits(task'[t]) /\ task[t].kind \in {"tick", "now"}
    <2>1. Fits(task[t])
      BY <1>2 DEF Wakes
    <2>2. /\ task[t].kind \in {"tick", "now"}
          /\ task[t].kind = "now" => task[t].stage \in {"start", "turn"}
      BY <1>0, <1>1, <2>1 DEF Fits, Task
    <2>3. task[t].kind = "now" => task'[t].stage \in {"start", "turn", "ended"}
      BY <1>1, <2>2
    <2> QED
      BY <1>1, <1>2, <2>2, <2>3, TickFits DEF Stage
  <1>3. \A x \in Tasks \ {t} : task'[x] = task[x]
    BY <1>1 DEF Keeps
  <1>4. task'[t].kind = task[t].kind
    BY <1>1 DEF Keeps
  <1>5. task[t].kind # "update" \/ ~AlwaysRecurs
    BY <1>2
  <1> QED
    BY <1>0, <1>1, <1>2, <1>3, <1>4, <1>5, KeepsUp, CallMoves

\* A call that is over.
LEMMA ReturnWakes ==
  ASSUME Typed, Wakes, NEW t \in Tasks, Return(t), setting' = setting,
         job' = job \/ (job.exists /\ \E n \in 0..MaxRetries : job' = [job EXCEPT !.row.retry = n])
                    \/ ~job'.exists
  PROVE  Wakes'
  <1>0. task \in [Tasks -> Task] /\ job \in Job
    BY DEF Typed, TypeOK
  <1>1. /\ job'.exists => job.exists
        /\ job'.row.enabled = job.row.enabled \/ ~job'.exists
        /\ AlwaysRecurs => Recurs(job')
    BY <1>0 DEF Wakes, Recurs, Job, JobSnapshot
  <1>2. UpToDate(task'[t], job')
    BY <1>0, ReturnFits DEF UpToDate
  <1> QED
    BY <1>0, <1>1, <1>2, ReturnFits, CallMoves

LEMMA FinishWakes == ASSUME Typed, Wakes, NEW t \in Tasks, Finish(t) PROVE Wakes'
  <1>0. task \in [Tasks -> Task] /\ job' = job /\ setting' = setting /\ task[t].stage = "ended"
    BY DEF Typed, TypeOK, Finish, ghosts
  <1>1. CASE Return(t)
    BY <1>0, <1>1, ReturnWakes
  <1>2. CASE ~Return(t)
    <2>1. /\ Keeps(t) /\ task[t].kind \in {"tick", "now"}
          /\ task'[t].stage \in IF task[t].kind = "now" THEN {"record"} ELSE {"record", "rearm"}
      BY <1>0, <1>2, GotoKeeps, RearmKeeps DEF Finish
    <2>2. AlwaysRecurs => Fits(task'[t])
      BY <1>0, <2>1, TickFits DEF Stage
    <2> QED
      BY <1>0, <2>1, <2>2, KeepsUp, CallMoves DEF Keeps
  <1> QED
    BY <1>1, <1>2

LEMMA RecordWakes == ASSUME Typed, Wakes, NEW t \in Tasks, Record(t) PROVE Wakes'
  <1>0. task \in [Tasks -> Task] /\ job \in Job /\ setting' = setting /\ task[t].stage = "record"
    BY DEF Typed, TypeOK, Record, ghosts
  <1>d. Return(t) \/ (Settled(t) /\ task[t].kind # "now")
    BY Zenon DEF Record
  <1>1. /\ job'.exists = job.exists /\ job'.row.enabled = job.row.enabled
        /\ job'.row.sched = job.row.sched /\ job'.row.next = job.row.next
    BY <1>0 DEF Record, Job, JobSnapshot
  <1>2. AlwaysRecurs => Recurs(job')
    BY <1>1 DEF Wakes, Recurs
  <1>3. CASE Return(t)
    BY <1>0, <1>1, <1>2, <1>3, ReturnFits, CallMoves DEF UpToDate
  <1>4. CASE Settled(t) /\ task[t].kind # "now"
    <2>1. AlwaysRecurs => task[t].kind = "tick"
      BY <1>0, <1>4 DEF Wakes, Fits, Task
    <2>2. AlwaysRecurs => Fits(task'[t])
      BY <1>0, <1>4, <2>1, SettledKeeps, TickFits DEF Stage
    <2>3. AlwaysRecurs => UpToDate(task'[t], job')
      BY <1>0, <1>4, <2>1, SettledKeeps DEF UpToDate, Keeps
    <2> QED
      BY <1>0, <1>1, <1>2, <1>4, <2>2, <2>3, SettledKeeps, CallMoves DEF Keeps
  <1> QED
    BY <1>d, <1>3, <1>4

LEMMA LookWakes == ASSUME Typed, Wakes, NEW t \in Tasks, Look(t) PROVE Wakes'
  <1>0. task \in [Tasks -> Task] /\ job' = job /\ setting' = setting /\ task[t].stage = "look"
    BY DEF Typed, TypeOK, Look, ghosts
  <1>1. /\ Keeps(t) /\ task'[t].outcome = task[t].outcome
        /\ \/ task'[t].stage = "rearm"
           \/ task'[t].stage = "advance" /\ task[t].kind = "tick"
           \/ task'[t].stage \in {"missed", "arm"} /\ task[t].kind = "resume"
    BY <1>0, GotoKeeps, RearmKeeps DEF Look
  <1>2. AlwaysRecurs => Fits(task'[t]) /\ task[t].kind \in {"tick", "resume"}
    <2> SUFFICES ASSUME AlwaysRecurs PROVE Fits(task'[t]) /\ task[t].kind \in {"tick", "resume"}
      OBVIOUS
    <2>1. Fits(task[t])
      BY DEF Wakes
    <2>2. task[t].kind \in {"tick", "resume"}
      BY <1>0, <2>1 DEF Fits, Task
    <2> QED
      BY <1>0, <1>1, <2>1, <2>2 DEF Fits, Keeps
  <1> QED
    BY <1>0, <1>1, <1>2, KeepsUp, CallMoves DEF Keeps

LEMMA RearmWakes == ASSUME Typed, Wakes, NEW t \in Tasks, Rearm(t) PROVE Wakes'
  <1>0. task \in [Tasks -> Task] /\ job' = job /\ setting' = setting /\ task[t].stage = "rearm"
    BY DEF Typed, TypeOK, Rearm, ghosts
  <1>1. CASE Return(t)
    BY <1>0, <1>1, ReturnWakes
  <1>2. CASE Goto(t, "record") /\ task[t].outcome = "retrying"
    <2>1. Keeps(t) /\ task'[t].stage = "record"
      BY <1>0, <1>2, GotoKeeps
    <2>2. AlwaysRecurs => task[t].kind = "tick"
      BY <1>0, <1>2 DEF Wakes, Fits, Task
    <2>3. AlwaysRecurs => Fits(task'[t])
      BY <1>0, <2>1, <2>2, TickFits DEF Stage
    <2> QED
      BY <1>0, <2>1, <2>2, <2>3, KeepsUp, CallMoves DEF Keeps
  <1> QED
    BY <1>1, <1>2 DEF Rearm

LEMMA AdvanceWakes == ASSUME Typed, Wakes, NEW t \in Tasks, Advance(t) PROVE Wakes'
  <1>0. /\ task \in [Tasks -> Task] /\ task[t] \in Task /\ job \in Job
        /\ setting' = setting /\ task[t].stage = "advance"
    BY DEF Typed, TypeOK, Advance, ghosts
  <1> DEFINE snap == task[t].snap
             enabled == ~IsAt(snap.sched)
  <1>1. PICK n \in NextRuns(snap.sched, {snap.next}) :
          /\ job' = IF job.exists
                    THEN [job EXCEPT !.row.next = n, !.row.enabled = @ /\ enabled]
                    ELSE job
          /\ IF task[t].kind = "resume" /\ enabled /\ ~job.exists
             THEN Return(t)
             ELSE task' = [task EXCEPT ![t].stage = "arm",
                                       ![t].snap = [snap EXCEPT !.next = n, !.enabled = @ /\ enabled]]
    BY DEF Advance
  <1>2. CASE ~AlwaysRecurs
    BY <1>0, <1>2 DEF Wakes, AlwaysRecurs
  <1>3. CASE AlwaysRecurs
    <2>1. Fits(task[t]) /\ Recurs(job) /\ task[t].kind \in {"tick", "resume"}
      BY <1>0, <1>3 DEF Wakes, Fits, Task
    <2>2. enabled /\ n \in Occs
      BY <1>1, <2>1 DEF Fits, IsAt, NextRuns, Upcoming
    <2>3. /\ job'.exists = job.exists /\ job'.row.enabled = job.row.enabled
          /\ job'.row.sched = job.row.sched
          /\ job.exists => job'.row.next = n
      BY <1>0, <1>1, <2>2 DEF Job, JobSnapshot
    <2>4. Recurs(job')
      BY <2>1, <2>2, <2>3, NullsAssumption DEF Recurs
    <2>5. CASE Return(t)
      BY <1>0, <2>3, <2>4, <2>5, ReturnFits, CallMoves DEF UpToDate
    <2>6. CASE ~Return(t)
      <3>1. task' = [task EXCEPT ![t].stage = "arm",
                                 ![t].snap = [snap EXCEPT !.next = n, !.enabled = @ /\ enabled]]
        BY <1>1, <2>6
      <3>2. /\ \A x \in Tasks \ {t} : task'[x] = task[x]
            /\ task'[t].stage = "arm" /\ task'[t].kind = task[t].kind
            /\ task'[t].outcome = task[t].outcome
            /\ task'[t].snap = [snap EXCEPT !.next = n, !.enabled = @ /\ enabled]
        BY <1>0, <3>1 DEF Task
      <3>3. /\ task'[t].snap.sched = snap.sched /\ task'[t].snap.next = n
            /\ task'[t].snap.enabled = snap.enabled
        BY <1>0, <2>2, <3>2 DEF Task, JobSnapshot
      <3>4. Fits(task'[t])
        BY <1>0, <2>1, <2>2, <3>2, <3>3, NullsAssumption DEF Fits
      <3>5. UpToDate(task'[t], job')
        BY <2>1, <3>2 DEF UpToDate
      <3> QED
        BY <1>0, <2>3, <2>4, <3>2, <3>4, <3>5, CallMoves
    <2> QED
      BY <2>5, <2>6
  <1> QED
    BY <1>2, <1>3

LEMMA RecordMissedWakes == ASSUME Typed, Wakes, NEW t \in Tasks, RecordMissed(t) PROVE Wakes'
  <1>0. /\ task \in [Tasks -> Task] /\ job \in Job /\ setting' = setting
        /\ task[t].stage = "missed" /\ Goto(t, "advance")
    BY DEF Typed, TypeOK, RecordMissed
  <1>1. /\ job'.exists = job.exists /\ job'.row.enabled = job.row.enabled
        /\ job'.row.sched = job.row.sched /\ job'.row.next = job.row.next
    BY <1>0 DEF RecordMissed, Job, JobSnapshot
  <1>2. Keeps(t) /\ task'[t].stage = "advance" /\ task'[t].outcome = task[t].outcome
    BY <1>0, GotoKeeps
  <1>3. AlwaysRecurs => task[t].kind = "resume" /\ Fits(task[t]) /\ Recurs(job)
    BY <1>0 DEF Wakes, Fits, Task
  <1>4. AlwaysRecurs => Fits(task'[t]) /\ UpToDate(task'[t], job') /\ Recurs(job')
    BY <1>1, <1>2, <1>3 DEF Fits, UpToDate, Recurs, Keeps
  <1> QED
    BY <1>0, <1>1, <1>2, <1>4, CallMoves DEF Keeps

LEMMA WriteUpdateWakes == ASSUME Typed, Wakes, NEW t \in Tasks, WriteUpdate(t) PROVE Wakes'
  <1>0. /\ task \in [Tasks -> Task] /\ job \in Job /\ task[t].snap \in JobSnapshot
        /\ setting' = setting /\ task[t].stage = "write"
    BY DEF Typed, TypeOK, WriteUpdate, ghosts, Task
  <1>1. CASE ~job.exists
    BY <1>0, <1>1, ReturnWakes DEF WriteUpdate
  <1>2. CASE job.exists
    <2> DEFINE edited == task[t].snap
               request == task[t].outcome
    <2>1. /\ \A x \in Tasks \ {t} : task'[x] = task[x]
          /\ task'[t].stage = "arm" /\ task'[t].kind = task[t].kind
          /\ task'[t].outcome = "none" /\ task'[t].snap = Timing(edited)
      BY <1>0, <1>2 DEF WriteUpdate, Task
    <2>7. /\ task'[t].snap.enabled = edited.enabled /\ task'[t].snap.sched = edited.sched
          /\ task'[t].snap.next = edited.next
      BY <1>0, <2>1, TimingTyped
    <2>2. /\ job'.exists = job.exists
          /\ job'.row.enabled = IF request \in {"enable", "disable"} THEN edited.enabled ELSE job.row.enabled
          /\ job'.row.sched = IF request \in {"every", "at"} THEN edited.sched ELSE job.row.sched
          /\ job'.row.next = IF request \in {"enable", "disable", "every", "at"} THEN edited.next
                            ELSE job.row.next
      <3> DEFINE enabled == IF request \in {"enable", "disable"} THEN edited.enabled ELSE job.row.enabled
                 sched == IF request \in {"every", "at"} THEN edited.sched ELSE job.row.sched
                 next == IF request \in {"enable", "disable", "every", "at"} THEN edited.next
                         ELSE job.row.next
                 max == IF request = "retries" THEN edited.max ELSE job.row.max
                 queue == IF request = "queue" THEN edited.queue ELSE job.row.queue
                 fresh == IF request = "mode" THEN edited.fresh ELSE job.row.fresh
      <3>1. job' = [job EXCEPT !.row.enabled = enabled, !.row.sched = sched, !.row.next = next,
                               !.row.max = max, !.row.queue = queue, !.row.fresh = fresh]
        BY <1>2, Zenon DEF WriteUpdate
      <3> HIDE DEF enabled, sched, next, max, queue, fresh
      <3>2. /\ job'.exists = job.exists /\ job'.row.enabled = enabled
            /\ job'.row.sched = sched /\ job'.row.next = next
        BY <1>0, <3>1 DEF Job, JobSnapshot
      <3> QED
        BY <3>2 DEF enabled, sched, next
    <2>3. AlwaysRecurs => /\ Fits(task[t]) /\ UpToDate(task[t], job) /\ Recurs(job)
                          /\ task[t].kind = "update"
      BY <1>0 DEF Wakes, Fits, Task
    <2>4. AlwaysRecurs => Recurs(job')
      BY <2>2, <2>3 DEF Recurs, Fits
    <2>5. AlwaysRecurs => Fits(task'[t])
      BY <2>1, <2>3, <2>7 DEF Fits
    <2>6. AlwaysRecurs => UpToDate(task'[t], job')
      BY <1>0, <1>2, <2>1, <2>2, <2>3, <2>7 DEF UpToDate
    <2> QED
      BY <1>0, <1>2, <2>1, <2>2, <2>3, <2>4, <2>5, <2>6, CallMoves
  <1> QED
    BY <1>1, <1>2

LEMMA LoadWakes == ASSUME Typed, Wakes, NEW t \in Tasks, Load(t) PROVE Wakes'
  <1>0. /\ task \in [Tasks -> Task] /\ job \in Job /\ task[t].kind = "tick"
        /\ setting' = setting /\ job' = job
    BY DEF Typed, TypeOK, Shape, Load, ghosts
  <1>1. CASE Return(t)
    BY <1>0, <1>1, ReturnWakes
  <1>2. CASE /\ job.exists /\ job.row.enabled
             /\ task' = [task EXCEPT ![t].stage = "claim", ![t].snap = [job.row EXCEPT !.next = NoOcc]]
    <2>1. /\ \A x \in Tasks \ {t} : task'[x] = task[x]
          /\ task'[t].stage = "claim" /\ task'[t].kind = "tick"
          /\ task'[t].snap = [job.row EXCEPT !.next = NoOcc]
      BY <1>0, <1>2 DEF Task
    <2>2. task'[t].snap.enabled /\ task'[t].snap.sched = job.row.sched
      BY <1>0, <1>2, <2>1 DEF Job, JobSnapshot
    <2>3. AlwaysRecurs => Recurs(job)
      BY DEF Wakes
    <2>4. AlwaysRecurs => Fits(task'[t]) /\ UpToDate(task'[t], job')
      BY <1>2, <2>1, <2>2, <2>3 DEF Fits, UpToDate, Recurs
    <2> QED
      BY <1>0, <2>1, <2>3, <2>4, CallMoves
  <1> QED
    BY <1>1, <1>2 DEF Load

\* The calls that begin.
LEMMA FireWakes == ASSUME Typed, Wakes, NEW p \in Procs, NEW t \in Tasks, Fire(p, t) PROVE Wakes'
  <1>0. task \in [Tasks -> Task] /\ job' = job /\ setting' = setting
    BY DEF Typed, TypeOK, Fire, ghosts
  <1>1. PICK o \in DueAt(p) :
           task' = [task EXCEPT ![t] =
             [NoTask EXCEPT !.kind = "tick", !.proc = p, !.stage = "load", !.occ = o]]
    BY DEF Fire
  <1>2. /\ \A x \in Tasks \ {t} : task'[x] = task[x]
        /\ task'[t].kind = "tick" /\ task'[t].stage = "load" /\ task'[t].snap = NoSnapshot
    BY <1>0, <1>1 DEF NoTask
  <1>3. Fits(task'[t]) /\ UpToDate(task'[t], job')
    BY <1>2 DEF Fits, UpToDate, NoSnapshot
  <1> QED
    BY <1>0, <1>2, <1>3, CallMoves DEF Wakes

LEMMA BeginWakes ==
  ASSUME Typed, Wakes, NEW p \in Procs, NEW t \in Tasks,
         NEW kind \in {"resume", "update", "remove", "now"}, NEW stage, NEW snap, NEW request,
         Call(t, p, kind, stage, snap, request),
         AlwaysRecurs =>
            LET new == [NoTask EXCEPT !.kind = kind, !.proc = p, !.stage = stage, !.snap = snap,
                                      !.outcome = request]
            IN  Fits(new) /\ UpToDate(new, job)
  PROVE  Wakes'
  <1> DEFINE new == [NoTask EXCEPT !.kind = kind, !.proc = p, !.stage = stage, !.snap = snap,
                                   !.outcome = request]
  <1>0. /\ task \in [Tasks -> Task] /\ job' = job /\ setting' = setting /\ NoneAsks
        /\ task' = [task EXCEPT ![t] = new]
    BY DEF Typed, TypeOK, Call
  <1> HIDE DEF new
  <1>1. (\A x \in Tasks \ {t} : task'[x] = task[x]) /\ task'[t] = new
    BY <1>0
  <1>2. AlwaysRecurs => Fits(new) /\ UpToDate(new, job)
    BY DEF new
  <1>3. AlwaysRecurs => Recurs(job)
    BY DEF Wakes
  <1> QED
    BY <1>0, <1>1, <1>2, <1>3, CallMoves

\* An update computes a job that recurs, unless it is asked for an at-job.
LEMMA EditedRecurs ==
  ASSUME job.row \in JobSnapshot, job.row.sched = "every", job.row.next # NoOcc,
         NEW request \in Updates \ {"at"}, NEW edited \in Edited(request)
  PROVE  /\ edited.sched = "every" /\ edited.next # NoOcc
         /\ request \notin {"enable", "disable"} => edited.enabled = job.row.enabled
  <1> DEFINE row == [job.row EXCEPT !.retry = 0]
  <1>1. /\ row.sched = "every" /\ row.next = job.row.next /\ row.enabled = job.row.enabled
        /\ row \in [enabled : BOOLEAN, sched : Schedule, next : Occs \cup {NoOcc}, retry : {0},
                    max : 0..MaxRetries, queue : BOOLEAN, fresh : BOOLEAN]
    BY DEF JobSnapshot
  <1>2. Upcoming \subseteq Occs /\ ~IsAt(row.sched)
    BY <1>1 DEF Upcoming, IsAt
  <1> HIDE DEF row
  <1>3. CASE request \in {"enable", "disable"}
    <2>1. \E n \in Occs : edited = [row EXCEPT !.enabled = (request = "enable"), !.next = n]
      BY <1>2, <1>3 DEF Edited, row
    <2> QED
      BY <1>1, <1>3, <2>1, NullsAssumption
  <1>4. CASE request = "every"
    <2>1. \E n \in Occs : edited = [row EXCEPT !.sched = "every", !.next = n]
      BY <1>2, <1>4 DEF Edited, row
    <2> QED
      BY <1>1, <2>1, NullsAssumption
  <1>5. CASE request = "other"
    <2>1. edited = row
      BY <1>5 DEF Edited, row
    <2> QED
      BY <1>1, <2>1
  <1>6. CASE request = "retries"
    <2>1. \E n \in 0..MaxRetries : edited = [row EXCEPT !.max = n]
      BY <1>6 DEF Edited, row
    <2> QED
      BY <1>1, <1>6, <2>1
  <1>7. CASE request = "queue"
    <2>1. edited = [row EXCEPT !.queue = ~@]
      BY <1>7 DEF Edited, row
    <2> QED
      BY <1>1, <1>7, <2>1
  <1>8. CASE request = "mode"
    <2>1. edited = [row EXCEPT !.fresh = ~@]
      BY <1>8 DEF Edited, row
    <2> QED
      BY <1>1, <1>8, <2>1
  <1> QED
    BY <1>3, <1>4, <1>5, <1>6, <1>7, <1>8 DEF Updates

LEMMA RequestWakes ==
  ASSUME Typed, Wakes, NEW p \in Procs, NEW t \in Tasks, RequestStep(p, t)
  PROVE  Wakes'
  <1>0. job \in Job /\ job.row \in JobSnapshot
    BY DEF Typed, TypeOK, Job
  <1>1. CASE Resume(p, t)
    <2> DEFINE snap == Timing(job.row)
    <2>1. /\ snap.enabled = job.row.enabled /\ snap.sched = job.row.sched
          /\ snap.next = job.row.next
      BY <1>0, TimingTyped
    <2>2. Call(t, p, "resume", "look", snap, "none") /\ job.exists /\ job.row.enabled
      BY <1>1 DEF Resume
    <2> HIDE DEF snap
    <2> DEFINE new == [NoTask EXCEPT !.kind = "resume", !.proc = p, !.stage = "look",
                                     !.snap = snap, !.outcome = "none"]
    <2>3. /\ new.kind = "resume" /\ new.stage = "look" /\ new.snap = snap /\ new.outcome = "none"
      BY DEF NoTask
    <2> HIDE DEF new
    <2>4. AlwaysRecurs => Fits(new) /\ UpToDate(new, job)
      BY <2>1, <2>2, <2>3 DEF Wakes, Recurs, Fits, UpToDate
    <2> QED
      BY <2>2, <2>4, BeginWakes DEF new
  <1>2. CASE BeginUpdate(p, t)
    <2>0. job.exists
      BY <1>2 DEF BeginUpdate
    <2>a. PICK request \in Updates :
             \E edited \in Edited(request) : Call(t, p, "update", "write", edited, request)
      BY <1>2 DEF BeginUpdate
    <2>1. PICK edited \in Edited(request) : Call(t, p, "update", "write", edited, request)
      BY <2>a
    <2>2. setting.requests \subseteq Requests
      BY SettingsAssumption DEF Typed, TypeOK
    <2>3. AlwaysRecurs => request # "at"
      BY <2>1, <2>2 DEF Call, AlwaysRecurs, Requests, Updates
    <2> DEFINE new == [NoTask EXCEPT !.kind = "update", !.proc = p, !.stage = "write",
                                     !.snap = edited, !.outcome = request]
    <2>4. /\ new.kind = "update" /\ new.stage = "write" /\ new.snap = edited /\ new.outcome = request
      BY DEF NoTask
    <2> HIDE DEF new
    <2>5. AlwaysRecurs => /\ edited.sched = "every" /\ edited.next # NoOcc
                          /\ request \notin {"enable", "disable"} => edited.enabled = job.row.enabled
      BY <1>0, <2>0, <2>3, EditedRecurs DEF Wakes, Recurs
    <2>6. AlwaysRecurs => Fits(new) /\ UpToDate(new, job)
      BY <2>3, <2>4, <2>5 DEF Fits, UpToDate
    <2> QED
      BY <2>1, <2>6, BeginWakes DEF new
  <1>3. ASSUME NEW kind \in {"remove", "now"}, NEW stage,
               stage = IF kind = "now" THEN "start" ELSE "delete",
               NEW snap, snap.sched = "every",
               Call(t, p, kind, stage, snap, "none")
        PROVE  Wakes'
    <2> DEFINE new == [NoTask EXCEPT !.kind = kind, !.proc = p, !.stage = stage,
                                     !.snap = snap, !.outcome = "none"]
    <2>1. /\ new.kind = kind /\ new.stage = stage /\ new.snap = snap
      BY DEF NoTask
    <2> HIDE DEF new
    <2>2. \/ kind = "now" /\ stage = "start"
          \/ kind = "remove" /\ stage = "delete"
      BY <1>3
    <2>4. Fits(new) /\ UpToDate(new, job)
      BY <1>3, <2>1, <2>2 DEF Fits, UpToDate
    <2> QED
      BY <1>3, <2>4, BeginWakes DEF new
  <1>4. /\ NoSnapshot.sched = "every"
        /\ [NoSnapshot EXCEPT !.fresh = job.row.fresh].sched = "every"
    BY DEF NoSnapshot
  <1> QED
    BY <1>1, <1>2, <1>3, <1>4 DEF RequestStep, BeginRemove, RunNow

\* A crash takes the calls of its process.
LEMMA CrashWakes == ASSUME Typed, Wakes, NEW p \in Procs, Crash(p) PROVE Wakes'
  <1>1. /\ task' = [t \in Tasks |-> IF task[t].proc = p THEN NoTask ELSE task[t]]
        /\ job' = job /\ setting' = setting
    BY DEF Crash
  <1>2. \A t \in Tasks : task'[t] = task[t] \/ task'[t] = NoTask
    BY <1>1
  <1>3. Fits(NoTask) /\ UpToDate(NoTask, job) /\ NoTask.kind = "none"
    BY DEF Fits, UpToDate, NoTask, NoSnapshot
  <1>4. AlwaysRecurs => OneAsks'
    BY <1>2, <1>3 DEF Wakes, OneAsks
  <1> QED
    BY <1>1, <1>2, <1>3, <1>4 DEF Wakes, AlwaysRecurs

LEMMA NextWakes == Typed /\ Wakes /\ [Next]_vars => Wakes'
  <1> SUFFICES ASSUME Typed, Wakes, [Next]_vars PROVE Wakes'
    OBVIOUS
  <1>0. ASSUME task' = task, job' = job, setting' = setting PROVE Wakes'
    BY <1>0 DEF Wakes, AlwaysRecurs, OneAsks
  <1>1. ASSUME NEW p \in Procs, Start(p) \/ Crash(p) PROVE Wakes'
    BY <1>0, <1>1, CrashWakes DEF Start, ghosts
  <1>2. ASSUME NEW p \in Procs, NEW t \in Tasks, Fire(p, t) \/ RequestStep(p, t) PROVE Wakes'
    BY <1>2, FireWakes, RequestWakes
  <1>3. ASSUME NEW t \in Tasks, TickStep(t) PROVE Wakes'
    <2>1. CASE Arm(t) \/ Delete(t)
      BY <2>1, ReturnWakes DEF Arm, Delete, ghosts
    <2> QED
      BY <1>3, <2>1, LoadWakes, ExecutionWakes, FinishWakes, RecordWakes, LookWakes, RearmWakes,
         AdvanceWakes, RecordMissedWakes, WriteUpdateWakes DEF TickStep
  <1>4. ASSUME NEW t \in Tasks, RenewLease(t) \/ FailTick(t) PROVE Wakes'
    BY <1>0, <1>4, ReturnWakes DEF RenewLease, FailTick, ghosts
  <1>5. ASSUME NEW o \in Occs, LeaseStep(o) PROVE Wakes'
    BY <1>0, <1>5 DEF LeaseStep, ExpireLease, LoseLease, Forget, ghosts
  <1>6. CASE UNCHANGED vars
    BY <1>0, <1>6 DEF vars
  <1> QED
    BY <1>1, <1>2, <1>3, <1>4, <1>5, <1>6 DEF Next

----------------------------------------------------------------------------
\* Only the processes of the setting run, have timers and make calls.
InUse ==
    /\ \A p \in Procs : up[p] \/ timer[p].kind # "none" => p \in setting.procs
    /\ \A t \in Tasks : task[t] = NoTask \/ task[t].proc \in setting.procs

\* A step of a call ends it or goes on in its process, and sets no other timer.
Proceeds(t) ==
    /\ task[t].stage # "idle"
    /\ \A x \in Tasks \ {t} : task'[x] = task[x]
    /\ task'[t] = NoTask \/ (task'[t].kind = task[t].kind /\ task'[t].proc = task[t].proc)
    /\ \A p \in Procs \ {task[t].proc} : timer'[p] = timer[p]
    /\ up' = up /\ setting' = setting /\ late' = late

LEMMA TickProceeds == ASSUME Typed, NEW t \in Tasks, TickStep(t) PROVE Proceeds(t)
  <1>0. task \in [Tasks -> Task] /\ timer \in [Procs -> Timer]
    BY DEF Typed, TypeOK
  <1>a. ASSUME NEW stage, Goto(t, stage) PROVE Keeps(t)
    BY <1>0, <1>a, GotoKeeps
  <1>b. Return(t) => /\ \A x \in Tasks \ {t} : task'[x] = task[x]
                     /\ task'[t] = NoTask
    BY <1>0 DEF Return
  <1>1. CASE Claim(t) \/ Prepare(t) \/ StartTurn(t) \/ EndTurn(t)
    BY <1>1, ExecutionMoves DEF Claim, Prepare, StartTurn, EndTurn, Proceeds, Keeps, ghosts
  <1>2. CASE Load(t)
    <2>1. task' = [task EXCEPT ![t].stage = "claim", ![t].snap = [job.row EXCEPT !.next = NoOcc]]
            => /\ \A x \in Tasks \ {t} : task'[x] = task[x]
               /\ task'[t].kind = task[t].kind /\ task'[t].proc = task[t].proc
      BY <1>0 DEF Task
    <2> QED
      BY <1>0, <1>2, <1>b, <2>1 DEF Load, Proceeds, SetTimer, ghosts
  <1>3. CASE Finish(t)
    BY <1>0, <1>3, <1>a, <1>b, RearmKeeps DEF Finish, Proceeds, Keeps, ghosts
  <1>4. CASE Record(t)
    <2>1. Return(t) \/ Settled(t)
      BY <1>4, Zenon DEF Record
    <2> QED
      BY <1>0, <1>4, <1>b, <2>1, SettledKeeps DEF Record, Proceeds, Keeps, ghosts
  <1>5. CASE Look(t)
    BY <1>0, <1>5, <1>a, RearmKeeps DEF Look, Proceeds, Keeps, ghosts
  <1>6. CASE Rearm(t) \/ Arm(t)
    BY <1>0, <1>6, <1>a, <1>b DEF Rearm, Arm, Proceeds, Keeps, SetTimer, ghosts
  <1>7. CASE RecordMissed(t) \/ Delete(t)
    BY <1>0, <1>7, <1>a, <1>b DEF RecordMissed, Delete, Proceeds, Keeps, ghosts
  <1>8. CASE WriteUpdate(t)
    <2>1. task' = [task EXCEPT ![t].stage = "arm", ![t].outcome = "none", ![t].snap = Timing(@)]
            => /\ \A x \in Tasks \ {t} : task'[x] = task[x]
               /\ task'[t].kind = task[t].kind /\ task'[t].proc = task[t].proc
      BY <1>0 DEF Task
    <2> QED
      BY <1>0, <1>8, <1>b, <2>1 DEF WriteUpdate, Proceeds, ghosts
  <1>9. CASE Advance(t)
    <2>1. ASSUME NEW snap, task' = [task EXCEPT ![t].stage = "arm", ![t].snap = snap]
          PROVE  /\ \A x \in Tasks \ {t} : task'[x] = task[x]
                 /\ task'[t].kind = task[t].kind /\ task'[t].proc = task[t].proc
      BY <1>0, <2>1 DEF Task
    <2>2. Return(t) \/ \E snap : task' = [task EXCEPT ![t].stage = "arm", ![t].snap = snap]
      BY <1>9, Zenon DEF Advance
    <2> QED
      BY <1>0, <1>9, <1>b, <2>1, <2>2 DEF Advance, Proceeds, ghosts
  <1> QED
    BY <1>1, <1>2, <1>3, <1>4, <1>5, <1>6, <1>7, <1>8, <1>9 DEF TickStep

LEMMA NextInUse == Typed /\ InUse /\ [Next]_vars => InUse'
  <1> SUFFICES ASSUME Typed, InUse, [Next]_vars PROVE InUse'
    OBVIOUS
  <1>0. /\ task \in [Tasks -> Task] /\ timer \in [Procs -> Timer] /\ up \in [Procs -> BOOLEAN]
        /\ NoTimer.kind = "none"
    BY DEF Typed, TypeOK, NoTimer
  <1>a. ASSUME task' = task, timer' = timer, up' = up, setting' = setting PROVE InUse'
    BY <1>a DEF InUse
  <1>1. ASSUME NEW p \in Procs, Start(p) PROVE InUse'
    <2>1. /\ \A q \in Procs \ {p} : timer'[q] = timer[q] /\ up'[q] = up[q]
          /\ p \in setting.procs /\ task' = task /\ setting' = setting
      BY <1>0, <1>1 DEF Start, SetTimer, ghosts
    <2> QED
      BY <2>1 DEF InUse
  <1>2. ASSUME NEW p \in Procs, Crash(p) PROVE InUse'
    <2>1. /\ \A q \in Procs \ {p} : timer'[q] = timer[q] /\ up'[q] = up[q]
          /\ timer'[p].kind = "none" /\ ~up'[p] /\ setting' = setting
          /\ \A t \in Tasks : task'[t] = task[t] \/ task'[t] = NoTask
      BY <1>0, <1>2 DEF Crash
    <2> QED
      BY <2>1 DEF InUse
  <1>3. ASSUME NEW p \in Procs, NEW t \in Tasks, NEW new, task' = [task EXCEPT ![t] = new],
               new.proc = p, p \in setting.procs, setting' = setting, up' = up,
               \A q \in Procs \ {p} : timer'[q] = timer[q]
        PROVE  InUse'
    BY <1>0, <1>3 DEF InUse
  <1>4. ASSUME NEW p \in Procs, NEW t \in Tasks, Fire(p, t) PROVE InUse'
    <2>1. PICK o \in DueAt(p) :
             task' = [task EXCEPT ![t] =
               [NoTask EXCEPT !.kind = "tick", !.proc = p, !.stage = "load", !.occ = o]]
      BY <1>4 DEF Fire
    <2>2. [NoTask EXCEPT !.kind = "tick", !.proc = p, !.stage = "load", !.occ = o].proc = p
      BY DEF NoTask
    <2>3. p \in setting.procs /\ setting' = setting /\ up' = up
      BY <1>4 DEF Fire, InUse, ghosts
    <2>4. \A q \in Procs \ {p} : timer'[q] = timer[q]
      BY <1>0, <1>4 DEF Fire, SetTimer
    <2> QED
      BY <1>3, <2>1, <2>2, <2>3, <2>4
  <1>5. ASSUME NEW p \in Procs, NEW t \in Tasks, RequestStep(p, t) PROVE InUse'
    <2>1. PICK kind, stage, snap, request : Call(t, p, kind, stage, snap, request)
      BY <1>5 DEF RequestStep, Resume, BeginUpdate, BeginRemove, RunNow
    <2>2. [NoTask EXCEPT !.kind = kind, !.proc = p, !.stage = stage, !.snap = snap,
                         !.outcome = request].proc = p
      BY DEF NoTask
    <2>3. p \in setting.procs /\ setting' = setting /\ up' = up
      BY <2>1 DEF Call, InUse
    <2>4. \A q \in Procs \ {p} : timer'[q] = timer[q]
      BY <1>0, <1>5 DEF RequestStep, Resume, BeginUpdate, BeginRemove, RunNow, SetTimer
    <2> QED
      BY <1>3, <2>1, <2>2, <2>3, <2>4 DEF Call
  <1>6. ASSUME NEW t \in Tasks, TickStep(t) PROVE InUse'
    <2>1. Proceeds(t)
      BY <1>6, TickProceeds
    <2>2. task[t].proc \in setting.procs
      BY <2>1 DEF InUse, Proceeds, NoTask
    <2> QED
      BY <2>1, <2>2 DEF InUse, Proceeds
  <1>7. ASSUME NEW t \in Tasks, RenewLease(t) \/ FailTick(t) PROVE InUse'
    <2>1. CASE RenewLease(t)
      BY <1>a, <2>1 DEF RenewLease, ghosts
    <2>2. CASE FailTick(t)
      <3>1. /\ \A x \in Tasks \ {t} : task'[x] = task[x]
            /\ task'[t] = NoTask /\ up' = up /\ setting' = setting
        BY <1>0, <2>2 DEF FailTick, Return
      <3>2. \A q \in Procs \ {task[t].proc} : timer'[q] = timer[q]
        BY <1>0, <2>2 DEF FailTick
      <3>3. task[t].proc \in setting.procs
        BY <2>2 DEF FailTick, InUse, NoTask
      <3> QED
        BY <3>1, <3>2, <3>3 DEF InUse
    <2> QED
      BY <1>7, <2>1, <2>2
  <1>8. ASSUME NEW o \in Occs, LeaseStep(o) PROVE InUse'
    BY <1>a, <1>8 DEF LeaseStep, ExpireLease, LoseLease, Forget, ghosts
  <1>9. CASE UNCHANGED vars
    BY <1>a, <1>9 DEF vars
  <1> QED
    BY <1>1, <1>2, <1>4, <1>5, <1>6, <1>7, <1>8, <1>9 DEF Next

----------------------------------------------------------------------------
\* What EnabledJobWakes is about, and what it says of a process.
Expected(p) ==
    /\ setting.procs = {p} /\ AlwaysRecurs /\ ~late
    /\ up[p] /\ job.exists /\ job.row.enabled

Awake(p) == timer[p].kind # "none" \/ \E t \in Tasks : task[t].proc = p /\ Arms(t)

LEMMA WakesByProcess ==
  ASSUME Typed
  PROVE  EnabledJobWakes <=> \A p \in Procs : Expected(p) => Awake(p)
  <1>1. \A p \in Procs : Set(p) \/ timer[p].kind = "lost" <=> timer[p].kind # "none"
    BY DEF Set, Typed, TypeOK, Timer
  <1> QED
    BY <1>1 DEF EnabledJobWakes, Expected, Awake

LEMMA WakesByProcessNext ==
  ASSUME Typed'
  PROVE  EnabledJobWakes' <=> \A p \in Procs : Expected(p)' => Awake(p)'
  <1>1. \A p \in Procs : Set(p)' \/ timer'[p].kind = "lost" <=> timer'[p].kind # "none"
    BY DEF Set, Typed, TypeOK, Timer
  <1> QED
    BY <1>1 DEF EnabledJobWakes, Expected, Awake, Arms, AlwaysRecurs

\* A step of a call that sets no timer leaves a process awake, unless it is that
\* call that was to set one and has given up.
LEMMA StaysAwake ==
  ASSUME NEW p \in Procs, NEW t \in Tasks, Awake(p), timer'[p] = timer[p],
         \A x \in Tasks \ {t} : task'[x] = task[x],
         Arms(t) /\ task[t].proc = p => Arms(t)' /\ task'[t].proc = p
  PROVE  Awake(p)'
  <1>1. CASE timer[p].kind # "none"
    BY <1>1 DEF Awake
  <1>2. CASE \E x \in Tasks : task[x].proc = p /\ Arms(x)
    <2>1. PICK x \in Tasks : task[x].proc = p /\ Arms(x)
      BY <1>2
    <2>2. task'[x].proc = p /\ Arms(x)'
      BY <2>1 DEF Arms
    <2> QED
      BY <2>2 DEF Awake
  <1> QED
    BY <1>1, <1>2 DEF Awake

\* The steps of a call.
LEMMA TickAwake ==
  ASSUME IInv, Typed', Wakes, InUse, EnabledJobWakes, NEW t \in Tasks, TickStep(t)
  PROVE  EnabledJobWakes'
  <1> SUFFICES ASSUME NEW p \in Procs, Expected(p)' PROVE Awake(p)'
    BY WakesByProcessNext
  <1>0. /\ Proceeds(t) /\ task \in [Tasks -> Task] /\ timer \in [Procs -> Timer]
        /\ job \in Job /\ Typed
    BY TickProceeds DEF IInv, Typed, TypeOK
  <1>1. /\ setting.procs = {p} /\ AlwaysRecurs /\ ~late /\ up[p]
        /\ job'.exists /\ job'.row.enabled
    BY <1>0 DEF Expected, AlwaysRecurs, Proceeds
  <1>2. task[t].proc = p
    BY <1>0, <1>1 DEF InUse, Proceeds, NoTask
  <1>3. job.exists /\ job.row.enabled => Awake(p)
    BY <1>0, <1>1, WakesByProcess DEF Expected
  <1>4. Recurs(job) /\ Fits(task[t]) /\ UpToDate(task[t], job)
    BY <1>1 DEF Wakes
  <1>a. ASSUME job.exists, job.row.enabled, timer' = timer, Arms(t) => Arms(t)' /\ task'[t].proc = p
        PROVE  Awake(p)'
    BY <1>0, <1>3, <1>a, StaysAwake DEF Proceeds
  <1>b. ASSUME task'[t].proc = p, Arms(t)' PROVE Awake(p)'
    BY <1>b DEF Awake
  <1>5. CASE Load(t)
    <2>1. task' = [task EXCEPT ![t].stage = "claim", ![t].snap = [job.row EXCEPT !.next = NoOcc]]
      BY <1>1, <1>5 DEF Load
    <2>2. task'[t].kind = "tick" /\ task'[t].stage = "claim" /\ task'[t].proc = p
      BY <1>0, <1>2, <1>5, <2>1 DEF Typed, Shape, Load, Task
    <2> QED
      BY <1>b, <2>2 DEF Arms
  <1>6. CASE Claim(t) \/ Prepare(t) \/ StartTurn(t) \/ EndTurn(t)
    <2>1. job' = job /\ timer' = timer
      BY <1>6 DEF Claim, Prepare, StartTurn, EndTurn
    <2>2. /\ task'[t].kind = task[t].kind /\ task'[t].proc = p
          /\ task'[t].stage = "record" => task'[t].outcome = "skipped"
      BY <1>0, <1>2, <1>6, ExecutionMoves DEF Keeps
    <2> QED
      BY <1>1, <1>a, <2>1, <2>2 DEF Arms
  <1>7. CASE Finish(t)
    <2>1. job' = job /\ timer' = timer /\ task[t].stage = "ended"
      BY <1>7 DEF Finish
    <2>2. task[t].kind = "tick" => Owns(t)
      BY <1>1, <2>1 DEF Holding, IInv, Alone, RowsHeld
    <2>3. CASE task[t].kind = "tick"
      <3>1. /\ Keeps(t) /\ task'[t].outcome = task[t].outcome
            /\ task'[t].stage = "record" => task[t].outcome # "retrying"
        BY <1>0, <1>7, <2>2, <2>3, GotoKeeps, RearmKeeps DEF Finish
      <3> QED
        BY <1>2, <1>b, <2>3, <3>1 DEF Arms, Keeps
    <2>4. CASE task[t].kind # "tick"
      <3>1. ~Arms(t)
        BY <1>4, <2>1, <2>4 DEF Arms, Fits
      <3> QED
        BY <1>1, <1>a, <2>1, <3>1
    <2> QED
      BY <2>3, <2>4
  <1>8. CASE Record(t)
    <2>1. /\ timer' = timer /\ task[t].stage = "record"
          /\ job.exists /\ job.row.enabled
      BY <1>0, <1>1, <1>8 DEF Record, Job, JobSnapshot
    <2>2. CASE task[t].kind = "now" \/ task[t].outcome = "retrying"
      <3>1. ~Arms(t)
        BY <1>4, <2>1, <2>2 DEF Arms, Fits
      <3> QED
        BY <1>a, <2>1, <3>1
    <2>3. CASE ~(task[t].kind = "now" \/ task[t].outcome = "retrying")
      <3>1. Settled(t)
        BY <1>8, <2>3, Zenon DEF Record
      <3>2. Keeps(t) /\ task'[t].stage = "look"
        BY <1>0, <3>1, SettledKeeps
      <3> QED
        BY <1>2, <1>a, <2>1, <3>2 DEF Arms, Keeps
    <2> QED
      BY <2>2, <2>3
  <1>9. CASE Look(t)
    <2>1. job' = job /\ timer' = timer
      BY <1>9 DEF Look
    <2>2. /\ task'[t].kind = task[t].kind /\ task'[t].proc = p /\ task'[t].stage # "record"
      BY <1>0, <1>2, <1>9, GotoKeeps, RearmKeeps DEF Look, Keeps
    <2> QED
      BY <1>1, <1>a, <2>1, <2>2 DEF Arms
  <1>10. CASE Rearm(t)
    <2>1. timer'[p].kind = "once"
      BY <1>0, <1>2, <1>10 DEF Rearm, SetTimer, Once
    <2> QED
      BY <2>1 DEF Awake
  <1>11. CASE Advance(t)
    <2>1. task'[t] # NoTask => task'[t].stage = "arm"
      <3>1. ASSUME NEW snap, task' = [task EXCEPT ![t].stage = "arm", ![t].snap = snap]
            PROVE  task'[t].stage = "arm"
        BY <1>0, <3>1 DEF Task
      <3>2. Return(t) \/ \E snap : task' = [task EXCEPT ![t].stage = "arm", ![t].snap = snap]
        BY <1>11, Zenon DEF Advance
      <3> QED
        BY <1>0, <3>1, <3>2 DEF Return
    <2>2. task'[t] # NoTask
      <3>1. job.exists
        BY <1>0, <1>1, <1>11 DEF Advance, Job
      <3>2. \E snap : task' = [task EXCEPT ![t].stage = "arm", ![t].snap = snap]
        BY <1>11, <3>1, Zenon DEF Advance
      <3>3. task'[t].stage = "arm"
        BY <1>0, <3>2 DEF Task
      <3> QED
        BY <3>3 DEF NoTask
    <2>3. task[t].kind \in {"tick", "resume"}
      BY <1>0, <1>4, <1>11 DEF Advance, Fits, Task
    <2> QED
      BY <1>0, <1>2, <1>b, <2>1, <2>2, <2>3 DEF Proceeds, Arms
  <1>12. CASE Arm(t)
    <2>1. /\ job' = job /\ task[t].stage = "arm"
          /\ task[t].kind \in {"tick", "resume", "update"}
      BY <1>0, <1>4, <1>12 DEF Arm, Fits, Task
    <2>2. task[t].snap.enabled /\ task[t].snap.next # NoOcc
      BY <1>1, <1>4, <2>1 DEF Fits, UpToDate
    <2>3. TimerFor(task[t].snap).kind # "none"
      BY <2>2 DEF TimerFor, Once, Loop
    <2>4. timer'[p].kind # "none"
      BY <1>0, <1>2, <1>12, <2>3 DEF Arm, SetTimer
    <2> QED
      BY <2>4 DEF Awake
  <1>13. CASE RecordMissed(t)
    <2>1. task'[t].kind = "resume" /\ task'[t].proc = p
      BY <1>0, <1>2, <1>4, <1>13, GotoKeeps DEF RecordMissed, Fits, Keeps, Task
    <2> QED
      BY <1>b, <2>1 DEF Arms
  <1>14. CASE WriteUpdate(t)
    <2>1. task[t].kind = "update"
      BY <1>0, <1>4, <1>14 DEF WriteUpdate, Fits, Task
    <2>2. job.exists
      BY <1>1, <1>14 DEF WriteUpdate
    <2>3. task' = [task EXCEPT ![t].stage = "arm", ![t].outcome = "none", ![t].snap = Timing(@)]
      BY <1>14, <2>2, Zenon DEF WriteUpdate
    <2>4. task'[t].kind = "update" /\ task'[t].proc = p
      BY <1>0, <1>2, <2>1, <2>3 DEF Task
    <2> QED
      BY <1>b, <2>4 DEF Arms
  <1>15. CASE Delete(t)
    BY <1>1, <1>15 DEF Delete
  <1> QED
    BY <1>5, <1>6, <1>7, <1>8, <1>9, <1>10, <1>11, <1>12, <1>13, <1>14, <1>15 DEF TickStep

LEMMA NextAwake ==
  IInv /\ Wakes /\ InUse /\ EnabledJobWakes /\ [Next]_vars => EnabledJobWakes'
  <1> SUFFICES ASSUME IInv, Wakes, InUse, EnabledJobWakes, [Next]_vars PROVE EnabledJobWakes'
    OBVIOUS
  <1>0. /\ task \in [Tasks -> Task] /\ timer \in [Procs -> Timer] /\ up \in [Procs -> BOOLEAN]
        /\ late \in BOOLEAN /\ job \in Job /\ Typed /\ Typed'
    BY NextTyped DEF IInv, Typed, TypeOK
  <1>a. ASSUME task' = task, timer' = timer, up' = up, setting' = setting, job' = job,
               late => late'
        PROVE  EnabledJobWakes'
    BY <1>0, <1>a, WakesByProcess, WakesByProcessNext DEF Expected, Awake, Arms, AlwaysRecurs
  <1>1. ASSUME NEW q \in Procs, Start(q) PROVE EnabledJobWakes'
    <2> SUFFICES ASSUME NEW p \in Procs, Expected(p)' PROVE Awake(p)'
      BY <1>0, WakesByProcessNext
    <2>1. /\ setting' = setting /\ job' = job /\ late' = late /\ task' = task
          /\ q \in setting.procs /\ setting.procs = {p} /\ AlwaysRecurs
          /\ job.exists /\ job.row.enabled
      BY <1>1 DEF Start, ghosts, Expected, AlwaysRecurs
    <2>2. q = p
      BY <2>1
    <2>3. (\E o \in Recoverable : SetTimer(p, Once(o))) \/ SetTimer(p, TimerFor(job.row))
      BY <1>1, <2>1, <2>2 DEF Start
    <2>4. TimerFor(job.row).kind # "none"
      BY <2>1 DEF Wakes, Recurs, TimerFor, Once, Loop
    <2>5. timer'[p].kind # "none"
      BY <1>0, <2>3, <2>4 DEF SetTimer, Once
    <2> QED
      BY <2>5 DEF Awake
  <1>2. ASSUME NEW q \in Procs, Crash(q) PROVE EnabledJobWakes'
    <2> SUFFICES ASSUME NEW p \in Procs, Expected(p)' PROVE Awake(p)'
      BY <1>0, WakesByProcessNext
    <2>1. /\ up' = [up EXCEPT ![q] = FALSE] /\ timer' = [timer EXCEPT ![q] = NoTimer]
          /\ task' = [t \in Tasks |-> IF task[t].proc = q THEN NoTask ELSE task[t]]
          /\ setting' = setting /\ job' = job /\ late' = late
      BY <1>2 DEF Crash
    <2>2. p # q
      BY <1>0, <2>1 DEF Expected
    <2>3. Expected(p) /\ timer'[p] = timer[p]
      BY <1>0, <2>1, <2>2 DEF Expected, AlwaysRecurs
    <2>4. \A t \in Tasks : task[t].proc = p => task'[t] = task[t]
      BY <2>1, <2>2
    <2>5. Awake(p)
      BY <1>0, <2>3, WakesByProcess
    <2> QED
      BY <2>3, <2>4, <2>5 DEF Awake, Arms
  <1>3. ASSUME NEW q \in Procs, NEW t \in Tasks, Fire(q, t) PROVE EnabledJobWakes'
    <2> SUFFICES ASSUME NEW p \in Procs, Expected(p)' PROVE Awake(p)'
      BY <1>0, WakesByProcessNext
    <2>1. PICK o \in DueAt(q) :
             task' = [task EXCEPT ![t] =
               [NoTask EXCEPT !.kind = "tick", !.proc = q, !.stage = "load", !.occ = o]]
      BY <1>3 DEF Fire
    <2>2. task'[t].kind = "tick" /\ task'[t].proc = q /\ task'[t].stage = "load"
      BY <1>0, <2>1 DEF NoTask
    <2>3. setting.procs = {p} /\ q \in setting.procs
      BY <1>3 DEF Fire, InUse, Expected, ghosts
    <2> QED
      BY <2>2, <2>3 DEF Awake, Arms
  <1>4. ASSUME NEW q \in Procs, NEW t \in Tasks, NEW kind, NEW stage, NEW snap, NEW request,
               Call(t, q, kind, stage, snap, request),
               timer' = timer \/ (kind = "remove" /\ \A p \in Procs \ {q} : timer'[p] = timer[p])
        PROVE  EnabledJobWakes'
    <2> SUFFICES ASSUME NEW p \in Procs, Expected(p)' PROVE Awake(p)'
      BY <1>0, WakesByProcessNext
    <2> DEFINE new == [NoTask EXCEPT !.kind = kind, !.proc = q, !.stage = stage, !.snap = snap,
                                     !.outcome = request]
    <2>1. /\ task[t] = NoTask /\ up[q] /\ task' = [task EXCEPT ![t] = new]
          /\ setting' = setting /\ up' = up /\ job' = job /\ late' = late
      BY <1>4 DEF Call
    <2>2. new.kind = kind /\ new.proc = q
      BY DEF NoTask
    <2> HIDE DEF new
    <2>3. Expected(p) /\ q = p
      BY <2>1 DEF Expected, InUse, AlwaysRecurs
    <2>4. Awake(p)
      BY <1>0, <2>3, WakesByProcess
    <2>5. ~Arms(t)
      BY <2>1 DEF Arms, NoTask
    <2>6. (\A x \in Tasks \ {t} : task'[x] = task[x]) /\ task'[t] = new
      BY <1>0, <2>1
    <2>7. CASE timer' = timer
      BY <2>4, <2>5, <2>6, <2>7, StaysAwake
    <2>8. CASE kind = "remove"
      BY <2>2, <2>3, <2>6, <2>8 DEF Awake, Arms
    <2> QED
      BY <1>4, <2>7, <2>8
  <1>5. ASSUME NEW q \in Procs, NEW t \in Tasks, RequestStep(q, t) PROVE EnabledJobWakes'
    <2>1. BeginRemove(q, t) => \A p \in Procs \ {q} : timer'[p] = timer[p]
      BY <1>0 DEF BeginRemove, SetTimer
    <2> QED
      BY <1>4, <1>5, <2>1 DEF RequestStep, Resume, BeginUpdate, BeginRemove, RunNow
  <1>6. ASSUME NEW t \in Tasks, TickStep(t) PROVE EnabledJobWakes'
    BY <1>0, <1>6, TickAwake
  <1>7. ASSUME NEW t \in Tasks, RenewLease(t) PROVE EnabledJobWakes'
    BY <1>a, <1>7 DEF RenewLease, ghosts
  <1>10. ASSUME NEW t \in Tasks, FailTick(t) PROVE EnabledJobWakes'
    <2> SUFFICES ASSUME NEW p \in Procs, Expected(p)' PROVE Awake(p)'
      BY <1>0, WakesByProcessNext
    <2>1. up' = up /\ job' = job /\ setting' = setting /\ late' = late
      BY <1>10 DEF FailTick
    <2>2. task[t].proc = p
      BY <1>10, <2>1 DEF FailTick, InUse, NoTask, Expected
    <2>3. timer'[p] = IF timer[p].kind = "none" THEN LostTimer ELSE timer[p]
      BY <1>0, <1>10, <2>2 DEF FailTick
    <2>4. timer'[p].kind # "none"
      BY <2>3 DEF LostTimer
    <2> QED
      BY <2>4 DEF Awake
  <1>8. ASSUME NEW o \in Occs, LeaseStep(o) PROVE EnabledJobWakes'
    BY <1>a, <1>8 DEF LeaseStep, ExpireLease, LoseLease, Forget, ghosts
  <1>9. CASE UNCHANGED vars
    BY <1>a, <1>9 DEF vars
  <1> QED
    BY <1>1, <1>2, <1>3, <1>5, <1>6, <1>7, <1>8, <1>9, <1>10 DEF Next

\* A recurring job that nobody edits into an at-job does not fall asleep while it
\* is enabled, whatever crashes, requests, retries and removals its process goes
\* through: the process has a timer for it or a call that will set one (tick,
\* finish_run, schedule_retry, schedule_job, update_job, handle_system_resume),
\* except from a tick that fails with the timer it has used up (service.rs:626-645)
\* to the next call that sets it.
THEOREM EnabledJobsWake == Spec => []EnabledJobWakes
  <1>1. Init => InUse
    BY DEF Init, InUse, NoTimer
  <1>2. IInv /\ Wakes /\ InUse /\ EnabledJobWakes /\ [Next]_vars
           => (Wakes /\ InUse /\ EnabledJobWakes)'
    BY NextWakes, NextInUse, NextAwake DEF IInv
  <1> QED
    BY IInvariant, InitWakes, <1>1, <1>2, PTL DEF Spec
=============================================================================
