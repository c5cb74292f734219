# TLA+ verification of AionCore's coordination core

AionCore (`src/`) is the Rust backend of a desktop application in which a user
works with AI agents: conversations with one agent, teams of agents that send
each other messages, scheduled (cron) conversations, and the services around
them. It is an Axum/Tokio server over SQLite. What is hard about it is not the
data but the coordination: long operations that run without a lock and commit
later, per-slot event loops woken by a `Notify`, summaries computed under one
lock and applied under another, agent processes that are built by whichever
caller comes first. This directory models that coordination in TLA+, checks it
with TLC and proves the central invariants of its components with TLAPS.

Contents: 1 the system, 2 the modules, 3 the runs, 4 bounds and fairness,
5 findings, 6 proofs, 7 what is not modelled, 8 the plan.

All source paths below are under `src/crates/`.

## 1. The system

`ARCHITECTURE.md` names four layers: Foundation (`aionui-common`, `-api-types`,
`-db`, `-assets`, `-runtime`), Capability (`-auth`, `-realtime`), Domain
(conversation, channel, team, cron, file, office, system, mcp, ai-agent,
extension, shell, assistant, and the newer session, project, process and
team-prompts) and Composition (`aionui-app`).

### 1.1 Teams (`aionui-team`)

A team session owns the parts below. Each has a mutex of its own, taken for one
method and released before the next part is called.

| part | state | operations | correct when |
|---|---|---|---|
| member runtime registry, `member_runtime.rs` | slot -> Attaching / Ready / Failed / Removing with an operation id and a watch channel; `next_operation_id`; `stopped` | `reserve_attach`, `reserve_repair`, `begin_remove` hand out a lease or a waiter; `commit_ready`, `commit_failed`, `finish_remove`, `restore_attach_required...` consume one; `stop`; `AttachWaiter::wait` | entry and channels agree; late commits do nothing; a removal is exclusive; waiters return |
| slot work coordinator, `work_coordinator/` | intents, three priority queues per slot, at most one active batch, paused / removed / runtime constraint, enqueue leases | `acquire/commit/abort_enqueue`, `reconcile_mailbox`, `next`, `complete_signals`, `mark_started`, `retry_start`, `complete/fail/cancel_batch`, `cancel_run`, `pause_slot`, `set_runtime_constraint`, `remove_slot`, `stop` | no intent lost or doubled; finished work stays finished; FIFO per priority; slash commands travel alone; cancel is exact |
| team run manager, `team_run/manager.rs` | at most one run record with a status | `bind_*_enqueue`, `abort_binding`, `apply_work_summary`, `begin_cancel` | a run ends when its work does, once, with the right status |
| session, `session.rs` | nothing durable; the glue | enqueue with mailbox write, cancel run, pause slot, attach | a message that was acknowledged is delivered once or settled |
| mailbox, `mailbox.rs` | SQLite rows with a read flag | write, peek unread, mark read | `read` means delivered or deliberately dropped |
| event loop, `event_loop.rs` | one task per attached slot with a `Notify` | prepare, peek, reconcile, claim, start a turn, settle | at most one turn per message; no missed wakeup |
| membership, `service.rs`, `provisioning.rs`, `session.rs` | `teams.agents`, the published session, the membership lock, agents and event loops of the members | ensure, lazy wakeup, retry, add, spawn, remove, attach, stop | a removed member has no agent, no loop and is forgotten; a ready member has a loop; every operation ends |
| scheduler, task board, MCP tools | member statuses, shared tasks | wake, crash messages, tasks | not modelled |

Interaction: a producer (user, teammate through an MCP tool, the session itself)
publishes the member's status as the slot's constraint, takes an enqueue lease
(which binds the work to a team run through the run manager *under* the
coordinator's lock), writes the mailbox row, commits the lease and notifies the
slot's event loop. The loop sets the constraint, peeks the unread rows,
reconciles the coordinator with them, claims a batch, starts a conversation turn
with the rows of the batch it has peeked, marks the batch's rows read when the
turn ends and settles the batch. Most changes of a run's work publish a summary to the run manager
*after* the coordinator's lock is released.

### 1.2 Agents and conversations

| part | state | operations | correct when |
|---|---|---|---|
| agent task manager, `aionui-ai-agent/src/task_manager.rs` | conversation -> `Arc<OnceCell>` with the agent and its runtime-context version | `get_or_build_task`, `kill`, `kill_and_wait`, `clear`, `on_conversation_deleted` | one agent per conversation; no agent the manager cannot stop |
| runtime tokens, `runtime_token.rs` | conversation -> valid token | issue (idempotent), invalidate | a removed agent's token does not validate |
| idle scanner, `idle_scanner.rs`; active leases, `active_lease.rs` | last activity, leases with a TTL | scan, renew | an agent in use is not collected |
| conversation turns, `aionui-conversation/src/runtime_state.rs`, `service.rs`, `turn_orchestrator.rs` | claims, deleting, cancelling, deferred cancels, shutdown; where each turn is and the agent it has | send, claim / release, continue, replay, cancel with its watchdog, delete, revoke, shut down | a turn works exactly while it holds the claim; a cancel hits its turn and ends it; marks are cleared; sleepers are woken |
| streaming, startup recovery | rows of a turn | relay, repair | an interrupted turn is repaired once |
| protocols and backends, `aionui-session`, `manager/`, `protocol/` | session reducers | ACP, Codex, Claude I/O | - |

### 1.3 Cron (`aionui-cron`, `aionui-db/src/repository/sqlite_cron.rs`)

| part | state | operations | correct when |
|---|---|---|---|
| timers, `scheduler.rs` | one timer per job and process | schedule, cancel, fire | an enabled recurring job has a timer or a call that will set one |
| occurrences, `sqlite_cron.rs` | a row per job and `scheduled_at`: status, owner, lease | claim, renew, defer, finish, recover, list retries | an occurrence runs alone and once, and ends |
| service, `service.rs`, `executor.rs` | the calls in progress | tick, resume, update, remove, run now | edits survive runs; retries and restarts lose nothing |

Hard: several processes on one database, crash and restart in the middle of a
run, an expired lease whose holder still runs, rescheduling from a job row that
was loaded before the execution.

### 1.4 The rest

Realtime (bounded per-connection channels), authentication, chat channels,
projects (file monitor), office / file / shell, MCP server configuration,
extensions and assistants, system settings, the SQL repositories, shared types
and the application crate: see section 7 and the component list in `PROJECT.json`.

### 1.5 What is hard

`PROJECT.json` lists every hazard at its line with the properties that cover it.
In short: commits with a lease that was superseded; batches that come back to a
queue after work was cancelled; summaries applied in another order than they
were computed; a peek that is stale when its result is used; the same row
enqueued by its sender and by recovery; a notify that races the loop going to
sleep; a cancel in two halves; a kill during a build; a token issued before and
used after a kill; waiters nobody releases; a removal, an ensure and an attach of
one member that overtake each other; a run taken over from an expired lease; a
cancel that comes before its turn has an agent, or after the turn is over.

## 2. The modules

| module | models | extends |
|---|---|---|
| `MemberRuntime` | `member_runtime.rs` | - |
| `MemberRuntimeProofs` | theorems about `MemberRuntime` | `MemberRuntime`, `TLAPS` |
| `TeamMembership` | attach, ensure, add, remove and stop of `service.rs`, `session.rs`, `provisioning.rs` on the registry | `MemberRuntime` |
| `TeamMembershipProofs` | theorems about `TeamMembership` | `TeamMembership`, `MemberRuntimeProofs` |
| `WorkSource` | `work_source.rs`: priorities and kinds of work sources | - |
| `WorkCoordinator` | `work_coordinator/coordinator.rs`, `model.rs` | `WorkSource` |
| `WorkCoordinatorProofs` | theorems about `WorkCoordinator` | `WorkCoordinator`, `TLAPS` |
| `TeamWork` | the coordinator composed with `team_run/manager.rs` | `WorkCoordinator` |
| `TeamWorkProofs` | theorems about `TeamWork` | `TeamWork`, `WorkCoordinatorProofs` |
| `TeamDelivery` | producers, mailbox, event loops and the user, composed with `TeamWork` | `TeamWork` |
| `TeamDeliveryProofs` | theorems about `TeamDelivery` | `TeamDelivery`, `TeamWorkProofs` |
| `TaskManager` | `task_manager.rs`, `runtime_token.rs` | - |
| `TaskManagerProofs` | theorems about `TaskManager` | `TaskManager`, `TLAPS` |
| `Occurrences` | the abstract promise of a scheduled job | - |
| `CronRuns` | `aionui-cron`, `sqlite_cron.rs`; implements `Occurrences` | - |
| `CronRunsProofs` | theorems about `CronRuns`, the refinement among them | `CronRuns`, `TLAPS` |
| `ConversationTurns` | `runtime_state.rs`, `turn_orchestrator.rs`, the turns of `aionui-conversation/src/service.rs` | - |
| `ConversationTurnsProofs` | theorems about `ConversationTurns` | `ConversationTurns`, `TLAPS` |
| `MC*` | instances for TLC | the module they are named after |

A composing module EXTENDS the one below it, adds the state of the new actors,
and uses the lower module's actions inside its own (`Claim` of `TeamWork` is
`ClaimBatch` of `WorkCoordinator` plus the summaries it publishes; `ClaimNext` of
`TeamDelivery` is that plus what the loop remembers). Nothing of a lower action
is dropped on the way. Operators in the text named `Mutant: ...` are broken
variants of the definition that follows them; they are used by no specification
and serve to show that each property fails when the code is wrong.

### 2.1 MemberRuntime

`entries`, `nextOp` and `stopped` are the fields of the registry; `signal[op]` is
the value of the watch channel of operation `op`; `leases` are the leases that
attach and removal tasks hold while they work without the lock. `opAgent` is
history. Every public method is one action, since each is one critical section:
`ReserveAttach`, `ReserveRepair`, `BeginRemove` start an operation
(`StartOperation`) or join the one in flight (`Join`, which only subscribes to
its channel); `CommitReady`, `CommitFailed`, `FinishRemove`,
`RestoreAttachRequired` consume a lease and take effect only if it is current
(`Current` = the entry is still in the state and has the operation id of the
lease); `Stop` drains the map; `DropLease` is a task that ends without a commit.
A commit by a superseded lease is a step that consumes the lease and changes
nothing, as in the code. The session-generation comparison is left out: every
call site commits with a lease on the registry it got it from.

### 2.2 TeamMembership

`row` is a member's place in `teams.agents`, `known` whether the session's
scheduler has it, `loops` and `agent` whether an event loop is registered for it
and the task manager has an agent for its conversation; `guard` is the
membership lock (`add_agent_locks`). `call[c]` is a request and `attach[op]` the
background task of operation `op`, each at the await it has come to. The
registry is used through the actions of `MemberRuntime`, never written directly.

| actions | code |
|---|---|
| `EnsureLoads`, `EnsureStarts`, `EnsureReconciles`, `EnsureEnds` | `ensure_session_inner`, `reserve_member_runtime_reconciliation` |
| `Send`, `SendFinds` | `ensure_member_runtime_lazy` |
| `Retry` | `attach_agent_runtime`, after its ensure |
| `AddMember`, `AddToRow` | `add_agent` |
| `SpawnPersists`, `SpawnReserves`, `SpawnEnters` | `spawn_agent`, which holds the membership lock only while the row is written |
| `AddSpawns`, `AddFails`, `UndoEnds` | the end of both, and their errors |
| `RemoveBegins`, `RemoveKills`, `RemovePersists` (`RemoveRejoins`), `RemovePersistFails`, `RemoveLoadFails`, `RemoveJoins`, `RemoveForgets`, `RemoveDeletes` | `remove_agent` |
| `AttachResets`, `AttachWarms`, `AttachErrs`, `AttachRegisters`, `AttachCommits`, `AttachPublishes`, `AttachCleans`, `AttachFails` | `attach_member_runtime`, `attach_agent_process` |
| `SessionStops` | `stop_session_unchecked` |
| `AgentEnds` | the idle scanner (`idle_scanner.rs`), which kills an agent that is not just being built |

A step goes from one await to the next; only the end of an attach
(`owns_attach`, register, `commit_ready`, publish), which awaits nothing but
which the code guards against being overtaken, is taken apart. `AttachWarms`
assumes (`NoneEnding`) that building an agent process takes longer than that
end, so no attach is overtaken there by a *whole* other one of its slot.

Three history variables watch what sections 4 and 5 say of this component; no
guard reads them. `unleased` marks a member whose removal holds no lease, or that
`spawn_agent` attached after its removal; `late` one that `spawn_agent` made known
to the scheduler after its removal; `abandoned` is the set of operations whose
lease one of three error returns dropped while they were pending (`Abandon`:
`RemoveLoadFails`, `service.rs:828`; `SendFinds`, `session.rs:587`; `AddFails`,
`service.rs:730` and `session.rs:1593-1621`). A lease that goes in any other way
abandons nothing, so an operation left pending by it is a violation.

### 2.3 WorkCoordinator

`intents`, `queued` (the union of the three deques of a slot; an intent's
priority follows from its source and its place from `pos`), `active`, `turn`,
`paused`, `constraint`, `removed` and `leases` are the fields of the
coordinator's state; `batches` remembers every batch claimed, so that any of
them can be started, retried or settled late. One action per method:

| action | method |
|---|---|
| `AcquireEnqueue`, `CommitEnqueue`, `AbortEnqueue` | `acquire_enqueue`, `commit_enqueue`, `abort_enqueue` |
| `ReconcileMailbox` | `reconcile_mailbox` |
| `ClaimBatch`, `SignalsToSettle`, `CompleteSignals` | `next` (claim / settle), `complete_signals` |
| `MarkStarted`, `RetryStart`, `TerminalizeBatch` | `mark_started`, `retry_start`, `complete/fail/cancel_batch` |
| `CancelRun`, `PauseSlot`, `SetConstraint`, `RemoveSlot`, `StopSession` | the methods of these names |

`set_runtime_constraint(Failed)` collects the live intents from a hash map, so
the order in which run-less work returns to the queue is arbitrary: the action
chooses it with `\E`. `ReconcileMailbox` takes any set of unread messages, since it
is given a peek that may be stale. The specification lets every call come at any
time; which calls the session really makes is `TeamDelivery`'s business.

The map of slots is empty at first. Enqueue, reconcile, pause and
`set_runtime_constraint` create the slot they name (`MakeKnown`), with constraint
Starting; `remove_slot` and `stop` act only on the slots that are there.

### 2.4 TeamWork

`run` is the run manager's record. The coordinator computes a
`RunWorkSummary` while it holds its lock, releases it and then calls the
manager's port: `pending[c]` are the port calls that caller `c` still has to
make, and `ApplyWorkSummary`, `AbortBinding`, `FinishCancel` make them. A caller
makes no new call before its pending ones are made. Binding a lease to a run
(`Acquire`) happens under the coordinator's lock and is one action. There may be
any number of callers. A run id stands for a UUID: an id nothing refers to any
more is fresh. Three methods tell the manager nothing: `reconcile_mailbox`
(`ReconcileUntold`), `pause_slot` (`Pause`) and the constraint Ready
(`BecomeReady`).

`lapses` is history: "late" once the manager has acted, for its own run, on a
call that was no longer true of the coordinator (a summary that is not the
current one, `abort_binding` of a run that has work again), and "untold" once
`reconcile_mailbox` has ended the last work of a run. The properties that the
code keeps only as long as this has not happened say so, and findings 1 and 2
are what happens after it has.

Bindings without a run (`CausalBinding::Background`, and `ActiveRunOrBackground`
when no run is active) are not modelled: they "no longer have production callers"
(`work_coordinator/model.rs:86`); every other binding ends in a run.

### 2.5 TeamDelivery

Each task runs from one lock or await to the next as one action.

- A **producer** `p` is one call: `BeginSend` (reads the member's status),
  `PublishConstraint`, `AcquireLease`, `WriteMessage`, `CommitLease`,
  `NotifyLoop`; `FailWrite` and `Compensate` (a run that was lost: the row is
  marked read, or cannot be) are the error paths. A call that returned is
  "done", one that returned an error, and so told no event loop, "failed".
  Recovery messages write their row first (`FindRow` looks it up again).
- The **event loop** of slot `s`: `WakeLoop`, `Prepare`, `PeekUnread`,
  `Reconcile`, `ClaimNext` / `FindSignals`+`HandleSignals` / `WaitAgain`,
  `TurnStarted`, `CancelLateStart`, `TurnEnds`, `SettleBatch`. `PeekFails` is the
  error of the preparation, after which the loop only waits; `SkipBusy` a turn
  that finds its conversation busy; `TurnFailsToStart` one that does not start,
  which is settled like a turn that ended. `loop[s].seen` is what the last peek
  saw: the input of the turn is the batch's rows among those (`Input`). A loop that
  has put its batch back, or has not prepared one, is "deferred" until its next
  notify.
- The **attach**: `AttachReady` registers the loop and commits the member,
  `TellReady` sets the constraint and notifies; `EnsureAgain` is a repeated
  `ensure_session` that finds the member ready and tells the slot once more.
- The **user**: `UserCancelsRun`, `CancelRunWork`, `MarkCancelledRead` are the
  three steps of `cancel_run`, `UserPausesSlot` and `CancelPausedBatch` those of
  a pause.
- `TellManager` makes the pending port calls of any of them.

What goes wrong or comes from outside is an **occasion** (`Happens`): a stop by the
user, a row that cannot be written, rows that cannot be marked read, a batch that
cannot be prepared, a turn that fails to start, a busy conversation, a repeated
ensure. `left` says how many of each are still to come; the theorems hold for
every number, the runs for the `Settings` of the instance.

Rows are marked read in three places, and in each they may stay unread: at the end
of a turn (`event_loop.rs:369-386`) and after a rejected send
(`session.rs:970-983`) the error is only logged, after a cancel
(`session.rs:1123-1128`) it is returned. `MarkFails` models all three.
After a turn the row is unread again for the next peek, and its message is given to
a second turn: `started[m]`, the number of turns since a turn's row could not be
marked, begins at zero again, so that `AtMostOneTurn` speaks of every other way to
be delivered twice. `abandoned` holds the rows of the other two, which wait
for the next notify of their slot.

`permit[s]` is the permit of `tokio::sync::Notify`: at most one, kept until the
loop waits. A message is the number of its mailbox row, so mailbox order is
numeric order.

### 2.6 TaskManager

The manager keeps conversations apart, so the module is about one. `slot` is the
map's entry, `cells` the `Arc<OnceCell>`s ever allocated, with the agent, the
context version it was built for, the token in its environment and the queue of
callers that wait for the `OnceCell`'s initialisation permit (a fair semaphore).
`call[c]` is a caller's place between two awaits.

`Request`, `Look`, `Rebuild`, `RefreshToken`, `Enter`, `Initialise`, `Built`,
`BuildFails`, `GetTask` are `get_or_build_task`; `Kill` is `kill` and, for one
conversation, also `clear` and `on_conversation_deleted`; `KillAndWait`,
`AwaitBuild`, `KillBuilt`, `NothingBuilt` are `kill_and_wait`, which initialises
the removed cell with an error if nobody else has built an agent in it. All of
them remove the entry (`Remove`) and then, in a step of its own, invalidate the
tokens and look into the cell (`Revoke`). `RuntimeTokenService::issue` is three
steps, since its map is sharded and not locked as a whole: hand out a token that
validates or generate one (`Issue`), drop the others of the conversation
(`ClearTokens`), insert the new one (`InsertToken`).

Simplifications: killing an agent succeeds; an agent nobody kills counts as
alive although its process goes when its last holder drops it (`kill_on_drop`);
version 0 stands for a request without a runtime context (tests make them,
today's callers always ask for version 2). The invalidation of the tokens and
the look into the cell are one action: a build that ends between them is the
same as one that ended before the invalidation.

### 2.7 CronRuns and Occurrences

The module follows one job in several processes on one database. `job` is its
row, `runs[o]` the row of occurrence `o` (status, owner, lease), `timer[p]` the
timer of process `p`, and `task[t]` a call of the service in some process at the
await it has come to, with the snapshot of the job it has loaded. A tick is
`Fire`, `Load`, `Claim`, `Prepare`, `StartTurn`, `EndTurn`, `Finish`, `Record`,
`Look`, `Rearm`, `Advance`, `Arm`; `Resume` / `RecordMissed`, `BeginUpdate` /
`WriteUpdate`, `BeginRemove` / `Delete` and `RunNow` are the other calls; `Start`
and `Crash` those of a process; `RenewLease`, `ExpireLease`, `LoseLease` what
happens to leases. `FailTick` is a tick that returns an error: the job cannot be
loaded, its row not parsed or its agent type not resolved (`service.rs:626-645`),
or `claim_run` fails (`service.rs:688-691`). None of these sets the timer the firing
has consumed; the model keeps that in the timer (`lost`). An update
writes any of the fields a user can edit: enabled, schedule, `max_retries`,
`queue_enabled`, `execution_mode`, others. A database statement is one step. Time is abstract: an
occurrence is an identity, a lease is valid or expired, a timer may fire at any
time, and `Forget` lets the identity of a past time stamp nothing refers to any
more stand for a later one, so that behaviours do not end. All recurring
schedules are one ("every"), so a rearm from a snapshot with an older recurring
schedule is not told from one with the current schedule.

`Occurrences` is what all that promises: an execution of an occurrence begins
only if nobody executes it and it is not over, and the occurrence is over when
the execution ends and open again when it is given up. `CronRuns` implements it
(`KeepsItsPromise`), with the ticks between claim and outcome as executions,
until a lease has run out under its holder (`late`).

### 2.8 ConversationTurns

One conversation: the runtime state (`active`, `deleting`, `cancelling`,
`deferred`, `shuttingDown`), its row, whether the task manager has an agent
(`ready`), `turn[t]`: where a turn is, what became of its agent and what it keeps
between awaits, and `call[c]`: a cancel, deletion, revocation, shutdown or kill
between two of its steps. A turn is `Arrive`, `Load`, `Claim` (or, for a team's
turn, `WaitUntilUnclaimed`), `Persist`, `Enter`, `Build`, `TakeDeferredCancel`,
`Prompt`, `AgentAnswers` / `StreamBreaks`, `Judge` (continue, replay or end),
`Evict`, `Release`, `NotifyReleased`. `CancelStep` contains the cancel's look at
the claim, its search for an agent, deferral, marking, hand-over and watchdog;
`DeleteStep`, `TerminateStep`, `ShutdownStep`, `KillStep` the others. Of the
agent only what differs between the four kinds is kept: a killed ACP or Aion
process ends its stream, that of a session or of Antigravity dies with its last
reference; an Aion agent has no watchdog, and neither it nor Antigravity is
recovered (`service.rs:3663`, `turn_recovery_policy.rs:40`). `revoked` and `asked`
are history.

## 3. The runs

State counts are of the whole run; the violation runs stop at the first
counterexample.

| run | instance | states | shows |
|---|---|---|---|
| `membership` | a member, two callers, 3 operations; failing attaches and database calls, members that are not found; fair | 236 k | `RemovedIsUnknown`, `RemovedIsGone`, `ReadyHasLoop`; of the registry `EntryReflectsLatest`, `OutcomeIsFinal`, `RemovalIsExclusive`, `SupersededLeaseIsInert`; `OperationsEnd` |
| `work_coordinator` | 1 slot; messages, commands, signals; 2 batches, 2 intents and a third while the slot is undisturbed; all constraints, removal and stop | WCSTATES | `EveryIntentHasOnePlace`, `TerminalIsFinal`, `CancelRunIsExact`, `CommandsTravelAlone`, `NoOvertaking` whatever order the methods are called in |
| `delivery` | 4 settings: two messages while the member is attached, one of which may not be written; a message with a stop, rows not marked, a turn that fails, a busy conversation; an interruption with a stop, rows not marked, a repeated ensure; a signal and a message with a batch that is not prepared; fair | 995 k | `AtMostOneTurn`, `NoMessageStranded`, `EveryMessageIsSettled`; of the run `RunEndsWithItsWork`, `WorkKeepsItsRunUnlessLate`, `FinishedStaysUnlessLate` |
| `task_manager` | 3 callers, versions {0, 2}, 2 cells, 3 tokens | 4.1 M | `NoAgentEscapesByBuilding`, `RemovedAgentsHaveNoToken`, `KillWaitsForBuilds` |
| `cron` | 5 settings: recurring, queueing and single jobs, 1 or 2 processes, 1 or 2 disturbances, ticks that fail; fair | 619 k | `OccurrenceRunsAlone`, `KeepsItsPromise` (refinement), `OwnersEndTheirRuns`, `EnabledJobWakes`, `OccurrencesEnd` |
| `conversation_turns` | 2 turns (one a team's), 2 callers, 7 settings of agent kind and operations; fair | 735 k | `WorkingTurnHoldsClaim`, `DeletingIsCleared`, `WithdrawnWasAsked`, `SleeperIsNotForgotten`, `CancelEndsTurn` |
| `team_run_revived` | two callers | violation | finding 1 |
| `bound_work_loses_run` | two callers | violation | finding 2 |
| `message_lost` | two messages | violation | finding 3 |
| `cancelled_delivered` | a user message and a cancel | violation | finding 4 |
| `unmanaged_agent` | two callers | violation | finding 5 |
| `cancel_lost` | a turn and a cancel | violation | finding 6 |

## 4. Bounds and fairness

**Bounds.** All bounds are constants that occur in guards: `MaxOps` (operations
of the registry; batches of the coordinator), `MaxIntents`, `MaxCells`,
`MaxTokens`, `Tasks`, `MaxRetries`, `MaxContinuations`, the counters `left` of
a delivery setting, and the `bound` on disturbances or operations in a setting.

- Membership: three operations are an attach, a removal that fails or is
  overtaken, and the retry that overtakes its late steps; two callers are two
  requests in flight, beside the attach tasks and directed retries, which need no
  caller. One member: members share only the membership lock and an ensure's roster.
- Coordinator: a batch that comes back and is claimed again needs two batches; an
  intent of the run and one beside it in the same batch need two intents;
  overtaking needs a third. `CONSTRAINT TwoUnlessUndisturbed` explores a third
  only while no slot is paused, removed or stopped, none was ended but by a
  cancel, and no signals are there.
- Delivery: one row per producer. The batches and intents are as many as the
  setting with the most occasions can need (each lets a message be claimed once
  more), so the bound never stops the loop and is not mistaken for an unfulfilled
  promise. Every occasion happens at most once: the properties relate one message
  to one failure or stop, at any point of its way, and the theorems cover any
  number. `ACTION_CONSTRAINT FirstRunFirst` gives a new run the first of the ids that
  are fresh; which one it gets makes no difference.
- Task manager: a cell that is removed during its build and its successor;
  three tokens are one shared by two requests and one for each of two
  requests that find none; three callers are one who builds, one who is queued behind and one who
  kills.
- Cron: two time stamps, reused as they are forgotten, are the occurrence at work
  and the next; two calls in progress are a tick and whatever comes between its
  steps; a second disturbance is tried without requests (a crash during a takeover),
  with requests that enable and disable the job, and with a removal in two
  processes; ticks fail (`fails`) where a retry is at stake. `MaxRetries`, the most
  retries a job is given, is one: it tells the first from the last, and an update may
  lower it to none while a retry waits.
- Turns: two turns are one that ends late and its successor; two operations at a
  time; seven settings pair the operations that meet in the code and the four kinds of agent.

Symmetry: run ids in the two violation runs of `TeamWork`, callers in
`task_manager`; no run with a liveness property uses it. `CHECK_DEADLOCK FALSE` everywhere: a system
with no calls to make is at rest, and the bounds end every behaviour.

**Fairness.** A Tokio task that can run is polled, so the steps of calls that
have begun and of background tasks are weakly fair; nothing is assumed about
calls that begin, cancels, crashes, updates or errors, which come at will or
never. Beyond that:

- `TeamMembership`: the steps that take the membership lock are strongly fair:
  Tokio's mutex is a fair queue. `OperationsEnd` excepts the operations in
  `abandoned`, which three named error returns leave pending (section 5), and
  only those: an operation that loses its lease in any other way must end.
- `TeamDelivery`: while some task of the runtime can go on, some task does
  (`WF(GoesOn)`); a turn that has started ends. This is less than fairness to
  each task and enough, because every behaviour of the tasks alone ends.
  `EveryMessageIsSettled` excepts what waits for the next notify of its slot,
  whenever that comes: the messages of a paused slot; what is behind a batch that
  was put back by a busy conversation (`event_loop.rs:295`) or not prepared
  (`event_loop.rs:173-181`), while the loop is "deferred"; a slot whose constraint
  was set back by a sender that told nobody (`SetBack`, section 5); and rows that a
  rejected send or a cancel could not mark read (`abandoned`).
- `CronRuns`: a process that is down is started, a timer fires, leases nobody
  renews expire, and a turn ends (the executor has a timeout). New time
  stamps come (`Forget`). Ticks may fail, and nothing says they will not; database
  errors of `finish_run`, `defer_run` and of the other calls are not modelled.
  `OccurrencesEnd` and `EnabledJobWakes` except a timer that a failed tick has lost,
  and speak of one process: with several, a request arms the timer of the process it
  came to only.
- `ConversationTurns`: an agent need not ever answer; that a cancelled turn
  ends rests on the watchdog alone. A claim with nothing to build is assumed to
  come to its build, and an eviction to its rebuild, within the watchdog's 15
  seconds (`Timely`).

## 5. Findings

1. **A finished run becomes active again** (`team_run/manager.rs:177`).
   Summaries are applied after the coordinator's lock is released and set
   Running from any status. In the run's counterexample one caller computes the
   summary of a started batch, a second ends the batch and applies its summary
   (the run is Completed), then the first applies the old one. A test of the
   repository says late starts do not revive a run (`tests/e2e_team_flow.rs:1786`).
2. **Work loses the run it was bound to** (`work_coordinator/coordinator.rs:291`).
   `abort_enqueue` finds the run empty under the coordinator's lock and tells the
   manager after it has released it; `abort_binding` removes the record by its
   id alone. A lease that is acquired in between joins the run that is then
   removed, and its sender gets an error although its message is stored and queued
   (`session.rs:745`). A test says "the concurrent enqueue must retain its run"
   (`team_run/tests.rs:127`). That only such late calls take a run from its work is
   `WorkKeepsItsRunUnlessLate`.
3. **A message is marked read without having been in a prompt**
   (`session.rs:363`). The rows are peeked before `reconcile_mailbox` and `next`;
   a message committed in between joins the batch but not the turn's input, and
   the end of the turn marks it read (`event_loop.rs:315`).
4. **A cancelled message is delivered** (`session.rs:1124`). `cancel_run` marks
   the messages read after the coordinator has let go of their intents; the loop
   may peek in between, recover and deliver them.
5. **An agent outside the map** (`task_manager.rs:227`). A kill during a build
   removes the cell but cannot stop the build; its caller gets an agent the
   manager no longer knows, and the next request builds a second one. The proved
   theorem `BuildsAreManaged` says that requests alone never do this: it takes a
   kill, or a `kill_and_wait` that found nothing built.
6. **An acknowledged cancel is lost** (`aionui-conversation/src/service.rs:3642`).
   `cancel` looks for the agent and, when there is none yet, records the intent, in
   two steps; the turn looks for a recorded intent once, after the build. When
   the agent registers and the turn passes that point in between, the cancel
   returns Ok and the turn runs on. The comment at `service.rs:3632-3641` says "The
   orchestrator applies it as soon as the task appears". `CancelEndsTurn` is about the
   cancels that were recorded in time or have a watchdog.

Other behaviour TLC showed while the models were written, which is no run of its
own: it is excepted in a property at the place where the property says so.

*Work and delivery*

- with two callers a summary between the halves of `cancel_run` turns Cancelling
  into Running, and the cancelled run ends Completed (`manager.rs:178`);
- `reconcile_mailbox` publishes no summary (`coordinator.rs:336`): a run whose
  last intent it clears stays active ("untold" in `lapses`);
- rows that cannot be marked read at the end of their turn are delivered again:
  the error is logged (`event_loop.rs:369-386`), the batch is completed, and the next
  peek recovers them. Rows that a rejected send or a cancel could not mark read
  are delivered by the next turn of their slot;
- a batch that cannot be prepared (`event_loop.rs:173-181`) is not tried again before
  the next notify, which need not come;
- a late start is cancelled only if all of its batch was cancelled
  (`coordinator.rs:536`): with recovered work in the batch the turn runs;
- a recovered message has no run (`coordinator.rs:367`), so its turn is not
  run-scoped, although `session.rs:939-941` relies on that;
- a sender publishes a stale Starting, then its lease is taken by a cancel or its
  write fails, and it sends no notify: the message of another sender waits
  (`session.rs:757`). A third sender can then set the slot Ready again, fail as
  well, and leave it Ready with its loop asleep. `NoMessageStranded` excepts
  exactly this (`SetBack`): a sender that has not told the loop set the slot back
  to Starting, and the constraint the slot has now is that of such a sender;
- a request may put a token into its build options that a kill invalidates before
  the build (`task_manager.rs:215`), and a caller that waited for somebody
  else's build may get an agent of an older context version than it asked for.

*Membership*

- the removal of a dormant member takes no lease (`service.rs:811`), so a lazy
  wakeup or a retry in the middle of it attaches a runtime, and the removed member
  ends with a ready entry, a loop and an agent; the comment at
  `service.rs:816-818` has only removals with a lease in mind. The same holds for a
  removal that joined one whose update of the row then failed;
- three error returns drop the lease and leave the slot Attaching or Removing
  until the session stops (`abandoned`): `load_owned_team` in a removal
  (`service.rs:828`), `get_agent` in a lazy wakeup (`session.rs:587`, although the
  comment at `session.rs:576-579` wants to "never leave a dangling `Attaching`
  lease"), an addition that fails after it has reserved (`service.rs:730`, the
  welcome message of `spawn_agent` at `session.rs:1593-1621`). The run shows that
  nothing else does;
- `spawn_agent` releases the membership lock after it has written the row, and
  then reserves the attach and makes the member known without looking at the row again
  (`session.rs:1555-1575`): a removal in between is undone in memory, and the removed
  member ends known to the scheduler, with an agent and a loop (`late`, `unleased`);
- the cleanup of an attach that was overtaken (`session.rs:1857`) may kill the
  agent of the attach that overtook it, after a removal whose update failed and a
  retry. The member stays ready without an agent until the next ensure;
- `remove_agent` of the service aborts the member's event loop but never tells the
  coordinator: work that was queued or active for the slot is not ended, and its
  run stays active. Only the `remove_agent` of `TeamSession` calls
  `remove_slot`.

*Cron*

- a tick that returns an error leaves without setting the timer its firing has
  consumed (`service.rs:626-645`, `688-691`), so an enabled job sleeps until the next
  update, resume or restart, and a run that waits for its retry waits with it;
- a tick in flight when an update lowers `max_retries` (`service.rs:404-406`)
  records a retry count above the new maximum; the next busy conversation then
  skips the occurrence (`executor.rs:508`);
- two updates at the same time may write and arm in different orders;
- the tick of an at-job disables the job and cancels its timer even if an
  update has given it a new time meanwhile (`service.rs:1370`). It writes
  the row and cancels the timer in two steps: if users have made the job recurring
  before the first and enable it again before the second, it stays enabled without a
  timer until the next resume, update or restart. `EnabledJobWakes` is therefore
  about jobs that nobody edits into at-jobs;
- an occurrence that was reported as missed may still be executed by a tick in
  flight; a machine that sleeps past its lease executes an occurrence twice.

*Turns*

- a cancelled turn may go on with a continuation, which is decided on a lifecycle
  read before the stream ended (`turn_orchestrator.rs:244`, `:393`);
- a cancel that marks the conversation after its turn was released leaves the
  mark, and the next message is refused although it was acknowledged
  (`service.rs:3307-3316`); a second cancel that fails takes the mark of the
  first, whose watchdog then does nothing;
- the release of the active turn during a deletion clears the deleting mark, so a
  new turn may claim the conversation that is about to be deleted;
- a revoked session frees the claim while the turn still runs: two turns may run
  at once, and a turn's completion may be published after the next has claimed.

## 6. Proofs

The proof modules are checked by tlapm to the last leaf; the theorems are listed
in `PROJECT.json`.

**MemberRuntimeProofs** (430 obligations). `IInv` is `TypeOK`, `Bookkeeping`,
`EntryReflectsLatest` and `NoOrphanWaiter`. `EntryReflectsLatest` speaks of the
last operation of a slot, so it is preserved only if operation ids are fresh when
they are handed out and an entry holds its slot's last operation: that is
`Bookkeeping`. One lemma per way of changing the registry
(`StartOperationIInv`, `CommitIInv`, `StopIInv`) gives `NextIInv`; the theorems
are

- `TypeCorrect`, `SnapshotAgreesWithWaiters`, `WaitersHaveSender`: the parts of
  `IInv` in every reachable state. The last says that a pending channel has an
  entry that holds its sender: `AttachWaiter::wait` never finds it dropped;
- `OutcomesAreFinal`: a channel in use by an entry in flight is pending, and only
  those are sent on;
- `RemovalsAreExclusive`, `SupersededLeasesAreInert`: from `CommitFacts`, which
  says that a commit consumes its lease and touches only its slot, and only as
  the last operation of it.

Assumptions: `NoAgentAssumption` (the null value is no slot), `MaxOpsAssumption`
(a natural number of operations, so the theorems hold for every number of them).

**WorkCoordinatorProofs** (1873 obligations). `IInv` is `TypeOK`,
`EveryIntentHasOnePlace` and `Ordered`. `NoOvertaking` compares a claimed intent
with one still in the queue by their places, so `Ordered` describes the places:
live intents of a slot have different ones (`PositionsDiffer`), none is behind the
next to come (`PositionsBounded`), and they follow the order of arrival unless
both intents are without a run (`PositionsFollowArrival`): those are what
`set_runtime_constraint(Failed)` puts back in any order. One lemma per method
shows `Good`: the invariant again, `Keeps` (the slot, source, message and run of
an intent never change) and `EndedStays`; `StepGood` puts them together. Theorems:
`CoordinatorInvariant`, `CoordinatorTypeCorrect`, `WorkHasOnePlace`,
`CommandsAreAlone`, `ArrivalOrderHolds`, `OutcomesAreFinal`,
`CancellationIsExact`. Assumptions: the constants are what their names say, and
the messages are finitely many numbers (a batch's message ids are sorted).

**TeamWorkProofs** (1469 obligations). For any number of callers.

- `WorkStepMaps`: every step of the composition is a step of the coordinator or
  leaves it alone. Hence `WorkInvariant`, `WorkTypeCorrect` and
  `ImplementsCoordinator` (`WorkSpec => Spec`), by which the seven theorems above
  hold of the coordinator with the manager attached.
- The manager's record lags behind the coordinator by the calls in `pending`.
  `ManagerKnows` says by how much, whatever the callers do: a cancellation is all its
  caller has to make (`CancelsAlone`); an active run without work has its end on
  the way, until a call came late or a reconcile told nothing (`EndIsOnItsWay`);
  and until a call came late, bound work has its run, a finished run has no
  work unless it failed, and one that failed has a failed intent (`RunIsRight`). The
  argument is about `ApplyWorkSummary` and `AbortBinding`: a call that is not
  late says what the coordinator says now, and a call that the manager ignores
  is of another run. It gives `RunsEndWithTheirWork`, `WorkKeepsItsRun` and
  `FinishedRunsStay`. The condition on `lapses` cannot be dropped: without it the
  statements are refuted by the runs `team_run_revived` and `bound_work_loses_run`.
- Assumptions: `NoRecordAssumption`, `NoSlotAssumption` (the null values are not
  values), `ReadyAssumption` (Ready is a constraint).

**TeamDeliveryProofs** (2349 obligations). For any number of senders, slots,
messages, failures and cancels, in three parts.

`ImplementsWork` (`DeliverySpec => WorkSpec`): every step of a sender, a loop, the
attach or the user is one of `TeamWork` or leaves it alone. So its theorems hold
for the calls the session really makes, `DeliveryKeepsRuns` among them.

`DeliveryIInv` adds to `WorkIInv` the types, what an event
loop remembers of its batch and its peek (`Holds`), and `HandedOnce`: a message
that a turn started with has been read and is in no peek that will still be used,
or the loop is in the very turn that will mark it read. `AtMostOneTurn` is
part of it: it does not depend on the enqueues, since a message may get a second
intent by recovery, but on the peek, the start and the marking being steps of one
loop per slot. When the marking fails the count begins again, in the step that
fails and only for the rows of that batch: the theorem therefore says that a
failed marking is the only way a message gets to a second turn. Theorems: `DeliveryTypeCorrect`, `MessagesAreHandedOnce`.

`ToldIInv` adds what keeps a message from being stranded, and follows the event
loop from its wakeup to its sleep (`SlotTold`, `RowTold`):

- until the loop sleeps, a row its last peek did not see still has its sender or a
  permit; one it saw has, once the loop has reconciled, an intent in the queue or
  a cancellation that will mark it read. The latter (`SeenIsQueued`) needs that reconcile gives
  *every* unowned row of the peek its intent, so the bijection between those
  rows and the new intents is part of the argument;
- a loop that finds its slot not Ready goes to sleep over a full queue, so a
  constraint that is not Ready must have a wakeup behind it, or be `SetBack`
  (`Told`);
- the active batch of a slot is the one its loop has in hand, so a loop that
  sleeps with nothing in hand does not leave rows in a batch;
- a sender's row is addressed to its target, and so is its lease (`SendersHold`),
  so the notify it still owes reaches the loop that must look.

Every step of a sender, the attach or the user leaves that alone or sets a permit
(`Undisturbed`); the steps of the loop are taken one by one; a row in
`abandoned` is excepted from the step on that could not mark it. Theorem:
`MessagesAreNotStranded`. A failed call is remembered in the model ("failed") for
the sake of `SetBack`, which is part of the statement: without it the property is
false, with two senders already.

Assumptions: `CallersAssumption`, `ProducersAssumption`, `MessagesAssumption`,
`StatusAssumption`, `SettingsAssumption`, those of `TeamWork` and the bounds.

**TeamMembershipProofs** (3441 obligations), in three parts.

- `RegistryStep`: every step of a membership task is a step of the registry or
  leaves it alone, so that `ImplementsRegistry` (`MembershipSpec => Spec`) carries
  the theorems above over to the composed system.
- `RemovedIsForgotten` needs an invariant of its own, `ForgottenIInv`: an ensure in
  progress holds the membership lock and its roster is part of the row, hence no
  removal writes the row in between; and a known member that was taken out has a
  removal that is about to forget it, or was made known late by a `spawn_agent`
  (`late`). It is proved together with the types (`MembershipTypeOK`).
- `ReadyMembersHaveLoop` and `RemovedMembersAreGone` need the place of every task
  relative to the removals, `MembersIInv`. A lease belongs to one task, and that of
  a removal is current until the session stops (`LeasesAreHeld`); nothing runs
  before the session does (`SessionIsAhead`); one attach of a slot ends at a time
  and keeps its loop (`EndingIsAlone`), from which `ReadyHasLoop` follows; a
  member that was taken out is dismissed, or a removal that holds the lease, or
  waits for the one that does, will see to it (`RemovalsGoOn`); and what it
  still has (an agent, a loop) somebody is about to take away
  (`LeftoversAreTaken`): the kill at the end of an overtaken attach, the join, or the
  removal that forgets it. `RemovedIsGone` is what is left when all of those are
  over. One lemma per action and part.

Assumptions: `CallersAssumption` (nobody is no caller), and in the action
`AttachWarms` the assumption `NoneEnding` (section 2.2), without which two attaches
of a slot could end at the same time.

**CronRunsProofs** (2316 obligations). `Alone` is the inductive part of
`OccurrenceRunsAlone`: while no lease has run out under a living owner
(`~late`), an execution owns its run row or its job was removed (`RowsHeld`), no
two executions are of one occurrence (`Apart`), and a lease that has run out has
no holder left (`LeasesHeld`), which is what a takeover relies on. With the types
it gives `RunsAlone`, and that every step maps to a step of `Occurrences` or to a
stutter (`Implements`): a claim to `Begin`, the outcome to `End`, `Skip` or
`GiveUp`, a crash to `GiveUp`. `TypeCorrect` contains that a retry count, written
from a snapshot, never exceeds the most retries a job was ever given
(`MaxRetries`), also when `max_retries` is edited meanwhile.

`OwnersEndRuns` needs the types only: whatever leases have run out and whoever has
taken a run over, a run is finished or deferred in a step of an execution whose
process owns the row at that moment.

`EnabledJobsWake` says that the timer of a job that recurs is lost only in a tick
that fails, and from there until something sets it again. A timer is set from
what a call has loaded or computed, so `Wakes` says what that is (`Fits`): a job
that is enabled and has a next time at the stage where the timer is set; for an
update, the `enabled` of the row unless it is about to write it (`UpToDate`), which
holds because requests come one at a time (`OneAsks`). `InUse` keeps calls and timers
to the processes of the setting. A tick that does not own its run any more returns
without setting a timer; that it always owns it is `Alone`.

**ConversationTurnsProofs** (859 obligations). `IInv` adds to the safety
properties of the run `RevokedTurnsWork` (only working turns are revoked) and
`CancelsAreAsked` (a cancel in progress names a turn that somebody asked to
cancel). One lemma per step of a turn or a call. Theorems: `TypeCorrect`,
`ClaimsAreExclusive`, `DeletionsAreCleared`, `WithdrawalsWereAsked`,
`SleepersAreWoken`.

**TaskManagerProofs** (1471 obligations). `IInv` adds to `TypeOK` and
`RemovedAgentsHaveNoToken`:

- `InitialisedIsFinal`: an initialised cell has no queue and an issued token;
- `BuildersHaveToken`: a caller holds an issued token, and one whose cell was
  removed holds a token that no longer validates once the removal has revoked. This
  is what makes an agent that is built *after* the removal harmless for
  `RemovedAgentsHaveNoToken`;
- `FreshTokensAreOwn`: a token that its caller is about to insert is nobody
  else's, so that no insertion revives a token that was revoked;
- `RemovedIsAwaited`: a removed cell is missed by a `kill`, awaited by a
  `kill_and_wait`, or its agent is dead. `NoAgentEscapesByBuilding` follows;
- `QueueHoldsQueued`, `MetAreAhead`: the queue of an empty cell holds exactly
  once whoever is queued there, and a `kill_and_wait` stands behind the builders it
  met. When it comes to the head of the queue they have therefore all left, which is
  `KillWaitsForBuilds`. The order of the queue (Tokio's semaphore is fair) is
  what the theorem rests on.

Assumptions: `VersionsAssumption` (versions are numbers), `BoundsAssumption`
(the bounds are numbers). Theorems: `TypeCorrect`, `BuildsAreManaged`,
`TokensAreRevoked`, `KillOutlastsBuilds`.

**Only model-checked.** Liveness (`OperationsEnd`, `EveryMessageIsSettled`,
`OccurrencesEnd`, `CancelEndsTurn`), which is out of the prover's reach. Every
other property of the passing runs is a theorem.

## 7. What is not modelled

In the modelled parts: payloads of events and prompts, logging, projections of
work into the UI, `has_user_intervention`; task-list failures while a batch is
prepared (which return it), an error of the transport to a tool
(`session.rs:406`), leader settle signals and the shutdown of the event
loop; several loops for one slot. Of membership: the lead, which is attached when
the session starts and never removed, the session that may replace a
stopped one, renames, and the calls by which attaches set the coordinator's
constraint (`TeamDelivery` has those of an attach that succeeds). Of cron: the
creation of jobs, skill files, bindings of conversations, database errors outside
a tick's beginning. Of
conversations: the publication of completions, the CRUD of conversations,
session anchors.

Not modelled: the team scheduler, task board and MCP tools; streaming and startup
recovery of conversations; what the idle scanner and the active leases decide by
(`AgentEnds` of `TeamMembership` and `KillAndWait` of `TaskManager` may come at any
time, so the scanner adds only the question whether it picks the right agent);
protocols and backends of agents,
processes and the managed runtimes (I/O and operating system behaviour, more
than half of the code); realtime, authentication, channels, projects,
office, file and shell services, MCP configuration, extensions, assistants,
system settings (I/O, storage, or small state machines well within reach of
unit tests); the SQL repositories (seen through what their callers rely on);
shared types and the application crate (data and wiring); team prompts (text).

## 8. The plan

Done, in this order: `MemberRuntime` and its proofs; `WorkCoordinator`;
`TeamWork`; `TeamDelivery`; `TaskManager` and its proofs; `CronRuns` with
`Occurrences` and the refinement proof; `ConversationTurns` and its proofs;
`TeamMembership` and its proofs; the proofs of `WorkCoordinator`, `TeamWork` and
`TeamDelivery`; the proofs of `RemovedIsGone`, `ReadyHasLoop`,
`EnabledJobWakes` and `NoMessageStranded`; the error paths of rows that are not
marked read, of ticks and of batches that are not prepared, and the proofs about the
manager's record for any number of callers.

What could come next:

1. The team scheduler: statuses, the wake lock, crash recovery messages and
   `maybe_wake_leader_when_all_idle`, beside `TeamDelivery`.
2. The lead and the replacement of a session in `TeamMembership`, with the
   coordinator's constraint calls; `remove_slot` for the slot of a removed member.
3. Startup recovery of interrupted turns, on top of `ConversationTurns`.
4. An abstract `MailboxDelivery` (a message is unread, given to a turn, settled)
   that `TeamDelivery` implements under a refinement mapping.
5. The session reducer of `aionui-session` (suspension, resumption, approval
   requests).
