------------------------- MODULE ConversationTurns -------------------------
(***************************************************************************)
(* The turns of one conversation (crates/aionui-conversation/src).  A turn  *)
(* claims the conversation in the runtime state (runtime_state.rs), builds  *)
(* or finds the agent, prompts it and follows its stream, perhaps goes on   *)
(* with the system's responses or replays itself with a new agent, and      *)
(* releases its claim (service.rs, turn_orchestrator.rs).  Meanwhile the    *)
(* turn is cancelled, the conversation is deleted, its user's session is    *)
(* revoked, its agent is killed or the server shuts down.  Every lock of    *)
(* the runtime state is one step.                                           *)
(*                                                                         *)
(* Of the task manager (TaskManager.tla) only this is left: whether the map *)
(* has an agent, and what has become of the agent each turn works with.     *)
(***************************************************************************)
EXTENDS Naturals, FiniteSets

CONSTANTS
    Turns,            \* turn ids
    TeamTurns,        \* those of a team, which wait for a busy conversation
    Callers,          \* callers of the other operations
    NoTurn,
    MaxContinuations, \* MAX_SYSTEM_RESPONSE_CONTINUATIONS_PER_TURN
    Settings          \* what differs between the systems considered

Operations == {"cancel", "delete", "terminate", "shutdown", "kill", "warmup"}

\* The agent: its process ends with a kill (acp, aionrs) or with its last reference
\* (session, antigravity); antigravity has no recovery, aionrs neither that nor a
\* watchdog.  The operations that come, and a bound on their number.
ASSUME SettingsAssumption ==
    Settings \subseteq
        [agent : {"acp", "session", "antigravity", "aionrs"}, operations : SUBSET Operations,
         bound : Nat]
ASSUME TurnsAssumption == TeamTurns \subseteq Turns /\ NoTurn \notin Turns
ASSUME ContinuationsAssumption == MaxContinuations \in Nat

VARIABLES
    setting,      \* one of Settings
    active,       \* the turn that holds the claim (active_turns)
    deleting,     \* deleting_conversations
    cancelling,   \* cancelling_conversations
    deferred,     \* the turn whose cancel waits for its agent (deferred_cancels)
    shuttingDown,
    row,          \* the conversation is in the database
    ready,        \* the task manager's map has an agent
    turn,         \* turn -> where it is
    call,         \* caller -> the operation it executes
    revoked,      \* history: working turns whose claim was cleared
    asked,        \* history: turns some cancel named
    spent         \* operations so far

runtimeVars == <<active, deleting, cancelling, deferred, shuttingDown>>
history == <<setting, revoked, asked, spent>>
vars == <<setting, active, deleting, cancelling, deferred, shuttingDown, row, ready, turn, call,
          revoked, asked, spent>>

Lifecycles == {"Active", "Deleting", "Cancelling", "ShuttingDown"}

Before == {"idle", "load", "claim", "register", "check", "sleep"}
Working == {"persist", "enter", "build", "ready", "prompt", "stream", "judge", "evict", "release"}

\* The agent a turn works with is the map's, was let go and lives on, or is dead.
\* The rest is what the turn keeps between its steps: the lifecycle it has read, its
\* continuations, whether it was replayed, how its stream ended, whether a
\* release has woken it.
Turn ==
    [stage : Before \cup Working \cup {"notify", "done"},
     agent : {"none", "mapped", "orphan", "dead"}, seen : Lifecycles,
     count : 0..MaxContinuations, replayed : BOOLEAN,
     end : {"none", "error", "retry", "withdrawn"}, woken : BOOLEAN]
NewTurn ==
    [stage |-> "idle", agent |-> "none", seen |-> "Active", count |-> 0, replayed |-> FALSE,
     end |-> "none", woken |-> FALSE]

Call ==
    [op : Operations \cup {"none"},
     stage : {"none", "look", "find", "defer", "mark", "hand", "unmark", "watch", "confirm",
              "hook", "row", "clear", "kill", "notify"},
     turn : Turns \cup {NoTurn}, had : BOOLEAN]
NoCall == [op |-> "none", stage |-> "none", turn |-> NoTurn, had |-> FALSE]

Init ==
    /\ setting \in Settings
    /\ active = NoTurn
    /\ deleting = FALSE
    /\ cancelling = FALSE
    /\ deferred = NoTurn
    /\ shuttingDown = FALSE
    /\ row = TRUE
    /\ ready = FALSE
    /\ turn = [t \in Turns |-> NewTurn]
    /\ call = [c \in Callers |-> NoCall]
    /\ revoked = {}
    /\ asked = {}
    /\ spent = 0

At(t, stage) == turn[t].stage = stage
Goto(t, stage) == turn' = [turn EXCEPT ![t].stage = stage]

\* The turn lets go of its agent, and only its claim is left.
Over(end) == [NewTurn EXCEPT !.stage = "release", !.end = end]
Finish(t, end) == turn' = [turn EXCEPT ![t] = Over(end)]

InSession == setting.agent \in {"session", "antigravity"}
Recovers == setting.agent \in {"acp", "session"}
Watched == setting.agent \in {"acp", "session", "antigravity"}

\* lifecycle_for
Lifecycle ==
    IF shuttingDown THEN "ShuttingDown"
    ELSE IF deleting THEN "Deleting"
    ELSE IF cancelling THEN "Cancelling" ELSE "Active"

----------------------------------------------------------------------------
(* A turn, from the request to its claim. *)

\* send_message and run_agent_turn load the conversation.
LoadFrom(t, stage) ==
    /\ At(t, stage)
    /\ Goto(t, IF row THEN "claim" ELSE "done")
    /\ UNCHANGED <<runtimeVars, row, ready, call, history>>

Arrive(t) == LoadFrom(t, "idle")
Load(t) == LoadFrom(t, "load")

\* try_claim_turn.  A team's turn waits only if the conversation is running.
Claim(t) ==
    /\ At(t, "claim")
    /\ \/ /\ ~shuttingDown /\ ~deleting /\ active = NoTurn
          /\ active' = t
          /\ Goto(t, "persist")
       \/ /\ ~shuttingDown /\ ~deleting /\ active # NoTurn
          /\ Goto(t, IF t \in TeamTurns THEN "register" ELSE "done")
          /\ UNCHANGED active
       \/ /\ shuttingDown \/ deleting
          /\ Goto(t, "done")
          /\ UNCHANGED active
    /\ UNCHANGED <<deleting, cancelling, deferred, shuttingDown, row, ready, call, history>>

\* Mutant: the claim is looked at before the waiter is registered.
CheckThenRegister(t) ==
    /\ \/ /\ At(t, "register")
          /\ Goto(t, IF active = NoTurn THEN "load" ELSE "check")
       \/ /\ At(t, "check")
          /\ turn' = [turn EXCEPT ![t].stage = "sleep", ![t].woken = FALSE]
       \/ /\ At(t, "sleep") /\ turn[t].woken
          /\ Goto(t, "register")
    /\ UNCHANGED <<runtimeVars, row, ready, call, history>>

\* wait_until_unclaimed: the waiter is registered before it looks at the claim.
WaitUntilUnclaimed(t) ==
    /\ \/ /\ At(t, "register")
          /\ turn' = [turn EXCEPT ![t].stage = "check", ![t].woken = FALSE]
       \/ /\ At(t, "check")
          /\ Goto(t, IF active = NoTurn THEN "load" ELSE "sleep")
       \/ /\ At(t, "sleep") /\ turn[t].woken
          /\ Goto(t, "register")
    /\ UNCHANGED <<runtimeVars, row, ready, call, history>>

\* notify_waiters wakes the waiters that are registered (those of all conversations:
\* a waiter looks again).
Woken == [t \in Turns |-> [turn[t] EXCEPT !.woken = @ \/ turn[t].stage \in {"check", "sleep"}]]

----------------------------------------------------------------------------
(* The agent. *)

\* What becomes of an agent that is killed: a session lives on in the turn that
\* holds it, unless the watchdog of a cancel terminates it.
Killed(reason) ==
    IF InSession /\ reason # "UserCancelTimeout" THEN "orphan" ELSE "dead"

\* kill (waits = FALSE) takes the slot out of the map, and a build in flight ends
\* outside of it; kill_and_wait also kills what is built, unless the build begins
\* again in the slot that was removed.
KilledTurn(t, u, reason, waits) ==
    IF u.agent # "mapped" THEN {u}
    ELSE {[u EXCEPT !.agent = a] :
            a \in IF u.stage # "build" THEN {Killed(reason)}
                  ELSE IF waits THEN {"orphan", Killed(reason)} ELSE {"orphan"}}

\* The agent is killed, and the turns are as given but for their agents.
KillAgent(turns, reason, waits) ==
    /\ ready' = FALSE
    /\ turn' \in [Turns -> UNION {KilledTurn(t, turns[t], reason, waits) : t \in Turns}]
    /\ \A t \in Turns : turn'[t] \in KilledTurn(t, turns[t], reason, waits)

\* The runtime is warmed up outside any turn, for a conversation loaded before.
WarmUp ==
    /\ "warmup" \in setting.operations
    /\ ~ready
    /\ ready' = TRUE
    /\ UNCHANGED <<runtimeVars, row, turn, call, history>>

----------------------------------------------------------------------------
(* A turn that holds the claim. *)

\* The user's message is stored if the lifecycle allows it; that, or the options of
\* the agent, may fail, and the turn is over.
Persist(t) ==
    /\ At(t, "persist")
    /\ \/ /\ t \notin TeamTurns => row /\ Lifecycle # "Cancelling"
          /\ Goto(t, "enter")
       \/ Finish(t, "none")
    /\ UNCHANGED <<runtimeVars, row, ready, call, history>>

\* get_or_build_task finds the agent or builds it in the map's slot.
Enter(t) ==
    /\ At(t, "enter")
    /\ turn' = [turn EXCEPT ![t].agent = "mapped", ![t].stage = IF ready THEN "ready" ELSE "build"]
    /\ UNCHANGED <<runtimeVars, row, ready, call, history>>

Build(t) ==
    /\ At(t, "build")
    /\ \/ Goto(t, "ready") /\ ready' = (ready \/ turn[t].agent = "mapped")
       \/ Finish(t, "none") /\ UNCHANGED ready
    /\ UNCHANGED <<runtimeVars, row, call, history>>

\* Mutant: the turn of the deferred cancel is not compared.
TakeAnyDeferredCancel(t) ==
    /\ At(t, "ready")
    /\ \/ /\ deferred # NoTurn
          /\ deferred' = NoTurn
          /\ Finish(t, "withdrawn")
       \/ /\ deferred = NoTurn
          /\ Goto(t, "prompt")
          /\ UNCHANGED deferred
       \/ Finish(t, "none") /\ UNCHANGED deferred
    /\ UNCHANGED <<active, deleting, cancelling, shuttingDown, row, ready, call, history>>

\* take_deferred_cancel: a cancel that came during the build ends the turn here, if
\* the workspace of the agent could be stored.
TakeDeferredCancel(t) ==
    /\ At(t, "ready")
    /\ \/ /\ deferred = t
          /\ deferred' = NoTurn
          /\ Finish(t, "withdrawn")
       \/ /\ deferred # t
          /\ Goto(t, "prompt")
          /\ UNCHANGED deferred
       \/ Finish(t, "none") /\ UNCHANGED deferred
    /\ UNCHANGED <<active, deleting, cancelling, shuttingDown, row, ready, call, history>>

\* The lifecycle is read and the prompt sent (or the required mode is refused).  A
\* terminated session wakes up again.
Prompt(t) ==
    /\ At(t, "prompt")
    /\ \/ turn' = [turn EXCEPT ![t].stage = "stream", ![t].seen = Lifecycle,
                              ![t].agent = IF @ = "dead" /\ InSession
                                           THEN "orphan" ELSE @]
       \/ Finish(t, "none")
    /\ UNCHANGED <<runtimeVars, row, ready, call, history>>

\* Mutant: the turn goes on as long as the system responds.
ContinuesForEver(t) == turn[t].seen = "Active"

\* TurnContinuationPolicy::decide, with the lifecycle read before the prompt.
Continues(t) == turn[t].seen = "Active" /\ turn[t].count < MaxContinuations

\* The stream ends, perhaps with responses of the system, which the relay of a
\* conversation that is being deleted does not collect: the turn goes on with
\* them, is over, or has failed.
StreamEnds(t) ==
    \/ /\ ~deleting /\ Continues(t)
       /\ turn' = [turn EXCEPT ![t].stage = "prompt", ![t].count = @ + 1, ![t].seen = "Active"]
    \/ Finish(t, "none")
    \/ \E end \in {"error", "retry"} :
          turn' = [turn EXCEPT ![t].stage = "judge", ![t].end = end, ![t].count = 0, ![t].seen = "Active"]

\* The agent ends its answer, when it likes.
AgentAnswers(t) ==
    /\ At(t, "stream") /\ turn[t].agent # "dead"
    /\ StreamEnds(t)
    /\ UNCHANGED <<runtimeVars, row, ready, call, history>>

\* The stream of a dead agent ends.
StreamBreaks(t) ==
    /\ At(t, "stream") /\ turn[t].agent = "dead"
    /\ StreamEnds(t)
    /\ UNCHANGED <<runtimeVars, row, ready, call, history>>

\* TurnRecoveryPolicy::decide and AgentHealthPolicy::decide, with the lifecycle of
\* now: one replay, or the eviction of an unhealthy agent, or nothing.
Judge(t) ==
    LET replays == /\ Recovers /\ turn[t].end = "retry"
                   /\ Lifecycle = "Active" /\ ~turn[t].replayed
        evicts == Recovers /\ Lifecycle \in {"Active", "Cancelling"}
    IN  /\ At(t, "judge")
        /\ \/ replays /\ turn' = [turn EXCEPT ![t].stage = "evict", ![t].replayed = TRUE]
           \/ ~replays /\ evicts /\ turn' = [turn EXCEPT ![t].stage = "evict", ![t].end = "error"]
           \/ ~replays /\ ~evicts /\ Finish(t, "none")
        /\ UNCHANGED <<runtimeVars, row, ready, call, history>>

\* evict_acp_task_after_terminal_error, and the second attempt of a replay.
Evict(t) ==
    LET next == IF turn[t].end = "retry"
                THEN [NewTurn EXCEPT !.stage = "enter", !.replayed = TRUE]
                ELSE Over("none")
    IN  /\ At(t, "evict")
        /\ KillAgent([turn EXCEPT ![t] = next], "AgentErrorRecovery", TRUE)
        /\ UNCHANGED <<runtimeVars, row, call, history>>

\* Mutant: a release does not look whose claim it is.
ReleaseAny(t) ==
    /\ At(t, "release")
    /\ active' = NoTurn
    /\ deleting' = FALSE
    /\ cancelling' = FALSE
    /\ Goto(t, "notify")
    /\ revoked' = revoked \ {t}
    /\ UNCHANGED <<setting, deferred, shuttingDown, row, ready, call, asked, spent>>

\* Mutant: a release leaves the mark of a deletion.
ReleaseKeepsMark(t) ==
    /\ At(t, "release")
    /\ \/ /\ active = t
          /\ active' = NoTurn
          /\ cancelling' = FALSE
          /\ Goto(t, "notify")
       \/ /\ active # t
          /\ Goto(t, "done")
          /\ UNCHANGED <<active, cancelling>>
    /\ revoked' = revoked \ {t}
    /\ UNCHANGED <<setting, deleting, deferred, shuttingDown, row, ready, call, asked, spent>>

\* release: only the claim of this turn is removed, with the marks on it.
Release(t) ==
    /\ At(t, "release")
    /\ \/ /\ active = t
          /\ active' = NoTurn
          /\ deleting' = FALSE
          /\ cancelling' = FALSE
          /\ Goto(t, "notify")
       \/ /\ active # t
          /\ Goto(t, "done")
          /\ UNCHANGED <<active, deleting, cancelling>>
    /\ revoked' = revoked \ {t}
    /\ UNCHANGED <<setting, deferred, shuttingDown, row, ready, call, asked, spent>>

\* The lock is dropped before the waiters are notified.
NotifyReleased(t) ==
    /\ At(t, "notify")
    /\ turn' = [Woken EXCEPT ![t].stage = "done"]
    /\ UNCHANGED <<runtimeVars, row, ready, call, history>>

----------------------------------------------------------------------------
(* The other operations on the conversation. *)

CallAt(c, op, stage) == call[c].op = op /\ call[c].stage = stage
CallGoes(c, stage) == call' = [call EXCEPT ![c].stage = stage]
Return(c) == call' = [call EXCEPT ![c] = NoCall]

Begin(c, op, stage, t) ==
    /\ op \in setting.operations
    /\ call[c] = NoCall
    /\ spent < setting.bound
    /\ spent' = spent + 1
    /\ call' = [call EXCEPT ![c] = [NoCall EXCEPT !.op = op, !.stage = stage, !.turn = t]]
    /\ UNCHANGED <<setting, runtimeVars, row, ready, turn, revoked>>

\* cancel names a turn the user has seen.
BeginCancel(c) ==
    \E t \in Turns :
        /\ turn[t].stage \notin Before
        /\ row
        /\ Begin(c, "cancel", "look", t)
        /\ asked' = asked \cup {t}

\* The active turn is compared; get_task finds the agent or not.
LookForTurn(c) ==
    LET t == call[c].turn
    IN  /\ \/ /\ CallAt(c, "cancel", "look")
              /\ IF active = t THEN CallGoes(c, "find") ELSE Return(c)
           \/ /\ CallAt(c, "cancel", "find")
              /\ CallGoes(c, IF ready THEN "mark" ELSE "defer")
        /\ UNCHANGED <<runtimeVars, row, ready, turn, history>>

\* defer_cancel
DeferCancel(c) ==
    /\ CallAt(c, "cancel", "defer")
    /\ deferred' = call[c].turn
    /\ Return(c)
    /\ UNCHANGED <<active, deleting, cancelling, shuttingDown, row, ready, turn, history>>

\* mark_cancelling, and clear_cancelling when the agent refuses.
MarkCancelling(c) ==
    /\ \/ CallAt(c, "cancel", "mark") /\ cancelling' = TRUE /\ CallGoes(c, "hand")
       \/ CallAt(c, "cancel", "unmark") /\ cancelling' = FALSE /\ Return(c)
    /\ UNCHANGED <<active, deleting, deferred, shuttingDown, row, ready, turn, history>>

\* The agent is asked to cancel.  It refuses, or the call returns and a watchdog is
\* left behind.
HandCancel(c) ==
    /\ CallAt(c, "cancel", "hand")
    /\ \/ CallGoes(c, "unmark")
       \/ Watched /\ CallGoes(c, "watch")
       \/ ~Watched /\ Return(c)
    /\ UNCHANGED <<runtimeVars, row, ready, turn, history>>

\* Assumption on time: the timeout of a cancel is longer than a turn needs from its
\* claim, or from the eviction of its agent, to its build.
Timely(t) == turn[t].stage \notin {"persist", "enter", "evict"}

\* Mutant: the watchdog does not kill an agent that is not cancelling any more or
\* whose turn has been replayed.
WatchdogSparesReplays(c) ==
    LET t == call[c].turn
    IN  /\ call[c].op = "cancel" /\ Timely(t)
        /\ \/ /\ CallAt(c, "cancel", "watch")
              /\ IF active = t THEN CallGoes(c, "confirm") ELSE Return(c)
              /\ UNCHANGED <<ready, turn>>
           \/ /\ CallAt(c, "cancel", "confirm")
              /\ IF cancelling /\ ~turn[t].replayed
                 THEN KillAgent(turn, "UserCancelTimeout", TRUE) ELSE UNCHANGED <<ready, turn>>
              /\ Return(c)
        /\ UNCHANGED <<runtimeVars, row, history>>

\* The watchdog: the turn is still active, it is still cancelling, its agent is killed.
Watchdog(c) ==
    LET t == call[c].turn
    IN  /\ call[c].op = "cancel" /\ Timely(t)
        /\ \/ /\ CallAt(c, "cancel", "watch")
              /\ IF active = t THEN CallGoes(c, "confirm") ELSE Return(c)
              /\ UNCHANGED <<ready, turn>>
           \/ /\ CallAt(c, "cancel", "confirm")
              /\ IF cancelling THEN KillAgent(turn, "UserCancelTimeout", TRUE) ELSE UNCHANGED <<ready, turn>>
              /\ Return(c)
        /\ UNCHANGED <<runtimeVars, row, history>>

CancelStep(c) ==
    \/ LookForTurn(c) \/ DeferCancel(c) \/ MarkCancelling(c) \/ HandCancel(c) \/ Watchdog(c)

\* delete loads the conversation.
BeginDelete(c) ==
    /\ row
    /\ Begin(c, "delete", "mark", NoTurn)
    /\ UNCHANGED asked

\* mark_deleting returns whether a turn is active, whose release will clear the mark.
MarkDeleting(c) ==
    /\ CallAt(c, "delete", "mark")
    /\ deleting' = TRUE
    /\ call' = [call EXCEPT ![c].stage = "hook", ![c].had = (active # NoTurn)]
    /\ UNCHANGED <<active, cancelling, deferred, shuttingDown, row, ready, turn, history>>

\* The task manager's hook.
KillDeleted(c) ==
    /\ CallAt(c, "delete", "hook")
    /\ KillAgent(turn, "ConversationDeleted", FALSE)
    /\ CallGoes(c, "row")
    /\ UNCHANGED <<runtimeVars, row, history>>

\* The row is deleted, or that fails.
DeleteRow(c) ==
    /\ CallAt(c, "delete", "row")
    /\ \/ /\ row /\ row' = FALSE
          /\ IF call[c].had THEN Return(c) ELSE CallGoes(c, "clear")
       \/ CallGoes(c, "clear") /\ UNCHANGED row
    /\ UNCHANGED <<runtimeVars, ready, turn, history>>

ClearDeleting(c) ==
    /\ CallAt(c, "delete", "clear")
    /\ deleting' = FALSE
    /\ Return(c)
    /\ UNCHANGED <<active, cancelling, deferred, shuttingDown, row, ready, turn, history>>

DeleteStep(c) == MarkDeleting(c) \/ KillDeleted(c) \/ DeleteRow(c) \/ ClearDeleting(c)

\* terminate_runtime_for_user meets the conversation among those with an agent.
BeginTerminate(c) ==
    /\ row /\ ready
    /\ Begin(c, "terminate", "kill", NoTurn)
    /\ UNCHANGED asked

KillRevoked(c) ==
    /\ CallAt(c, "terminate", "kill")
    /\ KillAgent(turn, "SessionRevoked", TRUE)
    /\ CallGoes(c, "clear")
    /\ UNCHANGED <<runtimeVars, row, history>>

\* clear_conversation, once kill_and_wait has waited for the builds it met.
ClearConversation(c) ==
    /\ CallAt(c, "terminate", "clear")
    /\ \A t \in Turns : At(t, "build") => turn[t].agent # "dead"
    /\ active' = NoTurn
    /\ deleting' = FALSE
    /\ cancelling' = FALSE
    /\ revoked' = revoked \cup ({active} \ {NoTurn})
    /\ IF active # NoTurn \/ deleting \/ cancelling THEN CallGoes(c, "notify") ELSE Return(c)
    /\ UNCHANGED <<setting, deferred, shuttingDown, row, ready, turn, asked, spent>>

NotifyCleared(c) ==
    /\ CallAt(c, "terminate", "notify")
    /\ turn' = Woken
    /\ Return(c)
    /\ UNCHANGED <<runtimeVars, row, ready, history>>

TerminateStep(c) == KillRevoked(c) \/ ClearConversation(c) \/ NotifyCleared(c)

\* The server shuts down: mark_shutting_down, then the task manager is cleared.
BeginShutdown(c) ==
    /\ ~shuttingDown
    /\ Begin(c, "shutdown", "mark", NoTurn)
    /\ UNCHANGED asked

ShutdownStep(c) ==
    \/ /\ CallAt(c, "shutdown", "mark")
       /\ shuttingDown' = TRUE
       /\ CallGoes(c, "kill")
       /\ UNCHANGED <<active, deleting, cancelling, deferred, row, ready, turn, history>>
    \/ /\ CallAt(c, "shutdown", "kill")
       /\ KillAgent(turn, "none", FALSE)
       /\ Return(c)
       /\ UNCHANGED <<runtimeVars, row, history>>

\* The agent is killed for another reason (idle, or rebuilt for a new context).
BeginKill(c) ==
    /\ ready
    /\ Begin(c, "kill", "kill", NoTurn)
    /\ UNCHANGED asked

KillStep(c) ==
    /\ CallAt(c, "kill", "kill")
    /\ KillAgent(turn, "IdleTimeout", TRUE)
    /\ Return(c)
    /\ UNCHANGED <<runtimeVars, row, history>>

----------------------------------------------------------------------------
\* What a turn does by itself.
TurnStep(t) ==
    \/ Load(t) \/ Claim(t) \/ WaitUntilUnclaimed(t)
    \/ Persist(t) \/ Enter(t) \/ Build(t) \/ TakeDeferredCancel(t) \/ Prompt(t) \/ StreamBreaks(t)
    \/ Judge(t) \/ Evict(t) \/ Release(t) \/ NotifyReleased(t)

BeginCall(c) ==
    \/ BeginCancel(c) \/ BeginDelete(c) \/ BeginTerminate(c) \/ BeginShutdown(c) \/ BeginKill(c)

CallStep(c) ==
    \/ CancelStep(c) \/ DeleteStep(c) \/ TerminateStep(c) \/ ShutdownStep(c) \/ KillStep(c)

Next ==
    \/ \E t \in Turns : Arrive(t) \/ TurnStep(t) \/ AgentAnswers(t)
    \/ \E c \in Callers : BeginCall(c) \/ CallStep(c)
    \/ WarmUp

Spec == Init /\ [][Next]_vars

\* Tasks go on; an agent need not ever end its answer by itself.
Fairness ==
    /\ \A t \in Turns : WF_vars(TurnStep(t))
    /\ \A c \in Callers : WF_vars(CallStep(c))

FairSpec == Spec /\ Fairness

----------------------------------------------------------------------------
TypeOK ==
    /\ setting \in Settings
    /\ active \in Turns \cup {NoTurn}
    /\ deferred \in Turns \cup {NoTurn}
    /\ {deleting, cancelling, shuttingDown, row, ready} \subseteq BOOLEAN
    /\ turn \in [Turns -> Turn]
    /\ call \in [Callers -> Call]
    /\ revoked \in SUBSET Turns
    /\ asked \in SUBSET Turns
    /\ spent \in 0..setting.bound

\* A turn works if and only if it holds the claim, unless its user's session was
\* revoked: two turns that do not come from a revocation never run at once, a
\* late release never frees the claim of another turn, and no claim outlives its
\* turn (try_claim_turn, release, the Drop of TurnClaim).
WorkingTurnHoldsClaim ==
    \A t \in Turns : active = t <=> (turn[t].stage \in Working /\ t \notin revoked)

\* The mark of a deletion always has somebody who will clear it: the active turn, or
\* the deletion itself.  A conversation whose row could not be deleted is not
\* rejected as deleting for ever (mark_deleting, delete, release).
Clears(c) ==
    /\ call[c].op = "delete"
    /\ \/ call[c].stage \in {"hook", "row"} /\ ~call[c].had
       \/ call[c].stage = "clear"

DeletingIsCleared == deleting => active # NoTurn \/ \E c \in Callers : Clears(c)

\* A turn that ends before its prompt because of a deferred cancel is one that its
\* user asked to cancel, whatever cancels of other turns are left in
\* deferred_cancels (take_deferred_cancel).
WithdrawnWasAsked ==
    \A t \in Turns : turn[t].end = "withdrawn" \/ deferred = t => t \in asked

\* A team's turn that sleeps until the conversation is free is not forgotten: as long
\* as nobody has woken it the conversation is claimed, or the one that freed it
\* has yet to notify (wait_until_unclaimed, release, clear_conversation).
Notifies == (\E t \in Turns : At(t, "notify")) \/ (\E c \in Callers : call[c].stage = "notify")

SleeperIsNotForgotten ==
    (\E t \in Turns : At(t, "sleep") /\ ~turn[t].woken) => active # NoTurn \/ Notifies

\* A cancel that is in force ends its turn, although the agent may ignore it: it
\* was deferred before its turn looked for it (take_deferred_cancel), or its
\* watchdog is waiting to kill the agent.  Not promised when another cancel of the
\* turn fails and takes the mark back, when a late cancel of an earlier turn
\* overwrites the deferred one, and when the turn's agent has escaped the task
\* manager.  A cancel that is deferred later than that is never in force, although
\* it is acknowledged: see DeferredCancelIsApplied.
InForce(t) ==
    \/ /\ deferred = t
       /\ turn[t].stage \in {"persist", "enter", "build", "ready"}
    \/ /\ cancelling
       /\ \E c \in Callers : CallAt(c, "cancel", "watch") /\ call[c].turn = t

CancelEndsTurn ==
    \A t \in Turns :
        InForce(t) ~>
            \/ active # t
            \/ turn[t].agent = "orphan"
            \/ deferred \notin {t, NoTurn}
            \/ \E c \in Callers : call[c].stage = "unmark"

\* What cancel says of a deferred cancel, "Dropping the request here loses it: the
\* turn runs to completion while the user has been told it stopped" and "The
\* orchestrator applies it as soon as the task appears" (service.rs:3634-3640): a
\* turn whose cancel is on record is not prompted.  It is, when the agent appears
\* between the look for it and defer_cancel.
DeferredCancelIsApplied == \A t \in Turns : deferred = t => ~At(t, "stream")
=============================================================================
