----------------------------- MODULE TaskManager -----------------------------
(***************************************************************************)
(* The agent task manager (aionui-ai-agent/src/task_manager.rs): one slot    *)
(* per conversation that holds its agent or is being initialised by the      *)
(* first of its callers, and the runtime token that goes into the            *)
(* environment of an agent (runtime_token.rs).                              *)
(*                                                                         *)
(* The manager keeps conversations apart, so the module is about one of      *)
(* them.  A cell is the number of an Arc<OnceCell>; its agent is built at     *)
(* most once, by the caller at the head of its queue.  Killing an agent       *)
(* succeeds; one that nobody kills is alive here, although its process goes   *)
(* when the last of its holders drops it.                                    *)
(***************************************************************************)
EXTENDS Naturals, Sequences

CONSTANTS
    Callers,
    Versions,  \* versions of the runtime context that callers ask for; 0 is None
    MaxCells,  \* bound: cells that are ever allocated
    MaxTokens  \* bound: tokens that are ever issued

ASSUME VersionsAssumption == Versions \subseteq Nat
ASSUME BoundsAssumption == MaxCells \in Nat /\ MaxTokens \in Nat

VARIABLES
    slot,   \* the cell the map holds for the conversation, 0 if none
    cells,  \* the cells allocated so far
    tokens, \* the tokens that validate for the conversation
    issued, \* tokens generated so far
    call,   \* caller -> where it is and what it holds
    missed  \* history: cells removed by a kill that found no agent to kill

vars == <<slot, cells, tokens, issued, call, missed>>

Cell ==
    [agent : {"none", "alive", "killed"}, version : Versions \cup {0},
     token : 0..MaxTokens, queue : Seq(Callers)]

Places ==
    {"idle", "clear", "insert", "look", "rebuild", "refresh", "enter", "init", "queued",
     "revoke", "wait", "waiting"}

Call ==
    [at : Places,
     then : Places, \* where it goes with its token, or when it has revoked the tokens
     cell : 0..MaxCells, version : Versions \cup {0}, token : 0..MaxTokens,
     met : SUBSET Callers] \* who was queued for the cell when it was removed

Idle == [at |-> "idle", then |-> "idle", cell |-> 0, version |-> 0, token |-> 0, met |-> {}]

EmptyCell == [agent |-> "none", version |-> 0, token |-> 0, queue |-> <<>>]

Init ==
    /\ slot = 0
    /\ cells = <<>>
    /\ tokens = {}
    /\ issued = 0
    /\ call = [c \in Callers |-> Idle]
    /\ missed = {}

----------------------------------------------------------------------------
At(c, place) == call[c].at = place

Goes(c, place) == call' = [call EXCEPT ![c].at = place]

Returns(c) == call' = [call EXCEPT ![c] = Idle]

Initialised(k) == cells[k].agent # "none"

Waiting(k) == {cells[k].queue[i] : i \in DOMAIN cells[k].queue}

\* c has the permit to initialise cell k.
Permitted(c, k) == cells[k].queue # <<>> /\ Head(cells[k].queue) = c

Killed(k) == [cells EXCEPT ![k].agent = "killed"]

----------------------------------------------------------------------------
(* RuntimeTokenService::issue, whose steps other threads may come between.    *)

\* A token that validates is handed out again, or a new one is generated ...
Issue(c, v, then) ==
    \/ \E t \in tokens :
          /\ call' = [call EXCEPT ![c].at = then, ![c].version = v, ![c].token = t]
          /\ UNCHANGED issued
    \/ /\ tokens = {}
       /\ issued < MaxTokens
       /\ issued' = issued + 1
       /\ call' = [call EXCEPT ![c].at = "clear", ![c].then = then, ![c].version = v,
                              ![c].token = issued + 1]

\* ... the others of the conversation go ...
ClearTokens(c) ==
    /\ At(c, "clear")
    /\ tokens' = {}
    /\ Goes(c, "insert")
    /\ UNCHANGED <<slot, cells, issued, missed>>

\* ... and the new one validates.
InsertToken(c) ==
    /\ At(c, "insert")
    /\ tokens' = tokens \cup {call[c].token}
    /\ call' = [call EXCEPT ![c].at = call[c].then, ![c].then = "idle"]
    /\ UNCHANGED <<slot, cells, issued, missed>>

----------------------------------------------------------------------------
\* get_or_build_task.  The token is put into the build options first.
Request(c, v) ==
    /\ At(c, "idle")
    /\ Issue(c, v, "look")
    /\ UNCHANGED <<slot, cells, tokens, missed>>

\* An agent of an older runtime context has to be rebuilt.
Outdated(c) == slot # 0 /\ Initialised(slot) /\ cells[slot].version < call[c].version

Look(c) ==
    /\ At(c, "look")
    /\ Goes(c, IF Outdated(c) THEN "rebuild" ELSE "enter")
    /\ UNCHANGED <<slot, cells, tokens, issued, missed>>

\* The entry of the conversation goes from the map; its tokens go next.
Remove(c, then) ==
    /\ slot # 0
    /\ slot' = 0
    /\ call' = [call EXCEPT ![c].at = "revoke", ![c].then = then, ![c].cell = slot,
                           ![c].met = Waiting(slot)]
    /\ UNCHANGED <<cells, tokens, issued, missed>>

Rebuild(c) ==
    /\ At(c, "rebuild")
    /\ IF slot # 0
       THEN Remove(c, "refresh")
       ELSE Goes(c, "refresh") /\ UNCHANGED <<slot, cells, tokens, issued, missed>>

\* The agent goes if there is one by now.  kill is done with that, kill_and_wait waits
\* for one that may still be built.
KillFound(c) ==
    LET k == call[c].cell
    IN  /\ IF Initialised(k) THEN cells' = Killed(k) ELSE UNCHANGED cells
        /\ missed' = IF Initialised(k) \/ call[c].then = "wait" THEN missed ELSE missed \cup {k}
        /\ \/ /\ call[c].then = "refresh"
              /\ call' = [call EXCEPT ![c].at = "refresh", ![c].then = "idle", ![c].cell = 0, ![c].met = {}]
           \/ /\ call[c].then = "wait" /\ ~Initialised(k)
              /\ call' = [call EXCEPT ![c].at = "wait", ![c].then = "idle"]
           \/ /\ call[c].then = "idle" \/ (call[c].then = "wait" /\ Initialised(k))
              /\ Returns(c)

\* Mutant: the tokens go only with an agent.
RevokeWithAgent(c) ==
    /\ At(c, "revoke")
    /\ tokens' = IF Initialised(call[c].cell) THEN {} ELSE tokens
    /\ KillFound(c)
    /\ UNCHANGED <<slot, issued>>

\* The tokens of the conversation go, and then its agent.
Revoke(c) ==
    /\ At(c, "revoke")
    /\ tokens' = {}
    /\ KillFound(c)
    /\ UNCHANGED <<slot, issued>>

\* refresh_runtime_token_for_new_task
RefreshToken(c) ==
    /\ At(c, "refresh")
    /\ Issue(c, call[c].version, "enter")
    /\ UNCHANGED <<slot, cells, tokens, missed>>

\* Mutant: every caller allocates its own cell.
EnterAnew(c) ==
    /\ At(c, "enter")
    /\ Len(cells) < MaxCells
    /\ cells' = Append(cells, EmptyCell)
    /\ slot' = Len(cells) + 1
    /\ call' = [call EXCEPT ![c].at = "init", ![c].cell = slot']
    /\ UNCHANGED <<tokens, issued, missed>>

\* Mutant: the cell is looked up before it is inserted.
EnterTooEarly(c) ==
    /\ At(c, "enter")
    /\ IF slot # 0
       THEN UNCHANGED <<slot, cells>>
       ELSE /\ Len(cells) < MaxCells
            /\ cells' = Append(cells, EmptyCell)
            /\ slot' = Len(cells) + 1
    /\ call' = [call EXCEPT ![c].at = "init", ![c].cell = slot]
    /\ UNCHANGED <<tokens, issued, missed>>

\* The cell of the conversation, allocated if there is none.
Enter(c) ==
    /\ At(c, "enter")
    /\ IF slot # 0
       THEN UNCHANGED <<slot, cells>>
       ELSE /\ Len(cells) < MaxCells
            /\ cells' = Append(cells, EmptyCell)
            /\ slot' = Len(cells) + 1
    /\ call' = [call EXCEPT ![c].at = "init", ![c].cell = slot']
    /\ UNCHANGED <<tokens, issued, missed>>

\* OnceCell::get_or_try_init: permits are handed out in the order of the calls.
Initialise(c) ==
    LET k == call[c].cell
    IN  /\ At(c, "init")
        /\ ~Initialised(k)
        /\ cells' = [cells EXCEPT ![k].queue = Append(@, c)]
        /\ Goes(c, "queued")
        /\ UNCHANGED <<slot, tokens, issued, missed>>

Built(c) ==
    LET k == call[c].cell
    IN  /\ At(c, "queued")
        /\ Permitted(c, k)
        /\ cells' = [cells EXCEPT ![k] = [agent |-> "alive", version |-> call[c].version,
                                         token |-> call[c].token, queue |-> <<>>]]
        /\ Returns(c)
        /\ UNCHANGED <<slot, tokens, issued, missed>>

\* The cell stays empty for the next in the queue.
BuildFails(c) ==
    LET k == call[c].cell
    IN  /\ At(c, "queued")
        /\ Permitted(c, k)
        /\ cells' = [cells EXCEPT ![k].queue = Tail(@)]
        /\ Returns(c)
        /\ UNCHANGED <<slot, tokens, issued, missed>>

GetTask(c) ==
    /\ At(c, "init") \/ At(c, "queued")
    /\ Initialised(call[c].cell)
    /\ Returns(c)
    /\ UNCHANGED <<slot, cells, tokens, issued, missed>>

----------------------------------------------------------------------------
\* kill, clear and on_conversation_deleted.
Kill(c) == At(c, "idle") /\ Remove(c, "idle")

KillAndWait(c) == At(c, "idle") /\ Remove(c, "wait")

\* Mutant: only looks whether the cell has an agent by now.
AwaitOnlyLooks(c) ==
    LET k == call[c].cell
    IN  /\ At(c, "wait")
        /\ ~Initialised(k)
        /\ missed' = missed \cup {k}
        /\ Returns(c)
        /\ UNCHANGED <<slot, cells, tokens, issued>>

\* It queues for the removed cell as the builders do.
AwaitBuild(c) ==
    LET k == call[c].cell
    IN  /\ At(c, "wait")
        /\ ~Initialised(k)
        /\ cells' = [cells EXCEPT ![k].queue = Append(@, c)]
        /\ Goes(c, "waiting")
        /\ UNCHANGED <<slot, tokens, issued, missed>>

KillBuilt(c) ==
    LET k == call[c].cell
    IN  /\ At(c, "wait") \/ At(c, "waiting")
        /\ Initialised(k)
        /\ cells' = Killed(k)
        /\ Returns(c)
        /\ UNCHANGED <<slot, tokens, issued, missed>>

\* Its turn to initialise the cell, which it fails to do.
NothingBuilt(c) ==
    LET k == call[c].cell
    IN  /\ At(c, "waiting")
        /\ Permitted(c, k)
        /\ cells' = [cells EXCEPT ![k].queue = Tail(@)]
        /\ missed' = missed \cup {k}
        /\ Returns(c)
        /\ UNCHANGED <<slot, tokens, issued>>

----------------------------------------------------------------------------
GetOrBuild(c) ==
    \/ \E v \in Versions : Request(c, v)
    \/ ClearTokens(c) \/ InsertToken(c)
    \/ Look(c) \/ Rebuild(c) \/ RefreshToken(c) \/ Enter(c)
    \/ Initialise(c) \/ Built(c) \/ BuildFails(c) \/ GetTask(c)

Killing(c) == Kill(c) \/ KillAndWait(c) \/ Revoke(c)

KillWaiting(c) == AwaitBuild(c) \/ KillBuilt(c) \/ NothingBuilt(c)

Next == \E c \in Callers : GetOrBuild(c) \/ Killing(c) \/ KillWaiting(c)

Spec == Init /\ [][Next]_vars

----------------------------------------------------------------------------
HoldingCell == {"init", "queued", "revoke", "wait", "waiting"}

TypeOK ==
    /\ slot \in 0..Len(cells)
    /\ cells \in Seq(Cell) /\ Len(cells) <= MaxCells
    /\ tokens \subseteq 1..issued
    /\ issued \in 0..MaxTokens
    /\ call \in [Callers -> Call]
    /\ \A c \in Callers : call[c].at \in HoldingCell => call[c].cell \in DOMAIN cells
    /\ missed \subseteq DOMAIN cells

\* Cell k has an agent and nobody who removed the cell is about to kill it.
Lasting(k) ==
    /\ cells[k].agent = "alive"
    /\ \A c \in Callers : call[c].cell = k => call[c].at \notin {"revoke", "wait", "waiting"}

\* Concurrent requests never build an agent that the map does not know: one that is not
\* the map's is about to be killed by whoever removed its cell, or it was built after a
\* kill had looked for it there (task_manager.rs:214-229, 236-262).
NoAgentEscapesByBuilding == \A k \in DOMAIN cells \ ({slot} \cup missed) : ~Lasting(k)

\* Whoever removed cell k is yet to revoke the tokens of the conversation.
Revoking(k) == \E c \in Callers : At(c, "revoke") /\ call[c].cell = k

\* An agent that the manager let go, killed or not, has no token that validates once
\* the removal of its cell has revoked the tokens: its token was inserted before its
\* build, and nobody inserts it again, although requests that run by the removal may
\* share it or insert tokens of their own (task_manager.rs:214-215, runtime_token.rs:92-110).
RemovedAgentsHaveNoToken ==
    \A k \in DOMAIN cells :
        k # slot /\ Initialised(k) /\ ~Revoking(k) => cells[k].token \notin tokens

\* kill_and_wait returns only when no build that it met can leave an agent:
\* those that were queued when it removed the slot have failed, or the agent of
\* one of them is killed (task_manager.rs:239-270).
Awaiting(c) == call[c].at \in {"wait", "waiting"} \/ (At(c, "revoke") /\ call[c].then = "wait")
OutlastsBuilds ==
    \A c \in Callers :
        Awaiting(c) /\ call'[c].at = "idle" =>
            \/ cells'[call[c].cell].agent = "killed"
            \/ \A b \in call[c].met : ~(call[b].at = "queued" /\ call[b].cell = call[c].cell)

KillWaitsForBuilds == [][OutlastsBuilds]_vars

\* At most one agent per conversation, but for those that are being killed ("Each
\* conversation has at most one active task", task_manager.rs:29).
AtMostOneAgent == \A j, k \in DOMAIN cells : Lasting(j) /\ Lasting(k) => j = k

----------------------------------------------------------------------------
Building == {"look", "rebuild", "refresh", "enter", "init", "queued"}

Awaits(c, k) == call[c].at \in {"revoke", "wait", "waiting"} /\ call[c].cell = k

Queued(c, k) == call[c].at \in {"queued", "waiting"} /\ call[c].cell = k

\* A call goes where it says it does.
CallsGoOn ==
    \A c \in Callers :
        /\ call[c].at \in {"clear", "insert"} => call[c].then \in {"look", "enter"}
        /\ call[c].at = "revoke" => call[c].then \in {"idle", "refresh", "wait"}

\* A cell leaves its queue behind when it is initialised, with a generated token.
InitialisedIsFinal ==
    \A k \in DOMAIN cells :
        Initialised(k) => cells[k].queue = <<>> /\ cells[k].token \in 1..issued

\* Who has a token: a caller that inserts one and one that builds with one, or is to
\* rebuild when it has removed the cell.
Inserting == {"clear", "insert"}
HasToken(c) == call[c].at \in Building \cup Inserting \/ (At(c, "revoke") /\ call[c].then = "refresh")

\* A token that is not inserted yet is nobody else's.
FreshTokensAreOwn ==
    \A c \in Callers : call[c].at \in Inserting =>
        /\ call[c].token \notin tokens
        /\ \A b \in Callers : b # c /\ HasToken(b) => call[b].token # call[c].token
        /\ \A k \in DOMAIN cells : Initialised(k) => cells[k].token # call[c].token

\* A builder's token no longer validates once its cell is removed and the tokens are
\* revoked.
BuildersHaveToken ==
    \A c \in Callers :
        /\ HasToken(c) => call[c].token \in 1..issued
        /\ call[c].at \in {"init", "queued"} /\ call[c].cell # slot /\ ~Revoking(call[c].cell) =>
              call[c].token \notin tokens

\* A removed cell whose agent is not killed is missed or awaited.
RemovedIsAwaited ==
    \A k \in DOMAIN cells \ ({slot} \cup missed) :
        cells[k].agent = "killed" \/ \E c \in Callers : Awaits(c, k)

\* The queue of an empty cell holds once whoever is queued for it.
QueueIsExact(k) ==
    LET q == cells[k].queue
    IN  /\ \A i \in DOMAIN q, c \in Callers : q[i] = c => Queued(c, k)
        /\ \A i, j \in DOMAIN q : q[i] = q[j] => i = j
        /\ ~Initialised(k) => \A c \in Callers : Queued(c, k) => \E i \in DOMAIN q : q[i] = c

QueueHoldsQueued == \A k \in DOMAIN cells : QueueIsExact(k)

\* Whoever awaits a removed cell comes after the builders it met there.
MetAreAhead ==
    \A c \in Callers, k \in DOMAIN cells :
        Awaits(c, k) =>
            /\ k # slot
            /\ \A b \in call[c].met : ~(call[b].at = "init" /\ call[b].cell = k)
            /\ \A i \in DOMAIN cells[k].queue, b \in call[c].met :
                 cells[k].queue[i] = c /\ call[b].at = "queued" /\ call[b].cell = k =>
                     \E j \in DOMAIN cells[k].queue : j < i /\ cells[k].queue[j] = b

\* The inductive invariant.
IInv ==
    /\ TypeOK /\ CallsGoOn /\ InitialisedIsFinal /\ FreshTokensAreOwn /\ BuildersHaveToken
    /\ RemovedIsAwaited /\ RemovedAgentsHaveNoToken /\ QueueHoldsQueued /\ MetAreAhead
=============================================================================
