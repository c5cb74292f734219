-------------------------- MODULE WorkCoordinator --------------------------
(***************************************************************************)
(* The slot work coordinator of one team session                           *)
(* (crates/aionui-team/src/work_coordinator/coordinator.rs).  Every team    *)
(* slot has three queues of work intents, one per priority, and at most one *)
(* active batch.  Producers take an enqueue lease, write the mailbox and    *)
(* commit the lease into an intent; the slot's event loop claims batches of *)
(* intents, starts a turn for each and settles it; users pause slots, stop  *)
(* members and cancel runs; the runtime comes and goes.  Every method is    *)
(* one critical section of the state mutex, hence one action.  What the     *)
(* callers may do between two calls is not constrained here: any batch ever *)
(* claimed may be started, retried or settled at any time.                  *)
(*                                                                         *)
(* A queue is the set of its intents, ordered by pos (the index in the      *)
(* deque): pos is fixed on push_back, and push_front only ever returns the  *)
(* intents of the batch that was taken from the front.                      *)
(***************************************************************************)
EXTENDS Naturals, Sequences, FiniteSets, WorkSource

CONSTANTS
    Slots,       \* slots of the team
    Sources,     \* sources producers enqueue with
    Messages,    \* mailbox messages, numbered in the order they are written
    Runs,        \* team run ids
    NoRun,       \* team_run_id = None
    NoMessage,   \* mailbox_message_id = None
    Leases,      \* enqueue lease ids
    Constraints, \* runtime constraints that are set
    MaxIntents,  \* bound on the intents created
    MaxOps       \* bound on the batches claimed

ASSUME SourcesAssumption == Sources \subseteq WorkSources
ASSUME MessagesAssumption ==
    Messages \subseteq Nat /\ IsFiniteSet(Messages) /\ NoMessage \notin Messages
ASSUME NoRunAssumption == NoRun \notin Runs
ASSUME ConstraintsAssumption ==
    Constraints \subseteq {"Ready", "Starting", "Failed", "Removing", "SessionStopped"}
ASSUME BoundsAssumption == MaxIntents \in Nat /\ MaxOps \in Nat

VARIABLES
    intents,     \* intents created so far
    queued,      \* slot -> the intents of its three queues
    active,      \* slot -> operation id of its active batch, 0 when there is none
    turn,        \* slot -> the active batch has a turn id
    paused,      \* slot -> paused
    constraint,  \* slot -> runtime_constraint, "Unknown" until the slot is first named
    removed,     \* slot -> removed
    leases,      \* active enqueue leases
    batches      \* history: operation id -> batch claimed with it

coordinatorVars ==
    <<intents, queued, active, turn, paused, constraint, removed, leases, batches>>

slotVars == <<queued, active, turn, paused, constraint, removed>>

RuntimeConstraint == {"Unknown", "Ready", "Starting", "Failed", "Removing", "SessionStopped"}
Live == {"Queued", "Starting", "Running"}
Terminal == {"Completed", "Failed", "Cancelled"}

IntentId == 1..MaxIntents
OpId == 1..MaxOps

WorkIntent ==
    [slot : Slots, source : WorkSources, message : Messages \cup {NoMessage},
     run : Runs \cup {NoRun}, state : Live \cup Terminal, op : 0..MaxOps, pos : Nat]

EnqueueLease == [id : Leases, slot : Slots, source : WorkSources, run : Runs \cup {NoRun}]

\* The intents of a batch: its runs, messages and priority follow from them.
WorkBatch == [slot : Slots, intents : SUBSET IntentId]

Init ==
    /\ intents = <<>>
    /\ queued = [s \in Slots |-> {}]
    /\ active = [s \in Slots |-> 0]
    /\ turn = [s \in Slots |-> FALSE]
    /\ paused = [s \in Slots |-> FALSE]
    /\ constraint = [s \in Slots |-> "Unknown"]
    /\ removed = [s \in Slots |-> FALSE]
    /\ leases = {}
    /\ batches = <<>>

----------------------------------------------------------------------------
\* validate_enqueue_constraint, of a slot that is created when it is not known.
Accepting(s) == ~removed[s] /\ constraint[s] \in {"Ready", "Starting", "Unknown"}

\* entry(slot).or_insert_with(SlotState::new)
MakeKnown(s) ==
    constraint' = [constraint EXCEPT ![s] = IF @ = "Unknown" THEN "Starting" ELSE @]

\* The deque of slot s for priority p.
Queue(s, p) == {i \in queued[s] : Priority(intents[i].source) = p}

\* The live intents of slot s.
LiveOf(s) == {i \in DOMAIN intents : intents[i].slot = s /\ intents[i].state \in Live}

\* Intents of run r.
OfRun(r) == {i \in DOMAIN intents : intents[i].run = r}

\* Mutant: any active batch of the slot will do.
CurrentAnyBatch(op) == op \in DOMAIN batches /\ active[batches[op].slot] # 0

\* is_current_batch
Current(op) == op \in DOMAIN batches /\ active[batches[op].slot] = op

\* The intents in I move to state st, under operation op while they are in a batch.
Move(I, st, op) ==
    [i \in DOMAIN intents |->
        IF i \in I THEN [intents[i] EXCEPT !.state = st, !.op = op] ELSE intents[i]]

\* A new intent, at the back of its queue.
NewIntent(s, source, m, r, id) ==
    [slot |-> s, source |-> source, message |-> m, run |-> r,
     state |-> "Queued", op |-> 0, pos |-> id]

----------------------------------------------------------------------------
\* acquire_enqueue, with the run the causal binding resolves to.
AcquireEnqueue(id, s, source, r) ==
    /\ Accepting(s)
    /\ \A l \in leases : l.id # id
    /\ leases' = leases \cup {[id |-> id, slot |-> s, source |-> source, run |-> r]}
    /\ MakeKnown(s)
    /\ UNCHANGED <<intents, queued, active, turn, paused, removed, batches>>

\* commit_enqueue.  A lease a cancelled run took away and a slot that stopped
\* accepting answer with an error and change nothing.
CommitEnqueue(l, m) ==
    /\ l \in leases
    /\ Accepting(l.slot)
    /\ m = NoMessage => ~RequiresMailboxMessage(l.source)
    /\ LET id == Len(intents) + 1
       IN  /\ id <= MaxIntents
           /\ intents' = Append(intents, NewIntent(l.slot, l.source, m, l.run, id))
           /\ queued' = [queued EXCEPT ![l.slot] = @ \cup {id}]
    /\ leases' = leases \ {l}
    /\ paused' = [paused EXCEPT ![l.slot] = @ /\ ~ResumesPausedSlot(l.source)]
    /\ UNCHANGED <<active, turn, constraint, removed, batches>>

\* abort_enqueue
AbortEnqueue(l) ==
    /\ l \in leases
    /\ leases' = leases \ {l}
    /\ UNCHANGED <<intents, slotVars, batches>>

\* reconcile_mailbox: queued intents whose message has been read are done, and
\* unread messages no live intent owns get a run-less recovery intent, in
\* mailbox order.
Stale(s, unread) ==
    {i \in queued[s] : intents[i].message \notin unread \cup {NoMessage}}

Unowned(s, unread) ==
    {m \in unread : \A i \in LiveOf(s) : intents[i].message # m}

ReconcileMailbox(s, unread) ==
    LET stale == Stale(s, unread)
        unowned == Unowned(s, unread)
        n == Len(intents)
        new == (n + 1)..(n + Cardinality(unowned))
    IN  /\ stale \cup unowned # {}
        /\ n + Cardinality(unowned) <= MaxIntents
        /\ \E recovers \in [new -> unowned] :
              /\ \A i, j \in new : i < j => recovers[i] < recovers[j]
              /\ intents' = [i \in 1..(n + Cardinality(unowned)) |->
                    IF i \in new
                    THEN NewIntent(s, "RecoveryDrain", recovers[i], NoRun, i)
                    ELSE Move(stale, "Completed", 0)[i]]
              /\ queued' = [queued EXCEPT ![s] = (@ \ stale) \cup new]
        /\ MakeKnown(s)
        /\ UNCHANGED <<active, turn, paused, removed, leases, batches>>

\* next: the batch to claim.  The queue of the highest priority that is not
\* empty is taken; its message intents up to the first slash command go into
\* the batch, and a command at the head goes alone.
Claimable(s) == active[s] = 0 /\ constraint[s] = "Ready" /\ ~paused[s]

TopPriority(s, p) == Queue(s, p) # {} /\ \A higher \in 1..(p - 1) : Queue(s, higher) = {}

MessageIntents(s, p) == {i \in Queue(s, p) : intents[i].message # NoMessage}

IsCommand(i) == intents[i].source = "UserCommand"

\* Mutant: a command at the head is merged with the messages behind it.
BatchMergesCommands(msgs) ==
    {i \in msgs : \A j \in msgs : IsCommand(j) => intents[i].pos <= intents[j].pos}
        \cup {i \in msgs : \E j \in msgs : IsCommand(j) /\ \A k \in msgs : intents[j].pos <= intents[k].pos}

\* Mutant: a command preempts the messages queued before it.
BatchPreempts(msgs) ==
    LET commands == {i \in msgs : IsCommand(i)}
    IN  {i \in commands : \A j \in commands : intents[i].pos <= intents[j].pos}
            \cup {i \in msgs : commands = {}}

BatchOf(msgs) ==
    {i \in msgs :
        \/ ~IsCommand(i) /\ \A j \in msgs : IsCommand(j) => intents[i].pos < intents[j].pos
        \/ IsCommand(i) /\ \A j \in msgs : intents[i].pos <= intents[j].pos}

ClaimBatch(s) ==
    /\ Claimable(s)
    /\ \E p \in 1..3 :
          /\ TopPriority(s, p)
          /\ MessageIntents(s, p) # {}
          /\ LET batch == BatchOf(MessageIntents(s, p))
                 op == Len(batches) + 1
             IN  /\ op <= MaxOps
                 /\ intents' = Move(batch, "Starting", op)
                 /\ queued' = [queued EXCEPT ![s] = @ \ batch]
                 /\ active' = [active EXCEPT ![s] = op]
                 /\ turn' = [turn EXCEPT ![s] = FALSE]
                 /\ batches' = Append(batches, [slot |-> s, intents |-> batch])
    /\ UNCHANGED <<paused, constraint, removed, leases>>

\* next returns SettleSignals with the whole queue when it holds no message.
SignalsToSettle(s, ids) ==
    /\ Claimable(s)
    /\ \E p \in 1..3 :
          TopPriority(s, p) /\ MessageIntents(s, p) = {} /\ ids = Queue(s, p)

\* complete_signals, for the ids an earlier next returned.
CompleteSignals(s, ids) ==
    /\ ids # {}
    /\ \A i \in ids : /\ intents[i].slot = s
                      /\ intents[i].message = NoMessage
                      /\ intents[i].state = "Queued"
    /\ intents' = Move(ids, "Completed", 0)
    /\ queued' = [queued EXCEPT ![s] = @ \ ids]
    /\ UNCHANGED <<active, turn, paused, constraint, removed, leases, batches>>

\* mark_started: the turn of the batch has begun.  A superseded batch changes
\* nothing (StaleOwner, or CancelImmediately when it was cancelled).
MarkStarted(op) ==
    /\ Current(op)
    /\ intents' = Move(batches[op].intents, "Running", op)
    /\ turn' = [turn EXCEPT ![batches[op].slot] = TRUE]
    /\ UNCHANGED <<queued, active, paused, constraint, removed, leases, batches>>

\* retry_start: the intents go back to the front of their queue.
RetryStart(op) ==
    LET s == batches[op].slot
    IN  /\ Current(op)
        /\ intents' = Move(batches[op].intents, "Queued", 0)
        /\ queued' = [queued EXCEPT ![s] = @ \cup batches[op].intents]
        /\ active' = [active EXCEPT ![s] = 0]
        /\ turn' = [turn EXCEPT ![s] = FALSE]
        /\ UNCHANGED <<paused, constraint, removed, leases, batches>>

\* terminalize_batch: complete_batch, fail_batch, cancel_batch.
TerminalizeBatch(op, st) ==
    LET s == batches[op].slot
    IN  /\ Current(op)
        /\ intents' = Move(batches[op].intents, st, 0)
        /\ active' = [active EXCEPT ![s] = 0]
        /\ turn' = [turn EXCEPT ![s] = FALSE]
        /\ UNCHANGED <<queued, paused, constraint, removed, leases, batches>>

\* The slots whose active batch holds work of run r, and the intents of those batches.
HitSlots(r) == {s \in Slots : active[s] # 0 /\ batches[active[s]].intents \cap OfRun(r) # {}}

\* Mutant: the other intents of a batch taken down are forgotten.
TakenOfRunOnly(r) == UNION {batches[active[s]].intents \cap OfRun(r) : s \in HitSlots(r)}

TakenDown(r) == UNION {batches[active[s]].intents : s \in HitSlots(r)}

\* Mutant: the leases of the run survive it.
LeasesKept(r) == leases

LeasesAfter(r) == {l \in leases : l.run # r}

\* cancel_run: active batches holding work of the run are taken down (their other
\* intents return to the queue), its queued work and its leases go.
CancelRun(r) ==
    LET taken == TakenDown(r)
        cancelled == {i \in OfRun(r) : intents[i].state = "Queued"} \cup (taken \cap OfRun(r))
    IN  /\ intents' = [i \in DOMAIN intents |->
              IF i \in cancelled THEN [intents[i] EXCEPT !.state = "Cancelled", !.op = 0]
              ELSE IF i \in taken THEN [intents[i] EXCEPT !.state = "Queued", !.op = 0]
              ELSE intents[i]]
        /\ queued' = [s \in Slots |->
              (queued[s] \cup {i \in taken : intents[i].slot = s}) \ cancelled]
        /\ active' = [s \in Slots |-> IF s \in HitSlots(r) THEN 0 ELSE active[s]]
        /\ turn' = [s \in Slots |-> s \notin HitSlots(r) /\ turn[s]]
        /\ leases' = LeasesAfter(r)
        /\ UNCHANGED <<paused, constraint, removed, batches>>

\* pause_slot
PauseSlot(s) ==
    /\ paused' = [paused EXCEPT ![s] = TRUE]
    /\ MakeKnown(s)
    /\ UNCHANGED <<intents, queued, active, turn, removed, leases, batches>>

\* Mutant: the constraint is recorded as the state of the work.
OutcomeIsConstraint(c) == c

OutcomeUnder(c) == IF c = "Failed" THEN "Failed" ELSE "Cancelled"

\* set_runtime_constraint.  A failed runtime fails the run-bound work of the slot
\* and queues its run-less work again, in an arbitrary order (the intents come
\* out of a hash map); a stopped session cancels all of it.
SetConstraint(s, c) ==
    LET live == LiveOf(s)
        kept == {i \in live : intents[i].run = NoRun /\ c = "Failed"}
    IN  /\ constraint' = [constraint EXCEPT ![s] = c]
        /\ IF c \in {"Failed", "SessionStopped"}
           THEN /\ \E order \in [kept -> {intents[i].pos : i \in kept}] :
                      /\ \A i, j \in kept : order[i] = order[j] => i = j
                      /\ intents' = [i \in DOMAIN intents |->
                            IF i \in kept
                            THEN [intents[i] EXCEPT !.state = "Queued", !.op = 0, !.pos = order[i]]
                            ELSE IF i \in live
                            THEN [intents[i] EXCEPT !.state = OutcomeUnder(c), !.op = 0]
                            ELSE intents[i]]
                /\ queued' = [queued EXCEPT ![s] = kept]
                /\ active' = [active EXCEPT ![s] = 0]
                /\ turn' = [turn EXCEPT ![s] = FALSE]
           ELSE UNCHANGED <<intents, queued, active, turn>>
        /\ UNCHANGED <<paused, removed, leases, batches>>

\* remove_slot; one that is not known stays so.
RemoveSlot(s) ==
    LET members == IF active[s] = 0 THEN {} ELSE batches[active[s]].intents
    IN  /\ intents' = Move(members \cup queued[s] \cup LiveOf(s), "Cancelled", 0)
        /\ queued' = [queued EXCEPT ![s] = {}]
        /\ active' = [active EXCEPT ![s] = 0]
        /\ turn' = [turn EXCEPT ![s] = FALSE]
        /\ removed' = [removed EXCEPT ![s] = @ \/ constraint[s] # "Unknown"]
        /\ UNCHANGED <<paused, constraint, leases, batches>>

\* stop: only the slots that are known learn of it.
StopSession ==
    /\ intents' = Move({i \in DOMAIN intents : intents[i].state \in Live}, "Cancelled", 0)
    /\ queued' = [s \in Slots |-> {}]
    /\ active' = [s \in Slots |-> 0]
    /\ turn' = [s \in Slots |-> FALSE]
    /\ constraint' = [s \in Slots |-> IF constraint[s] = "Unknown" THEN "Unknown" ELSE "SessionStopped"]
    /\ leases' = {}
    /\ UNCHANGED <<paused, removed, batches>>
----------------------------------------------------------------------------
\* Producers commit the message they wrote, or none for a source without one.
Commits(l, m) == m = NoMessage <=> ~RequiresMailboxMessage(l.source)

ProducerStep ==
    \/ \E id \in Leases, s \in Slots, source \in Sources, r \in Runs \cup {NoRun} :
          AcquireEnqueue(id, s, source, r)
    \/ \E l \in leases, m \in Messages \cup {NoMessage} : Commits(l, m) /\ CommitEnqueue(l, m)
    \/ \E l \in leases : AbortEnqueue(l)

\* The signals an event loop was told to settle may have grown stale meanwhile;
\* complete_signals accepts any set of them that is still queued.
LoopStep(s) ==
    \/ \E unread \in SUBSET Messages : ReconcileMailbox(s, unread)
    \/ ClaimBatch(s)
    \/ \E ids \in SUBSET DOMAIN intents : CompleteSignals(s, ids)

BatchStep(op) ==
    \/ MarkStarted(op)
    \/ RetryStart(op)
    \/ \E st \in Terminal : TerminalizeBatch(op, st)

ControlStep ==
    \/ \E r \in Runs : CancelRun(r)
    \/ \E s \in Slots : PauseSlot(s) \/ RemoveSlot(s)
    \/ \E s \in Slots, c \in Constraints : SetConstraint(s, c)
    \/ StopSession

Next ==
    \/ ProducerStep
    \/ \E s \in Slots : LoopStep(s)
    \/ \E op \in DOMAIN batches : BatchStep(op)
    \/ ControlStep

Spec == Init /\ [][Next]_coordinatorVars

----------------------------------------------------------------------------
TypeOK ==
    /\ intents \in Seq(WorkIntent) /\ Len(intents) <= MaxIntents
    /\ queued \in [Slots -> SUBSET IntentId]
    /\ active \in [Slots -> 0..MaxOps]
    /\ turn \in [Slots -> BOOLEAN]
    /\ paused \in [Slots -> BOOLEAN]
    /\ constraint \in [Slots -> RuntimeConstraint]
    /\ removed \in [Slots -> BOOLEAN]
    /\ leases \subseteq EnqueueLease
    /\ batches \in Seq(WorkBatch) /\ Len(batches) <= MaxOps

\* Work is neither lost nor doubled: a queued intent is in the queue of its slot
\* and nowhere else, a starting or running one in the slot's active batch, a
\* finished one in neither, however claims, retries, cancellations, a failing
\* runtime and the removal of the slot interleave (the intents map and the slot
\* deques of coordinator.rs are updated separately by every method).
EveryIntentHasOnePlace ==
    /\ \A i \in DOMAIN intents : LET w == intents[i] IN
          /\ w.state = "Queued" <=> i \in queued[w.slot]
          /\ w.state \in {"Starting", "Running"} <=>
                active[w.slot] # 0 /\ i \in batches[active[w.slot]].intents
          /\ w.state \in {"Starting", "Running"} => w.op = active[w.slot]
          /\ w.state = "Running" => turn[w.slot]
    /\ \A s \in Slots :
          /\ \A i \in queued[s] : i \in DOMAIN intents /\ intents[i].slot = s
          /\ active[s] # 0 => active[s] \in DOMAIN batches /\ batches[active[s]].slot = s
          /\ active[s] = 0 => ~turn[s]

\* A slash command is never merged into a turn with anything else, whatever
\* retries, run cancellations and a failed runtime put back into the queue
\* (ELECTRON-3RN, coordinator.rs:444-451).
CommandsTravelAlone ==
    \A op \in DOMAIN batches :
        (\E i \in batches[op].intents : IsCommand(i)) => Cardinality(batches[op].intents) = 1

\* FIFO is stable: a message never runs while one of the same priority that was
\* enqueued before it is still queued, also after a batch went back to the queue
\* (tests.rs:109).  Excepted are pairs of run-less intents, which a failed runtime
\* queues again in an arbitrary order.
NoOvertaking ==
    \A i, j \in DOMAIN intents :
        /\ i < j
        /\ intents[i].slot = intents[j].slot
        /\ Priority(intents[i].source) = Priority(intents[j].source)
        /\ intents[i].message # NoMessage
        /\ intents[i].run # NoRun \/ intents[j].run # NoRun
        => ~(intents[i].state = "Queued" /\ intents[j].state \in {"Starting", "Running"})

\* A finished intent stays finished, with its outcome: a late start, retry or
\* completion of a batch that was superseded does not revive it (tests.rs:461,
\* late_terminal_after_cancel_is_rejected).
TerminalIsFinal ==
    [][\A i \in DOMAIN intents : intents[i].state \in Terminal =>
          intents'[i].state = intents[i].state]_coordinatorVars

\* Cancelling a run takes all of its work and its leases, wherever they are, and
\* ends nothing of another run (tests.rs:390).
CancelRunIsExact ==
    [][\A r \in Runs : CancelRun(r) =>
          /\ \A l \in leases' : l.run # r
          /\ \A i \in DOMAIN intents' :
                intents[i].state \in Live =>
                    (intents'[i].state \in Live <=> intents[i].run # r)]_coordinatorVars
=============================================================================
