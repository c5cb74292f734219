---------------------------- MODULE TeamDelivery ----------------------------
(***************************************************************************)
(* The delivery of mailbox messages to the turns of team members: the       *)
(* producers that write the mailbox and enqueue work (session.rs), the      *)
(* mailbox (mailbox.rs), the event loop of each slot (event_loop.rs), the   *)
(* user who cancels runs and pauses slots, and the end of the attach that   *)
(* brings a member's runtime up.  Each of them runs until its next await or *)
(* lock as one action; what it has read so far is in its record.  The       *)
(* coordinator and the run manager are TeamWork's: a slot is the caller of  *)
(* its own event loop.                                                     *)
(*                                                                         *)
(* A message is the number of its mailbox row; a producer is one call that  *)
(* sends one message or signal.                                            *)
(***************************************************************************)
EXTENDS TeamWork

CONSTANTS
    Producers, \* calls that enqueue work; a call's lease carries its name
    SourceOf,  \* producer -> its work source
    TargetOf,  \* producer -> the slot it sends to
    User,      \* the caller that cancels and pauses
    Settings   \* bounds: the calls that are made, and how often what comes between

\* What may come between the calls and their delivery: the user cancels a run or
\* pauses a slot, a row is not written, rows are not marked read, a batch cannot be
\* prepared, a turn does not start or fails, its conversation is busy, the session is
\* ensured again.
Occasion == {"stop", "write_fails", "mark_fails", "prepare_fails", "turn_fails", "busy", "ensure"}

ASSUME CallersAssumption == Callers = Producers \cup Slots \cup {User} /\ Producers \subseteq Leases
ASSUME ProducersAssumption == SourceOf \in [Producers -> Sources] /\ TargetOf \in [Producers -> Slots]
ASSUME StatusAssumption == {"Starting", "Ready"} \subseteq Constraints
ASSUME SettingsAssumption == Settings \subseteq [calls : SUBSET Producers, left : [Occasion -> Nat]]

VARIABLES
    rows,      \* mailbox rows: the slots they are addressed to
    unread,    \* rows with read = false
    attach,    \* slot -> how far the attach of its member has come
    permit,    \* slot -> permit of the Notify of its event loop
    producer,  \* producer -> where it is and what it holds
    loop,      \* slot -> where its event loop is and what it holds
    user,      \* where the user's request is and what it holds
    started,   \* history: message -> turns that started with it, since one could not mark it read
    abandoned, \* history: rows a rejected send or a cancel could not mark read
    left       \* bound: occasion -> how often it may still happen

mailboxVars == <<rows, unread>>
historyVars == <<started, abandoned>>
deliveryVars == <<workVars, mailboxVars, attach, permit, producer, loop, user, historyVars, left>>

ProducerRecord ==
    [at : {"begin", "find", "publish", "acquire", "write", "commit", "compensate", "notify", "done", "failed"},
     message : Messages \cup {NoMessage}, constraint : {"Starting", "Ready"}]

LoopRecord ==
    [at : {"waiting", "deferred", "prepare", "peek", "reconcile", "next", "signals", "starting",
           "cancelling", "running", "ending", "settle"},
     op : 0..MaxOps, seen : SUBSET Messages, signals : SUBSET IntentId,
     outcome : {"Completed", "Failed"}]

UserRecord ==
    [at : {"idle", "cancel_run", "mark_read", "cancel_batch"},
     op : 0..MaxOps, messages : SUBSET Messages]

\* An event loop between two batches.
Between(place) == [at |-> place, op |-> 0, seen |-> {}, signals |-> {}, outcome |-> "Completed"]

DeliveryInit ==
    /\ WorkInit
    /\ rows = <<>>
    /\ unread = {}
    /\ attach = [s \in Slots |-> "attaching"]
    /\ permit = [s \in Slots |-> FALSE]
    /\ \E setting \in Settings :
          /\ producer = [p \in Producers |->
                [at |-> IF p \in setting.calls THEN "begin" ELSE "done",
                 message |-> NoMessage, constraint |-> "Starting"]]
          /\ left = setting.left
    /\ loop = [s \in Slots |-> Between("waiting")]
    /\ user = [at |-> "idle", op |-> 0, messages |-> {}]
    /\ started = [m \in Messages |-> 0]
    /\ abandoned = {}

----------------------------------------------------------------------------
Happens(occasion) ==
    left[occasion] > 0 /\ left' = [left EXCEPT ![occasion] = @ - 1]

\* mark_read_batch, and its failure.
MarkRead(ids) == unread' = unread \ ids /\ UNCHANGED <<rows, left>>
MarkFails == Happens("mark_fails") /\ UNCHANGED mailboxVars

HasLoop(s) == attach[s] # "attaching"

\* The member's status in the registry, as a constraint.
MemberStatus(s) == IF HasLoop(s) THEN "Ready" ELSE "Starting"

\* Producers.

\* wake_leader_after_recovery_message: the row is written before anything else.
WritesFirst(source) == source \in {"InterruptedNotification", "SpawnAttachFailure"}

ProducerGoes(p, place) == producer' = [producer EXCEPT ![p].at = place]

ProducerAt(p, place) == producer[p].at = place /\ Idle(p)

\* Mutant: the id of the row is not the one that is returned.
WriteOtherRow(p) ==
    LET m == Len(rows) + 1
    IN  /\ m \in Messages
        /\ rows' = Append(rows, TargetOf[p])
        /\ unread' = unread \cup {m + 1}
        /\ producer' = [producer EXCEPT ![p].message = m,
                            ![p].at = IF @ = "begin" THEN "find" ELSE "commit"]

\* write_with_files
WriteRow(p) ==
    LET m == Len(rows) + 1
    IN  /\ m \in Messages
        /\ rows' = Append(rows, TargetOf[p])
        /\ unread' = unread \cup {m}
        /\ producer' = [producer EXCEPT ![p].message = m,
                            ![p].at = IF @ = "begin" THEN "find" ELSE "commit"]

\* The member status is read before it is published.
BeginSend(p) ==
    /\ ProducerAt(p, "begin")
    /\ IF WritesFirst(SourceOf[p])
       THEN WriteRow(p)
       ELSE /\ producer' = [producer EXCEPT ![p].at = "publish", ![p].constraint = MemberStatus(TargetOf[p])]
            /\ UNCHANGED mailboxVars
    /\ UNCHANGED <<workVars, attach, permit, loop, user, historyVars>>

\* The row is enqueued only while it is unread.
FindRow(p) ==
    /\ ProducerAt(p, "find")
    /\ producer' = IF producer[p].message \in unread
                   THEN [producer EXCEPT ![p].at = "publish", ![p].constraint = MemberStatus(TargetOf[p])]
                   ELSE [producer EXCEPT ![p].at = "done"]
    /\ UNCHANGED <<workVars, mailboxVars, attach, permit, loop, user, historyVars>>

\* publish_runtime_constraint, with the status read before.
PublishConstraint(p) ==
    /\ ProducerAt(p, "publish")
    /\ Constrain(p, TargetOf[p], producer[p].constraint)
    /\ ProducerGoes(p, "acquire")
    /\ UNCHANGED <<mailboxVars, attach, permit, loop, user, historyVars>>

AcquireLease(p) ==
    /\ ProducerAt(p, "acquire")
    /\ Acquire(p, p, TargetOf[p], SourceOf[p], NoSlot)
    /\ ProducerGoes(p, IF SourceOf[p] \in SignalSources \/ WritesFirst(SourceOf[p]) THEN "commit" ELSE "write")
    /\ UNCHANGED <<mailboxVars, attach, permit, loop, user, historyVars>>

WriteMessage(p) ==
    /\ ProducerAt(p, "write")
    /\ WriteRow(p)
    /\ UNCHANGED <<workVars, attach, permit, loop, user, historyVars>>

LeaseOf(p) == {l \in leases : l.id = p}

\* A failed write gives the lease back, if it is still there.
FailWrite(p) ==
    /\ ProducerAt(p, "write")
    /\ Happens("write_fails")
    /\ \/ \E l \in LeaseOf(p) : Abort(p, l)
       \/ LeaseOf(p) = {} /\ UNCHANGED workVars
    /\ ProducerGoes(p, "failed")
    /\ UNCHANGED <<mailboxVars, attach, permit, loop, user, historyVars>>

\* commit_persisted_enqueue: a lease that was cancelled meanwhile is rejected.
CommitLease(p) ==
    /\ ProducerAt(p, "commit")
    /\ \/ /\ \E l \in LeaseOf(p) : Commit(p, l, producer[p].message)
          /\ ProducerGoes(p, "notify")
       \/ /\ LeaseOf(p) = {}
          /\ ProducerGoes(p, IF producer[p].message = NoMessage THEN "failed" ELSE "compensate")
          /\ UNCHANGED workVars
    /\ UNCHANGED <<mailboxVars, attach, permit, loop, user, historyVars>>

\* Mutant: the row of a rejected commit is left as it is.
CompensateForgets(p) ==
    /\ ProducerAt(p, "compensate")
    /\ ProducerGoes(p, "failed")
    /\ UNCHANGED <<workVars, mailboxVars, left, attach, permit, loop, user, historyVars>>

\* The row of a rejected commit is marked read; a failure is only logged.
Compensate(p) ==
    /\ ProducerAt(p, "compensate")
    /\ \/ MarkRead({producer[p].message}) /\ UNCHANGED abandoned
       \/ MarkFails /\ abandoned' = abandoned \cup {producer[p].message}
    /\ ProducerGoes(p, "failed")
    /\ UNCHANGED <<workVars, attach, permit, loop, user, started>>

\* EventLoopRegistry::notify; without an event loop nobody is told.
NotifyLoop(p) ==
    /\ ProducerAt(p, "notify")
    /\ permit' = [permit EXCEPT ![TargetOf[p]] = @ \/ HasLoop(TargetOf[p])]
    /\ ProducerGoes(p, "done")
    /\ UNCHANGED <<workVars, mailboxVars, attach, loop, user, historyVars>>

Send(p) ==
    \/ /\ BeginSend(p) \/ FindRow(p) \/ PublishConstraint(p) \/ AcquireLease(p)
          \/ WriteMessage(p) \/ CommitLease(p) \/ NotifyLoop(p)
       /\ UNCHANGED left
    \/ FailWrite(p) \/ Compensate(p)

----------------------------------------------------------------------------
\* The event loop of slot s.
LoopAt(s, place) == loop[s].at = place /\ Idle(s)

LoopGoes(s, place) == loop' = [loop EXCEPT ![s].at = place]

BatchMessages(op) == {intents[i].message : i \in batches[op].intents}

\* The messages handed to the turn: those of the batch that the peek saw.
Input(s) == BatchMessages(loop[s].op) \cap loop[s].seen

WakeLoop(s) ==
    /\ LoopAt(s, "waiting") \/ LoopAt(s, "deferred")
    /\ permit[s]
    /\ permit' = [permit EXCEPT ![s] = FALSE]
    /\ LoopGoes(s, "prepare")
    /\ UNCHANGED <<workVars, mailboxVars, attach, producer, user, historyVars>>

\* prepare_next_batch: the constraint is set again; an event loop has a ready member.
Prepare(s) ==
    /\ LoopAt(s, "prepare")
    /\ Constrain(s, s, MemberStatus(s))
    /\ LoopGoes(s, "peek")
    /\ UNCHANGED <<mailboxVars, attach, permit, producer, user, historyVars>>

PeekUnread(s) ==
    /\ LoopAt(s, "peek")
    /\ loop' = [loop EXCEPT ![s].at = "reconcile", ![s].seen = {m \in unread : rows[m] = s}]
    /\ UNCHANGED <<workVars, mailboxVars, attach, permit, producer, user, historyVars>>

\* The batch cannot be prepared: its loop waits for the next notify.
PeekFails(s) ==
    /\ LoopAt(s, "peek")
    /\ Happens("prepare_fails")
    /\ loop' = [loop EXCEPT ![s] = Between("deferred")]
    /\ UNCHANGED <<workVars, mailboxVars, attach, permit, producer, user, historyVars>>

Reconcile(s) ==
    /\ LoopAt(s, "reconcile")
    /\ \/ ReconcileUntold(s, loop[s].seen)
       \/ Stale(s, loop[s].seen) \cup Unowned(s, loop[s].seen) = {} /\ UNCHANGED workVars
    /\ LoopGoes(s, "next")
    /\ UNCHANGED <<mailboxVars, attach, permit, producer, user, historyVars>>

ClaimNext(s) ==
    /\ LoopAt(s, "next")
    /\ Claim(s, s)
    /\ loop' = [loop EXCEPT ![s].at = "starting", ![s].op = active'[s]]
    /\ UNCHANGED <<mailboxVars, attach, permit, producer, user, historyVars>>

FindSignals(s) ==
    /\ LoopAt(s, "next")
    /\ \E ids \in SUBSET queued[s] :
          /\ SignalsToSettle(s, ids)
          /\ loop' = [loop EXCEPT ![s].at = "signals", ![s].signals = ids]
    /\ UNCHANGED <<workVars, mailboxVars, attach, permit, producer, user, historyVars>>

\* WaitingForCompletion, Blocked, Quiescent
NothingToDo(s) == ~Claimable(s) \/ queued[s] = {}

\* Mutant: going to wait forgets the permit of a notify that came meanwhile.
WaitForgetsPermit(s) ==
    /\ LoopAt(s, "next")
    /\ NothingToDo(s)
    /\ loop' = [loop EXCEPT ![s] = Between("waiting")]
    /\ permit' = [permit EXCEPT ![s] = FALSE]
    /\ UNCHANGED <<workVars, mailboxVars, attach, producer, user, historyVars>>

WaitAgain(s) ==
    /\ LoopAt(s, "next")
    /\ NothingToDo(s)
    /\ loop' = [loop EXCEPT ![s] = Between("waiting")]
    /\ UNCHANGED <<workVars, mailboxVars, attach, permit, producer, user, historyVars>>

\* handle_signal_intents; a rejected settlement changes nothing.
HandleSignals(s) ==
    /\ LoopAt(s, "signals")
    /\ \/ SettleSignals(s, s, loop[s].signals)
       \/ (\E i \in loop[s].signals : intents[i].state # "Queued") /\ UNCHANGED workVars
    /\ loop' = [loop EXCEPT ![s] = Between("prepare")]
    /\ UNCHANGED <<mailboxVars, attach, permit, producer, user, historyVars>>

\* The turn has started (on_started).  A superseded batch is cancelled at once
\* when all of it was cancelled, a current one when the slot was paused or its
\* member is not ready; otherwise the turn runs.
AllCancelled(op) == \A i \in batches[op].intents : intents[i].state = "Cancelled"

CancelImmediately(s, op) ==
    IF Current(op) THEN paused[s] \/ constraint[s] # "Ready" ELSE AllCancelled(op)

TurnStarted(s) ==
    LET op == loop[s].op
    IN  /\ LoopAt(s, "starting")
        /\ \/ Start(s, op)
           \/ ~Current(op) /\ UNCHANGED workVars
        /\ LoopGoes(s, IF CancelImmediately(s, op) THEN "cancelling" ELSE "running")
        /\ started' = [m \in Messages |-> IF m \in Input(s) THEN started[m] + 1 ELSE started[m]]
        /\ UNCHANGED <<mailboxVars, attach, permit, producer, user, abandoned>>

TerminalizeIfCurrent(c, op, st) ==
    \/ Terminalize(c, op, st)
    \/ ~Current(op) /\ UNCHANGED workVars

\* Mutant: the batch of a late start is settled at once.
CancelLateStartSettles(s) ==
    /\ LoopAt(s, "cancelling")
    /\ TerminalizeIfCurrent(s, loop[s].op, "Cancelled")
    /\ LoopGoes(s, "settle")
    /\ UNCHANGED <<mailboxVars, attach, permit, producer, user, historyVars>>

\* The turn is cancelled, then its batch ("late_start_cancelled").
CancelLateStart(s) ==
    /\ LoopAt(s, "cancelling")
    /\ TerminalizeIfCurrent(s, loop[s].op, "Cancelled")
    /\ LoopGoes(s, "ending")
    /\ UNCHANGED <<mailboxVars, attach, permit, producer, user, historyVars>>

\* Another turn of the conversation is running, or the tasks for the prompt cannot
\* be listed: the batch goes back and the loop waits for the next notify.
SkipBusy(s) ==
    /\ LoopAt(s, "starting")
    /\ Happens("busy")
    /\ \/ Retry(s, loop[s].op)
       \/ ~Current(loop[s].op) /\ UNCHANGED workVars
    /\ loop' = [loop EXCEPT ![s] = Between("deferred")]
    /\ UNCHANGED <<mailboxVars, attach, permit, producer, user, historyVars>>

\* The turn did not start and will not be retried.
TurnFailsToStart(s) ==
    /\ LoopAt(s, "starting")
    /\ Happens("turn_fails")
    /\ loop' = [loop EXCEPT ![s].at = "ending", ![s].outcome = "Failed"]
    /\ UNCHANGED <<workVars, mailboxVars, attach, permit, producer, user, historyVars>>

\* The turn is over: mark_batch_messages_read.  When that fails the rows, still
\* unread, are recovered and given to another turn.
TurnEnds(s) ==
    LET messages == BatchMessages(loop[s].op)
    IN  /\ LoopAt(s, "running") \/ LoopAt(s, "ending")
        /\ \/ MarkRead(messages) /\ UNCHANGED started
           \/ MarkFails /\ started' = [m \in Messages |-> IF m \in messages THEN 0 ELSE started[m]]
        /\ LoopGoes(s, "settle")
        /\ UNCHANGED <<workVars, attach, permit, producer, user, abandoned>>

\* Then the outcome of the turn is recorded.
SettleBatch(s) ==
    /\ LoopAt(s, "settle")
    /\ \/ TerminalizeIfCurrent(s, loop[s].op, loop[s].outcome) /\ UNCHANGED left
       \/ TerminalizeIfCurrent(s, loop[s].op, "Failed") /\ Happens("turn_fails")
    /\ loop' = [loop EXCEPT ![s] = Between("prepare")]
    /\ UNCHANGED <<mailboxVars, attach, permit, producer, user, historyVars>>

LoopRuns(s) ==
    \/ /\ WakeLoop(s) \/ Prepare(s) \/ PeekUnread(s) \/ Reconcile(s)
          \/ ClaimNext(s) \/ FindSignals(s) \/ WaitAgain(s) \/ HandleSignals(s)
          \/ TurnStarted(s) \/ CancelLateStart(s)
       /\ UNCHANGED left
    \/ TurnEnds(s) \/ SettleBatch(s)

LoopFails(s) == PeekFails(s) \/ SkipBusy(s) \/ TurnFailsToStart(s)

----------------------------------------------------------------------------
\* attach_member_runtime: the event loop is registered and the member ready; the
\* slot is told afterwards.
AttachReady(s) ==
    /\ attach[s] = "attaching"
    /\ attach' = [attach EXCEPT ![s] = "telling"]
    /\ UNCHANGED <<workVars, mailboxVars, permit, producer, loop, user, historyVars>>

TellReady(s) ==
    /\ attach[s] = "telling"
    /\ BecomeReady(s)
    /\ permit' = [permit EXCEPT ![s] = TRUE]
    /\ attach' = [attach EXCEPT ![s] = "attached"]
    /\ UNCHANGED <<mailboxVars, producer, loop, user, historyVars>>

\* spawn_attach of a member that is ready already.
EnsureAgain(s) ==
    /\ attach[s] = "attached"
    /\ Happens("ensure")
    /\ attach' = [attach EXCEPT ![s] = "telling"]
    /\ UNCHANGED <<workVars, mailboxVars, permit, producer, loop, user, historyVars>>

----------------------------------------------------------------------------
Attaches(s) ==
    \/ (AttachReady(s) \/ TellReady(s)) /\ UNCHANGED left
    \/ EnsureAgain(s)

----------------------------------------------------------------------------
\* The user.
UserAt(place) == user.at = place /\ Idle(User)

\* cancel_run: the manager first, then the coordinator.
UserCancelsRun ==
    /\ UserAt("idle")
    /\ Happens("stop")
    /\ BeginCancel(User)
    /\ user' = [user EXCEPT !.at = "cancel_run"]
    /\ UNCHANGED <<mailboxVars, attach, permit, producer, loop, historyVars>>

CancelRunWork ==
    /\ user.at = "cancel_run"
    /\ FinishCancel(User)
    /\ user' = [user EXCEPT !.at = "mark_read",
                   !.messages = {intents[i].message : i \in {i \in DOMAIN intents :
                       intents[i].state \in Live /\ intents'[i].state = "Cancelled"}} \ {NoMessage}]
    /\ UNCHANGED <<mailboxVars, attach, permit, producer, loop, historyVars>>

\* The messages of the cancelled work are marked read; a failure ends the request.
MarkCancelledRead ==
    /\ UserAt("mark_read")
    /\ \/ MarkRead(user.messages) /\ UNCHANGED abandoned
       \/ MarkFails /\ abandoned' = abandoned \cup user.messages
    /\ user' = [user EXCEPT !.at = "idle", !.messages = {}]
    /\ UNCHANGED <<workVars, attach, permit, producer, loop, started>>

\* pause_slot_work, while a run is active: the batch it finds active is cancelled,
\* unless the turn of the batch cannot be.
UserPausesSlot(s) ==
    /\ UserAt("idle")
    /\ Happens("stop")
    /\ Active(run)
    /\ Pause(User, s)
    /\ \/ (active[s] = 0 \/ turn[s]) /\ UNCHANGED user
       \/ active[s] # 0 /\ user' = [user EXCEPT !.at = "cancel_batch", !.op = active[s]]
    /\ UNCHANGED <<mailboxVars, attach, permit, producer, loop, historyVars>>

CancelPausedBatch ==
    /\ UserAt("cancel_batch")
    /\ TerminalizeIfCurrent(User, user.op, "Cancelled")
    /\ user' = [user EXCEPT !.at = "idle", !.op = 0]
    /\ UNCHANGED <<mailboxVars, attach, permit, producer, loop, historyVars>>

UserContinues ==
    \/ (CancelRunWork \/ CancelPausedBatch) /\ UNCHANGED left
    \/ MarkCancelledRead

UserActs == UserCancelsRun \/ \E s \in Slots : UserPausesSlot(s)

\* The calls of c to the run manager that its last call of the coordinator left.
TellManager(c) ==
    /\ AbortBinding(c) \/ ApplyWorkSummary(c)
    /\ UNCHANGED <<mailboxVars, attach, permit, producer, loop, user, historyVars, left>>

----------------------------------------------------------------------------
DeliveryNext ==
    \/ \E p \in Producers : Send(p)
    \/ \E s \in Slots : LoopRuns(s) \/ LoopFails(s)
    \/ \E s \in Slots : Attaches(s)
    \/ UserActs \/ UserContinues
    \/ \E c \in Callers : TellManager(c)

DeliverySpec == DeliveryInit /\ [][DeliveryNext]_deliveryVars

\* While a task of the runtime can go on, one of them does; calls are made, runs
\* cancelled, slots paused, sessions ensured again and turns kept from starting at will.
GoesOn ==
    \/ \E p \in Producers : producer[p].at # "begin" /\ Send(p)
    \/ \E s \in Slots : LoopRuns(s) \/ (attach[s] # "attached" /\ Attaches(s))
    \/ UserContinues
    \/ \E c \in Callers : TellManager(c)

FairDeliverySpec == DeliverySpec /\ WF_deliveryVars(GoesOn)

----------------------------------------------------------------------------
DeliveryTypeOK ==
    /\ WorkTypeOK
    /\ rows \in Seq(Slots) /\ Len(rows) <= Cardinality(Messages)
    /\ unread \subseteq DOMAIN rows
    /\ attach \in [Slots -> {"attaching", "telling", "attached"}]
    /\ permit \in [Slots -> BOOLEAN]
    /\ producer \in [Producers -> ProducerRecord]
    /\ loop \in [Slots -> LoopRecord]
    /\ user \in UserRecord
    /\ started \in [Messages -> Nat]
    /\ abandoned \subseteq Messages
    /\ left \in [Occasion -> Nat]

\* A message is in the input of at most one turn, however its own enqueue, the
\* recovery of its row by reconcile_mailbox, retries and cancellations interleave;
\* it is given to another only when its row could not be marked read after the
\* first (event_loop.rs:369).
AtMostOneTurn == \A m \in Messages : started[m] <= 1

\* The sender of message m has not returned.
InSender(m) == \E p \in Producers : producer[p].message = m /\ producer[p].at \notin {"done", "failed"}

\* Sender p has published the status of its slot s and has not told the event loop:
\* that is still to come, or the call has failed.
Untold(p, s) ==
    TargetOf[p] = s /\ producer[p].at \in {"acquire", "write", "commit", "compensate", "notify", "failed"}

\* The event loop of slot s has been told, or is about to be.
WakeupAhead(s) == permit[s] \/ \E p \in Producers : TargetOf[p] = s /\ producer[p].at = "notify"

\* A sender has set slot s back to Starting, from a status read before the attach
\* ended, and the constraint the slot has now is such a sender's too.
SetBack(s) ==
    /\ \E p \in Producers : Untold(p, s) /\ producer[p].constraint = "Starting"
    /\ \E p \in Producers : Untold(p, s) /\ producer[p].constraint = constraint[s]

\* No message is forgotten: an unread row of an attached slot that is not paused has
\* its sender, a cancellation, the loop or a wakeup still ahead of it, although
\* reconcile_mailbox may clear its intent on a peek older than the row and the
\* loop may be on its way to sleep when the notify comes.  Three things are left
\* to the next notify of the slot, whenever it comes: what is behind a batch that
\* was not prepared or went back (the loop is deferred), a slot whose constraint a
\* sender set back that has not told the loop, and a row that a rejected send or a
\* cancel could not mark read.
NoMessageStranded ==
    \A m \in unread : LET s == rows[m] IN
        attach[s] = "attached" /\ ~paused[s] =>
            \/ InSender(m)
            \/ m \in user.messages
            \/ WakeupAhead(s)
            \/ loop[s].at # "waiting"
            \/ SetBack(s)
            \/ m \in abandoned

\* Every message is read in the end, by its turn or with the failure, the
\* cancellation or the rejection of its work: in the long run an unread one is in a
\* paused slot or is one of those left to a notify that does not come.
EveryMessageIsSettled ==
    <>[](\A m \in unread : LET s == rows[m] IN
            \/ paused[s]
            \/ loop[s].at = "deferred"
            \/ SetBack(s)
            \/ m \in abandoned)

\* A row is marked read by a turn only if the turn was given it ("Called after
\* successful prompt delivery", mailbox.rs:129).
TurnsReadWhatTheyWereGiven ==
    \A s \in Slots : loop[s].at = "running" => BatchMessages(loop[s].op) \ {NoMessage} \subseteq loop[s].seen

\* What a cancelled run was to deliver is not delivered by a later turn ("so a
\* cancelled run does not consume them later", mailbox.rs:149).
CancelledMessagesStayOut ==
    \A s \in Slots : loop[s].at = "running" =>
        \A i \in DOMAIN intents :
            intents[i].message \in Input(s) /\ intents[i].state = "Cancelled"
                => i \in batches[loop[s].op].intents
=============================================================================
