------------------------- MODULE TeamDeliveryProofs -------------------------
(***************************************************************************)
(* Proofs about TeamDelivery, for any number of senders, slots, messages,   *)
(* failures and cancels: every step of the delivery is a step of TeamWork,   *)
(* so that its theorems hold here too; a message is in the input of at most  *)
(* one turn unless it could not be marked read; and none is stranded while   *)
(* its slot is attached and not paused.                                     *)
(***************************************************************************)
EXTENDS TeamDelivery, TeamWorkProofs

\* What the variables that are not TeamWork's hold.
DeliveryTyped ==
    /\ rows \in Seq(Slots) /\ DOMAIN rows \subseteq Messages
    /\ unread \subseteq DOMAIN rows
    /\ attach \in [Slots -> {"attaching", "telling", "attached"}]
    /\ permit \in [Slots -> BOOLEAN]
    /\ producer \in [Producers -> ProducerRecord]
    /\ loop \in [Slots -> LoopRecord]
    /\ user \in UserRecord
    /\ started \in [Messages -> Nat]
    /\ abandoned \subseteq Messages
    /\ left \in [Occasion -> Nat]

Peeked == {"reconcile", "next", "starting"}
InTurn == {"cancelling", "running", "ending"}

\* What an event loop with record l holds of slot s is still there.
Holds(s, l) ==
    /\ l.signals \subseteq DOMAIN intents
    /\ l.at \in Peeked => \A m \in l.seen : m \in DOMAIN rows /\ rows[m] = s
    /\ l.at \in InTurn \cup {"starting"} => l.op \in DOMAIN batches

\* A message a turn has started with is out of reach of the event loop with
\* record l: it has been read and is in no peek that is still used, or the turn
\* that will mark it read is the one it is in.
Spent(m, l) ==
    \/ m \notin unread /\ (l.at \in Peeked => m \notin l.seen)
    \/ l.at \in InTurn /\ m \in BatchMessages(l.op)

HandedOnce ==
    \A m \in Messages :
        /\ started[m] <= 1
        /\ started[m] >= 1 => m \in DOMAIN rows /\ Spent(m, loop[rows[m]])

\* A sender has its message once it has written the row, and only then: a signal has none.
SenderHolds(p) ==
    /\ producer[p].at = "begin" => producer[p].message = NoMessage
    /\ producer[p].at = "find" => WritesFirst(SourceOf[p]) /\ producer[p].message # NoMessage
    /\ producer[p].at \in {"publish", "acquire"} =>
          (producer[p].message # NoMessage <=> WritesFirst(SourceOf[p]))
    /\ producer[p].at = "write" =>
          producer[p].message = NoMessage /\ ~WritesFirst(SourceOf[p]) /\ SourceOf[p] \notin SignalSources
    /\ producer[p].at = "commit" => (producer[p].message = NoMessage <=> SourceOf[p] \in SignalSources)
    /\ producer[p].at = "compensate" => producer[p].message # NoMessage

\* The row of a sender's message is addressed to its target.
Addressed(p) ==
    producer[p].message # NoMessage =>
        producer[p].message \in DOMAIN rows /\ rows[producer[p].message] = TargetOf[p]

SendersHold ==
    /\ \A p \in Producers : SenderHolds(p) /\ Addressed(p)
    /\ \A l \in leases : \A p \in Producers : l.id = p => l.slot = TargetOf[p] /\ l.source = SourceOf[p]

DeliveryIInv ==
    /\ WorkIInv
    /\ DeliveryTyped
    /\ \A s \in Slots : Holds(s, loop[s])
    /\ SendersHold
    /\ HandedOnce

----------------------------------------------------------------------------
(***************************************************************************)
(* Every step of the delivery is a step of TeamWork.                        *)
(***************************************************************************)
LEMMA CallersAre ==
  /\ \A p \in Producers : p \in Callers /\ p \in Leases /\ SourceOf[p] \in Sources /\ TargetOf[p] \in Slots
  /\ \A s \in Slots : s \in Callers
  /\ User \in Callers
  /\ "Starting" \in Constraints /\ "Ready" \in Constraints
  BY CallersAssumption, StatusAssumption, ProducersAssumption

LEMMA CallerWorks ==
  ASSUME NEW c \in Callers, Enqueue(c) \/ Execute(c) \/ Control(c) \/ PortStep(c)
  PROVE  [WorkNext]_workVars
  BY Zenon DEF WorkNext

LEMMA ConstrainWorks ==
  ASSUME NEW c \in Callers, NEW s \in Slots, NEW k \in {"Starting", "Ready"}, Constrain(c, s, k)
  PROVE  [WorkNext]_workVars
  <1>1. Control(c)
    BY CallersAre, Zenon DEF Control
  <1> QED
    BY <1>1, CallerWorks

LEMMA TerminalizeWorks ==
  ASSUME NEW c \in Callers, NEW op, NEW st \in Terminal, TerminalizeIfCurrent(c, op, st)
  PROVE  [WorkNext]_workVars
  <1>1. CASE Terminalize(c, op, st)
    <2>1. op \in DOMAIN batches
      BY <1>1 DEF Terminalize, TerminalizeBatch, Current
    <2>2. Execute(c)
      BY <1>1, <2>1, Zenon DEF Execute
    <2> QED
      BY <2>2, CallerWorks
  <1> QED
    BY <1>1 DEF TerminalizeIfCurrent

LEMMA SendWorks ==
  ASSUME DeliveryIInv, NEW p \in Producers, Send(p)
  PROVE  [WorkNext]_workVars
  <1>0. /\ p \in Callers /\ p \in Leases /\ TargetOf[p] \in Slots /\ SourceOf[p] \in Sources
        /\ producer[p].message \in Messages \cup {NoMessage} /\ producer[p].constraint \in {"Starting", "Ready"}
    BY CallersAre DEF DeliveryIInv, DeliveryTyped, ProducerRecord
  <1>1. CASE PublishConstraint(p)
    <2>1. Constrain(p, TargetOf[p], producer[p].constraint)
      BY <1>1 DEF PublishConstraint
    <2> QED
      BY <1>0, <2>1, ConstrainWorks
  <1>2. CASE AcquireLease(p)
    <2>1. Acquire(p, p, TargetOf[p], SourceOf[p], NoSlot)
      BY <1>2 DEF AcquireLease
    <2>2. Enqueue(p)
      BY <1>0, <2>1, Zenon DEF Enqueue
    <2> QED
      BY <1>0, <2>2, CallerWorks
  <1>3. ASSUME NEW l \in leases, Abort(p, l) PROVE [WorkNext]_workVars
    <2>1. Enqueue(p)
      BY <1>3, Zenon DEF Enqueue
    <2> QED
      BY <1>0, <2>1, CallerWorks
  <1>4. ASSUME NEW l \in LeaseOf(p), producer[p].at = "commit", Commit(p, l, producer[p].message)
        PROVE  [WorkNext]_workVars
    <2>1. l \in leases /\ l.source = SourceOf[p]
      BY DEF LeaseOf, DeliveryIInv, SendersHold
    <2>2. Commits(l, producer[p].message)
      BY <1>4, <2>1 DEF DeliveryIInv, SendersHold, SenderHolds, Commits, RequiresMailboxMessage
    <2>3. Enqueue(p)
      BY <1>0, <1>4, <2>1, <2>2, Zenon DEF Enqueue
    <2> QED
      BY <1>0, <2>3, CallerWorks
  <1>5. CASE FailWrite(p)
    BY <1>3, <1>5 DEF FailWrite, LeaseOf
  <1>6. CASE CommitLease(p)
    BY <1>4, <1>6 DEF CommitLease, ProducerAt
  <1>7. CASE BeginSend(p) \/ FindRow(p) \/ WriteMessage(p) \/ Compensate(p) \/ NotifyLoop(p)
    BY <1>7 DEF BeginSend, FindRow, WriteMessage, Compensate, NotifyLoop
  <1> QED
    BY <1>1, <1>2, <1>5, <1>6, <1>7 DEF Send

LEMMA LoopWorks ==
  ASSUME DeliveryIInv, NEW s \in Slots, LoopRuns(s) \/ LoopFails(s)
  PROVE  [WorkNext]_workVars
  <1>0. s \in Callers /\ loop[s] \in LoopRecord /\ Holds(s, loop[s])
    BY CallersAre DEF DeliveryIInv, DeliveryTyped
  <1>1. CASE Prepare(s)
    <2>1. Constrain(s, s, MemberStatus(s)) /\ MemberStatus(s) \in {"Starting", "Ready"}
      BY <1>1 DEF Prepare, MemberStatus
    <2> QED
      BY <1>0, <2>1, ConstrainWorks
  <1>2. CASE Reconcile(s)
    <2>1. loop[s].seen \in SUBSET Messages
      BY <1>0 DEF LoopRecord
    <2>2. CASE ReconcileUntold(s, loop[s].seen)
      <3>1. UntoldStep
        BY <2>1, <2>2, Zenon DEF UntoldStep
      <3> QED
        BY <3>1, Zenon DEF WorkNext
    <2> QED
      BY <1>2, <2>2 DEF Reconcile
  <1>3. CASE ClaimNext(s)
    <2>1. Execute(s)
      BY <1>3, Zenon DEF ClaimNext, Execute
    <2> QED
      BY <1>0, <2>1, CallerWorks
  <1>4. CASE HandleSignals(s)
    <2>1. CASE SettleSignals(s, s, loop[s].signals)
      <3>1. loop[s].signals \in SUBSET DOMAIN intents
        BY <1>0 DEF Holds
      <3>2. Execute(s)
        BY <2>1, <3>1, Zenon DEF Execute
      <3> QED
        BY <1>0, <3>2, CallerWorks
    <2> QED
      BY <1>4, <2>1 DEF HandleSignals
  <1>5. ASSUME NEW op, Start(s, op) \/ Retry(s, op) PROVE [WorkNext]_workVars
    <2>1. op \in DOMAIN batches
      BY <1>5 DEF Start, MarkStarted, Retry, RetryStart, Current
    <2>2. Execute(s)
      BY <1>5, <2>1, Zenon DEF Execute
    <2> QED
      BY <1>0, <2>2, CallerWorks
  <1>6. CASE TurnStarted(s) \/ SkipBusy(s)
    BY <1>5, <1>6 DEF TurnStarted, SkipBusy
  <1>7. CASE CancelLateStart(s)
    BY <1>0, <1>7, TerminalizeWorks DEF CancelLateStart, Terminal
  <1>8. CASE SettleBatch(s)
    <2>1. \E st \in {"Completed", "Failed"} : TerminalizeIfCurrent(s, loop[s].op, st)
      BY <1>0, <1>8 DEF SettleBatch, LoopRecord
    <2> QED
      BY <1>0, <2>1, TerminalizeWorks DEF Terminal
  <1>9. CASE \/ WakeLoop(s) \/ PeekUnread(s) \/ FindSignals(s) \/ WaitAgain(s) \/ TurnEnds(s)
             \/ PeekFails(s) \/ TurnFailsToStart(s)
    BY <1>9 DEF WakeLoop, PeekUnread, FindSignals, WaitAgain, TurnEnds, PeekFails, TurnFailsToStart
  <1> QED
    BY <1>1, <1>2, <1>3, <1>4, <1>6, <1>7, <1>8, <1>9 DEF LoopRuns, LoopFails

\* A step of neither a sender nor an event loop.
OtherStep ==
    \/ \E s \in Slots : Attaches(s)
    \/ UserActs \/ UserContinues
    \/ \E c \in Callers : TellManager(c)

LEMMA OthersWork ==
  ASSUME DeliveryIInv, OtherStep
  PROVE  [WorkNext]_workVars
  <1>0. User \in Callers
    BY CallersAre
  <1>1. ASSUME NEW s \in Slots, Attaches(s) PROVE [WorkNext]_workVars
    <2>1. CASE TellReady(s)
      <3>1. UntoldStep
        BY <2>1, Zenon DEF TellReady, UntoldStep
      <3> QED
        BY <3>1, Zenon DEF WorkNext
    <2> QED
      BY <1>1, <2>1 DEF Attaches, AttachReady, EnsureAgain
  <1>2. CASE UserActs
    <2>1. Control(User)
      BY <1>2, Zenon DEF UserActs, UserCancelsRun, UserPausesSlot, Control
    <2> QED
      BY <1>0, <2>1, CallerWorks
  <1>3. CASE CancelRunWork
    <2>1. PortStep(User)
      BY <1>3, Zenon DEF CancelRunWork, PortStep
    <2> QED
      BY <1>0, <2>1, CallerWorks
  <1>4. CASE CancelPausedBatch
    BY <1>0, <1>4, TerminalizeWorks DEF CancelPausedBatch, Terminal
  <1>5. CASE MarkCancelledRead
    BY <1>5 DEF MarkCancelledRead
  <1>6. ASSUME NEW c \in Callers, TellManager(c) PROVE [WorkNext]_workVars
    <2>1. PortStep(c)
      BY <1>6 DEF TellManager, PortStep
    <2> QED
      BY <2>1, CallerWorks
  <1> QED
    BY <1>1, <1>2, <1>3, <1>4, <1>5, <1>6 DEF OtherStep, UserContinues

LEMMA DeliveryWorks == DeliveryIInv /\ [DeliveryNext]_deliveryVars => [WorkNext]_workVars
  <1> SUFFICES ASSUME DeliveryIInv, [DeliveryNext]_deliveryVars PROVE [WorkNext]_workVars
    OBVIOUS
  <1>1. CASE UNCHANGED deliveryVars
    BY <1>1 DEF deliveryVars
  <1>2. CASE DeliveryNext
    BY <1>2, SendWorks, LoopWorks, OthersWork DEF DeliveryNext, OtherStep
  <1> QED
    BY <1>1, <1>2

\* What every step does to the work: batches and the messages of intents stay.
BatchesStay ==
    \A op \in DOMAIN batches : op \in DOMAIN batches' /\ batches'[op] = batches[op]

WorkMoves == WorkIInv' /\ Keeps /\ BatchesStay

LEMMA NextBatches ==
  ASSUME IInv, IInv', [Next]_coordinatorVars
  PROVE  BatchesStay
  <1>1. CASE UNCHANGED batches
    BY <1>1 DEF BatchesStay
  <1>2. CASE \E b : batches' = Append(batches, b)
    <2>1. batches \in Seq(WorkBatch) /\ batches' \in Seq(WorkBatch)
      BY DEF IInv, TypeOK
    <2> QED
      BY <1>2, <2>1 DEF BatchesStay
  <1>3. CASE ProducerStep \/ ControlStep
    BY <1>1, <1>3, Zenon DEF ProducerStep, AcquireEnqueue, CommitEnqueue, AbortEnqueue, ControlStep, CancelRun, PauseSlot,
       RemoveSlot, SetConstraint, StopSession
  <1>4. ASSUME NEW s \in Slots, LoopStep(s) PROVE BatchesStay
    <2>1. CASE ClaimBatch(s)
      BY <1>2, <2>1 DEF ClaimBatch
    <2> QED
      BY <1>1, <1>4, <2>1, Zenon DEF LoopStep, ReconcileMailbox, CompleteSignals
  <1>5. ASSUME NEW op \in DOMAIN batches, BatchStep(op) PROVE BatchesStay
    BY <1>1, <1>5, Zenon DEF BatchStep, MarkStarted, RetryStart, TerminalizeBatch
  <1>6. CASE UNCHANGED coordinatorVars
    BY <1>1, <1>6 DEF coordinatorVars
  <1> QED
    BY <1>3, <1>4, <1>5, <1>6 DEF Next

LEMMA DeliveryMoves == DeliveryIInv /\ [DeliveryNext]_deliveryVars => WorkMoves
  <1> SUFFICES ASSUME DeliveryIInv, [DeliveryNext]_deliveryVars PROVE WorkMoves
    OBVIOUS
  <1>1. Maps
    BY DeliveryWorks, WorkStepMaps DEF DeliveryIInv
  <1>2. BatchesStay
    BY <1>1, NextBatches DEF Maps, Good, DeliveryIInv, WorkIInv
  <1> QED
    BY <1>1, <1>2 DEF Maps, Good, WorkIInv, WorkMoves

----------------------------------------------------------------------------
LEMMA BatchKept ==
  ASSUME DeliveryIInv, WorkMoves, NEW op \in DOMAIN batches
  PROVE  BatchMessages(op)' = BatchMessages(op)
  <1>1. \A i \in batches[op].intents : i \in DOMAIN intents
    BY DEF DeliveryIInv, WorkIInv, IInv, Ordered, BatchesHoldTheirSlot
  <1>2. batches'[op] = batches[op] /\ \A i \in batches[op].intents : intents'[i].message = intents[i].message
    BY <1>1 DEF WorkMoves, Keeps, BatchesStay
  <1> QED
    BY <1>2 DEF BatchMessages

LEMMA RowsAre ==
  ASSUME DeliveryIInv
  PROVE  /\ Len(rows) \in Nat /\ DOMAIN rows = 1..Len(rows) /\ DOMAIN rows \subseteq Messages
         /\ unread \subseteq DOMAIN rows /\ NoMessage \notin unread
         /\ \A m \in DOMAIN rows : rows[m] \in Slots
  <1>1. rows \in Seq(Slots)
    BY DEF DeliveryIInv, DeliveryTyped
  <1> QED
    BY <1>1, LenProperties, ElementOfSeq, MessagesAssumption DEF DeliveryIInv, DeliveryTyped

LEMMA HappensTyped ==
  ASSUME DeliveryIInv, NEW occasion \in Occasion, Happens(occasion)
  PROVE  left' \in [Occasion -> Nat]
  <1>1. left \in [Occasion -> Nat] /\ left[occasion] > 0
    BY DEF DeliveryIInv, DeliveryTyped, Happens
  <1>2. left[occasion] - 1 \in Nat
    BY <1>1
  <1> QED
    BY <1>1, <1>2 DEF Happens

LEMMA LeftTyped ==
  ASSUME DeliveryIInv, UNCHANGED left \/ \E occasion \in Occasion : Happens(occasion)
  PROVE  left' \in [Occasion -> Nat]
  BY HappensTyped DEF DeliveryIInv, DeliveryTyped

\* A step that no event loop takes part in, and that writes new rows at most.
LEMMA LoopsStay ==
  ASSUME DeliveryIInv, WorkMoves, UNCHANGED <<loop, started>>,
         DOMAIN rows \subseteq DOMAIN rows', \A m \in DOMAIN rows : rows'[m] = rows[m],
         unread' \subseteq unread \cup (Messages \ DOMAIN rows)
  PROVE  (\A s \in Slots : Holds(s, loop[s])') /\ HandedOnce'
  <1>1. ASSUME NEW s \in Slots PROVE Holds(s, loop[s])'
    <2>1. Holds(s, loop[s])
      BY DEF DeliveryIInv
    <2>2. DOMAIN intents \subseteq DOMAIN intents' /\ DOMAIN batches \subseteq DOMAIN batches'
      BY DEF WorkMoves, Keeps, BatchesStay
    <2> QED
      BY <2>1, <2>2 DEF Holds
  <1>2. ASSUME NEW m \in Messages, started[m] >= 1
        PROVE  m \in DOMAIN rows' /\ Spent(m, loop[rows[m]])'
    <2>1. m \in DOMAIN rows /\ Spent(m, loop[rows[m]])
      BY <1>2 DEF DeliveryIInv, HandedOnce
    <2>2. PICK s \in Slots : s = rows[m] /\ rows'[m] = s
      BY <2>1, RowsAre
    <2>3. m \notin unread => m \notin unread'
      BY <2>1
    <2>4. CASE m \notin unread /\ (loop[s].at \in Peeked => m \notin loop[s].seen)
      BY <2>1, <2>2, <2>3, <2>4 DEF Spent
    <2>5. CASE loop[s].at \in InTurn /\ m \in BatchMessages(loop[s].op)
      <3>1. PICK op \in DOMAIN batches : op = loop[s].op /\ op = loop'[s].op
        BY <2>5 DEF DeliveryIInv, Holds
      <3>2. m \in BatchMessages(op)'
        BY <2>5, <3>1, BatchKept
      <3>3. m \in BatchMessages(loop[s].op)'
        BY <3>1, <3>2 DEF BatchMessages
      <3> QED
        BY <2>1, <2>2, <2>5, <3>3 DEF Spent, BatchMessages
    <2> QED
      BY <2>1, <2>2, <2>4, <2>5 DEF Spent
  <1>3. HandedOnce'
    BY <1>2 DEF DeliveryIInv, HandedOnce
  <1> QED
    BY <1>1, <1>3

\* A step of the event loop of slot s that no turn starts with.
LEMMA LoopAdvances ==
  ASSUME DeliveryIInv, WorkMoves, NEW s \in Slots, UNCHANGED rows, unread' \subseteq unread,
         \A m \in Messages : started'[m] \in {0, started[m]},
         \A t \in Slots \ {s} : loop'[t] = loop[t],
         loop'[s].signals \subseteq DOMAIN intents',
         loop'[s].at \in Peeked => \/ loop[s].at \in Peeked /\ loop'[s].seen = loop[s].seen
                                   \/ loop[s].at \notin InTurn /\ loop'[s].seen = {m \in unread : rows[m] = s},
         loop'[s].at = "starting" => loop'[s].op \in DOMAIN batches',
         loop'[s].at \in InTurn => loop[s].at \in InTurn \cup {"starting"} /\ loop'[s].op = loop[s].op,
         loop[s].at \in InTurn => \/ loop'[s].at \in InTurn
                                  \/ \A m \in BatchMessages(loop[s].op) \cap Messages : m \notin unread' \/ started'[m] = 0
  PROVE  (\A t \in Slots : Holds(t, loop[t])') /\ HandedOnce'
  <1>0. DOMAIN intents \subseteq DOMAIN intents' /\ DOMAIN batches \subseteq DOMAIN batches'
    BY DEF WorkMoves, Keeps, BatchesStay
  <1>1. Holds(s, loop[s])'
    <2>1. Holds(s, loop[s])
      BY DEF DeliveryIInv
    <2>2. unread \subseteq DOMAIN rows
      BY RowsAre
    <2>3. loop'[s].at \in Peeked => \A m \in loop'[s].seen : m \in DOMAIN rows' /\ rows'[m] = s
      BY <2>1, <2>2 DEF Holds
    <2>4. loop'[s].at \in InTurn \cup {"starting"} => loop'[s].op \in DOMAIN batches'
      BY <1>0, <2>1 DEF Holds
    <2> QED
      BY <2>3, <2>4 DEF Holds
  <1>2. ASSUME NEW t \in Slots \ {s} PROVE Holds(t, loop[t])'
    <2>1. Holds(t, loop[t])
      BY DEF DeliveryIInv
    <2> QED
      BY <1>0, <2>1 DEF Holds
  <1>3. ASSUME NEW m \in Messages, started'[m] >= 1
        PROVE  m \in DOMAIN rows' /\ Spent(m, loop[rows[m]])'
    <2>0. started'[m] = started[m]
      BY <1>3
    <2>1. m \in DOMAIN rows /\ Spent(m, loop[rows[m]])
      BY <1>3, <2>0 DEF DeliveryIInv, HandedOnce
    <2>2. PICK t \in Slots : t = rows[m] /\ t = rows'[m]
      BY <2>1, RowsAre
    <2>3. /\ loop[t].at \in InTurn => loop[t].op \in DOMAIN batches
          /\ loop'[t].at \in InTurn => loop[t].at \in InTurn \cup {"starting"} /\ loop'[t].op = loop[t].op
      BY DEF DeliveryIInv, Holds
    <2>4. ASSUME loop'[t].at \in InTurn, loop[t].at \in InTurn, m \in BatchMessages(loop[t].op)
          PROVE  m \in BatchMessages(loop[t].op)'
      <3>1. PICK op \in DOMAIN batches : op = loop[t].op /\ op = loop'[t].op
        BY <2>3, <2>4
      <3>2. m \in BatchMessages(op)'
        BY <2>4, <3>1, BatchKept
      <3> QED
        BY <3>1, <3>2 DEF BatchMessages
    <2>5. InTurn \cap Peeked = {}
      BY DEF InTurn, Peeked
    <2>6. \/ m \notin unread /\ (loop[t].at \in Peeked => m \notin loop[t].seen)
          \/ loop[t].at \in InTurn /\ m \in BatchMessages(loop[t].op)
      BY <2>1, <2>2 DEF Spent
    <2>7. \/ m \notin unread' /\ (loop'[t].at \in Peeked => m \notin loop'[t].seen)
          \/ loop'[t].at \in InTurn /\ m \in BatchMessages(loop[t].op)'
      <3>1. CASE t = s
        <4>1. CASE m \notin unread /\ (loop[t].at \in Peeked => m \notin loop[t].seen)
          BY <3>1, <4>1
        <4>2. CASE loop[t].at \in InTurn /\ m \in BatchMessages(loop[t].op)
          BY <1>3, <2>4, <2>5, <3>1, <4>2
        <4> QED
          BY <2>6, <4>1, <4>2
      <3>2. CASE t # s
        BY <2>3, <2>4, <2>5, <2>6, <3>2
      <3> QED
        BY <3>1, <3>2
    <2> QED
      BY <2>1, <2>2, <2>7 DEF Spent, BatchMessages
  <1>4. HandedOnce'
    <2>1. \A m \in Messages : started'[m] <= 1
      BY DEF DeliveryIInv, HandedOnce
    <2> QED
      BY <1>3, <2>1 DEF HandedOnce
  <1> QED
    BY <1>1, <1>2, <1>4

\* The turn starts: what it is given, it is given for the first time.
LEMMA StartedOnce ==
  ASSUME DeliveryIInv, WorkMoves, NEW s \in Slots, TurnStarted(s)
  PROVE  (\A t \in Slots : Holds(t, loop[t])') /\ HandedOnce'
  <1>0. DOMAIN intents \subseteq DOMAIN intents' /\ DOMAIN batches \subseteq DOMAIN batches'
    BY DEF WorkMoves, Keeps, BatchesStay
  <1> DEFINE op == loop[s].op
             place == IF CancelImmediately(s, op) THEN "cancelling" ELSE "running"
  <1>1. /\ loop[s].at = "starting" /\ loop' = [loop EXCEPT ![s].at = place]
        /\ UNCHANGED <<rows, unread>>
        /\ started' = [m \in Messages |-> IF m \in Input(s) THEN started[m] + 1 ELSE started[m]]
    BY DEF TurnStarted, LoopAt, LoopGoes, mailboxVars
  <1>2. place \in InTurn
    BY DEF InTurn
  <1>3. loop \in [Slots -> LoopRecord] /\ started \in [Messages -> Nat]
    BY DEF DeliveryIInv, DeliveryTyped
  <1>4. Input(s) = BatchMessages(op) \cap loop[s].seen
    BY DEF Input
  <1>5. Holds(s, loop[s])
    BY DEF DeliveryIInv
  <1> HIDE DEF op, place
  <1>6. /\ loop'[s].at \in InTurn /\ loop'[s].op = op /\ loop'[s].signals = loop[s].signals
        /\ loop'[s].at \notin Peeked
        /\ \A t \in Slots \ {s} : loop'[t] = loop[t]
    <2>1. InTurn \cap Peeked = {}
      BY DEF InTurn, Peeked
    <2> QED
      BY <1>1, <1>2, <1>3, <2>1 DEF LoopRecord, op
  <1>7. op \in DOMAIN batches /\ loop[s].signals \subseteq DOMAIN intents
        /\ \A m \in loop[s].seen : m \in DOMAIN rows /\ rows[m] = s
    BY <1>1, <1>5 DEF Holds, Peeked, op
  <1>8. Holds(s, loop[s])'
    BY <1>0, <1>6, <1>7 DEF Holds
  <1>9. ASSUME NEW t \in Slots \ {s} PROVE Holds(t, loop[t])'
    <2>1. Holds(t, loop[t])
      BY DEF DeliveryIInv
    <2> QED
      BY <1>0, <1>1, <1>6, <2>1 DEF Holds
  <1>10. BatchMessages(loop[s].op)' = BatchMessages(op)
    BY <1>6, <1>7, BatchKept DEF BatchMessages
  <1>11. ASSUME NEW m \in Messages
         PROVE  /\ started'[m] <= 1
                /\ started'[m] >= 1 => m \in DOMAIN rows' /\ Spent(m, loop[rows[m]])'
    <2>0. /\ started[m] \in Nat /\ started[m] <= 1
          /\ started[m] >= 1 => m \in DOMAIN rows /\ Spent(m, loop[rows[m]])
          /\ started'[m] = IF m \in Input(s) THEN started[m] + 1 ELSE started[m]
      BY <1>1, <1>3 DEF DeliveryIInv, HandedOnce
    <2>1. CASE m \in Input(s)
      <3>1. m \in DOMAIN rows /\ rows[m] = s /\ m \in BatchMessages(op) /\ m \in loop[s].seen
        BY <1>4, <1>7, <2>1
      <3>2. ~Spent(m, loop[s])
        BY <1>1, <3>1 DEF Spent, Peeked, InTurn
      <3>3. started'[m] = 1
        BY <2>0, <2>1, <3>1, <3>2
      <3>4. Spent(m, loop[rows[m]])'
        BY <1>1, <1>6, <1>10, <3>1 DEF Spent, BatchMessages
      <3> QED
        BY <1>1, <3>1, <3>3, <3>4
    <2>2. CASE m \notin Input(s)
      <3>1. SUFFICES ASSUME started[m] >= 1 PROVE m \in DOMAIN rows' /\ Spent(m, loop[rows[m]])'
        BY <2>0, <2>2
      <3>2. PICK t \in Slots : t = rows[m] /\ t = rows'[m]
        BY <1>1, <2>0, <3>1, RowsAre
      <3>3. Spent(m, loop[t]) /\ m \in DOMAIN rows'
        BY <1>1, <2>0, <3>1, <3>2
      <3>4. CASE t = s
        <4>1. m \notin unread
          BY <1>1, <3>3, <3>4 DEF Spent, InTurn
        <4> QED
          BY <1>1, <1>6, <3>2, <3>3, <3>4, <4>1 DEF Spent
      <3>5. CASE t # s
        <4>1. loop'[t] = loop[t]
          BY <1>6, <3>5
        <4>2. CASE m \notin unread /\ (loop[t].at \in Peeked => m \notin loop[t].seen)
          BY <1>1, <3>2, <3>3, <4>1, <4>2 DEF Spent
        <4>3. CASE loop[t].at \in InTurn /\ m \in BatchMessages(loop[t].op)
          <5>1. PICK o \in DOMAIN batches : o = loop[t].op /\ o = loop'[t].op
            BY <4>1, <4>3 DEF DeliveryIInv, Holds
          <5>2. m \in BatchMessages(o)'
            BY <4>3, <5>1, BatchKept
          <5> QED
            BY <3>2, <3>3, <4>1, <4>3, <5>1, <5>2 DEF Spent, BatchMessages
        <4> QED
          BY <3>3, <4>2, <4>3 DEF Spent
      <3> QED
        BY <3>4, <3>5
    <2> QED
      BY <2>1, <2>2
  <1>12. HandedOnce'
    BY <1>11 DEF HandedOnce
  <1> QED
    BY <1>8, <1>9, <1>12

----------------------------------------------------------------------------
Delivers ==
    /\ WorkMoves
    /\ DeliveryTyped'
    /\ \A s \in Slots : Holds(s, loop[s])'
    /\ SendersHold'
    /\ HandedOnce'

LEMMA RowWritten ==
  ASSUME DeliveryIInv, NEW p \in Producers, WriteRow(p)
  PROVE  /\ rows' \in Seq(Slots) /\ DOMAIN rows' \subseteq Messages
         /\ DOMAIN rows \subseteq DOMAIN rows' /\ \A m \in DOMAIN rows : rows'[m] = rows[m]
         /\ unread' \subseteq DOMAIN rows' /\ unread' \subseteq unread \cup (Messages \ DOMAIN rows)
         /\ producer' \in [Producers -> ProducerRecord]
  <1> DEFINE n == Len(rows)
             q == Append(rows, TargetOf[p])
  <1>1. /\ n + 1 \in Messages /\ rows' = q /\ unread' = unread \cup {n + 1}
        /\ producer' = [producer EXCEPT ![p].message = n + 1,
                            ![p].at = IF @ = "begin" THEN "find" ELSE "commit"]
    BY DEF WriteRow
  <1>2. n \in Nat /\ DOMAIN rows = 1..n /\ DOMAIN rows \subseteq Messages /\ unread \subseteq DOMAIN rows
        /\ rows \in Seq(Slots) /\ producer \in [Producers -> ProducerRecord] /\ TargetOf[p] \in Slots
    BY RowsAre, ProducersAssumption DEF DeliveryIInv, DeliveryTyped
  <1>3. /\ q \in Seq(Slots) /\ Len(q) = n + 1 /\ \A m \in 1..n : q[m] = rows[m]
    BY <1>2, AppendProperties
  <1> HIDE DEF n, q
  <1>4. DOMAIN q = 1..(n + 1)
    BY <1>3, LenProperties
  <1>5. producer' \in [Producers -> ProducerRecord]
    <2>1. PICK place \in {"find", "commit"} : place = IF producer[p].at = "begin" THEN "find" ELSE "commit"
      OBVIOUS
    <2> DEFINE r == [producer[p] EXCEPT !.message = n + 1, !.at = place]
    <2>2. producer[p] \in ProducerRecord /\ n + 1 \in Messages
      BY <1>1, <1>2
    <2>3. r \in ProducerRecord
      BY <2>2, Zenon DEF ProducerRecord
    <2>4. producer' = [producer EXCEPT ![p] = r]
      BY <1>1, <1>2, <2>1
    <2> HIDE DEF r
    <2> QED
      BY <1>2, <2>3, <2>4
  <1> QED
    BY <1>1, <1>2, <1>3, <1>4, <1>5

SendPlaces ==
    {"begin", "find", "publish", "acquire", "write", "commit", "compensate", "notify", "done", "failed"}

\* What a step of sender p does to its record: it writes a row and takes its
\* number, publishes a status it has read, or goes to another place.
LEMMA SendWrites ==
  ASSUME DeliveryIInv, NEW p \in Producers, Send(p)
  PROVE  \/ WriteRow(p) /\ producer[p].at \in {"begin", "write"}
         \/ /\ UNCHANGED rows /\ unread' \subseteq unread
            /\ \E k \in {"Starting", "Ready"} :
                  producer' = [producer EXCEPT ![p].at = "publish", ![p].constraint = k]
         \/ /\ UNCHANGED rows /\ unread' \subseteq unread
            /\ \E place \in SendPlaces : ProducerGoes(p, place)
  <1>1. MemberStatus(TargetOf[p]) \in {"Starting", "Ready"}
    BY DEF MemberStatus
  <1>2. CASE BeginSend(p)
    BY <1>1, <1>2 DEF BeginSend, ProducerAt, mailboxVars
  <1>3. CASE FindRow(p)
    <2>1. CASE producer[p].message \in unread
      BY <1>1, <1>3, <2>1 DEF FindRow, mailboxVars
    <2>2. CASE producer[p].message \notin unread
      BY <1>3, <2>2 DEF FindRow, mailboxVars, SendPlaces, ProducerGoes
    <2> QED
      BY <2>1, <2>2
  <1>4. CASE WriteMessage(p)
    BY <1>4 DEF WriteMessage, ProducerAt
  <1>5. CASE PublishConstraint(p) \/ AcquireLease(p) \/ FailWrite(p) \/ CommitLease(p) \/ NotifyLoop(p)
    <2>1. UNCHANGED <<rows, unread>>
      BY <1>5 DEF PublishConstraint, AcquireLease, FailWrite, CommitLease, NotifyLoop, mailboxVars
    <2>2. \E place \in SendPlaces : ProducerGoes(p, place)
      BY <1>5 DEF PublishConstraint, AcquireLease, FailWrite, CommitLease, NotifyLoop, SendPlaces
    <2> QED
      BY <2>1, <2>2
  <1>6. CASE Compensate(p)
    BY <1>6 DEF Compensate, MarkRead, MarkFails, mailboxVars, SendPlaces
  <1> QED
    BY <1>2, <1>3, <1>4, <1>5, <1>6 DEF Send

LEMMA SendTyped ==
  ASSUME DeliveryIInv, NEW p \in Producers, Send(p)
  PROVE  DeliveryTyped'
  <1>1. /\ DeliveryTyped /\ producer \in [Producers -> ProducerRecord] /\ TargetOf[p] \in Slots
        /\ permit \in [Slots -> BOOLEAN]
    BY ProducersAssumption DEF DeliveryIInv, DeliveryTyped
  <1>2. UNCHANGED <<attach, loop, user, started>>
    BY DEF Send, BeginSend, FindRow, PublishConstraint, AcquireLease, WriteMessage, FailWrite, CommitLease,
       Compensate, NotifyLoop, historyVars
  <1>3. /\ producer' \in [Producers -> ProducerRecord] /\ unread' \subseteq DOMAIN rows'
        /\ rows' \in Seq(Slots) /\ DOMAIN rows' \subseteq Messages
    <2>1. CASE WriteRow(p)
      BY <2>1, RowWritten
    <2>2. ASSUME NEW k \in {"Starting", "Ready"},
                 producer' = [producer EXCEPT ![p].at = "publish", ![p].constraint = k]
          PROVE  producer' \in [Producers -> ProducerRecord]
      <3>1. [producer[p] EXCEPT !.at = "publish", !.constraint = k] \in ProducerRecord
        BY <1>1 DEF ProducerRecord
      <3> QED
        BY <1>1, <2>2, <3>1
    <2>3. ASSUME NEW place \in SendPlaces, ProducerGoes(p, place)
          PROVE  producer' \in [Producers -> ProducerRecord]
      BY <1>1, <2>3 DEF ProducerRecord, SendPlaces, ProducerGoes
    <2> QED
      BY <1>1, <2>1, <2>2, <2>3, SendWrites DEF DeliveryTyped
  <1>4. permit' \in [Slots -> BOOLEAN]
    <2>1. permit' = permit \/ permit' = [permit EXCEPT ![TargetOf[p]] = @ \/ HasLoop(TargetOf[p])]
      BY DEF Send, BeginSend, FindRow, PublishConstraint, AcquireLease, WriteMessage,
         FailWrite, CommitLease, Compensate, NotifyLoop
    <2>2. \A b : (b \/ HasLoop(TargetOf[p])) \in BOOLEAN
      OBVIOUS
    <2> QED
      BY <1>1, <2>1, <2>2
  <1>5. abandoned' \subseteq Messages
    <2>1. CASE Compensate(p)
      <3>1. producer[p].message \in Messages
        BY <1>1, <2>1 DEF Compensate, ProducerAt, DeliveryIInv, SendersHold, SenderHolds, ProducerRecord
      <3> QED
        BY <1>1, <2>1, <3>1 DEF Compensate, DeliveryTyped
    <2>2. CASE UNCHANGED abandoned
      BY <1>1, <2>2 DEF DeliveryTyped
    <2> QED
      BY <2>1, <2>2 DEF Send, BeginSend, FindRow, PublishConstraint, AcquireLease, WriteMessage, FailWrite,
         CommitLease, NotifyLoop, historyVars
  <1>6. left' \in [Occasion -> Nat]
    <2>1. UNCHANGED left \/ \E occasion \in Occasion : Happens(occasion)
      BY DEF Send, FailWrite, Compensate, MarkRead, MarkFails, Occasion
    <2> QED
      BY <2>1, LeftTyped
  <1> QED
    BY <1>1, <1>2, <1>3, <1>4, <1>5, <1>6 DEF DeliveryTyped

LEMMA SendAddressed ==
  ASSUME DeliveryIInv, NEW p \in Producers, Send(p)
  PROVE  \A q \in Producers : Addressed(q)'
  <1>1. producer \in [Producers -> ProducerRecord] /\ \A q \in Producers : Addressed(q)
    BY DEF DeliveryIInv, DeliveryTyped, SendersHold
  <1>2. CASE WriteRow(p)
    <2>1. /\ Len(rows) \in Nat /\ rows \in Seq(Slots) /\ TargetOf[p] \in Slots
          /\ DOMAIN rows = 1..Len(rows)
      BY RowsAre, ProducersAssumption DEF DeliveryIInv, DeliveryTyped
    <2>2. PICK n : /\ n = Len(rows) + 1 /\ rows' = Append(rows, TargetOf[p])
                   /\ producer' = [producer EXCEPT ![p].message = n,
                                      ![p].at = IF @ = "begin" THEN "find" ELSE "commit"]
      BY <1>2 DEF WriteRow
    <2>3. n \in DOMAIN rows' /\ rows'[n] = TargetOf[p]
          /\ \A m \in DOMAIN rows : m \in DOMAIN rows' /\ rows'[m] = rows[m]
      <3>1. rows' \in Seq(Slots) /\ Len(rows') = Len(rows) + 1
            /\ rows'[Len(rows) + 1] = TargetOf[p] /\ \A m \in 1..Len(rows) : rows'[m] = rows[m]
        BY <2>1, <2>2, AppendProperties
      <3>2. DOMAIN rows' = 1..Len(rows')
        BY <3>1, LenProperties
      <3> QED
        BY <2>1, <2>2, <3>1, <3>2
    <2>4. producer'[p].message = n /\ \A q \in Producers \ {p} : producer'[q] = producer[q]
      BY <1>1, <2>2 DEF ProducerRecord
    <2> QED
      BY <1>1, <2>3, <2>4 DEF Addressed
  <1>3. CASE UNCHANGED rows /\ \A q \in Producers : producer'[q].message = producer[q].message
    BY <1>1, <1>3 DEF Addressed
  <1>4. \A q \in Producers :
          (\/ \E place : ProducerGoes(p, place)
           \/ \E k : producer' = [producer EXCEPT ![p].at = "publish", ![p].constraint = k])
          => producer'[q].message = producer[q].message
    BY <1>1 DEF ProducerGoes, ProducerRecord
  <1> QED
    BY <1>2, <1>3, <1>4, SendWrites

\* The sender holds what it should where it goes to.
LEMMA SenderGoes ==
  ASSUME DeliveryIInv, NEW p \in Producers, Send(p)
  PROVE  SenderHolds(p)'
  <1>1. /\ producer \in [Producers -> ProducerRecord] /\ SenderHolds(p)
        /\ WritesFirst(SourceOf[p]) => SourceOf[p] \notin SignalSources
    BY DEF DeliveryIInv, DeliveryTyped, SendersHold, WritesFirst, SignalSources
  <1>2. ASSUME NEW place \in SendPlaces, ProducerGoes(p, place)
        PROVE  producer'[p].at = place /\ producer'[p].message = producer[p].message
    BY <1>1, <1>2 DEF ProducerGoes, ProducerRecord
  <1>3. ASSUME NEW k, producer' = [producer EXCEPT ![p].at = "publish", ![p].constraint = k]
        PROVE  producer'[p].at = "publish" /\ producer'[p].message = producer[p].message
    BY <1>1, <1>3 DEF ProducerRecord
  <1>4. ASSUME WriteRow(p)
        PROVE  /\ producer'[p].message \in Messages
               /\ producer'[p].at = IF producer[p].at = "begin" THEN "find" ELSE "commit"
    BY <1>1, <1>4 DEF WriteRow, ProducerRecord
  <1>5. NoMessage \notin Messages
    BY MessagesAssumption
  <1>6. CASE BeginSend(p)
    <2>1. CASE WritesFirst(SourceOf[p])
      BY <1>4, <1>5, <1>6, <2>1 DEF BeginSend, ProducerAt, SenderHolds
    <2>2. CASE ~WritesFirst(SourceOf[p])
      BY <1>1, <1>3, <1>6, <2>2 DEF BeginSend, ProducerAt, SenderHolds
    <2> QED
      BY <2>1, <2>2
  <1>7. CASE FindRow(p)
    <2>1. CASE producer[p].message \in unread
      BY <1>1, <1>3, <1>7, <2>1 DEF FindRow, ProducerAt, SenderHolds
    <2>2. CASE producer[p].message \notin unread
      <3>1. ProducerGoes(p, "done") /\ "done" \in SendPlaces
        BY <1>7, <2>2 DEF FindRow, ProducerGoes, SendPlaces
      <3> QED
        BY <1>2, <3>1 DEF SenderHolds
    <2> QED
      BY <2>1, <2>2
  <1>8. CASE WriteMessage(p)
    BY <1>1, <1>4, <1>5, <1>8 DEF WriteMessage, ProducerAt, SenderHolds
  <1>9. CASE PublishConstraint(p)
    <2>1. producer[p].at = "publish" /\ ProducerGoes(p, "acquire") /\ "acquire" \in SendPlaces
      BY <1>9 DEF PublishConstraint, ProducerAt, SendPlaces
    <2> QED
      BY <1>1, <1>2, <2>1 DEF SenderHolds
  <1>10. CASE AcquireLease(p)
    <2>1. /\ producer[p].at = "acquire"
          /\ ProducerGoes(p, IF SourceOf[p] \in SignalSources \/ WritesFirst(SourceOf[p]) THEN "commit" ELSE "write")
          /\ {"commit", "write"} \subseteq SendPlaces
      BY <1>10 DEF AcquireLease, ProducerAt, SendPlaces
    <2> QED
      BY <1>1, <1>2, <2>1 DEF SenderHolds
  <1>11. CASE CommitLease(p)
    <2>1. \/ ProducerGoes(p, "notify")
          \/ ProducerGoes(p, IF producer[p].message = NoMessage THEN "failed" ELSE "compensate")
      BY <1>11 DEF CommitLease
    <2>2. {"notify", "failed", "compensate"} \subseteq SendPlaces
      BY DEF SendPlaces
    <2> QED
      BY <1>2, <2>1, <2>2 DEF SenderHolds
  <1>12. CASE FailWrite(p) \/ Compensate(p) \/ NotifyLoop(p)
    <2>1. \E place \in {"failed", "done"} : ProducerGoes(p, place)
      BY <1>12 DEF FailWrite, Compensate, NotifyLoop
    <2>2. {"done", "failed"} \subseteq SendPlaces
      BY DEF SendPlaces
    <2> QED
      BY <1>2, <2>1, <2>2 DEF SenderHolds
  <1> QED
    BY <1>6, <1>7, <1>8, <1>9, <1>10, <1>11, <1>12 DEF Send

\* The leases after a step of sender p: at most its own is new.
LEMMA SendLeases ==
  ASSUME NEW p \in Producers, Send(p)
  PROVE  \A l \in leases' : \/ l \in leases
                            \/ l.id = p /\ l.slot = TargetOf[p] /\ l.source = SourceOf[p]
  <1>1. CASE UNCHANGED workVars
    BY <1>1 DEF workVars, coordinatorVars
  <1>2. CASE PublishConstraint(p)
    BY <1>2 DEF PublishConstraint, Constrain, SetConstraint
  <1>3. CASE AcquireLease(p)
    <2>1. \E r : leases' = leases \cup {[id |-> p, slot |-> TargetOf[p], source |-> SourceOf[p], run |-> r]}
      BY <1>3 DEF AcquireLease, Acquire, AcquireEnqueue
    <2> QED
      BY <2>1
  <1>4. ASSUME NEW l, Abort(p, l) PROVE leases' \subseteq leases
    BY <1>4 DEF Abort, AbortEnqueue
  <1>5. ASSUME NEW l, NEW m, Commit(p, l, m) PROVE leases' \subseteq leases
    BY <1>5 DEF Commit, CommitEnqueue
  <1>6. CASE FailWrite(p) \/ CommitLease(p)
    BY <1>1, <1>4, <1>5, <1>6 DEF FailWrite, CommitLease
  <1> QED
    BY <1>1, <1>2, <1>3, <1>6 DEF Send, BeginSend, FindRow, WriteMessage, Compensate, NotifyLoop

LEMMA SendDelivers ==
  ASSUME DeliveryIInv, WorkMoves, NEW p \in Producers, Send(p)
  PROVE  Delivers
  <1>1. \A q \in Producers \ {p} : producer'[q] = producer[q]
    <2>1. producer \in [Producers -> ProducerRecord]
      BY DEF DeliveryIInv, DeliveryTyped
    <2> QED
      BY <2>1, SendWrites DEF WriteRow, ProducerGoes
  <1>2. SendersHold'
    <2>1. \A q \in Producers : SenderHolds(q)'
      BY <1>1, SenderGoes DEF DeliveryIInv, SendersHold, SenderHolds
    <2>2. \A l \in leases' : \A q \in Producers : l.id = q => l.slot = TargetOf[q] /\ l.source = SourceOf[q]
      BY SendLeases DEF DeliveryIInv, SendersHold
    <2> QED
      BY <2>1, <2>2, SendAddressed DEF SendersHold
  <1>3. /\ DOMAIN rows \subseteq DOMAIN rows' /\ \A m \in DOMAIN rows : rows'[m] = rows[m]
        /\ unread' \subseteq unread \cup (Messages \ DOMAIN rows)
    BY SendWrites, RowWritten
  <1>4. UNCHANGED <<loop, started>>
    BY DEF Send, BeginSend, FindRow, PublishConstraint, AcquireLease, WriteMessage, FailWrite, CommitLease,
       Compensate, NotifyLoop, historyVars
  <1>5. (\A s \in Slots : Holds(s, loop[s])') /\ HandedOnce'
    BY <1>3, <1>4, LoopsStay
  <1> QED
    BY <1>2, <1>5, SendTyped DEF Delivers

\* What a step of the event loop of slot s leaves alone.
LEMMA LoopFrame ==
  ASSUME DeliveryIInv, NEW s \in Slots, LoopRuns(s) \/ LoopFails(s)
  PROVE  /\ UNCHANGED <<rows, attach, producer, user, abandoned>> /\ unread' \subseteq unread
         /\ left' \in [Occasion -> Nat]
  <1>1. UNCHANGED <<rows, attach, producer, user, abandoned>> /\ unread' \subseteq unread
    BY DEF LoopRuns, LoopFails, WakeLoop, Prepare, PeekUnread, PeekFails, Reconcile, ClaimNext, FindSignals,
       WaitAgain, HandleSignals, TurnStarted, CancelLateStart, TurnEnds, SettleBatch, SkipBusy, TurnFailsToStart,
       mailboxVars, historyVars, MarkRead, MarkFails
  <1>2. UNCHANGED left \/ \E occasion \in Occasion : Happens(occasion)
    BY DEF LoopRuns, LoopFails, TurnEnds, SettleBatch, PeekFails, SkipBusy, TurnFailsToStart, MarkRead, MarkFails,
       Occasion
  <1> QED
    BY <1>1, <1>2, LeftTyped

\* The leases are not the event loop's.
LEMMA LoopLeases ==
  ASSUME NEW s \in Slots, LoopRuns(s) \/ LoopFails(s)
  PROVE  UNCHANGED leases
  <1>1. CASE UNCHANGED workVars
    BY <1>1 DEF workVars, coordinatorVars
  <1>2. ASSUME NEW op, NEW st, TerminalizeIfCurrent(s, op, st) PROVE UNCHANGED leases
    BY <1>1, <1>2 DEF TerminalizeIfCurrent, Terminalize, TerminalizeBatch
  <1>3. CASE Prepare(s) \/ Reconcile(s) \/ ClaimNext(s) \/ HandleSignals(s)
    BY <1>1, <1>3 DEF Prepare, Constrain, SetConstraint, Reconcile, ReconcileUntold, ReconcileMailbox, ClaimNext, Claim,
       ClaimBatch, HandleSignals, SettleSignals, CompleteSignals
  <1>4. CASE TurnStarted(s) \/ SkipBusy(s)
    BY <1>1, <1>4 DEF TurnStarted, Start, MarkStarted, SkipBusy, Retry, RetryStart
  <1> QED
    BY <1>1, <1>2, <1>3, <1>4
       DEF LoopRuns, LoopFails, WakeLoop, PeekUnread, PeekFails, FindSignals, WaitAgain, CancelLateStart, TurnEnds,
           SettleBatch, TurnFailsToStart

\* A step of an event loop leaves the types alone when its record keeps its own.
LEMMA LoopTyped ==
  ASSUME DeliveryIInv, WorkMoves, NEW s \in Slots, LoopRuns(s) \/ LoopFails(s),
         NEW l \in LoopRecord, l.signals \subseteq DOMAIN intents, loop' = [loop EXCEPT ![s] = l],
         permit' \in [Slots -> BOOLEAN], started' \in [Messages -> Nat]
  PROVE  /\ DeliveryTyped'
         /\ \A t \in Slots \ {s} : loop'[t] = loop[t]
         /\ loop'[s] = l
         /\ loop'[s].signals \subseteq DOMAIN intents'
  <1>1. DOMAIN intents \subseteq DOMAIN intents'
    BY DEF WorkMoves, Keeps
  <1>2. loop \in [Slots -> LoopRecord] /\ DeliveryTyped
    BY DEF DeliveryIInv, DeliveryTyped
  <1>3. loop' \in [Slots -> LoopRecord] /\ loop'[s] = l /\ \A t \in Slots \ {s} : loop'[t] = loop[t]
    BY <1>2
  <1>4. DeliveryTyped'
    BY <1>2, <1>3, LoopFrame DEF DeliveryTyped
  <1> QED
    BY <1>1, <1>3, <1>4

\* The event loop goes to another place with what it holds.
LEMMA LoopPlaced ==
  ASSUME DeliveryIInv, WorkMoves, NEW s \in Slots, LoopRuns(s) \/ LoopFails(s),
         NEW place \in {"prepare", "peek", "next", "ending", "cancelling", "running", "settle"},
         LoopGoes(s, place), permit' \in [Slots -> BOOLEAN], started' \in [Messages -> Nat]
  PROVE  /\ DeliveryTyped'
         /\ \A t \in Slots \ {s} : loop'[t] = loop[t]
         /\ loop'[s].signals \subseteq DOMAIN intents'
         /\ loop'[s].at = place /\ loop'[s].op = loop[s].op /\ loop'[s].seen = loop[s].seen
  <1> DEFINE l == [loop[s] EXCEPT !.at = place]
  <1>1. loop[s] \in LoopRecord /\ loop[s].signals \subseteq DOMAIN intents
    BY DEF DeliveryIInv, DeliveryTyped, Holds
  <1>2. /\ l \in LoopRecord /\ l.signals = loop[s].signals /\ l.at = place
        /\ l.op = loop[s].op /\ l.seen = loop[s].seen
    BY <1>1 DEF LoopRecord
  <1>3. loop' = [loop EXCEPT ![s] = l]
    BY DEF LoopGoes
  <1> HIDE DEF l
  <1> QED
    BY <1>1, <1>2, <1>3, LoopTyped

LEMMA BetweenTyped ==
  ASSUME NEW place \in {"waiting", "deferred", "prepare"}
  PROVE  /\ Between(place) \in LoopRecord /\ Between(place).signals = {} /\ Between(place).at = place
         /\ Between(place).op = 0
  <1>1. 0 \in 0..MaxOps
    BY BoundsAssumption
  <1> QED
    BY <1>1 DEF Between, LoopRecord

LEMMA LoopDelivers ==
  ASSUME DeliveryIInv, WorkMoves, NEW s \in Slots, LoopRuns(s) \/ LoopFails(s)
  PROVE  Delivers
  <1> DEFINE l == loop[s]
             Loops == /\ DeliveryTyped'
                      /\ (\A t \in Slots : Holds(t, loop[t])') /\ HandedOnce'
  <1>1. SendersHold'
    BY LoopFrame, LoopLeases DEF DeliveryIInv, SendersHold, SenderHolds, Addressed
  <1> SUFFICES Loops
    BY <1>1 DEF Delivers
  <1>2. /\ WorkIInv /\ IInv /\ l \in LoopRecord /\ l.signals \subseteq DOMAIN intents
        /\ permit \in [Slots -> BOOLEAN] /\ started \in [Messages -> Nat] /\ unread \subseteq Messages
        /\ 0 \in 0..MaxOps
    BY RowsAre, BoundsAssumption DEF DeliveryIInv, DeliveryTyped, WorkIInv, Holds
  <1>3. UNCHANGED rows /\ unread' \subseteq unread
    BY LoopFrame
  \* Steps after which the loop holds what it held, or no longer uses it.
  <1>4. ASSUME NEW place \in {"peek", "next", "ending"}, LoopGoes(s, place),
               UNCHANGED <<permit, started>>,
               place = "next" => l.at = "reconcile",
               place = "ending" <=> l.at \in InTurn
        PROVE  Loops
    <2>1. /\ DeliveryTyped' /\ \A t \in Slots \ {s} : loop'[t] = loop[t]
          /\ loop'[s].signals \subseteq DOMAIN intents'
          /\ loop'[s].at = place /\ loop'[s].op = l.op /\ loop'[s].seen = l.seen
      BY <1>2, <1>4, LoopPlaced
    <2>2. /\ place \in Peeked => place = "next"
          /\ place \in InTurn <=> place = "ending"
          /\ place # "starting"
          /\ {"reconcile", "next"} \subseteq Peeked
      BY DEF Peeked, InTurn
    <2>3. (\A t \in Slots : Holds(t, loop[t])') /\ HandedOnce'
      BY <1>2, <1>3, <1>4, <2>1, <2>2, LoopAdvances
    <2> QED
      BY <2>1, <2>3
  <1>5. CASE Prepare(s) \/ Reconcile(s) \/ CancelLateStart(s)
    <2>1. \E place \in {"peek", "next", "ending"} :
             /\ LoopGoes(s, place) /\ UNCHANGED <<permit, started>>
             /\ place = "next" => l.at = "reconcile"
             /\ place = "ending" <=> l.at \in InTurn
      BY <1>5 DEF Prepare, Reconcile, CancelLateStart, LoopAt, InTurn, historyVars
    <2> QED
      BY <1>4, <2>1
  \* Steps that write several fields.
  <1>6. ASSUME NEW k \in LoopRecord, k.signals \subseteq DOMAIN intents, loop' = [loop EXCEPT ![s] = k],
               permit' \in [Slots -> BOOLEAN], started' \in [Messages -> Nat],
               \A m \in Messages : started'[m] \in {0, started[m]},
               k.at \in Peeked => \/ l.at \in Peeked /\ k.seen = l.seen
                                  \/ l.at \notin InTurn /\ k.seen = {m \in unread : rows[m] = s},
               k.at = "starting" => k.op \in DOMAIN batches',
               k.at \in InTurn => l.at = "starting" /\ k.op = l.op,
               l.at \in InTurn => \A m \in BatchMessages(l.op) \cap Messages : m \notin unread' \/ started'[m] = 0
        PROVE  Loops
    <2>1. /\ DeliveryTyped' /\ \A t \in Slots \ {s} : loop'[t] = loop[t]
          /\ loop'[s].signals \subseteq DOMAIN intents' /\ loop'[s] = k
      BY <1>2, <1>6, LoopTyped
    <2>2. (\A t \in Slots : Holds(t, loop[t])') /\ HandedOnce'
      BY <1>3, <1>6, <2>1, LoopAdvances
    <2> QED
      BY <2>1, <2>2
  <1>7. ASSUME UNCHANGED started PROVE started' \in [Messages -> Nat] /\ \A m \in Messages : started'[m] \in {0, started[m]}
    BY <1>2, <1>7
  \* Steps out of a turn or a peek.
  <1>8. ASSUME NEW place \in {"waiting", "deferred", "prepare"}, loop' = [loop EXCEPT ![s] = Between(place)],
               UNCHANGED <<permit, started>>, l.at \notin InTurn
        PROVE  Loops
    <2>1. place \notin Peeked /\ place \notin InTurn /\ place # "starting"
      BY DEF Peeked, InTurn
    <2> QED
      BY <1>2, <1>6, <1>7, <1>8, <2>1, BetweenTyped
  <1>9. CASE PeekFails(s) \/ WaitAgain(s) \/ HandleSignals(s) \/ SkipBusy(s) \/ SettleBatch(s)
    <2>1. /\ l.at \in {"peek", "next", "signals", "starting", "settle"} /\ UNCHANGED <<permit, started>>
          /\ \E place \in {"waiting", "deferred", "prepare"} : loop' = [loop EXCEPT ![s] = Between(place)]
      BY <1>9 DEF PeekFails, WaitAgain, HandleSignals, SkipBusy, SettleBatch, LoopAt, historyVars
    <2>2. l.at \notin InTurn
      BY <2>1 DEF InTurn
    <2> QED
      BY <1>8, <2>1, <2>2
  <1>10. CASE WakeLoop(s)
    <2> DEFINE k == [l EXCEPT !.at = "prepare"]
    <2>1. /\ l.at \in {"waiting", "deferred"} /\ loop' = [loop EXCEPT ![s] = k]
          /\ permit' \in [Slots -> BOOLEAN] /\ UNCHANGED started
      BY <1>2, <1>10 DEF WakeLoop, LoopAt, LoopGoes, historyVars
    <2>2. k \in LoopRecord /\ k.signals = l.signals /\ k.at = "prepare"
      BY <1>2 DEF LoopRecord
    <2>3. "prepare" \notin Peeked /\ "prepare" \notin InTurn /\ l.at \notin InTurn
      BY <2>1 DEF Peeked, InTurn
    <2> HIDE DEF k
    <2> QED
      BY <1>2, <1>6, <1>7, <2>1, <2>2, <2>3
  <1>11. CASE PeekUnread(s)
    <2> DEFINE seen == {m \in unread : rows[m] = s}
               k == [l EXCEPT !.at = "reconcile", !.seen = seen]
    <2>1. /\ l.at = "peek" /\ loop' = [loop EXCEPT ![s] = k]
          /\ permit' \in [Slots -> BOOLEAN] /\ UNCHANGED started
      BY <1>2, <1>11 DEF PeekUnread, LoopAt, historyVars
    <2>2. seen \in SUBSET Messages
      BY <1>2
    <2> HIDE DEF seen
    <2>3. k \in LoopRecord /\ k.signals = l.signals /\ k.at = "reconcile" /\ k.seen = seen
      BY <1>2, <2>2 DEF LoopRecord
    <2>4. "reconcile" \notin InTurn /\ "peek" \notin InTurn
      BY DEF InTurn
    <2> HIDE DEF k
    <2> QED
      BY <1>2, <1>6, <1>7, <2>1, <2>3, <2>4 DEF seen
  <1>12. CASE ClaimNext(s)
    <2> DEFINE k == [l EXCEPT !.at = "starting", !.op = active'[s]]
    <2>1. /\ l.at = "next" /\ loop' = [loop EXCEPT ![s] = k]
          /\ permit' \in [Slots -> BOOLEAN] /\ UNCHANGED started
      BY <1>2, <1>12 DEF ClaimNext, LoopAt, historyVars
    <2>2. active'[s] \in 0..MaxOps /\ active'[s] \in DOMAIN batches'
      <3>1. IInv' /\ active'[s] # 0
        BY <1>2, <1>12 DEF ClaimNext, Claim, ClaimBatch, WorkMoves, WorkIInv, IInv, TypeOK
      <3> QED
        BY <3>1 DEF IInv, TypeOK, EveryIntentHasOnePlace
    <2>3. k \in LoopRecord /\ k.signals = l.signals /\ k.at = "starting" /\ k.seen = l.seen /\ k.op = active'[s]
      BY <1>2, <2>2 DEF LoopRecord
    <2>4. "starting" \notin InTurn /\ "next" \notin InTurn /\ "next" \in Peeked
      BY DEF InTurn, Peeked
    <2> HIDE DEF k
    <2> QED
      BY <1>2, <1>6, <1>7, <2>1, <2>2, <2>3, <2>4
  <1>13. CASE FindSignals(s)
    <2>1. PICK ids \in SUBSET queued[s] : loop' = [loop EXCEPT ![s].at = "signals", ![s].signals = ids]
      BY <1>13 DEF FindSignals
    <2> DEFINE k == [l EXCEPT !.at = "signals", !.signals = ids]
    <2>2. /\ l.at = "next" /\ loop' = [loop EXCEPT ![s] = k]
          /\ permit' \in [Slots -> BOOLEAN] /\ UNCHANGED started
      BY <1>2, <1>13, <2>1 DEF FindSignals, LoopAt, historyVars
    <2>3. ids \subseteq DOMAIN intents /\ ids \in SUBSET IntentId
      BY <1>2 DEF IInv, TypeOK, EveryIntentHasOnePlace
    <2>4. k \in LoopRecord /\ k.signals = ids /\ k.at = "signals"
      BY <1>2, <2>3 DEF LoopRecord
    <2>5. "signals" \notin Peeked /\ "signals" \notin InTurn /\ "next" \notin InTurn
      BY DEF Peeked, InTurn
    <2> HIDE DEF k
    <2> QED
      BY <1>2, <1>6, <1>7, <2>2, <2>3, <2>4, <2>5
  \* A turn that did not start has an end of its own.
  <1>14. CASE TurnFailsToStart(s)
    <2> DEFINE k == [l EXCEPT !.at = "ending", !.outcome = "Failed"]
    <2>1. /\ l.at = "starting" /\ loop' = [loop EXCEPT ![s] = k]
          /\ permit' \in [Slots -> BOOLEAN] /\ UNCHANGED started
      BY <1>2, <1>14 DEF TurnFailsToStart, LoopAt, historyVars
    <2>2. k \in LoopRecord /\ k.signals = l.signals /\ k.at = "ending" /\ k.op = l.op
      BY <1>2 DEF LoopRecord
    <2>3. "ending" \notin Peeked /\ "starting" \notin InTurn
      BY DEF Peeked, InTurn
    <2> HIDE DEF k
    <2> QED
      BY <1>2, <1>6, <1>7, <2>1, <2>2, <2>3
  \* The rows are marked read, or given to another turn.
  <1>15. CASE TurnEnds(s)
    <2> DEFINE k == [l EXCEPT !.at = "settle"]
    <2>1. loop' = [loop EXCEPT ![s] = k] /\ permit' \in [Slots -> BOOLEAN]
      BY <1>2, <1>15 DEF TurnEnds, LoopGoes
    <2>2. k \in LoopRecord /\ k.signals = l.signals /\ k.at = "settle"
      BY <1>2 DEF LoopRecord
    <2>3. "settle" \notin Peeked /\ "settle" \notin InTurn
      BY DEF Peeked, InTurn
    <2>4. \/ unread' = unread \ BatchMessages(l.op) /\ UNCHANGED started
          \/ started' = [m \in Messages |-> IF m \in BatchMessages(l.op) THEN 0 ELSE started[m]]
      BY <1>15 DEF TurnEnds, MarkRead
    <2>5. /\ started' \in [Messages -> Nat] /\ \A m \in Messages : started'[m] \in {0, started[m]}
          /\ \A m \in BatchMessages(l.op) \cap Messages : m \notin unread' \/ started'[m] = 0
      BY <1>2, <2>4
    <2> HIDE DEF k
    <2> QED
      BY <1>2, <1>6, <2>1, <2>2, <2>3, <2>5
  <1>16. CASE TurnStarted(s)
    <2>1. \E place \in {"cancelling", "running"} : LoopGoes(s, place)
      BY <1>16 DEF TurnStarted
    <2>2. permit' \in [Slots -> BOOLEAN] /\ started' \in [Messages -> Nat]
      BY <1>2, <1>16 DEF TurnStarted
    <2>3. DeliveryTyped'
      BY <2>1, <2>2, LoopPlaced
    <2> QED
      BY <1>16, <2>3, StartedOnce
  <1> QED
    BY <1>5, <1>9, <1>10, <1>11, <1>12, <1>13, <1>14, <1>15, <1>16 DEF LoopRuns, LoopFails

LEMMA OthersDeliver ==
  ASSUME DeliveryIInv, WorkMoves, OtherStep
  PROVE  Delivers
  <1>1. DeliveryTyped /\ WorkIInv /\ IInv /\ user \in UserRecord /\ active \in [Slots -> 0..MaxOps]
        /\ 0 \in 0..MaxOps
    BY BoundsAssumption DEF DeliveryIInv, DeliveryTyped, WorkIInv, IInv, TypeOK
  <1>2. UNCHANGED <<rows, producer, loop, started>> /\ unread' \subseteq unread
    BY Zenon DEF OtherStep, Attaches, AttachReady, TellReady, EnsureAgain, UserActs, UserContinues, UserCancelsRun,
       CancelRunWork, MarkCancelledRead, UserPausesSlot, CancelPausedBatch, TellManager, mailboxVars, historyVars,
       MarkRead, MarkFails
  <1>3. attach' \in [Slots -> {"attaching", "telling", "attached"}] /\ permit' \in [Slots -> BOOLEAN]
    BY <1>1, Zenon DEF DeliveryTyped, OtherStep, Attaches, AttachReady, TellReady, EnsureAgain, UserActs, UserContinues,
       UserCancelsRun, CancelRunWork, MarkCancelledRead, UserPausesSlot, CancelPausedBatch, TellManager
  <1>4. user' \in UserRecord
    <2>1. CASE UserCancelsRun
      <3>1. user' = [user EXCEPT !.at = "cancel_run"]
        BY <2>1 DEF UserCancelsRun
      <3> QED
        BY <1>1, <3>1 DEF UserRecord
    <2>2. CASE CancelRunWork
      <3> DEFINE taken == {i \in DOMAIN intents : intents[i].state \in Live /\ intents'[i].state = "Cancelled"}
                 ms == {intents[i].message : i \in taken} \ {NoMessage}
      <3>1. user' = [user EXCEPT !.at = "mark_read", !.messages = ms]
        BY <2>2 DEF CancelRunWork
      <3>2. ms \in SUBSET Messages
        <4>1. \A i \in DOMAIN intents : intents[i].message \in Messages \cup {NoMessage}
          BY <1>1, Facts DEF WorkIntent
        <4> QED
          BY <4>1
      <3> HIDE DEF taken, ms
      <3> QED
        BY <1>1, <3>1, <3>2 DEF UserRecord
    <2>3. CASE MarkCancelledRead
      BY <1>1, <2>3 DEF MarkCancelledRead, UserRecord
    <2>4. ASSUME NEW s \in Slots, UserPausesSlot(s) PROVE user' \in UserRecord
      <3>1. UNCHANGED user \/ user' = [user EXCEPT !.at = "cancel_batch", !.op = active[s]]
        BY <2>4 DEF UserPausesSlot
      <3> QED
        BY <1>1, <3>1 DEF UserRecord
    <2>5. CASE CancelPausedBatch
      BY <1>1, <2>5 DEF CancelPausedBatch, UserRecord
    <2>6. CASE UNCHANGED user
      BY <1>1, <2>6
    <2> QED
      BY <2>1, <2>2, <2>3, <2>4, <2>5, <2>6 DEF OtherStep, Attaches, AttachReady, TellReady, EnsureAgain, UserActs,
         UserContinues, TellManager
  <1>5. abandoned' \subseteq Messages
    <2>1. abandoned \subseteq Messages /\ user.messages \subseteq Messages
      BY <1>1 DEF DeliveryTyped, UserRecord
    <2>2. UNCHANGED abandoned \/ abandoned' = abandoned \cup user.messages
      BY Zenon DEF OtherStep, Attaches, AttachReady, TellReady, EnsureAgain, UserActs, UserContinues, UserCancelsRun,
         CancelRunWork, MarkCancelledRead, UserPausesSlot, CancelPausedBatch, TellManager, historyVars
    <2> QED
      BY <2>1, <2>2
  <1>6. left' \in [Occasion -> Nat]
    <2>1. UNCHANGED left \/ \E occasion \in Occasion : Happens(occasion)
      BY DEF OtherStep, Attaches, EnsureAgain, UserActs, UserContinues, UserCancelsRun, MarkCancelledRead,
         UserPausesSlot, TellManager, MarkRead, MarkFails, Occasion
    <2> QED
      BY <2>1, LeftTyped
  <1>7. DeliveryTyped'
    BY <1>1, <1>2, <1>3, <1>4, <1>5, <1>6 DEF DeliveryTyped
  <1>8. (\A s \in Slots : Holds(s, loop[s])') /\ HandedOnce'
    BY <1>2, LoopsStay
  <1>9. leases' \subseteq leases
    <2>1. CASE UNCHANGED coordinatorVars
      BY <2>1 DEF coordinatorVars
    <2>2. ASSUME NEW c, NEW op, NEW st, TerminalizeIfCurrent(c, op, st) PROVE UNCHANGED leases
      BY <2>2 DEF TerminalizeIfCurrent, Terminalize, TerminalizeBatch, workVars, coordinatorVars
    <2>3. ASSUME NEW s, TellReady(s) \/ UserPausesSlot(s) PROVE UNCHANGED leases
      BY <2>3 DEF TellReady, BecomeReady, SetConstraint, UserPausesSlot, Pause, PauseSlot
    <2>4. CASE CancelRunWork
      BY <2>4, Zenon DEF CancelRunWork, FinishCancel, CancelRun, LeasesAfter
    <2> QED
      BY <2>1, <2>2, <2>3, <2>4 DEF OtherStep, Attaches, AttachReady, EnsureAgain, UserActs, UserContinues,
         UserCancelsRun, BeginCancel, MarkCancelledRead, CancelPausedBatch, TellManager, AbortBinding, ApplyWorkSummary,
         workVars
  <1>10. SendersHold'
    BY <1>2, <1>9 DEF DeliveryIInv, SendersHold, SenderHolds, Addressed
  <1> QED
    BY <1>7, <1>8, <1>10 DEF Delivers

LEMMA DeliveryDelivers == DeliveryIInv /\ [DeliveryNext]_deliveryVars => Delivers
  <1> SUFFICES ASSUME DeliveryIInv, [DeliveryNext]_deliveryVars PROVE Delivers
    OBVIOUS
  <1>1. WorkMoves
    BY DeliveryMoves
  <1>2. CASE UNCHANGED deliveryVars
    <2>1. UNCHANGED <<rows, unread, attach, permit, producer, loop, user, started, abandoned, left>> /\ UNCHANGED leases
      BY <1>2 DEF deliveryVars, mailboxVars, historyVars, workVars, coordinatorVars
    <2>2. DeliveryTyped'
      BY <2>1 DEF DeliveryIInv, DeliveryTyped
    <2>3. (\A s \in Slots : Holds(s, loop[s])') /\ HandedOnce'
      BY <1>1, <2>1, LoopsStay
    <2>4. SendersHold'
      BY <2>1 DEF DeliveryIInv, SendersHold, SenderHolds, Addressed
    <2> QED
      BY <1>1, <2>2, <2>3, <2>4 DEF Delivers
  <1>3. CASE DeliveryNext
    BY <1>1, <1>3, SendDelivers, LoopDelivers, OthersDeliver DEF DeliveryNext, OtherStep
  <1> QED
    BY <1>2, <1>3

LEMMA DeliveryStep == DeliveryIInv /\ [DeliveryNext]_deliveryVars => DeliveryIInv'
  BY DeliveryDelivers DEF Delivers, WorkMoves, DeliveryIInv

LEMMA DeliveryInitGood == DeliveryInit => DeliveryIInv
  <1> SUFFICES ASSUME DeliveryInit PROVE DeliveryIInv
    OBVIOUS
  <1>1. WorkIInv
    BY WorkInitGood DEF DeliveryInit
  <1>2. PICK setting \in Settings :
           /\ producer = [p \in Producers |->
                 [at |-> IF p \in setting.calls THEN "begin" ELSE "done",
                  message |-> NoMessage, constraint |-> "Starting"]]
           /\ left = setting.left
    BY DEF DeliveryInit
  <1>3. DeliveryTyped
    <2>1. \A p \in Producers : producer[p] \in ProducerRecord
      BY <1>2 DEF ProducerRecord
    <2>2. loop \in [Slots -> LoopRecord]
      BY BetweenTyped DEF DeliveryInit
    <2>3. user \in UserRecord
      BY BoundsAssumption DEF DeliveryInit, UserRecord
    <2>4. producer \in [Producers -> ProducerRecord]
      BY <1>2, <2>1
    <2>5. rows \in Seq(Slots) /\ DOMAIN rows = {} /\ unread = {}
      BY DEF DeliveryInit
    <2>6. left \in [Occasion -> Nat]
      BY <1>2, SettingsAssumption
    <2> QED
      BY <2>2, <2>3, <2>4, <2>5, <2>6 DEF DeliveryInit, DeliveryTyped
  <1>4. \A s \in Slots : Holds(s, loop[s])
    BY DEF DeliveryInit, Between, Holds, Peeked, InTurn
  <1>5. HandedOnce
    BY DEF DeliveryInit, HandedOnce
  <1>6. SendersHold
    BY <1>2 DEF DeliveryInit, WorkInit, Init, SendersHold, SenderHolds, Addressed
  <1> QED
    BY <1>1, <1>3, <1>4, <1>5, <1>6 DEF DeliveryIInv

LEMMA DeliveryInvariant == DeliverySpec => []DeliveryIInv
  BY DeliveryInitGood, DeliveryStep, PTL DEF DeliverySpec

\* The types of the delivery: there are never more rows than messages, and only
\* rows that have been written are unread (DeliveryTypeOK).
THEOREM DeliveryTypeCorrect == DeliverySpec => []DeliveryTypeOK
  <1>1. DeliveryIInv => DeliveryTypeOK
    <2> SUFFICES ASSUME DeliveryIInv PROVE DeliveryTypeOK
      OBVIOUS
    <2>1. WorkTypeOK
      BY DEF DeliveryIInv, WorkIInv, IInv, PortTyped, WorkTypeOK
    <2>2. Len(rows) <= Cardinality(Messages)
      <3>1. Len(rows) \in Nat /\ 1..Len(rows) \subseteq Messages
        BY RowsAre
      <3>2. Cardinality(1..Len(rows)) = Len(rows)
        <4>1. Cardinality(1..Len(rows)) = IF 1 > Len(rows) THEN 0 ELSE Len(rows) - 1 + 1
          BY <3>1, FS_Interval
        <4> QED
          BY <3>1, <4>1
      <3> QED
        BY <3>1, <3>2, MessagesAssumption, FS_Subset
    <2> QED
      BY <2>1, <2>2 DEF DeliveryIInv, DeliveryTyped, DeliveryTypeOK
  <1> QED
    BY DeliveryInvariant, <1>1, PTL

\* Whatever senders, event loops, attaches and the user do, and whatever fails, is
\* what callers of the coordinator and of the run manager may do: the delivery
\* implements TeamWork, so that the theorems of TeamWorkProofs hold of it.
THEOREM ImplementsWork == DeliverySpec => WorkSpec
  <1>1. DeliveryInit => WorkInit
    BY DEF DeliveryInit
  <1> QED
    BY <1>1, DeliveryInvariant, DeliveryWorks, PTL DEF DeliverySpec, WorkSpec

\* Of the delivery: an active run with nothing left to hand over has work to come,
\* and work keeps its run, unless a call came late (RunEndsWithItsWork,
\* WorkKeepsItsRunUnlessLate).
THEOREM DeliveryKeepsRuns == DeliverySpec => []RunEndsWithItsWork /\ []WorkKeepsItsRunUnlessLate
  BY ImplementsWork, RunsEndWithTheirWork, WorkKeepsItsRun

\* However many senders, recoveries, retries, cancels and failing starts there
\* are, a message is in the input of at most one turn, unless it could not be
\* marked read after the first (AtMostOneTurn).
THEOREM MessagesAreHandedOnce == DeliverySpec => []AtMostOneTurn
  <1>1. DeliveryIInv => AtMostOneTurn
    BY DEF DeliveryIInv, HandedOnce, AtMostOneTurn
  <1> QED
    BY DeliveryInvariant, <1>1, PTL
----------------------------------------------------------------------------
(***************************************************************************)
(* No message is stranded.  For each slot the invariant follows the event    *)
(* loop from its wakeup to its sleep: what it has not seen has its sender or  *)
(* a permit, what it has seen is queued, and a slot that is not ready has     *)
(* been told or set back by a sender.                                        *)
(***************************************************************************)
Told(s) == WakeupAhead(s) \/ SetBack(s)

UserHolds == user.at # "mark_read" => user.messages = {}

\* What row m of slot s has ahead of it, wherever the event loop is.
RowTold(s, m) ==
    \/ m \in abandoned
    \/ /\ loop[s].at \in {"reconcile", "next"} /\ m \notin loop[s].seen => InSender(m) \/ permit[s]
       /\ loop[s].at = "next" /\ m \in loop[s].seen =>
             m \in user.messages \/ \E i \in queued[s] : intents[i].message = m
       /\ attach[s] = "attached" /\ ~paused[s] /\ loop[s].at = "waiting" =>
             InSender(m) \/ m \in user.messages \/ Told(s)

SlotTold(s) ==
    /\ permit[s] \/ loop[s].at # "waiting" => HasLoop(s)
    /\ active[s] # 0 => loop[s].at \in InTurn \cup {"starting", "settle"} /\ active[s] = loop[s].op
    /\ loop[s].at \in {"peek", "reconcile", "next"} =>
          constraint[s] # "Unknown" /\ (constraint[s] # "Ready" => Told(s))
    /\ \A m \in unread : rows[m] = s => RowTold(s, m)

ToldIInv == DeliveryIInv /\ UserHolds /\ \A s \in Slots : SlotTold(s)

\* Nothing slot s has ahead of it is lost in a step, but what could not be marked read.
Undisturbed(s) ==
    /\ loop'[s] = loop[s]
    /\ abandoned \subseteq abandoned'
    /\ attach[s] # "attaching" => attach'[s] # "attaching"
    /\ attach'[s] = "attached" => attach[s] = "attached" \/ permit'[s]
    /\ permit[s] => permit'[s]
    /\ permit'[s] => permit[s] \/ attach[s] # "attaching"
    /\ Told(s) => Told(s)' \/ attach'[s] = "attaching"
    /\ constraint'[s] # constraint[s] =>
          /\ constraint'[s] # "Unknown"
          /\ constraint'[s] = "Ready" \/ Told(s)' \/ constraint[s] = "Unknown"
    /\ active'[s] \in {0, active[s]}
    /\ ~paused'[s] => ~paused[s] \/ Told(s)'
    /\ \A m \in unread' : rows'[m] = s =>
          \/ m \notin DOMAIN rows /\ InSender(m)'
          \/ m \in abandoned'
          \/ /\ m \in unread /\ rows[m] = s
             /\ InSender(m) => InSender(m)' \/ permit'[s] \/ attach[s] = "attaching"
             /\ m \in user.messages => m \in user'.messages
             /\ \A i \in queued[s] : intents[i].message = m =>
                   m \in user'.messages \/ \E j \in queued'[s] : intents'[j].message = m

\* A slot is known before a sender can have set it back.
LEMMA SetBackKnown ==
  ASSUME DeliveryTyped, NEW s \in Slots, SetBack(s)
  PROVE  constraint[s] \in {"Starting", "Ready"}
  BY DEF SetBack, DeliveryTyped, ProducerRecord

LEMMA UndisturbedTold ==
  ASSUME ToldIInv, NEW s \in Slots, Undisturbed(s)
  PROVE  SlotTold(s)'
  <1>0. SlotTold(s) /\ loop[s] \in LoopRecord
    BY DEF ToldIInv, DeliveryIInv, DeliveryTyped
  <1>1. (permit[s] \/ loop[s].at # "waiting" => HasLoop(s))'
    BY <1>0 DEF SlotTold, HasLoop, Undisturbed
  <1>2. (active[s] # 0 => loop[s].at \in InTurn \cup {"starting", "settle"} /\ active[s] = loop[s].op)'
    BY <1>0 DEF SlotTold, Undisturbed
  <1>3. (loop[s].at \in {"peek", "reconcile", "next"} =>
            constraint[s] # "Unknown" /\ (constraint[s] # "Ready" => Told(s)))'
    BY <1>0 DEF SlotTold, Undisturbed, HasLoop
  <1>4. ASSUME NEW m \in unread', rows'[m] = s PROVE RowTold(s, m)'
    <2>1. CASE m \notin DOMAIN rows /\ InSender(m)'
      <3>1. Holds(s, loop[s])
        BY DEF ToldIInv, DeliveryIInv
      <3>2. loop[s].at = "next" => m \notin loop[s].seen
        BY <2>1, <3>1 DEF Holds, Peeked
      <3> QED
        BY <2>1, <3>2 DEF RowTold, Undisturbed
    <2>0. CASE m \in abandoned'
      BY <2>0 DEF RowTold
    <2>2. CASE /\ m \in unread /\ rows[m] = s
               /\ InSender(m) => InSender(m)' \/ permit'[s] \/ attach[s] = "attaching"
               /\ m \in user.messages => m \in user'.messages
               /\ \A i \in queued[s] : intents[i].message = m =>
                     m \in user'.messages \/ \E j \in queued'[s] : intents'[j].message = m
      <3>0. CASE m \in abandoned
        BY <3>0 DEF RowTold, Undisturbed
      <3> SUFFICES ASSUME m \notin abandoned PROVE RowTold(s, m)'
        BY <3>0
      <3>1. RowTold(s, m)
        BY <1>0, <2>2 DEF SlotTold
      <3>2. permit'[s] => Told(s)'
        BY DEF Told, WakeupAhead
      <3>3. attach[s] = "attaching" => loop[s].at = "waiting" /\ ~permit[s]
        BY <1>0 DEF SlotTold, HasLoop
      <3>4. /\ loop'[s] = loop[s] /\ (permit[s] => permit'[s]) /\ (Told(s) => Told(s)' \/ attach'[s] = "attaching")
            /\ attach'[s] = "attached" => attach[s] = "attached" \/ permit'[s]
            /\ ~paused'[s] => ~paused[s] \/ Told(s)'
        BY DEF Undisturbed
      <3>5. (loop[s].at \in {"reconcile", "next"} /\ m \notin loop[s].seen => InSender(m) \/ permit[s])'
        BY <2>2, <3>1, <3>3, <3>4 DEF RowTold
      <3>6. (loop[s].at = "next" /\ m \in loop[s].seen =>
                m \in user.messages \/ \E i \in queued[s] : intents[i].message = m)'
        BY <2>2, <3>1, <3>4 DEF RowTold
      <3>7. (attach[s] = "attached" /\ ~paused[s] /\ loop[s].at = "waiting" =>
                InSender(m) \/ m \in user.messages \/ Told(s))'
        BY <2>2, <3>1, <3>2, <3>4 DEF RowTold
      <3> QED
        BY <3>5, <3>6, <3>7 DEF RowTold
    <2> QED
      BY <1>4, <2>0, <2>1, <2>2 DEF Undisturbed
  <1> QED
    BY <1>1, <1>2, <1>3, <1>4 DEF SlotTold

----------------------------------------------------------------------------
\* Sender p goes on without telling the event loop.
Unchanging(p) ==
    /\ UNCHANGED <<attach, loop, user, active, permit>>
    /\ abandoned \subseteq abandoned'
    /\ \A q \in Producers \ {p} : producer'[q] = producer[q]
    /\ \A s \in Slots : queued[s] \subseteq queued'[s]

SenderGoesOn(p) ==
    /\ producer[p].at # "notify"
    /\ \A s \in Slots : Untold(p, s) => Untold(p, s)' /\ producer'[p].constraint = producer[p].constraint
    /\ \A s \in Slots : constraint'[s] # constraint[s] =>
          /\ constraint'[s] # "Unknown"
          /\ constraint[s] = "Unknown" \/ (Untold(p, s)' /\ producer'[p].constraint = constraint'[s])
    /\ \A s \in Slots : ~paused'[s] => ~paused[s] \/ (TargetOf[p] = s /\ producer'[p].at = "notify")

RowsGoOn(p) ==
    \A m \in unread' :
        \/ m \notin DOMAIN rows /\ InSender(m)'
        \/ m \in abandoned'
        \/ /\ m \in unread /\ rows'[m] = rows[m]
           /\ producer[p].message = m /\ producer[p].at \notin {"done", "failed"} =>
                 producer'[p].message = m /\ producer'[p].at \notin {"done", "failed"}

\* The queue of a slot keeps the messages it has.
LEMMA QueueKept ==
  ASSUME ToldIInv, WorkMoves, NEW s \in Slots, queued[s] \subseteq queued'[s], NEW m
  PROVE  \A i \in queued[s] : intents[i].message = m => \E j \in queued'[s] : intents'[j].message = m
  <1>1. queued[s] \subseteq DOMAIN intents
    BY QueueIsQueued DEF ToldIInv, DeliveryIInv, WorkIInv
  <1> QED
    BY <1>1 DEF WorkMoves, Keeps

LEMMA SendUndisturbed ==
  ASSUME ToldIInv, Delivers, NEW p \in Producers, Unchanging(p), SenderGoesOn(p), RowsGoOn(p), NEW s \in Slots
  PROVE  Undisturbed(s)
  <1>1. producer'[p].constraint \in {"Starting", "Ready"} /\ DeliveryTyped
    BY DEF Delivers, DeliveryTyped, ProducerRecord, ToldIInv, DeliveryIInv
  <1>2. ASSUME NEW q \in Producers, Untold(q, s)
        PROVE  Untold(q, s)' /\ producer'[q].constraint = producer[q].constraint
    <2>1. CASE q = p
      BY <1>2, <2>1 DEF SenderGoesOn
    <2>2. CASE q # p
      BY <1>2, <2>2 DEF Unchanging, Untold
    <2> QED
      BY <2>1, <2>2
  <1>3. WakeupAhead(s) => WakeupAhead(s)'
    BY DEF WakeupAhead, Unchanging, SenderGoesOn
  <1>4. SetBack(s) => SetBack(s)'
    <2>1. CASE constraint'[s] = constraint[s]
      BY <1>2, <2>1 DEF SetBack
    <2>2. CASE constraint'[s] # constraint[s]
      BY <1>1, <1>2, <2>2, SetBackKnown DEF SetBack, SenderGoesOn
    <2> QED
      BY <2>1, <2>2
  <1>5. constraint'[s] # constraint[s] =>
            constraint'[s] # "Unknown" /\ (constraint'[s] = "Ready" \/ SetBack(s)' \/ constraint[s] = "Unknown")
    BY <1>1 DEF SetBack, SenderGoesOn
  <1>6. ~paused'[s] => ~paused[s] \/ WakeupAhead(s)'
    BY DEF SenderGoesOn, WakeupAhead
  <1>7. ASSUME NEW m \in unread', m \in unread, rows'[m] = rows[m],
               producer[p].message = m /\ producer[p].at \notin {"done", "failed"} =>
                   producer'[p].message = m /\ producer'[p].at \notin {"done", "failed"}
        PROVE  /\ InSender(m) => InSender(m)'
               /\ \A i \in queued[s] : intents[i].message = m => \E j \in queued'[s] : intents'[j].message = m
    <2>1. InSender(m) => InSender(m)'
      BY <1>7 DEF InSender, Unchanging
    <2> QED
      BY <2>1, QueueKept DEF Unchanging, Delivers
  <1>8. \A m \in unread' : rows'[m] = s =>
          \/ m \notin DOMAIN rows /\ InSender(m)'
          \/ m \in abandoned'
          \/ /\ m \in unread /\ rows[m] = s
             /\ InSender(m) => InSender(m)' \/ permit'[s] \/ attach[s] = "attaching"
             /\ m \in user.messages => m \in user'.messages
             /\ \A i \in queued[s] : intents[i].message = m =>
                   m \in user'.messages \/ \E j \in queued'[s] : intents'[j].message = m
    BY <1>7 DEF RowsGoOn, Unchanging
  <1> QED
    BY <1>3, <1>4, <1>5, <1>6, <1>8 DEF Undisturbed, Told, Unchanging

\* A row that is written has its sender.
LEMMA RowHasSender ==
  ASSUME ToldIInv, NEW p \in Producers, producer[p].message = NoMessage, WriteRow(p)
  PROVE  /\ RowsGoOn(p)
         /\ producer'[p].message \in Messages
         /\ producer'[p].at = IF producer[p].at = "begin" THEN "find" ELSE "commit"
         /\ producer'[p].constraint = producer[p].constraint
         /\ \A q \in Producers \ {p} : producer'[q] = producer[q]
  <1>1. /\ Len(rows) \in Nat /\ DOMAIN rows = 1..Len(rows) /\ unread \subseteq DOMAIN rows
        /\ producer \in [Producers -> ProducerRecord]
    BY RowsAre DEF ToldIInv, DeliveryIInv, DeliveryTyped
  <1>2. PICK n \in Messages : /\ n = Len(rows) + 1 /\ unread' = unread \cup {n}
                              /\ producer' = [producer EXCEPT ![p].message = n,
                                                 ![p].at = IF @ = "begin" THEN "find" ELSE "commit"]
    BY DEF WriteRow
  <1>3. /\ producer'[p].message = n
        /\ producer'[p].at = IF producer[p].at = "begin" THEN "find" ELSE "commit"
        /\ producer'[p].constraint = producer[p].constraint
        /\ \A q \in Producers \ {p} : producer'[q] = producer[q]
    BY <1>1, <1>2 DEF ProducerRecord
  <1>4. n \notin DOMAIN rows /\ InSender(n)'
    BY <1>1, <1>2, <1>3 DEF InSender
  <1>5. \A m \in unread : rows'[m] = rows[m] /\ m # NoMessage
    BY <1>1, RowsAre, RowWritten, MessagesAssumption DEF ToldIInv
  <1>6. RowsGoOn(p)
    BY <1>2, <1>4, <1>5 DEF RowsGoOn
  <1> QED
    BY <1>3, <1>6

LEMMA SendTold ==
  ASSUME ToldIInv, Delivers, NEW p \in Producers, Send(p)
  PROVE  UserHolds' /\ \A s \in Slots : SlotTold(s)'
  <1>1. /\ producer[p] \in ProducerRecord /\ producer \in [Producers -> ProducerRecord]
        /\ TargetOf[p] \in Slots /\ SenderHolds(p) /\ SendersHold /\ WorkIInv
        /\ queued \in [Slots -> SUBSET IntentId] /\ paused \in [Slots -> BOOLEAN]
        /\ constraint \in [Slots -> RuntimeConstraint] /\ permit \in [Slots -> BOOLEAN]
        /\ unread \subseteq Messages
    BY ProducersAssumption, RowsAre DEF ToldIInv, DeliveryIInv, DeliveryTyped, SendersHold, WorkIInv, IInv, TypeOK
  <1>0. UserHolds'
    BY DEF ToldIInv, UserHolds, Send, BeginSend, FindRow, PublishConstraint, AcquireLease, WriteMessage, FailWrite,
       CommitLease, Compensate, NotifyLoop
  <1> SUFFICES \A s \in Slots : SlotTold(s)'
    BY <1>0
  <1>3. ASSUME Unchanging(p), SenderGoesOn(p), RowsGoOn(p)
        PROVE  \A s \in Slots : SlotTold(s)'
    BY <1>3, SendUndisturbed, UndisturbedTold
  \* Steps that go to another place and write nothing.
  <1>4. ASSUME NEW place \in SendPlaces, ProducerGoes(p, place)
        PROVE  /\ producer'[p].at = place /\ producer'[p].message = producer[p].message
               /\ producer'[p].constraint = producer[p].constraint
               /\ \A q \in Producers \ {p} : producer'[q] = producer[q]
    BY <1>1, <1>4 DEF ProducerGoes, ProducerRecord
  <1>5. ASSUME NEW k \in {"Starting", "Ready"},
               producer' = [producer EXCEPT ![p].at = "publish", ![p].constraint = k]
        PROVE  /\ producer'[p].at = "publish" /\ producer'[p].message = producer[p].message
               /\ \A q \in Producers \ {p} : producer'[q] = producer[q]
    BY <1>1, <1>5 DEF ProducerRecord
  <1>6. ASSUME UNCHANGED rows, unread' \subseteq unread,
               \/ producer'[p].message = producer[p].message /\ producer'[p].at \notin {"done", "failed"}
               \/ producer[p].message \notin unread' \/ producer[p].message \in abandoned'
        PROVE  RowsGoOn(p)
    BY <1>6 DEF RowsGoOn
  <1>7. ASSUME UNCHANGED <<workVars, attach, loop, user, permit, abandoned>>, \A q \in Producers \ {p} : producer'[q] = producer[q]
        PROVE  /\ Unchanging(p) /\ UNCHANGED <<constraint, paused, user>>
    BY <1>7 DEF Unchanging, workVars, coordinatorVars, slotVars
  <1>8. MemberStatus(TargetOf[p]) \in {"Starting", "Ready"}
    BY DEF MemberStatus
  <1>9. CASE BeginSend(p) /\ WritesFirst(SourceOf[p])
    <2>1. /\ producer[p].at = "begin" /\ WriteRow(p) /\ producer[p].message = NoMessage
          /\ UNCHANGED <<workVars, attach, loop, user, permit, abandoned>>
      BY <1>1, <1>9 DEF BeginSend, ProducerAt, SenderHolds, historyVars
    <2>2. RowsGoOn(p) /\ producer'[p].at = "find" /\ \A q \in Producers \ {p} : producer'[q] = producer[q]
      BY <2>1, RowHasSender
    <2>3. Unchanging(p) /\ UNCHANGED <<constraint, paused, user>>
      BY <1>7, <2>1, <2>2
    <2>4. SenderGoesOn(p)
      BY <2>1, <2>2, <2>3 DEF SenderGoesOn, Untold
    <2> QED
      BY <1>3, <2>2, <2>3, <2>4
  <1>10. CASE WriteMessage(p)
    <2>1. /\ producer[p].at = "write" /\ WriteRow(p) /\ producer[p].message = NoMessage
          /\ UNCHANGED <<workVars, attach, loop, user, permit, abandoned>>
      BY <1>1, <1>10 DEF WriteMessage, ProducerAt, SenderHolds, historyVars
    <2>2. /\ RowsGoOn(p) /\ producer'[p].at = "commit" /\ producer'[p].constraint = producer[p].constraint
          /\ \A q \in Producers \ {p} : producer'[q] = producer[q]
      BY <2>1, RowHasSender
    <2>3. Unchanging(p) /\ UNCHANGED <<constraint, paused, user>>
      BY <1>7, <2>1, <2>2
    <2>4. SenderGoesOn(p)
      BY <2>1, <2>2, <2>3 DEF SenderGoesOn, Untold
    <2> QED
      BY <1>3, <2>2, <2>3, <2>4
  <1>11. CASE \/ BeginSend(p) /\ ~WritesFirst(SourceOf[p])
              \/ FindRow(p) /\ producer[p].message \in unread
    <2>1. /\ \/ producer[p].at = "begin" /\ producer[p].message = NoMessage
             \/ producer[p].at = "find" /\ WritesFirst(SourceOf[p])
          /\ producer' = [producer EXCEPT ![p].at = "publish", ![p].constraint = MemberStatus(TargetOf[p])]
          /\ UNCHANGED <<rows, unread>>
          /\ UNCHANGED <<workVars, attach, loop, user, permit, abandoned>>
      <3>1. CASE BeginSend(p) /\ ~WritesFirst(SourceOf[p])
        BY <1>1, <3>1 DEF BeginSend, ProducerAt, SenderHolds, mailboxVars, historyVars
      <3>2. CASE FindRow(p) /\ producer[p].message \in unread
        BY <1>1, <3>2 DEF FindRow, ProducerAt, SenderHolds, mailboxVars, historyVars
      <3> QED
        BY <1>11, <3>1, <3>2
    <2>2. /\ producer'[p].at = "publish" /\ producer'[p].message = producer[p].message
          /\ \A q \in Producers \ {p} : producer'[q] = producer[q]
      BY <1>5, <1>8, <2>1
    <2>3. Unchanging(p) /\ UNCHANGED <<constraint, paused, user>>
      BY <1>7, <2>1, <2>2
    <2>4. SenderGoesOn(p) /\ RowsGoOn(p)
      BY <1>6, <2>1, <2>2, <2>3 DEF SenderGoesOn, Untold
    <2> QED
      BY <1>3, <2>3, <2>4
  <1>12. CASE FindRow(p) /\ producer[p].message \notin unread
    <2>1. /\ producer[p].at = "find" /\ ProducerGoes(p, "done") /\ "done" \in SendPlaces
          /\ UNCHANGED <<rows, unread>>
          /\ UNCHANGED <<workVars, attach, loop, user, permit, abandoned>>
      BY <1>12 DEF FindRow, ProducerAt, ProducerGoes, mailboxVars, SendPlaces, historyVars
    <2>2. /\ producer'[p].at = "done" /\ producer'[p].message = producer[p].message
          /\ \A q \in Producers \ {p} : producer'[q] = producer[q]
      BY <1>4, <2>1
    <2>3. Unchanging(p) /\ UNCHANGED <<constraint, paused, user>>
      BY <1>7, <2>1, <2>2
    <2>4. SenderGoesOn(p) /\ RowsGoOn(p)
      BY <1>6, <1>12, <2>1, <2>2, <2>3 DEF SenderGoesOn, Untold
    <2> QED
      BY <1>3, <2>3, <2>4
  <1>13. CASE PublishConstraint(p)
    <2>1. /\ producer[p].at = "publish" /\ ProducerGoes(p, "acquire") /\ "acquire" \in SendPlaces
          /\ SetConstraint(TargetOf[p], producer[p].constraint) /\ producer[p].constraint \in {"Starting", "Ready"}
          /\ UNCHANGED <<rows, unread>> /\ UNCHANGED <<attach, permit, loop, user, abandoned>>
      BY <1>1, <1>13 DEF PublishConstraint, Constrain, ProducerAt, mailboxVars, SendPlaces, ProducerRecord, historyVars
    <2>2. /\ producer'[p].at = "acquire" /\ producer'[p].message = producer[p].message
          /\ producer'[p].constraint = producer[p].constraint
          /\ \A q \in Producers \ {p} : producer'[q] = producer[q]
      BY <1>4, <2>1, SMTT(20)
    <2>3. /\ UNCHANGED <<queued, active, paused, leases>>
          /\ constraint' = [constraint EXCEPT ![TargetOf[p]] = producer[p].constraint]
      BY <2>1, Zenon DEF SetConstraint
    <2>4. Unchanging(p) /\ SenderGoesOn(p) /\ RowsGoOn(p)
      BY <1>1, <1>6, <2>1, <2>2, <2>3 DEF SenderGoesOn, Untold, Unchanging
    <2> QED
      BY <1>3, <2>4
  <1>14. CASE AcquireLease(p)
    <2> DEFINE place == IF SourceOf[p] \in SignalSources \/ WritesFirst(SourceOf[p]) THEN "commit" ELSE "write"
    <2>1. /\ producer[p].at = "acquire" /\ ProducerGoes(p, place)
          /\ UNCHANGED <<rows, unread>> /\ UNCHANGED <<attach, permit, loop, user, abandoned>>
          /\ \E r : AcquireEnqueue(p, TargetOf[p], SourceOf[p], r)
      BY <1>14 DEF AcquireLease, Acquire, ProducerAt, mailboxVars, historyVars
    <2>2. /\ producer'[p].at = place /\ producer'[p].message = producer[p].message
          /\ producer'[p].constraint = producer[p].constraint
          /\ \A q \in Producers \ {p} : producer'[q] = producer[q]
      BY <1>4, <2>1 DEF SendPlaces
    <2>3. PICK r : AcquireEnqueue(p, TargetOf[p], SourceOf[p], r)
      BY <2>1
    <2>4. /\ UNCHANGED <<queued, active, paused>>
          /\ \A s \in Slots : constraint'[s] # constraint[s] => constraint[s] = "Unknown" /\ constraint'[s] # "Unknown"
      BY <1>1, <2>3 DEF AcquireEnqueue, MakeKnown
    <2>5. Unchanging(p) /\ SenderGoesOn(p) /\ RowsGoOn(p)
      BY <1>6, <2>1, <2>2, <2>4 DEF SenderGoesOn, Untold, Unchanging
    <2> QED
      BY <1>3, <2>5
  \* The lease is gone, or goes.
  <1>15. ASSUME NEW place \in {"failed", "compensate"}, ProducerGoes(p, place),
                producer[p].at \in {"write", "commit", "compensate"},
                UNCHANGED rows, unread' \subseteq unread, UNCHANGED <<attach, permit, loop, user>>,
                abandoned \subseteq abandoned', UNCHANGED <<queued, active, paused, constraint>>,
                \/ place = "compensate"
                \/ producer[p].message \notin unread' \/ producer[p].message \in abandoned'
         PROVE  \A s \in Slots : SlotTold(s)'
    <2>1. /\ producer'[p].at = place /\ producer'[p].message = producer[p].message
          /\ producer'[p].constraint = producer[p].constraint
          /\ \A q \in Producers \ {p} : producer'[q] = producer[q]
      BY <1>4, <1>15 DEF SendPlaces
    <2>2. Unchanging(p) /\ SenderGoesOn(p) /\ RowsGoOn(p)
      BY <1>6, <1>15, <2>1 DEF SenderGoesOn, Untold, Unchanging
    <2> QED
      BY <1>3, <2>2
  <1>16. NoMessage \notin unread
    BY <1>1, MessagesAssumption
  <1>17. UNCHANGED workVars => UNCHANGED <<queued, active, paused, constraint>>
    BY DEF workVars, coordinatorVars, slotVars
  <1>18. CASE FailWrite(p)
    <2>1. /\ producer[p].at = "write" /\ ProducerGoes(p, "failed") /\ producer[p].message = NoMessage
          /\ UNCHANGED <<rows, unread>> /\ UNCHANGED <<attach, permit, loop, user, abandoned>>
          /\ UNCHANGED workVars \/ \E l : AbortEnqueue(l)
      BY <1>1, <1>18 DEF FailWrite, ProducerAt, mailboxVars, SenderHolds, Abort, historyVars
    <2>2. UNCHANGED <<queued, active, paused, constraint>>
      BY <1>17, <2>1 DEF AbortEnqueue, slotVars
    <2> QED
      BY <1>15, <1>16, <2>1, <2>2
  <1>19. CASE CommitLease(p) /\ LeaseOf(p) = {}
    <2>1. /\ producer[p].at = "commit"
          /\ ProducerGoes(p, IF producer[p].message = NoMessage THEN "failed" ELSE "compensate")
          /\ UNCHANGED <<rows, unread>> /\ UNCHANGED <<attach, permit, loop, user, abandoned>>
          /\ UNCHANGED workVars
      BY <1>19 DEF CommitLease, ProducerAt, mailboxVars, historyVars
    <2> QED
      BY <1>15, <1>16, <1>17, <2>1
  <1>20. CASE Compensate(p)
    <2>1. /\ producer[p].at = "compensate" /\ ProducerGoes(p, "failed")
          /\ UNCHANGED rows /\ UNCHANGED <<attach, permit, loop, user>> /\ UNCHANGED workVars
          /\ unread' \subseteq unread /\ abandoned \subseteq abandoned'
          /\ producer[p].message \notin unread' \/ producer[p].message \in abandoned'
      BY <1>20 DEF Compensate, ProducerAt, MarkRead, MarkFails, mailboxVars
    <2> QED
      BY <1>15, <1>17, <2>1
  <1>21. ASSUME NEW l \in LeaseOf(p), CommitLease(p), Commit(p, l, producer[p].message), ProducerGoes(p, "notify")
         PROVE  \A s \in Slots : SlotTold(s)'
    <2>1. producer[p].at = "commit" /\ UNCHANGED <<rows, unread>> /\ UNCHANGED <<attach, permit, loop, user, abandoned>>
      BY <1>21 DEF CommitLease, ProducerAt, mailboxVars, historyVars
    <2>2. l \in leases /\ l.slot = TargetOf[p]
      BY <1>1, <1>21 DEF LeaseOf, SendersHold
    <2>3. CommitEnqueue(l, producer[p].message)
      BY <1>21 DEF Commit
    <2>4. /\ UNCHANGED <<active, constraint>>
          /\ \E id : queued' = [queued EXCEPT ![TargetOf[p]] = @ \cup {id}]
          /\ \E b : paused' = [paused EXCEPT ![TargetOf[p]] = b]
      BY <2>2, <2>3 DEF CommitEnqueue
    <2>5. /\ producer'[p].at = "notify" /\ producer'[p].message = producer[p].message
          /\ producer'[p].constraint = producer[p].constraint
          /\ \A q \in Producers \ {p} : producer'[q] = producer[q]
      BY <1>4, <1>21 DEF SendPlaces
    <2>6. \A s \in Slots : queued[s] \subseteq queued'[s] /\ (s # TargetOf[p] => paused'[s] = paused[s])
      BY <1>1, <2>4
    <2>7. Unchanging(p) /\ SenderGoesOn(p) /\ RowsGoOn(p)
      BY <1>6, <2>1, <2>4, <2>5, <2>6 DEF SenderGoesOn, Untold, Unchanging
    <2> QED
      BY <1>3, <2>7
  <1>22. CASE NotifyLoop(p)
    <2>1. /\ producer[p].at = "notify" /\ ProducerGoes(p, "done")
          /\ permit' = [permit EXCEPT ![TargetOf[p]] = @ \/ HasLoop(TargetOf[p])]
          /\ UNCHANGED <<rows, unread, attach, loop, user, abandoned>> /\ UNCHANGED workVars
      BY <1>22 DEF NotifyLoop, ProducerAt, mailboxVars, historyVars
    <2>2. /\ producer'[p].at = "done" /\ producer'[p].message = producer[p].message
          /\ producer'[p].constraint = producer[p].constraint
          /\ \A q \in Producers \ {p} : producer'[q] = producer[q]
      BY <1>4, <2>1 DEF SendPlaces
    <2>3. UNCHANGED <<queued, active, paused, constraint>>
      BY <1>17, <2>1
    <2>5. ASSUME NEW s \in Slots PROVE Undisturbed(s)
      <3>1. /\ s # TargetOf[p] => permit'[s] = permit[s]
            /\ s = TargetOf[p] => permit'[s] = (permit[s] \/ HasLoop(s))
        BY <1>1, <2>1
      <3>2. \A m : \A i \in queued[s] : intents[i].message = m => \E j \in queued'[s] : intents'[j].message = m
        BY <2>3, QueueKept DEF Delivers
      <3>3. CASE s = TargetOf[p]
        <4>1. permit'[s] \/ attach'[s] = "attaching"
          BY <2>1, <3>1, <3>3 DEF HasLoop
        <4>2. permit'[s] => Told(s)'
          BY DEF Told, WakeupAhead
        <4>3. \A m \in unread' : m \in unread /\ rows'[m] = rows[m]
          BY <2>1
        <4> QED
          BY <2>1, <2>3, <3>1, <3>2, <3>3, <4>1, <4>2, <4>3 DEF Undisturbed, HasLoop
      <3>4. CASE s # TargetOf[p]
        <4>1. Told(s) => Told(s)'
          BY <2>1, <2>2, <2>3, <3>1, <3>4 DEF Told, WakeupAhead, SetBack, Untold
        <4>2. \A m \in unread' : m \in unread /\ rows'[m] = rows[m]
          BY <2>1
        <4>3. ASSUME NEW m \in unread, rows[m] = s, InSender(m) PROVE InSender(m)'
          <5>1. producer[p].message # m
            BY <1>1, <1>16, <3>4, <4>3 DEF SendersHold, Addressed
          <5> QED
            BY <2>2, <4>3, <5>1 DEF InSender
        <4> QED
          BY <2>1, <2>3, <3>1, <3>2, <3>4, <4>1, <4>2, <4>3 DEF Undisturbed
      <3> QED
        BY <3>3, <3>4
    <2> QED
      BY <2>5, UndisturbedTold
  <1>23. CommitLease(p) => LeaseOf(p) = {} \/ \E l \in LeaseOf(p) :
             Commit(p, l, producer[p].message) /\ ProducerGoes(p, "notify")
    BY DEF CommitLease
  <1> QED
    BY <1>9, <1>10, <1>11, <1>12, <1>13, <1>14, <1>18, <1>19, <1>20, <1>21, <1>22, <1>23 DEF Send

----------------------------------------------------------------------------
\* A step of the event loop of slot s, for the other slots.
Elsewhere(s) ==
    \A t \in Slots \ {s} :
        /\ loop'[t] = loop[t] /\ permit'[t] = permit[t] /\ constraint'[t] = constraint[t]
        /\ active'[t] \in {0, active[t]}
        /\ queued[t] \subseteq queued'[t]

LoopKeeps ==
    /\ UNCHANGED <<attach, producer, user, rows, paused, abandoned>>
    /\ unread' \subseteq unread

\* What a step of the coordinator that slot s makes leaves alone.
WorkElsewhere(s) ==
    /\ UNCHANGED paused
    /\ \A t \in Slots \ {s} : /\ constraint'[t] = constraint[t]
                              /\ active'[t] \in {0, active[t]}
                              /\ queued[t] \subseteq queued'[t]

LEMMA ElsewhereTold ==
  ASSUME ToldIInv, Delivers, NEW s \in Slots, Elsewhere(s), LoopKeeps, NEW t \in Slots \ {s}
  PROVE  SlotTold(t)'
  <1>1. queued[t] \subseteq queued'[t]
    BY DEF Elsewhere
  <1>2. \A m : \A i \in queued[t] : intents[i].message = m => \E j \in queued'[t] : intents'[j].message = m
    BY <1>1, QueueKept DEF Delivers
  <1>3. Told(t)' <=> Told(t)
    BY DEF Told, WakeupAhead, SetBack, Untold, Elsewhere, LoopKeeps
  <1>4. \A m : InSender(m)' <=> InSender(m)
    BY DEF InSender, LoopKeeps
  <1>5. Undisturbed(t)
    BY <1>2, <1>3, <1>4 DEF Undisturbed, Elsewhere, LoopKeeps
  <1> QED
    BY <1>5, UndisturbedTold

LEMMA WorkIsElsewhere ==
  ASSUME ToldIInv, NEW s \in Slots, LoopRuns(s) \/ LoopFails(s)
  PROVE  WorkElsewhere(s)
  <1>1. /\ queued \in [Slots -> SUBSET IntentId] /\ active \in [Slots -> 0..MaxOps]
        /\ constraint \in [Slots -> RuntimeConstraint]
    BY DEF ToldIInv, DeliveryIInv, WorkIInv, IInv, TypeOK
  <1>2. CASE UNCHANGED workVars
    BY <1>2 DEF workVars, coordinatorVars, slotVars, WorkElsewhere
  <1>3. CASE Prepare(s)
    BY <1>1, <1>3 DEF Prepare, Constrain, SetConstraint, MemberStatus, WorkElsewhere
  <1>4. CASE Reconcile(s)
    <2>1. CASE ReconcileUntold(s, loop[s].seen)
      BY <1>1, <2>1 DEF ReconcileUntold, ReconcileMailbox, MakeKnown, WorkElsewhere
    <2> QED
      BY <1>2, <1>4, <2>1 DEF Reconcile
  <1>5. CASE Claim(s, s)
    BY <1>1, <1>5 DEF Claim, ClaimBatch, WorkElsewhere
  <1>6. CASE SettleSignals(s, s, loop[s].signals)
    BY <1>1, <1>6 DEF SettleSignals, CompleteSignals, WorkElsewhere
  <1>7. ASSUME NEW op, Start(s, op) PROVE WorkElsewhere(s)
    BY <1>1, <1>7 DEF Start, MarkStarted, WorkElsewhere
  <1>8. ASSUME NEW op, Retry(s, op) PROVE WorkElsewhere(s)
    BY <1>1, <1>8 DEF Retry, RetryStart, WorkElsewhere
  <1>9. ASSUME NEW op, NEW st, TerminalizeIfCurrent(s, op, st) PROVE WorkElsewhere(s)
    BY <1>1, <1>2, <1>9 DEF TerminalizeIfCurrent, Terminalize, TerminalizeBatch, WorkElsewhere
  <1> QED
    BY <1>2, <1>3, <1>4, <1>5, <1>6, <1>7, <1>8, <1>9
       DEF LoopRuns, LoopFails, WakeLoop, PeekUnread, PeekFails, ClaimNext, FindSignals, WaitAgain, HandleSignals,
           TurnStarted, CancelLateStart, TurnEnds, SettleBatch, SkipBusy, TurnFailsToStart

\* What a step of the event loop of slot s writes.
LEMMA LoopIsElsewhere ==
  ASSUME ToldIInv, NEW s \in Slots, LoopRuns(s) \/ LoopFails(s)
  PROVE  Elsewhere(s) /\ LoopKeeps
  <1>1. DeliveryIInv /\ loop \in [Slots -> LoopRecord] /\ permit \in [Slots -> BOOLEAN]
    BY DEF ToldIInv, DeliveryIInv, DeliveryTyped
  <1>2. WorkElsewhere(s)
    BY WorkIsElsewhere
  <1>3. \A t \in Slots \ {s} : loop'[t] = loop[t] /\ permit'[t] = permit[t]
    BY <1>1 DEF LoopRuns, LoopFails, WakeLoop, Prepare, PeekUnread, PeekFails, Reconcile, ClaimNext, FindSignals,
       WaitAgain, HandleSignals, TurnStarted, CancelLateStart, TurnEnds, SettleBatch, SkipBusy, TurnFailsToStart,
       LoopGoes
  <1> QED
    BY <1>1, <1>2, <1>3, LoopFrame DEF Elsewhere, LoopKeeps, WorkElsewhere

\* The event loop leaves its peek, or a turn, with a batch it still owns.
LEMMA LoopOut ==
  ASSUME ToldIInv, NEW s \in Slots, UNCHANGED attach, HasLoop(s),
         loop'[s].at \in {"prepare", "signals", "starting", "settle", "deferred"} \cup InTurn,
         active'[s] # 0 => loop'[s].at \in {"starting", "settle"} \cup InTurn /\ active'[s] = loop'[s].op
  PROVE  SlotTold(s)'
  <1>1. loop'[s].at \notin {"peek", "reconcile", "next", "waiting"}
    BY DEF InTurn
  <1>2. \A m \in unread' : rows'[m] = s => RowTold(s, m)'
    BY <1>1 DEF RowTold
  <1> QED
    BY <1>1, <1>2 DEF SlotTold, HasLoop

\* Every message the reconciled peek saw is queued.
LEMMA SeenIsQueued ==
  ASSUME IInv, NEW s \in Slots, NEW seen \in SUBSET Messages, active[s] = 0,
         \/ ReconcileMailbox(s, seen)
         \/ Stale(s, seen) \cup Unowned(s, seen) = {} /\ UNCHANGED workVars,
         NEW m \in seen
  PROVE  \E j \in queued'[s] : intents'[j].message = m
  <1> DEFINE n == Len(intents)
             unowned == Unowned(s, seen)
             stale == Stale(s, seen)
             k == Cardinality(unowned)
             new == (n + 1)..(n + k)
  <1>1. n \in Nat /\ DOMAIN intents = 1..n /\ queued \in [Slots -> SUBSET IntentId]
    BY Facts DEF IInv, TypeOK
  <1>2. unowned \subseteq Messages /\ k \in Nat /\ IsFiniteSet(unowned)
    <2>1. unowned \subseteq Messages
      BY DEF Unowned
    <2> QED
      BY <2>1, MessagesAssumption, FS_Subset, FS_CardinalityType
  <1>3. CASE m \notin unowned
    <2>1. PICK i \in LiveOf(s) : intents[i].message = m
      BY <1>3 DEF Unowned
    <2>2. i \in DOMAIN intents /\ intents[i].slot = s /\ intents[i].state \in Live
      BY <2>1 DEF LiveOf
    <2>3. intents[i].state = "Queued"
      BY <2>2, PlaceOf DEF IInv, Live, IsBusy
    <2>4. i \in queued[s] /\ i \notin stale
      BY <2>1, <2>2, <2>3, QueueIsQueued DEF Stale
    <2>5. CASE UNCHANGED workVars
      BY <2>1, <2>4, <2>5 DEF workVars, coordinatorVars, slotVars
    <2>6. CASE ReconcileMailbox(s, seen)
      <3>1. Good
        BY <2>6, ReconcileStep
      <3>2. i \in queued'[s]
        BY <1>1, <2>4, <2>6 DEF ReconcileMailbox
      <3> QED
        BY <2>1, <2>2, <3>1, <3>2 DEF Good, Keeps
    <2> QED
      BY <2>5, <2>6
  <1>4. CASE m \in unowned
    <2>1. ReconcileMailbox(s, seen)
      BY <1>4
    <2>2. PICK recovers \in [new -> unowned] :
              /\ \A i, j \in new : i < j => recovers[i] < recovers[j]
              /\ intents' = [i \in 1..(n + k) |->
                    IF i \in new
                    THEN NewIntent(s, "RecoveryDrain", recovers[i], NoRun, i)
                    ELSE Move(stale, "Completed", 0)[i]]
              /\ queued' = [queued EXCEPT ![s] = (@ \ stale) \cup new]
      BY <2>1 DEF ReconcileMailbox
    <2> HIDE DEF n, k, unowned, stale
    <2>3. recovers \in Injection(new, unowned)
      <3>1. ASSUME NEW i \in new, NEW j \in new, recovers[i] = recovers[j] PROVE i = j
        <4>1. recovers[i] \in unowned /\ recovers[j] \in unowned /\ i \in Int /\ j \in Int
          BY <1>1, <1>2, <2>2
        <4>2. recovers[i] \in Nat /\ recovers[j] \in Nat
          BY <1>2, <4>1, MessagesAssumption
        <4>3. ~(i < j) /\ ~(j < i)
          BY <2>2, <3>1, <4>2
        <4> QED
          BY <4>1, <4>3
      <3> QED
        BY <3>1 DEF Injection, IsInjective
    <2>4. Cardinality(new) = k
      <3>1. Cardinality(new) = IF n + 1 > n + k THEN 0 ELSE (n + k) - (n + 1) + 1
        BY <1>1, <1>2, FS_Interval
      <3> QED
        BY <1>1, <1>2, <3>1
    <2>5. recovers \in Surjection(new, unowned)
      BY <1>2, <2>3, <2>4, FS_Injection DEF k
    <2>6. PICK i \in new : recovers[i] = m
      BY <1>4, <2>5 DEF Surjection
    <2>7. i \in 1..(n + k) /\ i \in queued'[s]
      BY <1>1, <1>2, <2>2
    <2>8. intents'[i].message = m
      BY <2>2, <2>6, <2>7 DEF NewIntent
    <2> QED
      BY <2>7, <2>8
  <1> QED
    BY <1>3, <1>4

\* The batch of the event loop is taken down.
LEMMA BatchGone ==
  ASSUME ToldIInv, NEW s \in Slots, loop[s].at \in {"starting", "settle"} \cup InTurn,
         \/ \E st : TerminalizeIfCurrent(s, loop[s].op, st)
         \/ Retry(s, loop[s].op)
         \/ ~Current(loop[s].op) /\ UNCHANGED workVars
  PROVE  active'[s] = 0
  <1>1. /\ IInv /\ SlotTold(s) /\ active \in [Slots -> 0..MaxOps]
    BY DEF ToldIInv, DeliveryIInv, WorkIInv, IInv, TypeOK
  <1>2. active[s] # 0 => active[s] = loop[s].op /\ active[s] \in DOMAIN batches /\ batches[active[s]].slot = s
    BY <1>1, HeldBy DEF SlotTold, IInv
  <1>3. CASE active[s] = 0
    <2>1. active'[s] \in {0, active[s]}
      BY <1>1 DEF TerminalizeIfCurrent, Terminalize, TerminalizeBatch, Retry, RetryStart, workVars, coordinatorVars, slotVars
    <2> QED
      BY <1>3, <2>1, Zenon
  <1>4. CASE active[s] # 0
    <2>1. Current(loop[s].op) /\ batches[loop[s].op].slot = s
      BY <1>2, <1>4 DEF Current
    <2>2. active' = [active EXCEPT ![s] = 0]
      BY <2>1 DEF TerminalizeIfCurrent, Terminalize, TerminalizeBatch, Retry, RetryStart
    <2> QED
      BY <1>1, <2>2
  <1> QED
    BY <1>3, <1>4

LEMMA LoopTold ==
  ASSUME ToldIInv, Delivers, NEW s \in Slots, LoopRuns(s) \/ LoopFails(s)
  PROVE  UserHolds' /\ \A t \in Slots : SlotTold(t)'
  <1> DEFINE l == loop[s]
             Owns == active'[s] # 0 => loop'[s].at \in {"starting", "settle"} \cup InTurn /\ active'[s] = loop'[s].op
  <1>1. Elsewhere(s) /\ LoopKeeps
    BY LoopIsElsewhere
  <1>0. UserHolds'
    BY <1>1 DEF LoopKeeps, ToldIInv, UserHolds
  <1> SUFFICES SlotTold(s)'
    BY <1>0, <1>1, ElsewhereTold
  <1>2. /\ SlotTold(s) /\ l \in LoopRecord /\ loop \in [Slots -> LoopRecord] /\ IInv
        /\ permit \in [Slots -> BOOLEAN] /\ active \in [Slots -> 0..MaxOps]
        /\ constraint \in [Slots -> RuntimeConstraint] /\ Holds(s, l)
        /\ unread \subseteq Messages
    BY RowsAre DEF ToldIInv, DeliveryIInv, DeliveryTyped, WorkIInv, IInv, TypeOK
  <1>3. /\ UNCHANGED <<attach, producer, user, rows, paused, abandoned>> /\ unread' \subseteq unread
    BY <1>1 DEF LoopKeeps
  <1>4. l.at # "waiting" => HasLoop(s)
    BY <1>2 DEF SlotTold
  <1>5. l.at \notin {"starting", "settle"} \cup InTurn => active[s] = 0
    BY <1>2 DEF SlotTold
  <1>6. UNCHANGED workVars => active'[s] = active[s] /\ constraint'[s] = constraint[s] /\ queued' = queued /\ intents' = intents
    BY DEF workVars, coordinatorVars, slotVars
  <1>7. ASSUME NEW place, LoopGoes(s, place)
        PROVE  loop'[s].at = place /\ loop'[s].op = l.op /\ loop'[s].seen = l.seen
    BY <1>2, <1>7 DEF LoopGoes, LoopRecord
  <1>8. ASSUME HasLoop(s), loop'[s].at \in {"prepare", "signals", "starting", "settle", "deferred"} \cup InTurn, Owns
        PROVE  SlotTold(s)'
    BY <1>3, <1>8, LoopOut
  <1>30. ASSUME NEW place \in {"waiting", "deferred", "prepare"}, loop' = [loop EXCEPT ![s] = Between(place)]
         PROVE  loop'[s].at = place
    BY <1>2, <1>30, BetweenTyped
  <1>9. CASE WakeLoop(s)
    <2>1. /\ l.at \in {"waiting", "deferred"} /\ permit[s] /\ LoopGoes(s, "prepare") /\ UNCHANGED workVars
      BY <1>9 DEF WakeLoop, LoopAt
    <2>2. loop'[s].at = "prepare" /\ HasLoop(s) /\ active'[s] = 0
      BY <1>2, <1>5, <1>6, <1>7, <2>1 DEF SlotTold, InTurn
    <2> QED
      BY <1>8, <2>2
  <1>10. CASE FindSignals(s)
    <2>1. PICK ids \in SUBSET queued[s] : loop' = [loop EXCEPT ![s].at = "signals", ![s].signals = ids]
      BY <1>10 DEF FindSignals
    <2>2. l.at = "next" /\ UNCHANGED workVars
      BY <1>10 DEF FindSignals, LoopAt
    <2>3. loop'[s].at = "signals" /\ active'[s] = 0
      BY <1>2, <1>5, <1>6, <2>1, <2>2 DEF InTurn, LoopRecord
    <2> QED
      BY <1>4, <1>8, <2>2, <2>3
  <1>11. CASE HandleSignals(s)
    <2>1. l.at = "signals" /\ loop' = [loop EXCEPT ![s] = Between("prepare")]
      BY <1>11 DEF HandleSignals, LoopAt
    <2>2. active' = active
      BY <1>11 DEF HandleSignals, SettleSignals, CompleteSignals, workVars, coordinatorVars, slotVars
    <2>3. loop'[s].at = "prepare" /\ active'[s] = 0
      BY <1>5, <1>30, <2>1, <2>2 DEF InTurn
    <2> QED
      BY <1>4, <1>8, <2>1, <2>3
  <1>12. CASE ClaimNext(s)
    <2>1. l.at = "next" /\ loop' = [loop EXCEPT ![s].at = "starting", ![s].op = active'[s]]
      BY <1>12 DEF ClaimNext, LoopAt
    <2>2. loop'[s].at = "starting" /\ loop'[s].op = active'[s]
      BY <1>2, <2>1 DEF LoopRecord
    <2> QED
      BY <1>4, <1>8, <2>1, <2>2
  <1>13. CASE TurnStarted(s)
    <2>1. /\ l.at = "starting" /\ \E place \in {"cancelling", "running"} : LoopGoes(s, place)
      BY <1>13 DEF TurnStarted, LoopAt
    <2>2. active' = active
      BY <1>13 DEF TurnStarted, Start, MarkStarted, workVars, coordinatorVars, slotVars
    <2>3. loop'[s].at \in InTurn /\ loop'[s].op = l.op
      BY <1>7, <2>1 DEF InTurn
    <2>4. active[s] # 0 => active[s] = l.op
      BY <1>2 DEF SlotTold
    <2> QED
      BY <1>4, <1>8, <2>1, <2>2, <2>3, <2>4
  <1>14. CASE CancelLateStart(s)
    <2>1. l.at = "cancelling" /\ LoopGoes(s, "ending") /\ TerminalizeIfCurrent(s, l.op, "Cancelled")
      BY <1>14 DEF CancelLateStart, LoopAt
    <2>2. loop'[s].at \in InTurn /\ active'[s] = 0
      BY <1>7, <2>1, BatchGone DEF InTurn
    <2> QED
      BY <1>4, <1>8, <2>1, <2>2
  <1>15. CASE TurnEnds(s) \/ TurnFailsToStart(s)
    <2>1. /\ l.at \in {"starting"} \cup InTurn /\ UNCHANGED workVars
          /\ loop'[s].at \in {"settle"} \cup InTurn /\ loop'[s].op = l.op
      <3>1. CASE TurnEnds(s)
        BY <1>7, <3>1 DEF TurnEnds, LoopAt, InTurn
      <3>2. CASE TurnFailsToStart(s)
        BY <1>2, <3>2 DEF TurnFailsToStart, LoopAt, InTurn, LoopRecord
      <3> QED
        BY <1>15, <3>1, <3>2
    <2>2. active[s] # 0 => active[s] = l.op
      BY <1>2 DEF SlotTold
    <2>3. HasLoop(s)
      BY <1>4, <2>1 DEF InTurn
    <2> QED
      BY <1>6, <1>8, <2>1, <2>2, <2>3
  <1>16. CASE SettleBatch(s)
    <2>1. /\ l.at = "settle" /\ loop' = [loop EXCEPT ![s] = Between("prepare")]
          /\ \E st : TerminalizeIfCurrent(s, l.op, st)
      BY <1>16 DEF SettleBatch, LoopAt
    <2>2. active'[s] = 0 /\ loop'[s].at = "prepare"
      BY <1>30, <2>1, BatchGone
    <2> QED
      BY <1>4, <1>8, <2>1, <2>2
  \* The loop sleeps until the next notify, with the batch it gave back or none.
  <1>17. CASE SkipBusy(s) \/ PeekFails(s)
    <2>1. /\ l.at \in {"starting", "peek"} /\ loop' = [loop EXCEPT ![s] = Between("deferred")]
      BY <1>17 DEF SkipBusy, PeekFails, LoopAt
    <2>2. active'[s] = 0
      <3>1. CASE SkipBusy(s)
        BY <3>1, BatchGone DEF SkipBusy, LoopAt
      <3>2. CASE PeekFails(s)
        BY <1>5, <1>6, <3>2 DEF PeekFails, LoopAt, InTurn
      <3> QED
        BY <1>17, <3>1, <3>2
    <2>3. loop'[s].at = "deferred" /\ HasLoop(s)
      BY <1>4, <1>30, <2>1
    <2> QED
      BY <1>8, <2>2, <2>3
  <1>18. CASE Prepare(s)
    <2>1. l.at = "prepare" /\ LoopGoes(s, "peek") /\ SetConstraint(s, "Ready")
      BY <1>4, <1>18 DEF Prepare, LoopAt, Constrain, MemberStatus
    <2>2. constraint'[s] = "Ready" /\ active'[s] = active[s]
      BY <1>2, <2>1 DEF SetConstraint
    <2>3. loop'[s].at = "peek" /\ active'[s] = 0 /\ HasLoop(s)
      BY <1>4, <1>5, <1>7, <2>1, <2>2 DEF InTurn
    <2>4. \A m \in unread' : rows'[m] = s => RowTold(s, m)'
      BY <2>3 DEF RowTold
    <2> QED
      BY <1>3, <2>2, <2>3, <2>4 DEF SlotTold, HasLoop
  <1>19. Told(s) => Told(s)' \/ permit'[s] # permit[s] \/ constraint'[s] # constraint[s]
    BY <1>3 DEF Told, WakeupAhead, SetBack, Untold
  <1>20. \A m : InSender(m)' <=> InSender(m)
    BY <1>3 DEF InSender
  <1>21. CASE PeekUnread(s)
    <2>1. /\ l.at = "peek" /\ UNCHANGED <<workVars, permit, unread>>
          /\ loop' = [loop EXCEPT ![s].at = "reconcile", ![s].seen = {m \in unread : rows[m] = s}]
      BY <1>21 DEF PeekUnread, LoopAt, mailboxVars
    <2>2. loop'[s].at = "reconcile" /\ loop'[s].seen = {m \in unread : rows[m] = s}
      BY <1>2, <2>1 DEF LoopRecord
    <2>3. active'[s] = 0 /\ HasLoop(s) /\ constraint'[s] = constraint[s]
      BY <1>4, <1>5, <1>6, <2>1 DEF InTurn
    <2>4. constraint'[s] # "Unknown" /\ (constraint'[s] # "Ready" => Told(s)')
      BY <1>2, <1>19, <2>1, <2>3 DEF SlotTold
    <2>5. \A m \in unread' : rows'[m] = s => RowTold(s, m)'
      BY <1>3, <2>1, <2>2 DEF RowTold
    <2> QED
      BY <1>3, <2>2, <2>3, <2>4, <2>5 DEF SlotTold, HasLoop
  <1>22. CASE Reconcile(s)
    <2>1. /\ l.at = "reconcile" /\ LoopGoes(s, "next") /\ UNCHANGED <<permit, unread>>
          /\ \/ ReconcileMailbox(s, l.seen)
             \/ Stale(s, l.seen) \cup Unowned(s, l.seen) = {} /\ UNCHANGED workVars
      BY <1>22 DEF Reconcile, ReconcileUntold, LoopAt, mailboxVars
    <2>2. loop'[s].at = "next" /\ loop'[s].seen = l.seen /\ l.seen \in SUBSET Messages
      BY <1>2, <1>7, <2>1 DEF LoopRecord
    <2>3. active' = active /\ constraint'[s] = constraint[s] /\ constraint[s] # "Unknown"
      BY <1>2, <2>1 DEF ReconcileMailbox, MakeKnown, workVars, coordinatorVars, slotVars, SlotTold
    <2>4. active[s] = 0 /\ HasLoop(s)
      BY <1>4, <1>5, <2>1 DEF InTurn
    <2>5. constraint'[s] # "Ready" => Told(s)'
      BY <1>2, <1>19, <2>1, <2>3 DEF SlotTold
    <2>6. ASSUME NEW m \in unread', rows'[m] = s PROVE RowTold(s, m)'
      <3>1. RowTold(s, m)
        BY <1>2, <1>3, <2>6 DEF SlotTold
      <3>2. m \in l.seen => \E j \in queued'[s] : intents'[j].message = m
        BY <1>2, <2>1, <2>2, <2>4, SeenIsQueued
      <3> QED
        BY <1>3, <1>20, <2>1, <2>2, <3>1, <3>2 DEF RowTold
    <2> QED
      BY <1>3, <2>2, <2>3, <2>4, <2>5, <2>6 DEF SlotTold, HasLoop
  <1>23. CASE WaitAgain(s)
    <2>1. /\ l.at = "next" /\ loop' = [loop EXCEPT ![s] = Between("waiting")] /\ NothingToDo(s)
          /\ UNCHANGED <<workVars, permit, unread>>
      BY <1>23 DEF WaitAgain, LoopAt, mailboxVars
    <2>2. loop'[s].at = "waiting" /\ active[s] = 0 /\ active'[s] = 0 /\ HasLoop(s) /\ constraint'[s] = constraint[s]
      BY <1>4, <1>5, <1>6, <1>30, <2>1 DEF InTurn
    <2>3. constraint[s] # "Ready" => Told(s)'
      BY <1>2, <1>19, <2>1, <2>2 DEF SlotTold
    <2>4. ASSUME NEW m \in unread', rows'[m] = s PROVE RowTold(s, m)'
      <3>1. SUFFICES ASSUME m \notin abandoned, ~paused[s], constraint[s] = "Ready"
                     PROVE  InSender(m) \/ m \in user.messages \/ Told(s)'
        BY <1>3, <1>20, <2>2, <2>3 DEF RowTold
      <3>2. queued[s] = {}
        BY <2>1, <2>2, <3>1 DEF NothingToDo, Claimable
      <3>3. RowTold(s, m)
        BY <1>2, <1>3, <2>4 DEF SlotTold
      <3>4. permit[s] => Told(s)'
        BY <2>1 DEF Told, WakeupAhead
      <3> QED
        BY <2>1, <3>1, <3>2, <3>3, <3>4 DEF RowTold
    <2> QED
      BY <1>3, <2>2, <2>4 DEF SlotTold, HasLoop
  <1> QED
    BY <1>9, <1>10, <1>11, <1>12, <1>13, <1>14, <1>15, <1>16, <1>17, <1>18, <1>21, <1>22, <1>23 DEF LoopRuns, LoopFails

----------------------------------------------------------------------------
\* Steps of neither a sender nor an event loop.
LEMMA AttachTold ==
  ASSUME ToldIInv, Delivers, NEW s \in Slots, Attaches(s)
  PROVE  UserHolds' /\ \A t \in Slots : SlotTold(t)'
  <1>1. /\ attach \in [Slots -> {"attaching", "telling", "attached"}] /\ permit \in [Slots -> BOOLEAN]
        /\ constraint \in [Slots -> RuntimeConstraint] /\ UserHolds
    BY DEF ToldIInv, DeliveryIInv, DeliveryTyped, WorkIInv, IInv, TypeOK
  <1>2. UNCHANGED <<rows, unread, producer, loop, user, queued, active, paused, abandoned>>
    BY DEF Attaches, AttachReady, TellReady, EnsureAgain, BecomeReady, SetConstraint, mailboxVars, historyVars,
       workVars, coordinatorVars, slotVars
  <1>3. UserHolds'
    BY <1>1, <1>2 DEF UserHolds
  <1>4. ASSUME NEW t \in Slots PROVE SlotTold(t)'
    <2>1. \A m : \A i \in queued[t] : intents[i].message = m => \E j \in queued'[t] : intents'[j].message = m
      BY <1>2, QueueKept DEF Delivers
    <2>2. \A m : InSender(m)' <=> InSender(m)
      BY <1>2 DEF InSender
    <2>3. CASE TellReady(s)
      <3>1. /\ attach[s] = "telling" /\ attach' = [attach EXCEPT ![s] = "attached"]
            /\ permit' = [permit EXCEPT ![s] = TRUE] /\ constraint' = [constraint EXCEPT ![s] = "Ready"]
        BY <2>3 DEF TellReady, BecomeReady, SetConstraint
      <3>2. CASE t = s
        <4>1. permit'[t] /\ constraint'[t] = "Ready" /\ attach[t] = "telling" /\ attach'[t] = "attached"
          BY <1>1, <3>1, <3>2
        <4>2. Told(t)'
          BY <4>1 DEF Told, WakeupAhead
        <4>3. Undisturbed(t)
          BY <1>2, <2>1, <2>2, <4>1, <4>2 DEF Undisturbed
        <4> QED
          BY <4>3, UndisturbedTold
      <3>3. CASE t # s
        <4>1. permit'[t] = permit[t] /\ constraint'[t] = constraint[t] /\ attach'[t] = attach[t]
          BY <1>1, <3>1, <3>3
        <4>2. Told(t)' <=> Told(t)
          BY <1>2, <4>1 DEF Told, WakeupAhead, SetBack, Untold
        <4>3. Undisturbed(t)
          BY <1>2, <2>1, <2>2, <4>1, <4>2 DEF Undisturbed
        <4> QED
          BY <4>3, UndisturbedTold
      <3> QED
        BY <3>2, <3>3
    <2>4. CASE AttachReady(s) \/ EnsureAgain(s)
      <3>1. /\ attach' = [attach EXCEPT ![s] = "telling"] /\ UNCHANGED <<permit, constraint>>
        BY <2>4 DEF AttachReady, EnsureAgain, workVars, coordinatorVars, slotVars
      <3>2. attach'[t] # "attaching" \/ attach'[t] = attach[t]
        BY <1>1, <3>1
      <3>3. attach'[t] = "attached" => attach[t] = "attached"
        BY <1>1, <3>1
      <3>4. Told(t)' <=> Told(t)
        BY <1>2, <3>1 DEF Told, WakeupAhead, SetBack, Untold
      <3>5. Undisturbed(t)
        BY <1>2, <2>1, <2>2, <3>1, <3>2, <3>3, <3>4 DEF Undisturbed
      <3> QED
        BY <3>5, UndisturbedTold
    <2> QED
      BY <2>3, <2>4 DEF Attaches
  <1> QED
    BY <1>3, <1>4

\* What a cancelled run takes out of the queues, the user will mark read.
LEMMA CancelledIsHeld ==
  ASSUME ToldIInv, CancelRunWork, NEW t \in Slots, NEW i \in queued[t], intents[i].message \in Messages,
         i \notin queued'[t]
  PROVE  intents[i].message \in user'.messages
  <1>1. /\ IInv /\ user \in UserRecord /\ queued \in [Slots -> SUBSET IntentId]
    BY DEF ToldIInv, DeliveryIInv, DeliveryTyped, WorkIInv, IInv, TypeOK
  <1>2. PICK r : CancelRun(r)
    BY DEF CancelRunWork, FinishCancel
  <1> DEFINE taken == TakenDown(r)
             cancelled == {j \in OfRun(r) : intents[j].state = "Queued"} \cup (taken \cap OfRun(r))
  <1>3. i \in DOMAIN intents /\ intents[i].slot = t /\ intents[i].state = "Queued"
    BY <1>1, QueueIsQueued
  <1>4. i \in cancelled
    BY <1>2, Zenon DEF CancelRun
  <1>5. intents'[i].state = "Cancelled"
    <2>1. intents' = [j \in DOMAIN intents |->
              IF j \in cancelled THEN [intents[j] EXCEPT !.state = "Cancelled", !.op = 0]
              ELSE IF j \in taken THEN [intents[j] EXCEPT !.state = "Queued", !.op = 0]
              ELSE intents[j]]
      BY <1>2, Zenon DEF CancelRun
    <2>2. intents'[i] = [intents[i] EXCEPT !.state = "Cancelled", !.op = 0]
      BY <1>3, <1>4, <2>1, Zenon
    <2>3. intents[i] \in WorkIntent
      BY <1>1, <1>3, Facts
    <2> QED
      BY <2>2, <2>3, SMTT(20) DEF WorkIntent
  <1>6. user'.messages = {intents[j].message : j \in {j \in DOMAIN intents :
            intents[j].state \in Live /\ intents'[j].state = "Cancelled"}} \ {NoMessage}
    BY <1>1 DEF CancelRunWork, UserRecord
  <1> QED
    BY <1>3, <1>5, <1>6, MessagesAssumption DEF Live

LEMMA UserTold ==
  ASSUME ToldIInv, Delivers, \/ UserActs \/ UserContinues \/ \E c \in Callers : TellManager(c)
  PROVE  UserHolds' /\ \A t \in Slots : SlotTold(t)'
  <1>1. /\ user \in UserRecord /\ UserHolds /\ active \in [Slots -> 0..MaxOps] /\ paused \in [Slots -> BOOLEAN]
        /\ constraint \in [Slots -> RuntimeConstraint] /\ unread \subseteq Messages /\ DeliveryTyped
    BY RowsAre DEF ToldIInv, DeliveryIInv, DeliveryTyped, WorkIInv, IInv, TypeOK
  <1>2. /\ UNCHANGED <<rows, attach, permit, producer, loop>>
        /\ unread' \subseteq unread /\ abandoned \subseteq abandoned'
    BY Zenon DEF UserActs, UserContinues, UserCancelsRun, CancelRunWork, MarkCancelledRead, UserPausesSlot,
       CancelPausedBatch, TellManager, MarkRead, MarkFails, mailboxVars, historyVars
  <1> DEFINE Works ==
                 \A t \in Slots :
                     /\ constraint'[t] # constraint[t] => constraint[t] = "Unknown" /\ constraint'[t] # "Unknown"
                     /\ active'[t] \in {0, active[t]}
                     /\ ~paused'[t] => ~paused[t]
             Queues == \A t \in Slots : queued[t] \subseteq queued'[t]
             Marks == \A m \in unread' : m \in user.messages => m \in user'.messages \/ m \in abandoned'
  <1>3. ASSUME UserHolds', Works, Marks,
               \A t \in Slots : \A i \in queued[t] : intents[i].message \in unread' =>
                   \/ i \in queued'[t]
                   \/ intents[i].message \in user'.messages
        PROVE  UserHolds' /\ \A t \in Slots : SlotTold(t)'
    <2>2. ASSUME NEW t \in Slots PROVE SlotTold(t)'
      <3>1. Told(t) => Told(t)'
        <4>1. SetBack(t) => SetBack(t)'
          <5>1. SetBack(t) => constraint'[t] = constraint[t]
            BY <1>1, <1>3, SetBackKnown
          <5> QED
            BY <1>2, <5>1 DEF SetBack, Untold
        <4> QED
          BY <1>2, <4>1 DEF Told, WakeupAhead
      <3>2. \A m : InSender(m)' <=> InSender(m)
        BY <1>2 DEF InSender
      <3>3. ASSUME NEW m \in unread', NEW i \in queued[t], intents[i].message = m
            PROVE  m \in user'.messages \/ \E j \in queued'[t] : intents'[j].message = m
        <4>1. i \in DOMAIN intents
          BY QueueIsQueued DEF ToldIInv, DeliveryIInv, WorkIInv
        <4>2. intents'[i].message = m
          BY <3>3, <4>1 DEF Delivers, WorkMoves, Keeps
        <4> QED
          BY <1>3, <3>3, <4>2
      <3>4. Undisturbed(t)
        BY <1>2, <1>3, <3>1, <3>2, <3>3 DEF Undisturbed
      <3> QED
        BY <3>4, UndisturbedTold
    <2> QED
      BY <1>3, <2>2
  <1>4. CASE UserHolds' /\ UNCHANGED coordinatorVars /\ Marks
    <2>1. Works /\ Queues
      BY <1>4 DEF coordinatorVars, slotVars
    <2> QED
      BY <1>3, <1>4, <2>1
  <1>5. CASE UserCancelsRun
    <2>1. UNCHANGED coordinatorVars /\ user.at = "idle" /\ user'.at = "cancel_run" /\ user'.messages = user.messages
      BY <1>1, <1>5 DEF UserCancelsRun, UserAt, BeginCancel, UserRecord
    <2> QED
      BY <1>1, <1>4, <2>1 DEF UserHolds
  <1>6. CASE MarkCancelledRead
    <2>1. /\ UNCHANGED coordinatorVars /\ user'.messages = {}
          /\ unread' = unread \ user.messages \/ user.messages \subseteq abandoned'
      BY <1>1, <1>6 DEF MarkCancelledRead, MarkRead, MarkFails, workVars, UserRecord
    <2> QED
      BY <1>4, <2>1 DEF UserHolds
  <1>7. CASE \E c \in Callers : TellManager(c)
    <2>1. UNCHANGED coordinatorVars /\ UNCHANGED user
      BY <1>7 DEF TellManager, AbortBinding, ApplyWorkSummary
    <2> QED
      BY <1>1, <1>4, <2>1 DEF UserHolds
  <1>8. CASE CancelRunWork
    <2>1. PICK r : CancelRun(r)
      BY <1>8, Zenon DEF CancelRunWork, FinishCancel
    <2>2. Works
      BY <1>1, <2>1, Zenon DEF CancelRun
    <2>3. user.at = "cancel_run" /\ user'.at = "mark_read"
      BY <1>1, <1>8 DEF CancelRunWork, UserRecord
    <2>4. Marks /\ UserHolds'
      BY <1>1, <2>3 DEF UserHolds
    <2>5. \A t \in Slots : \A i \in queued[t] : intents[i].message \in unread' =>
              i \in queued'[t] \/ intents[i].message \in user'.messages
      BY <1>1, <1>2, <1>8, CancelledIsHeld
    <2> QED
      BY <1>3, <2>2, <2>4, <2>5
  <1>9. ASSUME NEW s \in Slots, UserPausesSlot(s) PROVE UserHolds' /\ \A t \in Slots : SlotTold(t)'
    <2>1. /\ user.at = "idle" /\ user'.at # "mark_read" /\ user'.messages = user.messages
          /\ UNCHANGED <<queued, active>> /\ paused' = [paused EXCEPT ![s] = TRUE] /\ MakeKnown(s)
      BY <1>1, <1>9 DEF UserPausesSlot, UserAt, Pause, PauseSlot, UserRecord
    <2>2. Works /\ Queues /\ Marks /\ UserHolds'
      BY <1>1, <2>1 DEF UserHolds, MakeKnown
    <2> QED
      BY <1>3, <2>2
  <1>10. CASE CancelPausedBatch
    <2>1. /\ user.at = "cancel_batch" /\ user'.at = "idle" /\ user'.messages = user.messages
          /\ TerminalizeIfCurrent(User, user.op, "Cancelled")
      BY <1>1, <1>10 DEF CancelPausedBatch, UserAt, UserRecord
    <2>2. Works /\ Queues
      BY <1>1, <2>1 DEF TerminalizeIfCurrent, Terminalize, TerminalizeBatch, workVars, coordinatorVars, slotVars
    <2>3. Marks /\ UserHolds'
      BY <1>1, <2>1 DEF UserHolds
    <2> QED
      BY <1>3, <2>2, <2>3
  <1> QED
    BY <1>5, <1>6, <1>7, <1>8, <1>9, <1>10 DEF UserActs, UserContinues

LEMMA ToldStep == ToldIInv /\ [DeliveryNext]_deliveryVars => ToldIInv'
  <1> SUFFICES ASSUME ToldIInv, [DeliveryNext]_deliveryVars PROVE ToldIInv'
    OBVIOUS
  <1>1. DeliveryIInv' /\ Delivers
    BY DeliveryStep, DeliveryDelivers DEF ToldIInv
  <1>2. CASE UNCHANGED deliveryVars
    <2>1. /\ UNCHANGED <<rows, unread, attach, permit, producer, loop, user, abandoned>>
          /\ UNCHANGED <<intents, queued, active, paused, constraint>>
      BY <1>2 DEF deliveryVars, mailboxVars, historyVars, workVars, coordinatorVars, slotVars
    <2>2. ASSUME NEW s \in Slots PROVE SlotTold(s)'
      <3>1. Told(s)' <=> Told(s)
        BY <2>1 DEF Told, WakeupAhead, SetBack, Untold
      <3>2. \A m : InSender(m)' <=> InSender(m)
        BY <2>1 DEF InSender
      <3>3. SlotTold(s)
        BY DEF ToldIInv
      <3> QED
        BY <2>1, <3>1, <3>2, <3>3 DEF SlotTold, RowTold, HasLoop
    <2> QED
      BY <1>1, <2>1, <2>2 DEF ToldIInv, UserHolds
  <1>3. CASE DeliveryNext
    <2>1. UserHolds' /\ \A s \in Slots : SlotTold(s)'
      BY <1>1, <1>3, SendTold, LoopTold, AttachTold, UserTold DEF DeliveryNext
    <2> QED
      BY <1>1, <2>1 DEF ToldIInv
  <1> QED
    BY <1>2, <1>3

LEMMA ToldInit == DeliveryInit => ToldIInv
  <1> SUFFICES ASSUME DeliveryInit PROVE ToldIInv
    OBVIOUS
  <1>1. DeliveryIInv
    BY DeliveryInitGood
  <1>2. UserHolds
    BY DEF DeliveryInit, UserHolds
  <1>3. ASSUME NEW s \in Slots PROVE SlotTold(s)
    <2>1. /\ loop[s].at = "waiting" /\ ~permit[s] /\ active[s] = 0 /\ unread = {}
      BY <1>3, BetweenTyped DEF DeliveryInit, WorkInit, Init
    <2> QED
      BY <2>1 DEF SlotTold
  <1> QED
    BY <1>1, <1>2, <1>3 DEF ToldIInv

LEMMA ToldInvariant == DeliverySpec => []ToldIInv
  BY ToldInit, ToldStep, PTL DEF DeliverySpec

\* However many senders there are, whatever fails and whatever the user stops: an
\* unread message of a slot that could take it has somebody who will look at it,
\* unless it is one of the three things left to the slot's next notify, a deferred
\* loop, a slot a sender set back, a row that could not be marked read
\* (NoMessageStranded).
THEOREM MessagesAreNotStranded == DeliverySpec => []NoMessageStranded
  <1>1. ToldIInv => NoMessageStranded
    <2> SUFFICES ASSUME ToldIInv, NEW m \in unread, NEW s, s = rows[m], m \notin abandoned,
                        attach[s] = "attached", ~paused[s], loop[s].at = "waiting"
                 PROVE  InSender(m) \/ m \in user.messages \/ WakeupAhead(s) \/ SetBack(s)
      BY DEF NoMessageStranded
    <2>1. s \in Slots
      BY RowsAre DEF ToldIInv
    <2>2. RowTold(s, m)
      BY <2>1 DEF ToldIInv, SlotTold
    <2> QED
      BY <2>2 DEF RowTold, Told
  <1> QED
    BY ToldInvariant, <1>1, PTL
=============================================================================
