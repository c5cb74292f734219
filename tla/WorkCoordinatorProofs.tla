----------------------- MODULE WorkCoordinatorProofs -----------------------
(***************************************************************************)
(* Proofs about WorkCoordinator, for any number of slots, runs, messages,   *)
(* leases, intents and batches, and whatever order the methods are called   *)
(* in.                                                                      *)
(***************************************************************************)
EXTENDS WorkCoordinator, SequenceTheorems, FiniteSetTheorems, TLAPS

IsLive(w) == w.state \in Live
IsBusy(w) == w.state \in {"Starting", "Running"}

\* A batch is made of intents of its slot.
BatchesHoldTheirSlot ==
    \A op \in DOMAIN batches : \A i \in batches[op].intents :
        i \in DOMAIN intents /\ intents[i].slot = batches[op].slot

\* The live intents of a slot have different positions, and none is behind the
\* next one to come.
PositionsDiffer ==
    \A i, j \in DOMAIN intents :
        /\ IsLive(intents[i]) /\ IsLive(intents[j])
        /\ intents[i].slot = intents[j].slot
        /\ intents[i].pos = intents[j].pos
        => i = j

PositionsBounded == \A i \in DOMAIN intents : intents[i].pos <= Len(intents)

\* Only run-less work may leave the order in which it was enqueued.
PositionsFollowArrival ==
    \A i, j \in DOMAIN intents :
        /\ IsLive(intents[i]) /\ IsLive(intents[j])
        /\ intents[i].slot = intents[j].slot
        /\ i < j
        /\ intents[i].run # NoRun \/ intents[j].run # NoRun
        => intents[i].pos < intents[j].pos

Ordered ==
    /\ BatchesHoldTheirSlot
    /\ PositionsDiffer
    /\ PositionsBounded
    /\ PositionsFollowArrival
    /\ CommandsTravelAlone
    /\ NoOvertaking

IInv == TypeOK /\ EveryIntentHasOnePlace /\ Ordered

----------------------------------------------------------------------------
\* What a step does to the work that is there: who it is for and where it comes
\* from never change, and what has ended stays ended.
Keeps ==
    /\ DOMAIN intents \subseteq DOMAIN intents'
    /\ \A i \in DOMAIN intents :
          /\ intents'[i].slot = intents[i].slot
          /\ intents'[i].source = intents[i].source
          /\ intents'[i].message = intents[i].message
          /\ intents'[i].run = intents[i].run

EndedStays ==
    \A i \in DOMAIN intents : intents[i].state \in Terminal =>
        intents'[i].state = intents[i].state

\* A step that neither adds work nor claims any: work keeps its
\* position, none gets busy, and work that returns to a queue leaves no busy
\* work of its slot behind.
Steady ==
    /\ Keeps
    /\ EndedStays
    /\ DOMAIN intents' = DOMAIN intents
    /\ batches' = batches
    /\ \A i \in DOMAIN intents :
          /\ IsBusy(intents'[i]) => IsBusy(intents[i])
          /\ intents'[i].pos = intents[i].pos
    /\ \A i, j \in DOMAIN intents :
          /\ intents[i].slot = intents[j].slot
          /\ intents[i].state # "Queued" /\ intents'[i].state = "Queued"
          => ~IsBusy(intents'[j])

----------------------------------------------------------------------------
\* Sequences of intents and of batches.
LEMMA IntentsShape ==
  ASSUME NEW q \in Seq(WorkIntent)
  PROVE  /\ Len(q) \in Nat
         /\ DOMAIN q = 1..Len(q)
         /\ \A i \in DOMAIN q : q[i] \in WorkIntent
  BY LenProperties, ElementOfSeq

LEMMA BatchesShape ==
  ASSUME NEW q \in Seq(WorkBatch)
  PROVE  /\ Len(q) \in Nat
         /\ DOMAIN q = 1..Len(q)
         /\ \A i \in DOMAIN q : q[i] \in WorkBatch
  BY LenProperties, ElementOfSeq

LEMMA SeqOfFunction ==
  ASSUME NEW S, NEW n \in Nat, NEW f \in [1..n -> S]
  PROVE  f \in Seq(S) /\ Len(f) = n /\ DOMAIN f = 1..n
  <1>1. f \in Seq(S)
    BY SeqDef
  <1>2. Len(f) \in Nat /\ DOMAIN f = 1..Len(f)
    BY <1>1, LenProperties
  <1> QED
    BY <1>1, <1>2

\* Intents that are changed one by one are still the same intents.
LEMMA Rewritten ==
  ASSUME TypeOK, NEW f, f = [i \in DOMAIN intents |-> f[i]],
         \A i \in DOMAIN intents : f[i] \in WorkIntent
  PROVE  f \in Seq(WorkIntent) /\ Len(f) = Len(intents) /\ DOMAIN f = DOMAIN intents
  <1>1. Len(intents) \in Nat /\ DOMAIN intents = 1..Len(intents)
    BY IntentsShape DEF TypeOK
  <1>2. f \in [1..Len(intents) -> WorkIntent]
    BY <1>1
  <1> QED
    BY <1>1, <1>2, SeqOfFunction

\* Move writes the state and the operation of the intents it is given.
IsMove(f, I, st, op) ==
    /\ DOMAIN f = DOMAIN intents
    /\ \A i \in DOMAIN intents :
          /\ f[i].slot = intents[i].slot
          /\ f[i].source = intents[i].source
          /\ f[i].message = intents[i].message
          /\ f[i].run = intents[i].run
          /\ f[i].pos = intents[i].pos
          /\ i \in I => f[i].state = st /\ f[i].op = op
          /\ i \notin I => f[i] = intents[i]

LEMMA Moved ==
  ASSUME TypeOK, NEW I, NEW st \in Live \cup Terminal, NEW op \in 0..MaxOps
  PROVE  LET f == Move(I, st, op)
         IN  f \in Seq(WorkIntent) /\ Len(f) = Len(intents) /\ IsMove(f, I, st, op)
  <1> DEFINE f == Move(I, st, op)
  <1>1. \A i \in DOMAIN intents : intents[i] \in WorkIntent
    BY IntentsShape DEF TypeOK
  <1>2. f = [i \in DOMAIN intents |-> f[i]]
    BY DEF Move
  <1>3. \A i \in DOMAIN intents :
            f[i] = IF i \in I THEN [intents[i] EXCEPT !.state = st, !.op = op] ELSE intents[i]
    BY DEF Move
  <1> HIDE DEF f
  <1>4. ASSUME NEW i \in DOMAIN intents
        PROVE  /\ f[i] \in WorkIntent
               /\ f[i].slot = intents[i].slot
               /\ f[i].source = intents[i].source
               /\ f[i].message = intents[i].message
               /\ f[i].run = intents[i].run
               /\ f[i].pos = intents[i].pos
               /\ i \in I => f[i].state = st /\ f[i].op = op
               /\ i \notin I => f[i] = intents[i]
    <2>1. intents[i] \in WorkIntent
      BY <1>1
    <2>2. f[i] = IF i \in I THEN [intents[i] EXCEPT !.state = st, !.op = op] ELSE intents[i]
      BY <1>3
    <2> QED
      BY <2>1, <2>2 DEF WorkIntent
  <1>5. f \in Seq(WorkIntent) /\ Len(f) = Len(intents) /\ DOMAIN f = DOMAIN intents
    BY <1>2, <1>4, Rewritten
  <1> QED
    BY <1>4, <1>5 DEF f, IsMove

\* The states partition.
LEMMA StatesDiffer ==
  ASSUME NEW w, w \in WorkIntent
  PROVE  /\ w.state = "Queued" \/ IsBusy(w) \/ w.state \in Terminal
         /\ ~(w.state = "Queued" /\ IsBusy(w))
         /\ w.state \in Terminal => w.state # "Queued" /\ ~IsBusy(w)
         /\ IsLive(w) <=> w.state = "Queued" \/ IsBusy(w)
         /\ IsLive(w) <=> w.state \notin Terminal
  BY DEF WorkIntent, Live, Terminal, IsBusy, IsLive

\* A steady step keeps the order of the work.
LEMMA SteadyOrdered ==
  ASSUME IInv, TypeOK', Steady
  PROVE  Ordered'
  <1>1. /\ DOMAIN intents = 1..Len(intents) /\ Len(intents) \in Nat
        /\ \A i \in DOMAIN intents : intents[i] \in WorkIntent
    BY IntentsShape DEF IInv, TypeOK
  <1>2. /\ DOMAIN intents' = 1..Len(intents') /\ Len(intents') \in Nat
        /\ \A i \in DOMAIN intents' : intents'[i] \in WorkIntent
    BY IntentsShape DEF TypeOK
  <1>3. \A i \in DOMAIN intents : IsLive(intents'[i]) => IsLive(intents[i])
    BY <1>1, <1>2, StatesDiffer DEF Steady, EndedStays
  <1>4. Len(intents') = Len(intents)
    BY <1>1, <1>2 DEF Steady
  <1>5. BatchesHoldTheirSlot'
    BY DEF IInv, Ordered, BatchesHoldTheirSlot, Steady, Keeps
  <1>6. PositionsDiffer'
    BY <1>3 DEF IInv, Ordered, PositionsDiffer, Steady, Keeps
  <1>7. PositionsBounded'
    BY <1>4 DEF IInv, Ordered, PositionsBounded, Steady, Keeps
  <1>8. PositionsFollowArrival'
    BY <1>3 DEF IInv, Ordered, PositionsFollowArrival, Steady, Keeps
  <1>9. CommandsTravelAlone'
    BY DEF IInv, Ordered, BatchesHoldTheirSlot, CommandsTravelAlone, IsCommand, Steady, Keeps
  <1>10. NoOvertaking'
    <2> SUFFICES ASSUME NEW i \in DOMAIN intents, NEW j \in DOMAIN intents,
                        i < j, intents[i].slot = intents[j].slot,
                        Priority(intents[i].source) = Priority(intents[j].source),
                        intents[i].message # NoMessage,
                        intents[i].run # NoRun \/ intents[j].run # NoRun,
                        intents'[i].state = "Queued", IsBusy(intents'[j])
                 PROVE  FALSE
      BY DEF NoOvertaking, Steady, Keeps, IsBusy
    <2>1. intents[i].state = "Queued"
      BY DEF Steady
    <2>2. IsBusy(intents[j])
      BY DEF Steady
    <2> QED
      BY <2>1, <2>2 DEF IInv, Ordered, NoOvertaking, IsBusy
  <1> QED
    BY <1>5, <1>6, <1>7, <1>8, <1>9, <1>10 DEF Ordered

----------------------------------------------------------------------------
\* What the proofs use of the invariant again and again.
LEMMA Facts ==
  ASSUME IInv
  PROVE  /\ Len(intents) \in Nat /\ DOMAIN intents = 1..Len(intents) /\ Len(intents) <= MaxIntents
         /\ \A i \in DOMAIN intents : intents[i] \in WorkIntent /\ intents[i].slot \in Slots
         /\ Len(batches) \in Nat /\ DOMAIN batches = 1..Len(batches) /\ Len(batches) <= MaxOps
         /\ \A op \in DOMAIN batches :
               batches[op] \in WorkBatch /\ batches[op].slot \in Slots /\ op \in 1..MaxOps
  <1>1. intents \in Seq(WorkIntent) /\ batches \in Seq(WorkBatch)
    BY DEF IInv, TypeOK
  <1>2. /\ Len(intents) \in Nat /\ DOMAIN intents = 1..Len(intents)
        /\ \A i \in DOMAIN intents : intents[i] \in WorkIntent
    BY <1>1, IntentsShape
  <1>3. /\ Len(batches) \in Nat /\ DOMAIN batches = 1..Len(batches)
        /\ \A op \in DOMAIN batches : batches[op] \in WorkBatch
    BY <1>1, BatchesShape
  <1>4. Len(intents) <= MaxIntents /\ Len(batches) <= MaxOps
    BY DEF IInv, TypeOK
  <1> QED
    BY <1>2, <1>3, <1>4, BoundsAssumption DEF WorkIntent, WorkBatch

\* The members of the active batch are the busy work of its slot.
LEMMA BatchIsBusy ==
  ASSUME IInv, NEW op, Current(op)
  PROVE  /\ op \in DOMAIN batches /\ op \in 1..MaxOps
         /\ batches[op].slot \in Slots /\ active[batches[op].slot] = op
         /\ batches[op].intents \subseteq DOMAIN intents
         /\ \A i \in DOMAIN intents :
               i \in batches[op].intents <=>
                  intents[i].slot = batches[op].slot /\ IsBusy(intents[i])
  <1>1. op \in DOMAIN batches /\ active[batches[op].slot] = op
    BY DEF Current
  <1>2. op \in 1..MaxOps /\ batches[op].slot \in Slots
    BY <1>1, Facts
  <1>3. \A i \in batches[op].intents : i \in DOMAIN intents /\ intents[i].slot = batches[op].slot
    BY <1>1 DEF IInv, Ordered, BatchesHoldTheirSlot
  <1>4. ASSUME NEW i \in DOMAIN intents
        PROVE  i \in batches[op].intents <=> intents[i].slot = batches[op].slot /\ IsBusy(intents[i])
    <2>1. IsBusy(intents[i]) <=>
              active[intents[i].slot] # 0 /\ i \in batches[active[intents[i].slot]].intents
      BY DEF IInv, EveryIntentHasOnePlace, IsBusy
    <2> QED
      BY <1>1, <1>2, <1>3, <2>1
  <1> QED
    BY <1>1, <1>2, <1>3, <1>4

\* A slot's queue holds its queued work.
LEMMA QueueIsQueued ==
  ASSUME IInv
  PROVE  \A s \in Slots : /\ queued[s] \subseteq DOMAIN intents
                          /\ \A i \in DOMAIN intents :
                                i \in queued[s] <=> intents[i].slot = s /\ intents[i].state = "Queued"
  <1> SUFFICES ASSUME NEW s \in Slots
               PROVE  /\ queued[s] \subseteq DOMAIN intents
                      /\ \A i \in DOMAIN intents :
                            i \in queued[s] <=> intents[i].slot = s /\ intents[i].state = "Queued"
    OBVIOUS
  <1>1. \A i \in queued[s] : i \in DOMAIN intents /\ intents[i].slot = s
    BY DEF IInv, EveryIntentHasOnePlace
  <1>2. \A i \in DOMAIN intents : intents[i].state = "Queued" <=> i \in queued[intents[i].slot]
    BY DEF IInv, EveryIntentHasOnePlace
  <1> QED
    BY <1>1, <1>2

\* The invariant in terms of queues and batches, to establish it.
Placed(q, ws, as, bs, ts) ==
    /\ \A i \in DOMAIN ws :
          /\ ws[i].state = "Queued" <=> i \in q[ws[i].slot]
          /\ IsBusy(ws[i]) <=> as[ws[i].slot] # 0 /\ i \in bs[as[ws[i].slot]].intents
          /\ IsBusy(ws[i]) => ws[i].op = as[ws[i].slot]
          /\ ws[i].state = "Running" => ts[ws[i].slot]
    /\ \A s \in Slots :
          /\ \A i \in q[s] : i \in DOMAIN ws /\ ws[i].slot = s
          /\ as[s] # 0 => as[s] \in DOMAIN bs /\ bs[as[s]].slot = s
          /\ as[s] = 0 => ~ts[s]

LEMMA OnePlace ==
  /\ EveryIntentHasOnePlace <=> Placed(queued, intents, active, batches, turn)
  /\ EveryIntentHasOnePlace' <=> Placed(queued', intents', active', batches', turn')
  BY DEF EveryIntentHasOnePlace, Placed, IsBusy

\* The place of one intent, and what one slot holds.
LEMMA PlaceOf ==
  ASSUME EveryIntentHasOnePlace, NEW i \in DOMAIN intents
  PROVE  LET s == intents[i].slot
         IN  /\ intents[i].state = "Queued" <=> i \in queued[s]
             /\ IsBusy(intents[i]) <=> active[s] # 0 /\ i \in batches[active[s]].intents
             /\ IsBusy(intents[i]) => intents[i].op = active[s]
             /\ intents[i].state = "Running" => turn[s]
  BY OnePlace DEF Placed

LEMMA HeldBy ==
  ASSUME EveryIntentHasOnePlace, NEW s \in Slots
  PROVE  /\ \A i \in queued[s] : i \in DOMAIN intents /\ intents[i].slot = s
         /\ active[s] # 0 => active[s] \in DOMAIN batches /\ batches[active[s]].slot = s
         /\ active[s] = 0 => ~turn[s]
  BY OnePlace DEF Placed

\* What a step has to establish.
Good == IInv' /\ Keeps /\ EndedStays

LEMMA SteadyIsGood ==
  ASSUME IInv, TypeOK', EveryIntentHasOnePlace', Steady
  PROVE  Good
  BY SteadyOrdered DEF Good, IInv, Steady

\* Steps that leave the work and the batches alone.
LEMMA Untouched ==
  ASSUME IInv, TypeOK', UNCHANGED <<intents, queued, active, turn, batches>>
  PROVE  Good
  <1>1. EveryIntentHasOnePlace'
    BY DEF IInv, EveryIntentHasOnePlace
  <1>2. Steady
    BY DEF Steady, Keeps, EndedStays
  <1> QED
    BY <1>1, <1>2, SteadyIsGood

LEMMA KnownTyped ==
  ASSUME IInv, NEW s \in Slots, MakeKnown(s)
  PROVE  constraint' \in [Slots -> RuntimeConstraint]
  BY DEF IInv, TypeOK, MakeKnown, RuntimeConstraint

LEMMA AcquireStep ==
  ASSUME IInv, NEW id \in Leases, NEW s \in Slots, NEW source \in Sources,
         NEW r \in Runs \cup {NoRun}, AcquireEnqueue(id, s, source, r)
  PROVE  Good
  <1>1. TypeOK'
    <2>1. constraint' \in [Slots -> RuntimeConstraint]
      BY KnownTyped DEF AcquireEnqueue
    <2> QED
      BY <2>1, SourcesAssumption DEF IInv, TypeOK, AcquireEnqueue, EnqueueLease
  <1> QED
    BY <1>1, Untouched DEF AcquireEnqueue

LEMMA AbortStep ==
  ASSUME IInv, NEW l \in leases, AbortEnqueue(l)
  PROVE  Good
  <1>1. TypeOK'
    BY DEF IInv, TypeOK, AbortEnqueue, slotVars
  <1> QED
    BY <1>1, Untouched DEF AbortEnqueue, slotVars

LEMMA PauseStep ==
  ASSUME IInv, NEW s \in Slots, PauseSlot(s)
  PROVE  Good
  <1>1. TypeOK'
    <2>1. constraint' \in [Slots -> RuntimeConstraint]
      BY KnownTyped DEF PauseSlot
    <2> QED
      BY <2>1 DEF IInv, TypeOK, PauseSlot
  <1> QED
    BY <1>1, Untouched DEF PauseSlot

\* mark_started
LEMMA StartStep ==
  ASSUME IInv, NEW op \in DOMAIN batches, MarkStarted(op)
  PROVE  Good
  <1> DEFINE s == batches[op].slot
             I == batches[op].intents
             f == Move(I, "Running", op)
  <1>1. Current(op) /\ intents' = f /\ turn' = [turn EXCEPT ![s] = TRUE]
        /\ UNCHANGED <<queued, active, paused, constraint, removed, leases, batches>>
    BY DEF MarkStarted
  <1>2. /\ op \in 1..MaxOps /\ s \in Slots /\ active[s] = op
        /\ I \subseteq DOMAIN intents
        /\ \A i \in DOMAIN intents : i \in I <=> intents[i].slot = s /\ IsBusy(intents[i])
    BY <1>1, BatchIsBusy
  <1>3. op \in 0..MaxOps /\ TypeOK
    BY <1>2, BoundsAssumption DEF IInv
  <1>4. f \in Seq(WorkIntent) /\ Len(f) = Len(intents) /\ IsMove(f, I, "Running", op)
    BY <1>3, Moved DEF Live
  <1> HIDE DEF f, s, I
  <1>5. TypeOK'
    BY <1>1, <1>4 DEF IInv, TypeOK
  <1>6. \A i \in DOMAIN intents : intents[i] \in WorkIntent /\ intents[i].slot \in Slots
    BY Facts
  <1>7. EveryIntentHasOnePlace'
    <2>1. Placed(queued, intents, active, batches, turn)
      BY OnePlace DEF IInv
    <2>2. turn \in [Slots -> BOOLEAN]
      BY DEF IInv, TypeOK
    <2>3. Placed(queued, f, active, batches, turn')
      BY <1>1, <1>2, <1>4, <1>6, <2>1, <2>2 DEF Placed, IsBusy, IsMove
    <2> QED
      BY <1>1, <2>3, OnePlace
  <1>8. Steady
    BY <1>1, <1>2, <1>4, <1>6, StatesDiffer DEF Steady, Keeps, EndedStays, IsBusy, IsMove
  <1> QED
    BY <1>5, <1>7, <1>8, SteadyIsGood

\* retry_start and terminalize_batch: the slot gives its batch back.
LEMMA GiveBackIsGood ==
  ASSUME IInv, NEW op \in DOMAIN batches, Current(op),
         NEW st \in {"Queued"} \cup Terminal,
         intents' = Move(batches[op].intents, st, 0),
         queued' = [queued EXCEPT ![batches[op].slot] =
                       @ \cup IF st = "Queued" THEN batches[op].intents ELSE {}],
         active' = [active EXCEPT ![batches[op].slot] = 0],
         turn' = [turn EXCEPT ![batches[op].slot] = FALSE],
         UNCHANGED <<paused, constraint, removed, leases, batches>>
  PROVE  Good
  <1> DEFINE s == batches[op].slot
             I == batches[op].intents
             f == Move(I, st, 0)
             Q == IF st = "Queued" THEN I ELSE {}
  <1>1. /\ intents' = f
        /\ queued' = [queued EXCEPT ![s] = @ \cup Q]
        /\ active' = [active EXCEPT ![s] = 0]
        /\ turn' = [turn EXCEPT ![s] = FALSE]
    OBVIOUS
  <1>2. /\ op \in 1..MaxOps /\ s \in Slots /\ active[s] = op
        /\ I \subseteq DOMAIN intents
        /\ \A i \in DOMAIN intents : i \in I <=> intents[i].slot = s /\ IsBusy(intents[i])
    BY BatchIsBusy
  <1>3. 0 \in 0..MaxOps /\ TypeOK /\ st \in Live \cup Terminal
    BY BoundsAssumption DEF IInv, Live
  <1>4. f \in Seq(WorkIntent) /\ Len(f) = Len(intents) /\ IsMove(f, I, st, 0)
    BY <1>3, Moved
  <1>5. Q \subseteq I /\ (st = "Queued" => Q = I) /\ (st # "Queued" => Q = {})
    OBVIOUS
  <1>6. /\ \A i \in DOMAIN intents : intents[i] \in WorkIntent /\ intents[i].slot \in Slots
        /\ DOMAIN intents \subseteq IntentId
    BY Facts, BoundsAssumption DEF IntentId
  <1>7. /\ queued \in [Slots -> SUBSET IntentId]
        /\ active \in [Slots -> 0..MaxOps]
        /\ turn \in [Slots -> BOOLEAN]
    BY DEF IInv, TypeOK
  <1>8. \A i \in DOMAIN intents : i \in I => IsBusy(intents[i]) /\ intents[i].state # "Queued"
    BY <1>2 DEF IsBusy
  <1> HIDE DEF f, s, I, Q
  <1>9. TypeOK'
    <2>1. queued' \in [Slots -> SUBSET IntentId]
      BY <1>1, <1>2, <1>5, <1>6, <1>7
    <2>2. active' \in [Slots -> 0..MaxOps]
      BY <1>1, <1>3, <1>7
    <2>3. turn' \in [Slots -> BOOLEAN]
      BY <1>1, <1>7
    <2> QED
      BY <1>1, <1>4, <2>1, <2>2, <2>3 DEF IInv, TypeOK
  <1>10. EveryIntentHasOnePlace'
    <2>1. Placed(queued, intents, active, batches, turn)
      BY OnePlace DEF IInv
    <2>2. ASSUME NEW i \in DOMAIN f
          PROVE  /\ f[i].state = "Queued" <=> i \in queued'[f[i].slot]
                 /\ IsBusy(f[i]) <=> active'[f[i].slot] # 0 /\ i \in batches[active'[f[i].slot]].intents
                 /\ IsBusy(f[i]) => f[i].op = active'[f[i].slot]
                 /\ f[i].state = "Running" => turn'[f[i].slot]
      <3>1. CASE i \in I
        <4>1. f[i].slot = s /\ f[i].state = st /\ i \in DOMAIN intents
          BY <1>2, <1>4, <3>1 DEF IsMove
        <4>2. i \notin queued[s]
          BY <1>2, <1>8, <3>1, QueueIsQueued
        <4> QED
          BY <1>1, <1>2, <1>5, <1>7, <3>1, <4>1, <4>2 DEF IsBusy, Terminal
      <3>2. CASE i \notin I
        <4>1. f[i] = intents[i] /\ i \in DOMAIN intents
          BY <1>4, <3>2 DEF IsMove
        <4>2. intents[i].slot = s => ~IsBusy(intents[i])
          BY <1>2, <3>2, <4>1
        <4> QED
          BY <1>1, <1>2, <1>5, <1>6, <1>7, <2>1, <3>2, <4>1, <4>2 DEF Placed, IsBusy
      <3> QED
        BY <3>1, <3>2
    <2>3. ASSUME NEW x \in Slots
          PROVE  /\ \A i \in queued'[x] : i \in DOMAIN f /\ f[i].slot = x
                 /\ active'[x] # 0 => active'[x] \in DOMAIN batches /\ batches[active'[x]].slot = x
                 /\ active'[x] = 0 => ~turn'[x]
      BY <1>1, <1>2, <1>4, <1>5, <1>7, <2>1 DEF Placed, IsMove
    <2> QED
      BY <1>1, <2>2, <2>3, OnePlace DEF Placed
  <1>11. Steady
    <2>1. Keeps /\ DOMAIN intents' = DOMAIN intents
      BY <1>1, <1>4 DEF Keeps, IsMove
    <2>2. EndedStays
      BY <1>1, <1>4, <1>6, <1>8, StatesDiffer DEF EndedStays, IsMove
    <2>3. \A i \in DOMAIN intents :
             (IsBusy(intents'[i]) => IsBusy(intents[i])) /\ intents'[i].pos = intents[i].pos
      BY <1>1, <1>4, <1>8 DEF IsMove
    <2>4. ASSUME NEW i \in DOMAIN intents, NEW j \in DOMAIN intents,
                 intents[i].slot = intents[j].slot,
                 intents[i].state # "Queued", intents'[i].state = "Queued"
          PROVE  ~IsBusy(intents'[j])
      <3>1. i \in I /\ st = "Queued"
        BY <1>1, <1>4, <2>4 DEF IsMove
      <3>2. j \in I \/ ~IsBusy(intents[j])
        BY <1>2, <2>4, <3>1
      <3> QED
        BY <1>1, <1>4, <3>1, <3>2 DEF IsMove, IsBusy
    <2> QED
      BY <2>1, <2>2, <2>3, <2>4 DEF Steady
  <1> QED
    BY <1>9, <1>10, <1>11, SteadyIsGood

LEMMA RetryStep ==
  ASSUME IInv, NEW op \in DOMAIN batches, RetryStart(op)
  PROVE  Good
  <1>1. "Queued" \in {"Queued"} \cup Terminal
    OBVIOUS
  <1> QED
    BY <1>1, GiveBackIsGood DEF RetryStart

LEMMA TerminalizeStep ==
  ASSUME IInv, NEW op \in DOMAIN batches, NEW st \in Terminal, TerminalizeBatch(op, st)
  PROVE  Good
  <1>1. st \in {"Queued"} \cup Terminal /\ st # "Queued"
    BY DEF Terminal
  <1>2. queued \in [Slots -> SUBSET IntentId]
    BY DEF IInv, TypeOK
  <1>3. queued' = [queued EXCEPT ![batches[op].slot] =
                      @ \cup IF st = "Queued" THEN batches[op].intents ELSE {}]
    BY <1>1, <1>2 DEF TerminalizeBatch
  <1> QED
    BY <1>1, <1>3, GiveBackIsGood DEF TerminalizeBatch

----------------------------------------------------------------------------
\* complete_signals
LEMMA SignalsStep ==
  ASSUME IInv, NEW s \in Slots, NEW ids \in SUBSET DOMAIN intents, CompleteSignals(s, ids)
  PROVE  Good
  <1> DEFINE f == Move(ids, "Completed", 0)
  <1>1. /\ \A i \in ids : intents[i].slot = s /\ intents[i].state = "Queued"
        /\ intents' = f
        /\ queued' = [queued EXCEPT ![s] = @ \ ids]
        /\ UNCHANGED <<active, turn, paused, constraint, removed, leases, batches>>
    BY DEF CompleteSignals
  <1>2. f \in Seq(WorkIntent) /\ Len(f) = Len(intents) /\ IsMove(f, ids, "Completed", 0)
    <2>1. 0 \in 0..MaxOps /\ TypeOK /\ "Completed" \in Live \cup Terminal
      BY BoundsAssumption DEF IInv, Terminal
    <2> QED
      BY <2>1, Moved
  <1>3. \A i \in DOMAIN intents : intents[i] \in WorkIntent /\ intents[i].slot \in Slots
    BY Facts
  <1>4. queued \in [Slots -> SUBSET IntentId]
    BY DEF IInv, TypeOK
  <1> HIDE DEF f
  <1>5. TypeOK'
    <2>1. queued' \in [Slots -> SUBSET IntentId]
      BY <1>1, <1>4
    <2> QED
      BY <1>1, <1>2, <2>1 DEF IInv, TypeOK
  <1>6. EveryIntentHasOnePlace'
    <2>1. Placed(queued, intents, active, batches, turn)
      BY OnePlace DEF IInv
    <2>2. Placed(queued', f, active, batches, turn)
      BY <1>1, <1>2, <1>3, <1>4, <2>1 DEF Placed, IsBusy, IsMove
    <2> QED
      BY <1>1, <2>2, OnePlace
  <1>7. Steady
    BY <1>1, <1>2, <1>3 DEF Steady, Keeps, EndedStays, IsBusy, IsMove, Terminal
  <1> QED
    BY <1>5, <1>6, <1>7, SteadyIsGood

\* remove_slot, stop and a stopped runtime: all live work of the slots in C ends.
LEMMA SweepIsGood ==
  ASSUME IInv, NEW C \in SUBSET Slots, NEW st \in Terminal, NEW I,
         \A i \in DOMAIN intents : i \in I <=> intents[i].slot \in C /\ IsLive(intents[i]),
         intents' = Move(I, st, 0),
         queued' = [s \in Slots |-> IF s \in C THEN {} ELSE queued[s]],
         active' = [s \in Slots |-> IF s \in C THEN 0 ELSE active[s]],
         turn' = [s \in Slots |-> s \notin C /\ turn[s]],
         constraint' \in [Slots -> RuntimeConstraint],
         removed' \in [Slots -> BOOLEAN],
         leases' \subseteq leases,
         UNCHANGED <<paused, batches>>
  PROVE  Good
  <1> DEFINE f == Move(I, st, 0)
  <1>1. intents' = f
    OBVIOUS
  <1>2. f \in Seq(WorkIntent) /\ Len(f) = Len(intents) /\ IsMove(f, I, st, 0)
    <2>1. 0 \in 0..MaxOps /\ TypeOK /\ st \in Live \cup Terminal
      BY BoundsAssumption DEF IInv
    <2> QED
      BY <2>1, Moved
  <1>3. \A i \in DOMAIN intents : intents[i] \in WorkIntent /\ intents[i].slot \in Slots
    BY Facts
  <1>4. /\ queued \in [Slots -> SUBSET IntentId]
        /\ active \in [Slots -> 0..MaxOps]
        /\ turn \in [Slots -> BOOLEAN]
    BY DEF IInv, TypeOK
  <1> HIDE DEF f
  <1>5. TypeOK'
    <2>1. queued' \in [Slots -> SUBSET IntentId]
      BY <1>4
    <2>2. active' \in [Slots -> 0..MaxOps]
      BY <1>4, BoundsAssumption
    <2>3. turn' \in [Slots -> BOOLEAN]
      BY <1>4
    <2> QED
      BY <1>1, <1>2, <2>1, <2>2, <2>3 DEF IInv, TypeOK
  <1>6. \A i \in DOMAIN intents : intents[i].slot \in C =>
            f[i].state \in Terminal /\ f[i].state # "Queued" /\ ~IsBusy(f[i])
    <2> SUFFICES ASSUME NEW i \in DOMAIN intents, intents[i].slot \in C
                 PROVE  f[i].state \in Terminal
      BY DEF Terminal, IsBusy
    <2>1. CASE i \in I
      BY <1>2, <2>1 DEF IsMove
    <2>2. CASE i \notin I
      BY <1>2, <1>3, <2>2, StatesDiffer DEF IsMove
    <2> QED
      BY <2>1, <2>2
  <1>7. \A i \in DOMAIN intents : intents[i].slot \notin C => f[i] = intents[i]
    BY <1>2 DEF IsMove
  <1>8. DOMAIN f = DOMAIN intents /\ \A i \in DOMAIN intents : f[i].slot = intents[i].slot
    BY <1>2 DEF IsMove
  <1>9. EveryIntentHasOnePlace'
    <2>1. EveryIntentHasOnePlace
      BY DEF IInv
    <2>0. ASSUME NEW x \in Slots
          PROVE  /\ queued'[x] = IF x \in C THEN {} ELSE queued[x]
                 /\ active'[x] = IF x \in C THEN 0 ELSE active[x]
                 /\ turn'[x] <=> x \notin C /\ turn[x]
      OBVIOUS
    <2>2. ASSUME NEW i \in DOMAIN f
          PROVE  /\ f[i].state = "Queued" <=> i \in queued'[f[i].slot]
                 /\ IsBusy(f[i]) <=> active'[f[i].slot] # 0 /\ i \in batches[active'[f[i].slot]].intents
                 /\ IsBusy(f[i]) => f[i].op = active'[f[i].slot]
                 /\ f[i].state = "Running" => turn'[f[i].slot]
      <3>0. i \in DOMAIN intents /\ f[i].slot = intents[i].slot /\ intents[i].slot \in Slots
        BY <1>3, <1>8
      <3>1. CASE intents[i].slot \in C
        <4>1. queued'[f[i].slot] = {} /\ active'[f[i].slot] = 0
          BY <2>0, <3>0, <3>1
        <4>2. f[i].state # "Queued" /\ ~IsBusy(f[i]) /\ f[i].state # "Running"
          BY <1>6, <3>0, <3>1 DEF IsBusy
        <4> QED
          BY <4>1, <4>2
      <3>2. CASE intents[i].slot \notin C
        <4>1. /\ queued'[f[i].slot] = queued[intents[i].slot]
              /\ active'[f[i].slot] = active[intents[i].slot]
              /\ turn'[f[i].slot] <=> turn[intents[i].slot]
          BY <2>0, <3>0, <3>2
        <4>2. f[i] = intents[i]
          BY <1>7, <3>0, <3>2
        <4> QED
          BY <2>1, <3>0, <4>1, <4>2, PlaceOf
      <3> QED
        BY <3>1, <3>2
    <2>3. ASSUME NEW x \in Slots
          PROVE  /\ \A i \in queued'[x] : i \in DOMAIN f /\ f[i].slot = x
                 /\ active'[x] # 0 => active'[x] \in DOMAIN batches /\ batches[active'[x]].slot = x
                 /\ active'[x] = 0 => ~turn'[x]
      BY <1>8, <2>0, <2>1, HeldBy
    <2>4. Placed(queued', f, active', batches, turn')
      BY <2>2, <2>3, Zenon DEF Placed
    <2> QED
      BY <1>1, <2>4, OnePlace
  <1>10. Steady
    <2>1. Keeps /\ DOMAIN intents' = DOMAIN intents
      BY <1>1, <1>2 DEF Keeps, IsMove
    <2>2. EndedStays
      BY <1>1, <1>2, <1>3, StatesDiffer DEF EndedStays, IsMove
    <2>3. \A i \in DOMAIN intents :
             (IsBusy(intents'[i]) => IsBusy(intents[i])) /\ intents'[i].pos = intents[i].pos
      BY <1>1, <1>2, <1>6, <1>7 DEF IsMove
    <2>4. \A i \in DOMAIN intents :
             intents[i].state # "Queued" => intents'[i].state # "Queued"
      BY <1>1, <1>6, <1>7
    <2> QED
      BY <2>1, <2>2, <2>3, <2>4 DEF Steady
  <1> QED
    BY <1>5, <1>9, <1>10, SteadyIsGood

LEMMA RemoveStep ==
  ASSUME IInv, NEW s \in Slots, RemoveSlot(s)
  PROVE  Good
  <1> DEFINE members == IF active[s] = 0 THEN {} ELSE batches[active[s]].intents
             I == members \cup queued[s] \cup LiveOf(s)
  <1>1. /\ intents' = Move(I, "Cancelled", 0)
        /\ queued' = [queued EXCEPT ![s] = {}]
        /\ active' = [active EXCEPT ![s] = 0]
        /\ turn' = [turn EXCEPT ![s] = FALSE]
        /\ removed' = [removed EXCEPT ![s] = @ \/ constraint[s] # "Unknown"]
        /\ UNCHANGED <<paused, constraint, leases, batches>>
    BY DEF RemoveSlot
  <1>2. /\ queued \in [Slots -> SUBSET IntentId]
        /\ active \in [Slots -> 0..MaxOps]
        /\ turn \in [Slots -> BOOLEAN]
        /\ removed \in [Slots -> BOOLEAN]
        /\ constraint \in [Slots -> RuntimeConstraint]
    BY DEF IInv, TypeOK
  <1>3. \A i \in DOMAIN intents : i \in LiveOf(s) <=> intents[i].slot = s /\ IsLive(intents[i])
    BY DEF LiveOf, IsLive
  <1>4. queued[s] \subseteq LiveOf(s)
    BY QueueIsQueued DEF LiveOf, Live
  <1>5. members \subseteq LiveOf(s)
    <2> SUFFICES ASSUME active[s] # 0 PROVE batches[active[s]].intents \subseteq LiveOf(s)
      OBVIOUS
    <2>1. Current(active[s]) /\ batches[active[s]].slot = s
      BY DEF IInv, EveryIntentHasOnePlace, Current
    <2> QED
      BY <2>1, BatchIsBusy DEF LiveOf, Live, IsBusy
  <1>6. \A i \in DOMAIN intents : i \in I <=> intents[i].slot \in {s} /\ IsLive(intents[i])
    BY <1>3, <1>4, <1>5
  <1>7. /\ queued' = [x \in Slots |-> IF x \in {s} THEN {} ELSE queued[x]]
        /\ active' = [x \in Slots |-> IF x \in {s} THEN 0 ELSE active[x]]
    BY <1>1, <1>2
  <1>8. turn' = [x \in Slots |-> x \notin {s} /\ turn[x]]
    BY <1>1, <1>2, Zenon
  <1>9. /\ constraint' \in [Slots -> RuntimeConstraint] /\ removed' \in [Slots -> BOOLEAN]
        /\ leases' \subseteq leases /\ "Cancelled" \in Terminal
    <2>1. removed' \in [Slots -> BOOLEAN]
      BY <1>1, <1>2, Zenon
    <2> QED
      BY <1>1, <1>2, <2>1 DEF Terminal
  <1>10. {s} \in SUBSET Slots /\ UNCHANGED <<paused, batches>>
    BY <1>1
  <1>11. intents' = Move(I, "Cancelled", 0)
    BY <1>1
  <1> HIDE DEF I
  <1> QED
    BY <1>6, <1>7, <1>8, <1>9, <1>10, <1>11, SweepIsGood, Zenon

LEMMA StopStep ==
  ASSUME IInv, StopSession
  PROVE  Good
  <1> DEFINE I == {i \in DOMAIN intents : intents[i].state \in Live}
  <1>1. /\ intents' = Move(I, "Cancelled", 0)
        /\ queued' = [s \in Slots |-> {}]
        /\ active' = [s \in Slots |-> 0]
        /\ turn' = [s \in Slots |-> FALSE]
        /\ constraint' = [s \in Slots |-> IF constraint[s] = "Unknown" THEN "Unknown" ELSE "SessionStopped"]
        /\ leases' = {}
        /\ UNCHANGED <<paused, removed, batches>>
    BY DEF StopSession
  <1>2. \A i \in DOMAIN intents : i \in I <=> intents[i].slot \in Slots /\ IsLive(intents[i])
    BY Facts DEF IsLive
  <1>3. /\ queued' = [x \in Slots |-> IF x \in Slots THEN {} ELSE queued[x]]
        /\ active' = [x \in Slots |-> IF x \in Slots THEN 0 ELSE active[x]]
        /\ turn' = [x \in Slots |-> x \notin Slots /\ turn[x]]
    BY <1>1
  <1>4. /\ constraint' \in [Slots -> RuntimeConstraint] /\ removed' \in [Slots -> BOOLEAN]
        /\ leases' \subseteq leases /\ "Cancelled" \in Terminal
    BY <1>1 DEF Terminal, RuntimeConstraint, IInv, TypeOK
  <1>5. Slots \in SUBSET Slots /\ UNCHANGED <<paused, batches>>
    BY <1>1
  <1>6. intents' = Move(I, "Cancelled", 0)
    BY <1>1
  <1> HIDE DEF I
  <1> QED
    BY <1>2, <1>3, <1>4, <1>5, <1>6, SweepIsGood, Zenon

----------------------------------------------------------------------------
\* set_runtime_constraint, by what becomes of the work.
LEMMA SetOtherStep ==
  ASSUME IInv, NEW s \in Slots, NEW c \in Constraints, SetConstraint(s, c),
         c \notin {"Failed", "SessionStopped"}
  PROVE  Good
  <1>1. TypeOK'
    BY ConstraintsAssumption DEF IInv, TypeOK, SetConstraint, RuntimeConstraint
  <1> QED
    BY <1>1, Untouched DEF SetConstraint

LEMMA SetStoppedStep ==
  ASSUME IInv, NEW s \in Slots, SetConstraint(s, "SessionStopped")
  PROVE  Good
  <1> DEFINE I == LiveOf(s)
  <1>1. /\ constraint' = [constraint EXCEPT ![s] = "SessionStopped"]
        /\ intents' = Move(I, "Cancelled", 0)
        /\ queued' = [queued EXCEPT ![s] = {}]
        /\ active' = [active EXCEPT ![s] = 0]
        /\ turn' = [turn EXCEPT ![s] = FALSE]
        /\ UNCHANGED <<paused, removed, leases, batches>>
    BY DEF SetConstraint, OutcomeUnder, Move
  <1>2. /\ queued \in [Slots -> SUBSET IntentId]
        /\ active \in [Slots -> 0..MaxOps]
        /\ turn \in [Slots -> BOOLEAN]
        /\ removed \in [Slots -> BOOLEAN]
        /\ constraint \in [Slots -> RuntimeConstraint]
    BY DEF IInv, TypeOK
  <1>3. \A i \in DOMAIN intents : i \in I <=> intents[i].slot \in {s} /\ IsLive(intents[i])
    BY DEF LiveOf, IsLive
  <1>4. /\ queued' = [x \in Slots |-> IF x \in {s} THEN {} ELSE queued[x]]
        /\ active' = [x \in Slots |-> IF x \in {s} THEN 0 ELSE active[x]]
    BY <1>1, <1>2
  <1>5. turn' = [x \in Slots |-> x \notin {s} /\ turn[x]]
    BY <1>1, <1>2, Zenon
  <1>6. /\ constraint' \in [Slots -> RuntimeConstraint] /\ removed' \in [Slots -> BOOLEAN]
        /\ leases' \subseteq leases /\ "Cancelled" \in Terminal
    BY <1>1, <1>2 DEF Terminal, RuntimeConstraint
  <1>7. {s} \in SUBSET Slots /\ UNCHANGED <<paused, batches>>
    BY <1>1
  <1>8. intents' = Move(I, "Cancelled", 0)
    BY <1>1
  <1> HIDE DEF I
  <1> QED
    BY <1>3, <1>4, <1>5, <1>6, <1>7, <1>8, SweepIsGood, Zenon

\* A failed runtime: run-less work is queued again in any order, the rest fails.
LEMMA SetFailedStep ==
  ASSUME IInv, NEW s \in Slots, NEW c, c = "Failed", SetConstraint(s, c)
  PROVE  Good
  <1> DEFINE live == LiveOf(s)
             kept == {i \in live : intents[i].run = NoRun /\ c = "Failed"}
  <1>1. PICK order \in [kept -> {intents[i].pos : i \in kept}] :
            /\ \A i, j \in kept : order[i] = order[j] => i = j
            /\ intents' = [i \in DOMAIN intents |->
                  IF i \in kept
                  THEN [intents[i] EXCEPT !.state = "Queued", !.op = 0, !.pos = order[i]]
                  ELSE IF i \in live
                  THEN [intents[i] EXCEPT !.state = OutcomeUnder(c), !.op = 0]
                  ELSE intents[i]]
    <2>1. c \in {"Failed", "SessionStopped"}
      OBVIOUS
    <2> QED
      BY <2>1, Zenon DEF SetConstraint
  <1>2. /\ constraint' = [constraint EXCEPT ![s] = "Failed"]
        /\ queued' = [queued EXCEPT ![s] = kept]
        /\ active' = [active EXCEPT ![s] = 0]
        /\ turn' = [turn EXCEPT ![s] = FALSE]
        /\ UNCHANGED <<paused, removed, leases, batches>>
    BY DEF SetConstraint
  <1>3. /\ kept \subseteq live /\ live \subseteq DOMAIN intents
        /\ \A i \in DOMAIN intents : i \in live <=> intents[i].slot = s /\ IsLive(intents[i])
        /\ \A i \in DOMAIN intents : i \in kept <=> i \in live /\ intents[i].run = NoRun
    BY DEF LiveOf, IsLive
  <1>4. /\ \A i \in DOMAIN intents : intents[i] \in WorkIntent /\ intents[i].slot \in Slots
        /\ DOMAIN intents \subseteq IntentId
        /\ Len(intents) \in Nat
    BY Facts, BoundsAssumption DEF IntentId
  <1>5. \A i \in kept : order[i] \in Nat /\ order[i] <= Len(intents)
    <2> SUFFICES ASSUME NEW i \in kept PROVE order[i] \in Nat /\ order[i] <= Len(intents)
      OBVIOUS
    <2>1. PICK j \in kept : order[i] = intents[j].pos
      BY <1>1
    <2> QED
      BY <1>3, <1>4, <2>1 DEF IInv, Ordered, PositionsBounded, WorkIntent
  <1> HIDE DEF live, kept
  <1>6. ASSUME NEW i \in DOMAIN intents
        PROVE  /\ intents'[i] \in WorkIntent
               /\ intents'[i].slot = intents[i].slot
               /\ intents'[i].source = intents[i].source
               /\ intents'[i].message = intents[i].message
               /\ intents'[i].run = intents[i].run
               /\ i \in kept => intents'[i].state = "Queued" /\ intents'[i].pos = order[i]
               /\ i \in live \ kept => intents'[i].state = "Failed" /\ intents'[i].pos = intents[i].pos
               /\ i \notin live => intents'[i] = intents[i]
    <2>1. intents[i] \in WorkIntent /\ 0 \in 0..MaxOps
      BY <1>4, BoundsAssumption
    <2>2. CASE i \in kept
      <3>1. intents'[i] = [intents[i] EXCEPT !.state = "Queued", !.op = 0, !.pos = order[i]]
        BY <1>1, <2>2
      <3>2. order[i] \in Nat
        BY <1>5, <2>2
      <3> QED
        BY <1>3, <2>1, <2>2, <3>1, <3>2 DEF WorkIntent, Live
    <2>3. CASE i \in live \ kept
      <3>1. intents'[i] = [intents[i] EXCEPT !.state = OutcomeUnder(c), !.op = 0]
        BY <1>1, <2>3
      <3> QED
        BY <2>1, <2>3, <3>1 DEF WorkIntent, Terminal, OutcomeUnder
    <2>4. CASE i \notin live
      <3>1. intents'[i] = intents[i]
        BY <1>1, <1>3, <2>4
      <3> QED
        BY <1>3, <2>1, <2>4, <3>1
    <2> QED
      BY <2>2, <2>3, <2>4
  <1>7. intents' \in Seq(WorkIntent) /\ Len(intents') = Len(intents) /\ DOMAIN intents' = DOMAIN intents
    <2>1. intents' = [i \in DOMAIN intents |-> intents'[i]]
      BY <1>1
    <2>2. TypeOK
      BY DEF IInv
    <2> QED
      BY <1>6, <2>1, <2>2, Rewritten
  <1>8. /\ queued \in [Slots -> SUBSET IntentId]
        /\ active \in [Slots -> 0..MaxOps]
        /\ turn \in [Slots -> BOOLEAN]
        /\ constraint \in [Slots -> RuntimeConstraint]
    BY DEF IInv, TypeOK
  <1>9. TypeOK'
    <2>1. queued' \in [Slots -> SUBSET IntentId]
      BY <1>2, <1>3, <1>4, <1>8
    <2>2. active' \in [Slots -> 0..MaxOps]
      BY <1>2, <1>8, BoundsAssumption
    <2>3. turn' \in [Slots -> BOOLEAN]
      BY <1>2, <1>8
    <2>4. constraint' \in [Slots -> RuntimeConstraint]
      BY <1>2, <1>8 DEF RuntimeConstraint
    <2> QED
      BY <1>2, <1>7, <2>1, <2>2, <2>3, <2>4 DEF IInv, TypeOK
  \* In the slot only run-less work is live, and all of it is queued.
  <1>10. \A i \in DOMAIN intents : intents[i].slot = s =>
            /\ ~IsBusy(intents'[i])
            /\ intents'[i].state = "Queued" <=> i \in kept
            /\ IsLive(intents'[i]) <=> i \in kept
    <2> SUFFICES ASSUME NEW i \in DOMAIN intents, intents[i].slot = s
                 PROVE  /\ ~IsBusy(intents'[i])
                        /\ intents'[i].state = "Queued" <=> i \in kept
                        /\ IsLive(intents'[i]) <=> i \in kept
      OBVIOUS
    <2>1. CASE i \in kept
      BY <1>6, <2>1 DEF IsBusy, IsLive, Live
    <2>2. CASE i \in live \ kept
      BY <1>6, <2>2 DEF IsBusy, IsLive, Live
    <2>3. CASE i \notin live
      <3>1. intents'[i] = intents[i] /\ ~IsLive(intents[i]) /\ i \notin kept
        BY <1>3, <1>6, <2>3
      <3> QED
        BY <3>1 DEF IsBusy, IsLive, Live
    <2> QED
      BY <2>1, <2>2, <2>3
  <1>11. \A i \in DOMAIN intents : intents[i].slot # s => intents'[i] = intents[i] /\ i \notin kept
    BY <1>3, <1>6
  <1>12. EveryIntentHasOnePlace'
    <2>1. EveryIntentHasOnePlace
      BY DEF IInv
    <2>0. ASSUME NEW x \in Slots
          PROVE  /\ queued'[x] = IF x = s THEN kept ELSE queued[x]
                 /\ active'[x] = IF x = s THEN 0 ELSE active[x]
                 /\ turn'[x] <=> x # s /\ turn[x]
      BY <1>2, <1>8
    <2>2. ASSUME NEW i \in DOMAIN intents'
          PROVE  /\ intents'[i].state = "Queued" <=> i \in queued'[intents'[i].slot]
                 /\ IsBusy(intents'[i]) <=>
                       active'[intents'[i].slot] # 0 /\ i \in batches[active'[intents'[i].slot]].intents
                 /\ IsBusy(intents'[i]) => intents'[i].op = active'[intents'[i].slot]
                 /\ intents'[i].state = "Running" => turn'[intents'[i].slot]
      <3>0. i \in DOMAIN intents /\ intents'[i].slot = intents[i].slot /\ intents[i].slot \in Slots
        BY <1>4, <1>6, <1>7
      <3>1. CASE intents[i].slot = s
        <4>1. queued'[intents'[i].slot] = kept /\ active'[intents'[i].slot] = 0
          BY <2>0, <3>0, <3>1
        <4>2. ~IsBusy(intents'[i]) /\ (intents'[i].state = "Queued" <=> i \in kept)
          BY <1>10, <3>0, <3>1
        <4>3. intents'[i].state # "Running"
          BY <4>2 DEF IsBusy
        <4> QED
          BY <4>1, <4>2, <4>3
      <3>2. CASE intents[i].slot # s
        <4>1. /\ queued'[intents'[i].slot] = queued[intents[i].slot]
              /\ active'[intents'[i].slot] = active[intents[i].slot]
              /\ turn'[intents'[i].slot] <=> turn[intents[i].slot]
          BY <2>0, <3>0, <3>2
        <4>2. intents'[i] = intents[i]
          BY <1>11, <3>0, <3>2
        <4> QED
          BY <2>1, <3>0, <4>1, <4>2, PlaceOf
      <3> QED
        BY <3>1, <3>2
    <2>3. ASSUME NEW x \in Slots
          PROVE  /\ \A i \in queued'[x] : i \in DOMAIN intents' /\ intents'[i].slot = x
                 /\ active'[x] # 0 => active'[x] \in DOMAIN batches /\ batches[active'[x]].slot = x
                 /\ active'[x] = 0 => ~turn'[x]
      <3>1. \A i \in queued'[x] : i \in DOMAIN intents /\ intents[i].slot = x
        BY <1>3, <2>0, <2>1, HeldBy
      <3>2. \A i \in queued'[x] : i \in DOMAIN intents' /\ intents'[i].slot = x
        BY <1>6, <1>7, <3>1
      <3> QED
        BY <2>0, <2>1, <3>2, HeldBy
    <2>4. batches' = batches
      BY <1>2
    <2>5. Placed(queued', intents', active', batches, turn')
      BY <2>2, <2>3, Zenon DEF Placed
    <2> QED
      BY <2>4, <2>5, OnePlace
  <1>13. EndedStays
    <2> SUFFICES ASSUME NEW i \in DOMAIN intents, intents[i].state \in Terminal
                 PROVE  intents'[i].state = intents[i].state
      BY DEF EndedStays
    <2>1. i \notin live
      BY <1>3, <1>4, StatesDiffer
    <2> QED
      BY <1>6, <2>1
  <1>14. Ordered'
    <2>1. BatchesHoldTheirSlot'
      BY <1>2, <1>6, <1>7 DEF IInv, Ordered, BatchesHoldTheirSlot
    <2>2. PositionsDiffer'
      <3> SUFFICES ASSUME NEW i \in DOMAIN intents, NEW j \in DOMAIN intents,
                          IsLive(intents'[i]), IsLive(intents'[j]),
                          intents[i].slot = intents[j].slot,
                          intents'[i].pos = intents'[j].pos
                   PROVE  i = j
        BY <1>6, <1>7 DEF PositionsDiffer
      <3>1. CASE intents[i].slot = s
        <4>1. i \in kept /\ j \in kept
          BY <1>10, <3>1
        <4>2. order[i] = order[j]
          BY <1>6, <4>1
        <4> QED
          BY <1>1, <4>1, <4>2
      <3>2. CASE intents[i].slot # s
        BY <1>11, <3>2 DEF IInv, Ordered, PositionsDiffer
      <3> QED
        BY <3>1, <3>2
    <2>3. PositionsBounded'
      <3> SUFFICES ASSUME NEW i \in DOMAIN intents PROVE intents'[i].pos <= Len(intents)
        BY <1>7 DEF PositionsBounded
      <3>1. intents[i].pos <= Len(intents)
        BY DEF IInv, Ordered, PositionsBounded
      <3> QED
        BY <1>5, <1>6, <3>1
    <2>4. PositionsFollowArrival'
      <3> SUFFICES ASSUME NEW i \in DOMAIN intents, NEW j \in DOMAIN intents,
                          IsLive(intents'[i]), IsLive(intents'[j]),
                          intents[i].slot = intents[j].slot, i < j,
                          intents[i].run # NoRun \/ intents[j].run # NoRun
                   PROVE  intents'[i].pos < intents'[j].pos
        BY <1>6, <1>7 DEF PositionsFollowArrival
      <3>1. intents[i].slot # s
        BY <1>3, <1>10
      <3> QED
        BY <1>11, <3>1 DEF IInv, Ordered, PositionsFollowArrival
    <2>5. CommandsTravelAlone'
      BY <1>2, <1>6 DEF IInv, Ordered, BatchesHoldTheirSlot, CommandsTravelAlone, IsCommand
    <2>6. NoOvertaking'
      <3> SUFFICES ASSUME NEW i \in DOMAIN intents, NEW j \in DOMAIN intents,
                          i < j, intents[i].slot = intents[j].slot,
                          Priority(intents[i].source) = Priority(intents[j].source),
                          intents[i].message # NoMessage,
                          intents[i].run # NoRun \/ intents[j].run # NoRun,
                          intents'[i].state = "Queued", IsBusy(intents'[j])
                   PROVE  FALSE
        BY <1>6, <1>7 DEF NoOvertaking, IsBusy
      <3>1. intents[j].slot # s
        BY <1>10
      <3> QED
        BY <1>11, <3>1 DEF IInv, Ordered, NoOvertaking, IsBusy
    <2> QED
      BY <2>1, <2>2, <2>3, <2>4, <2>5, <2>6 DEF Ordered
  <1>15. Keeps
    BY <1>6, <1>7 DEF Keeps
  <1> QED
    BY <1>9, <1>12, <1>13, <1>14, <1>15 DEF Good, IInv

----------------------------------------------------------------------------
\* cancel_run: the live work of the run ends; what else was in the batches taken
\* down is queued again.
LEMMA CancelFacts ==
  ASSUME IInv, NEW r \in Runs, CancelRun(r)
  PROVE  LET H == HitSlots(r)
             cancelled == {i \in DOMAIN intents : intents[i].run = r /\ IsLive(intents[i])}
             taken == {i \in DOMAIN intents : intents[i].slot \in H /\ IsBusy(intents[i])}
         IN  /\ H \subseteq Slots
             /\ cancelled \cap {i \in DOMAIN intents : IsBusy(intents[i])} \subseteq taken
             /\ intents' = [i \in DOMAIN intents |->
                   IF i \in cancelled THEN [intents[i] EXCEPT !.state = "Cancelled", !.op = 0]
                   ELSE IF i \in taken THEN [intents[i] EXCEPT !.state = "Queued", !.op = 0]
                   ELSE intents[i]]
             /\ queued' = [s \in Slots |-> (queued[s] \cup {i \in taken : intents[i].slot = s}) \ cancelled]
             /\ active' = [s \in Slots |-> IF s \in H THEN 0 ELSE active[s]]
             /\ turn' = [s \in Slots |-> s \notin H /\ turn[s]]
             /\ leases' = {l \in leases : l.run # r}
             /\ UNCHANGED <<paused, constraint, removed, batches>>
  <1> DEFINE H == HitSlots(r)
             T == TakenDown(r)
             C == {i \in OfRun(r) : intents[i].state = "Queued"} \cup (T \cap OfRun(r))
             cancelled == {i \in DOMAIN intents : intents[i].run = r /\ IsLive(intents[i])}
             taken == {i \in DOMAIN intents : intents[i].slot \in H /\ IsBusy(intents[i])}
  <1>1. \A i \in DOMAIN intents : intents[i] \in WorkIntent /\ intents[i].slot \in Slots
    BY Facts
  <1>2. \A s \in Slots : active[s] # 0 => Current(active[s]) /\ batches[active[s]].slot = s
    BY DEF IInv, EveryIntentHasOnePlace, Current
  <1>3. \A s \in Slots : active[s] # 0 =>
           /\ batches[active[s]].intents \subseteq DOMAIN intents
           /\ \A i \in DOMAIN intents :
                 i \in batches[active[s]].intents <=> intents[i].slot = s /\ IsBusy(intents[i])
    BY <1>2, BatchIsBusy
  <1>4. H \subseteq Slots /\ \A s \in H : active[s] # 0
    BY DEF HitSlots
  <1>5. T = taken
    <2>1. ASSUME NEW i \in T PROVE i \in taken
      <3>1. PICK s \in H : i \in batches[active[s]].intents
        BY DEF TakenDown
      <3> QED
        BY <1>3, <1>4, <3>1
    <2>2. ASSUME NEW i \in taken PROVE i \in T
      <3>1. intents[i].slot \in H /\ i \in batches[active[intents[i].slot]].intents
        BY <1>3, <1>4
      <3> QED
        BY <3>1 DEF TakenDown
    <2> QED
      BY <2>1, <2>2
  <1>6. ASSUME NEW i \in DOMAIN intents, intents[i].run = r, IsBusy(intents[i])
        PROVE  i \in taken
    <2> DEFINE s == intents[i].slot
    <2>1. s \in Slots /\ active[s] # 0 /\ i \in batches[active[s]].intents
      BY <1>1, <1>6 DEF IInv, EveryIntentHasOnePlace, IsBusy
    <2>2. s \in H
      BY <1>6, <2>1 DEF HitSlots, OfRun
    <2> QED
      BY <1>6, <2>2
  <1>7. C = cancelled
    <2>1. ASSUME NEW i \in C PROVE i \in cancelled
      BY <1>5 DEF OfRun, IsLive, IsBusy, Live
    <2>2. ASSUME NEW i \in cancelled PROVE i \in C
      <3>1. intents[i].state = "Queued" \/ IsBusy(intents[i])
        BY <1>1, StatesDiffer
      <3> QED
        BY <1>5, <1>6, <3>1 DEF OfRun
    <2> QED
      BY <2>1, <2>2
  <1>8. /\ intents' = [i \in DOMAIN intents |->
              IF i \in C THEN [intents[i] EXCEPT !.state = "Cancelled", !.op = 0]
              ELSE IF i \in T THEN [intents[i] EXCEPT !.state = "Queued", !.op = 0]
              ELSE intents[i]]
        /\ queued' = [s \in Slots |-> (queued[s] \cup {i \in T : intents[i].slot = s}) \ C]
        /\ active' = [s \in Slots |-> IF s \in H THEN 0 ELSE active[s]]
        /\ turn' = [s \in Slots |-> s \notin H /\ turn[s]]
        /\ leases' = {l \in leases : l.run # r}
        /\ UNCHANGED <<paused, constraint, removed, batches>>
    BY Zenon DEF CancelRun, LeasesAfter
  <1> HIDE DEF H, T, C, cancelled, taken
  <1>9. cancelled \cap {i \in DOMAIN intents : IsBusy(intents[i])} \subseteq taken
    BY <1>6 DEF cancelled
  <1> QED
    BY <1>4, <1>5, <1>7, <1>8, <1>9 DEF H, cancelled, taken

\* What it does to each piece of work.
LEMMA CancelMoves ==
  ASSUME IInv, NEW r \in Runs, CancelRun(r)
  PROVE  /\ leases' = {l \in leases : l.run # r}
         /\ DOMAIN intents' = DOMAIN intents
         /\ \A i \in DOMAIN intents :
               IF intents[i].run = r /\ IsLive(intents[i])
               THEN intents'[i].state = "Cancelled"
               ELSE \/ intents'[i] = intents[i]
                    \/ IsLive(intents[i]) /\ intents'[i].state = "Queued"
  <1> DEFINE cancelled == {i \in DOMAIN intents : intents[i].run = r /\ IsLive(intents[i])}
             taken == {i \in DOMAIN intents : intents[i].slot \in HitSlots(r) /\ IsBusy(intents[i])}
  <1>1. /\ intents' = [i \in DOMAIN intents |->
              IF i \in cancelled THEN [intents[i] EXCEPT !.state = "Cancelled", !.op = 0]
              ELSE IF i \in taken THEN [intents[i] EXCEPT !.state = "Queued", !.op = 0]
              ELSE intents[i]]
        /\ leases' = {l \in leases : l.run # r}
    BY CancelFacts, Zenon
  <1>2. /\ \A i \in DOMAIN intents : i \in cancelled <=> intents[i].run = r /\ IsLive(intents[i])
        /\ \A i \in taken : IsLive(intents[i])
    BY DEF IsBusy, IsLive, Live
  <1> HIDE DEF cancelled, taken
  <1>3. ASSUME NEW i \in DOMAIN intents
        PROVE  IF i \in cancelled
               THEN intents'[i].state = "Cancelled"
               ELSE \/ intents'[i] = intents[i]
                    \/ i \in taken /\ intents'[i].state = "Queued"
    <2>1. intents[i] \in WorkIntent
      BY Facts
    <2>2. CASE i \in cancelled
      <3>1. intents'[i] = [intents[i] EXCEPT !.state = "Cancelled", !.op = 0]
        BY <1>1, <2>2
      <3> QED
        BY <2>1, <2>2, <3>1 DEF WorkIntent
    <2>3. CASE i \in taken \ cancelled
      <3>1. intents'[i] = [intents[i] EXCEPT !.state = "Queued", !.op = 0]
        BY <1>1, <2>3
      <3> QED
        BY <2>1, <2>3, <3>1 DEF WorkIntent
    <2>4. CASE i \notin taken \cup cancelled
      <3>1. intents'[i] = intents[i]
        BY <1>1, <2>4
      <3> QED
        BY <2>4, <3>1
    <2> QED
      BY <2>2, <2>3, <2>4
  <1>4. DOMAIN intents' = DOMAIN intents /\ leases' = {l \in leases : l.run # r}
    BY <1>1
  <1> QED
    BY <1>2, <1>3, <1>4

LEMMA CancelStep ==
  ASSUME IInv, NEW r \in Runs, CancelRun(r)
  PROVE  Good
  <1> DEFINE H == HitSlots(r)
             cancelled == {i \in DOMAIN intents : intents[i].run = r /\ IsLive(intents[i])}
             taken == {i \in DOMAIN intents : intents[i].slot \in H /\ IsBusy(intents[i])}
  <1>1. /\ H \subseteq Slots
        /\ intents' = [i \in DOMAIN intents |->
              IF i \in cancelled THEN [intents[i] EXCEPT !.state = "Cancelled", !.op = 0]
              ELSE IF i \in taken THEN [intents[i] EXCEPT !.state = "Queued", !.op = 0]
              ELSE intents[i]]
        /\ queued' = [s \in Slots |-> (queued[s] \cup {i \in taken : intents[i].slot = s}) \ cancelled]
        /\ active' = [s \in Slots |-> IF s \in H THEN 0 ELSE active[s]]
        /\ turn' = [s \in Slots |-> s \notin H /\ turn[s]]
        /\ leases' \subseteq leases
        /\ UNCHANGED <<paused, constraint, removed, batches>>
    BY CancelFacts
  <1>2. cancelled \cap {i \in DOMAIN intents : IsBusy(intents[i])} \subseteq taken
    BY CancelFacts
  <1>3. /\ \A i \in DOMAIN intents : i \in taken <=> intents[i].slot \in H /\ IsBusy(intents[i])
        /\ \A i \in cancelled : i \in DOMAIN intents /\ IsLive(intents[i])
        /\ taken \subseteq DOMAIN intents
    OBVIOUS
  <1>4. /\ \A i \in DOMAIN intents : intents[i] \in WorkIntent /\ intents[i].slot \in Slots
        /\ DOMAIN intents \subseteq IntentId
    BY Facts, BoundsAssumption DEF IntentId
  <1>5. /\ queued \in [Slots -> SUBSET IntentId]
        /\ active \in [Slots -> 0..MaxOps]
        /\ turn \in [Slots -> BOOLEAN]
    BY DEF IInv, TypeOK
  <1> HIDE DEF H, cancelled, taken
  <1>12. ASSUME NEW x \in Slots
         PROVE  /\ queued'[x] = (queued[x] \cup {i \in taken : intents[i].slot = x}) \ cancelled
                /\ active'[x] = IF x \in H THEN 0 ELSE active[x]
                /\ turn'[x] = (x \notin H /\ turn[x])
    <2>1. queued' = [s \in Slots |-> (queued[s] \cup {i \in taken : intents[i].slot = s}) \ cancelled]
      BY <1>1
    <2>2. active' = [s \in Slots |-> IF s \in H THEN 0 ELSE active[s]]
      BY <1>1
    <2>3. turn' = [s \in Slots |-> s \notin H /\ turn[s]]
      BY <1>1
    <2> QED
      BY <2>1, <2>2, <2>3, Zenon
  <1>13. /\ leases' \subseteq leases
         /\ UNCHANGED <<paused, constraint, removed, batches>>
    BY <1>1
  <1>6. ASSUME NEW i \in DOMAIN intents
        PROVE  /\ intents'[i] \in WorkIntent
               /\ intents'[i].slot = intents[i].slot
               /\ intents'[i].source = intents[i].source
               /\ intents'[i].message = intents[i].message
               /\ intents'[i].run = intents[i].run
               /\ intents'[i].pos = intents[i].pos
               /\ i \in cancelled => intents'[i].state = "Cancelled"
               /\ i \in taken \ cancelled => intents'[i].state = "Queued"
               /\ i \notin cancelled \cup taken => intents'[i] = intents[i]
    <2>1. intents[i] \in WorkIntent /\ 0 \in 0..MaxOps
      BY <1>4, BoundsAssumption
    <2>2. CASE i \in cancelled
      <3>1. intents'[i] = [intents[i] EXCEPT !.state = "Cancelled", !.op = 0]
        BY <1>1, <2>2
      <3> QED
        BY <2>1, <2>2, <3>1 DEF WorkIntent, Terminal
    <2>3. CASE i \in taken \ cancelled
      <3>1. intents'[i] = [intents[i] EXCEPT !.state = "Queued", !.op = 0]
        BY <1>1, <2>3
      <3> QED
        BY <2>1, <2>3, <3>1 DEF WorkIntent, Live
    <2>4. CASE i \notin cancelled \cup taken
      <3>1. intents'[i] = intents[i]
        BY <1>1, <2>4
      <3> QED
        BY <2>1, <2>4, <3>1
    <2> QED
      BY <2>2, <2>3, <2>4
  <1>7. intents' \in Seq(WorkIntent) /\ Len(intents') = Len(intents) /\ DOMAIN intents' = DOMAIN intents
    <2>1. intents' = [i \in DOMAIN intents |-> intents'[i]]
      BY <1>1
    <2>2. TypeOK
      BY DEF IInv
    <2> QED
      BY <1>6, <2>1, <2>2, Rewritten
  <1>8. TypeOK'
    <2>1. queued' \in [Slots -> SUBSET IntentId]
      <3>1. queued' = [s \in Slots |-> (queued[s] \cup {i \in taken : intents[i].slot = s}) \ cancelled]
        BY <1>1
      <3>2. taken \subseteq IntentId
        BY <1>3, <1>4
      <3> QED
        BY <1>5, <3>1, <3>2
    <2>2. active' \in [Slots -> 0..MaxOps]
      <3>1. active' = [s \in Slots |-> IF s \in H THEN 0 ELSE active[s]]
        BY <1>1
      <3>2. 0 \in 0..MaxOps /\ active \in [Slots -> 0..MaxOps]
        BY <1>5, BoundsAssumption
      <3> QED
        BY <3>1, <3>2
    <2>3. turn' \in [Slots -> BOOLEAN]
      <3>1. turn' = [s \in Slots |-> s \notin H /\ turn[s]]
        BY <1>1
      <3> QED
        BY <3>1
    <2> QED
      BY <1>7, <1>13, <2>1, <2>2, <2>3 DEF IInv, TypeOK
  \* What a piece of work is after the step.
  <1>9. ASSUME NEW i \in DOMAIN intents
        PROVE  /\ intents'[i].state = "Queued" <=>
                     i \notin cancelled /\ (intents[i].state = "Queued" \/ i \in taken)
               /\ IsBusy(intents'[i]) <=> IsBusy(intents[i]) /\ i \notin taken
               /\ IsBusy(intents'[i]) => intents'[i] = intents[i]
    <2>1. IsBusy(intents[i]) /\ i \in cancelled => i \in taken
      BY <1>2
    <2>2. i \in taken => IsBusy(intents[i])
      BY <1>3
    <2>3. CASE i \in cancelled
      BY <1>6, <2>1, <2>3 DEF IsBusy
    <2>4. CASE i \in taken \ cancelled
      BY <1>6, <2>2, <2>4 DEF IsBusy
    <2>5. CASE i \notin cancelled \cup taken
      BY <1>6, <2>5 DEF IsBusy
    <2> QED
      BY <2>3, <2>4, <2>5
  <1>10. EveryIntentHasOnePlace'
    <2>1. Placed(queued, intents, active, batches, turn)
      BY OnePlace DEF IInv
    <2>2. ASSUME NEW i \in DOMAIN intents'
          PROVE  /\ intents'[i].state = "Queued" <=> i \in queued'[intents'[i].slot]
                 /\ IsBusy(intents'[i]) <=>
                       active'[intents'[i].slot] # 0 /\ i \in batches[active'[intents'[i].slot]].intents
                 /\ IsBusy(intents'[i]) => intents'[i].op = active'[intents'[i].slot]
                 /\ intents'[i].state = "Running" => turn'[intents'[i].slot]
      <3>1. i \in DOMAIN intents /\ intents'[i].slot = intents[i].slot /\ intents[i].slot \in Slots
        BY <1>4, <1>6, <1>7
      <3>5. intents[i].state = "Queued" <=> i \in queued[intents[i].slot]
        BY <2>1, <3>1 DEF Placed
      <3>2. intents'[i].state = "Queued" <=> i \in queued'[intents'[i].slot]
        <4> DEFINE x == intents[i].slot
        <4>1. queued'[x] = (queued[x] \cup {j \in taken : intents[j].slot = x}) \ cancelled
          BY <1>12, <3>1
        <4>2. intents'[i].state = "Queued" <=> i \notin cancelled /\ (intents[i].state = "Queued" \/ i \in taken)
          BY <1>9, <3>1
        <4> QED
          BY <3>1, <3>5, <4>1, <4>2
      <3>3. CASE intents[i].slot \in H
        <4>1. active'[intents'[i].slot] = 0 /\ ~IsBusy(intents'[i])
          BY <1>12, <1>3, <1>9, <3>1, <3>3
        <4> QED
          BY <3>2, <4>1 DEF IsBusy
      <3>4. CASE intents[i].slot \notin H
        <4>1. /\ active'[intents'[i].slot] = active[intents[i].slot]
              /\ turn'[intents'[i].slot] = turn[intents[i].slot]
              /\ i \notin taken
          BY <1>12, <1>3, <1>5, <3>1, <3>4
        <4>2. intents'[i].state = "Running" => IsBusy(intents'[i])
          BY DEF IsBusy
        <4>3. /\ IsBusy(intents[i]) <=>
                     active[intents[i].slot] # 0 /\ i \in batches[active[intents[i].slot]].intents
              /\ IsBusy(intents[i]) => intents[i].op = active[intents[i].slot]
              /\ intents[i].state = "Running" => turn[intents[i].slot]
          BY <2>1, <3>1 DEF Placed
        <4>4. /\ IsBusy(intents'[i]) <=> IsBusy(intents[i])
              /\ IsBusy(intents'[i]) => intents'[i] = intents[i]
          BY <1>9, <3>1, <4>1
        <4> QED
          BY <3>1, <3>2, <4>1, <4>2, <4>3, <4>4
      <3> QED
        BY <3>3, <3>4
    <2>3. ASSUME NEW x \in Slots
          PROVE  /\ \A i \in queued'[x] : i \in DOMAIN intents' /\ intents'[i].slot = x
                 /\ active'[x] # 0 => active'[x] \in DOMAIN batches /\ batches[active'[x]].slot = x
                 /\ active'[x] = 0 => ~turn'[x]
      <3>1. \A i \in queued'[x] : i \in DOMAIN intents /\ intents[i].slot = x
        <4>1. \A i \in queued[x] : i \in DOMAIN intents /\ intents[i].slot = x
          BY <2>1 DEF Placed
        <4>2. queued'[x] \subseteq queued[x] \cup {i \in taken : intents[i].slot = x}
          BY <1>12
        <4> QED
          BY <1>3, <4>1, <4>2
      <3>2. \A i \in queued'[x] : i \in DOMAIN intents' /\ intents'[i].slot = x
        BY <1>6, <1>7, <3>1
      <3>3. /\ active[x] # 0 => active[x] \in DOMAIN batches /\ batches[active[x]].slot = x
            /\ active[x] = 0 => ~turn[x]
        BY <2>1 DEF Placed
      <3> QED
        BY <1>12, <3>2, <3>3
    <2>4. batches' = batches
      BY <1>13
    <2>5. Placed(queued', intents', active', batches, turn')
      BY <2>2, <2>3, Zenon DEF Placed
    <2> QED
      BY <2>4, <2>5, OnePlace
  <1>11. Steady
    <2>1. Keeps /\ DOMAIN intents' = DOMAIN intents
      BY <1>6, <1>7 DEF Keeps
    <2>2. EndedStays
      <3> SUFFICES ASSUME NEW i \in DOMAIN intents, intents[i].state \in Terminal
                   PROVE  intents'[i].state = intents[i].state
        BY DEF EndedStays
      <3>1. ~IsLive(intents[i]) /\ ~IsBusy(intents[i])
        BY <1>4, StatesDiffer
      <3> QED
        BY <1>3, <1>6, <3>1
    <2>3. \A i \in DOMAIN intents :
             (IsBusy(intents'[i]) => IsBusy(intents[i])) /\ intents'[i].pos = intents[i].pos
      BY <1>6, <1>9
    <2>4. ASSUME NEW i \in DOMAIN intents, NEW j \in DOMAIN intents,
                 intents[i].slot = intents[j].slot,
                 intents[i].state # "Queued", intents'[i].state = "Queued"
          PROVE  ~IsBusy(intents'[j])
      <3>1. i \in taken
        BY <1>9, <2>4
      <3> QED
        BY <1>3, <1>9, <2>4, <3>1
    <2> QED
      BY <1>13, <2>1, <2>2, <2>3, <2>4, Zenon DEF Steady
  <1> QED
    BY <1>8, <1>10, <1>11, SteadyIsGood, ZenonT(40)

----------------------------------------------------------------------------
\* commit_enqueue and reconcile_mailbox: k new intents of slot s queue up behind
\* what is there, and the queued intents in stale are done.
LEMMA GrowsIsGood ==
  ASSUME IInv, NEW s \in Slots, NEW k \in Nat, NEW stale,
         stale \subseteq queued[s],
         Len(intents) + k <= MaxIntents,
         intents' = [i \in 1..(Len(intents) + k) |-> intents'[i]],
         \A i \in DOMAIN intents : intents'[i] = Move(stale, "Completed", 0)[i],
         \A i \in (Len(intents) + 1)..(Len(intents) + k) :
             /\ intents'[i] \in WorkIntent
             /\ intents'[i].slot = s
             /\ intents'[i].state = "Queued"
             /\ intents'[i].pos = i,
         queued' = [queued EXCEPT ![s] = (@ \ stale) \cup ((Len(intents) + 1)..(Len(intents) + k))],
         paused' \in [Slots -> BOOLEAN],
         constraint' \in [Slots -> RuntimeConstraint],
         leases' \subseteq leases,
         UNCHANGED <<active, turn, removed, batches>>
  PROVE  Good
  <1> DEFINE n == Len(intents)
             new == (n + 1)..(n + k)
             f == Move(stale, "Completed", 0)
  <1>1. /\ intents' = [i \in 1..(n + k) |-> intents'[i]]
        /\ n + k <= MaxIntents
        /\ \A i \in DOMAIN intents : intents'[i] = f[i]
        /\ \A i \in new : /\ intents'[i] \in WorkIntent
                          /\ intents'[i].slot = s
                          /\ intents'[i].state = "Queued"
                          /\ intents'[i].pos = i
        /\ queued' = [queued EXCEPT ![s] = (@ \ stale) \cup new]
    OBVIOUS
  <1>2. f \in Seq(WorkIntent) /\ IsMove(f, stale, "Completed", 0)
    <2>1. 0 \in 0..MaxOps /\ TypeOK /\ "Completed" \in Live \cup Terminal
      BY BoundsAssumption DEF IInv, Terminal
    <2> QED
      BY <2>1, Moved
  <1>3. /\ n \in Nat /\ DOMAIN intents = 1..n
        /\ \A i \in DOMAIN intents : intents[i] \in WorkIntent /\ intents[i].slot \in Slots
    BY Facts
  <1>4. \A i \in DOMAIN intents : i \in stale => intents[i].slot = s /\ intents[i].state = "Queued"
    BY QueueIsQueued
  <1>5. /\ queued \in [Slots -> SUBSET IntentId]
        /\ 1..(n + k) = DOMAIN intents \cup new
        /\ new \cap DOMAIN intents = {}
        /\ new \subseteq IntentId
    BY <1>1, <1>3, BoundsAssumption DEF IInv, TypeOK, IntentId
  <1> HIDE DEF f, n
  <1>6. ASSUME NEW i \in DOMAIN intents
        PROVE  /\ intents'[i] \in WorkIntent
               /\ intents'[i].slot = intents[i].slot
               /\ intents'[i].source = intents[i].source
               /\ intents'[i].message = intents[i].message
               /\ intents'[i].run = intents[i].run
               /\ intents'[i].pos = intents[i].pos
               /\ i \in stale => intents'[i].state = "Completed"
               /\ i \notin stale => intents'[i] = intents[i]
    <2>1. intents'[i] = f[i] /\ f[i] \in WorkIntent
      BY <1>1, <1>2, IntentsShape DEF IsMove
    <2> QED
      BY <1>2, <2>1 DEF IsMove
  <1>7. /\ intents' \in Seq(WorkIntent) /\ Len(intents') = n + k
        /\ DOMAIN intents' = DOMAIN intents \cup new
    <2>1. n + k \in Nat
      BY <1>3
    <2>2. ASSUME NEW i \in 1..(n + k) PROVE intents'[i] \in WorkIntent
      BY <1>1, <1>5, <1>6
    <2>3. intents' \in [1..(n + k) -> WorkIntent]
      BY <1>1, <2>2
    <2> QED
      BY <1>5, <2>1, <2>3, SeqOfFunction
  <1>8. TypeOK'
    <2>1. queued' \in [Slots -> SUBSET IntentId]
      BY <1>1, <1>5
    <2> QED
      BY <1>1, <1>7, <2>1 DEF IInv, TypeOK
  <1>9. EveryIntentHasOnePlace'
    <2>1. Placed(queued, intents, active, batches, turn)
      BY OnePlace DEF IInv
    <2>2. ASSUME NEW i \in DOMAIN intents'
          PROVE  /\ intents'[i].state = "Queued" <=> i \in queued'[intents'[i].slot]
                 /\ IsBusy(intents'[i]) <=>
                       active[intents'[i].slot] # 0 /\ i \in batches[active[intents'[i].slot]].intents
                 /\ IsBusy(intents'[i]) => intents'[i].op = active[intents'[i].slot]
                 /\ intents'[i].state = "Running" => turn[intents'[i].slot]
      <3>1. CASE i \in new
        <4>1. active[s] # 0 => i \notin batches[active[s]].intents
          BY <1>5, <2>1, <3>1 DEF Placed, IInv, Ordered, BatchesHoldTheirSlot
        <4> QED
          BY <1>1, <1>5, <3>1, <4>1 DEF IsBusy
      <3>2. CASE i \in DOMAIN intents /\ i \in stale
        <4>1. intents[i].slot = s /\ intents[i].state = "Queued" /\ i \notin new
          BY <1>4, <1>5, <3>2
        <4>2. active[s] # 0 => i \notin batches[active[s]].intents
          BY <2>1, <3>2, <4>1 DEF Placed, IsBusy
        <4> QED
          BY <1>1, <1>5, <1>6, <3>2, <4>1, <4>2 DEF IsBusy
      <3>3. CASE i \in DOMAIN intents /\ i \notin stale
        <4>1. intents'[i] = intents[i] /\ i \notin new /\ intents[i].slot \in Slots
          BY <1>3, <1>5, <1>6, <3>3
        <4>2. i \in queued'[intents[i].slot] <=> i \in queued[intents[i].slot]
          BY <1>1, <1>5, <3>3, <4>1
        <4> QED
          BY <2>1, <3>3, <4>1, <4>2 DEF Placed
      <3> QED
        BY <1>7, <3>1, <3>2, <3>3
    <2>3. ASSUME NEW x \in Slots
          PROVE  /\ \A i \in queued'[x] : i \in DOMAIN intents' /\ intents'[i].slot = x
                 /\ active[x] # 0 => active[x] \in DOMAIN batches /\ batches[active[x]].slot = x
                 /\ active[x] = 0 => ~turn[x]
      <3>1. \A i \in queued[x] : i \in DOMAIN intents /\ intents[i].slot = x
        BY <2>1 DEF Placed
      <3>2. ASSUME NEW i \in queued'[x] PROVE i \in DOMAIN intents' /\ intents'[i].slot = x
        <4>1. i \in queued[x] \/ (x = s /\ i \in new)
          BY <1>1, <1>5
        <4> QED
          BY <1>1, <1>6, <1>7, <3>1, <4>1
      <3> QED
        BY <2>1, <3>2 DEF Placed
    <2> QED
      BY <2>2, <2>3, OnePlace DEF Placed
  <1>10. \A i \in DOMAIN intents :
            /\ IsLive(intents'[i]) => IsLive(intents[i])
            /\ IsBusy(intents'[i]) => IsBusy(intents[i])
            /\ intents'[i].state = "Queued" => intents[i].state = "Queued"
            /\ intents[i].state \in Terminal => intents'[i] = intents[i]
    <2> SUFFICES ASSUME NEW i \in DOMAIN intents
                 PROVE  /\ IsLive(intents'[i]) => IsLive(intents[i])
                        /\ IsBusy(intents'[i]) => IsBusy(intents[i])
                        /\ intents'[i].state = "Queued" => intents[i].state = "Queued"
                        /\ intents[i].state \in Terminal => intents'[i] = intents[i]
      OBVIOUS
    <2>1. CASE i \in stale
      BY <1>4, <1>6, <2>1 DEF IsLive, IsBusy, Live, Terminal
    <2>2. CASE i \notin stale
      <3>1. intents'[i] = intents[i]
        BY <1>6, <2>2
      <3> QED
        BY <3>1
    <2> QED
      BY <2>1, <2>2
  <1>11. EndedStays
    BY <1>10 DEF EndedStays
  <1>12. Ordered'
    <2>1. BatchesHoldTheirSlot'
      BY <1>6, <1>7 DEF IInv, Ordered, BatchesHoldTheirSlot
    <2>2. \A i \in DOMAIN intents : intents[i].pos \in Nat /\ intents[i].pos <= n
      BY <1>3 DEF IInv, Ordered, PositionsBounded, WorkIntent, n
    <2>3. \A i \in new : i \in Nat /\ i > n /\ i <= n + k
      BY <1>3
    <2>4. PositionsDiffer'
      <3> SUFFICES ASSUME NEW i \in DOMAIN intents', NEW j \in DOMAIN intents',
                          IsLive(intents'[i]), IsLive(intents'[j]),
                          intents'[i].slot = intents'[j].slot,
                          intents'[i].pos = intents'[j].pos
                   PROVE  i = j
        BY DEF PositionsDiffer
      <3>1. CASE i \in DOMAIN intents /\ j \in DOMAIN intents
        BY <1>6, <1>10, <3>1 DEF IInv, Ordered, PositionsDiffer
      <3>2. CASE i \in new \/ j \in new
        <4>1. i \in new => intents'[i].pos = i
          BY <1>1
        <4>2. j \in new => intents'[j].pos = j
          BY <1>1
        <4>3. i \notin new => intents'[i].pos <= n /\ intents'[i].pos \in Nat
          BY <1>6, <1>7, <2>2
        <4>4. j \notin new => intents'[j].pos <= n /\ intents'[j].pos \in Nat
          BY <1>6, <1>7, <2>2
        <4> QED
          BY <1>3, <2>3, <3>2, <4>1, <4>2, <4>3, <4>4
      <3> QED
        BY <1>7, <3>1, <3>2
    <2>5. PositionsBounded'
      <3> SUFFICES ASSUME NEW i \in DOMAIN intents' PROVE intents'[i].pos <= n + k
        BY <1>7 DEF PositionsBounded
      <3>1. CASE i \in DOMAIN intents
        BY <1>3, <1>6, <2>2, <3>1
      <3>2. CASE i \in new
        BY <1>1, <2>3, <3>2
      <3> QED
        BY <1>7, <3>1, <3>2
    <2>6. PositionsFollowArrival'
      <3> SUFFICES ASSUME NEW i \in DOMAIN intents', NEW j \in DOMAIN intents',
                          IsLive(intents'[i]), IsLive(intents'[j]),
                          intents'[i].slot = intents'[j].slot, i < j,
                          intents'[i].run # NoRun \/ intents'[j].run # NoRun
                   PROVE  intents'[i].pos < intents'[j].pos
        BY DEF PositionsFollowArrival
      <3>1. CASE i \in DOMAIN intents /\ j \in DOMAIN intents
        BY <1>6, <1>10, <3>1 DEF IInv, Ordered, PositionsFollowArrival
      <3>2. CASE i \in DOMAIN intents /\ j \in new
        <4>1. intents'[i].pos \in Nat /\ intents'[i].pos <= n
          BY <1>6, <2>2, <3>2
        <4>2. intents'[j].pos = j /\ j > n /\ j \in Nat
          BY <1>1, <2>3, <3>2
        <4> QED
          BY <1>3, <4>1, <4>2
      <3>3. CASE i \in new /\ j \in new
        BY <1>1, <3>3
      <3>4. CASE i \in new /\ j \in DOMAIN intents
        BY <1>3, <2>3, <3>4
      <3> QED
        BY <1>7, <3>1, <3>2, <3>3, <3>4
    <2>7. CommandsTravelAlone'
      BY <1>6 DEF IInv, Ordered, BatchesHoldTheirSlot, CommandsTravelAlone, IsCommand
    <2>8. NoOvertaking'
      <3> SUFFICES ASSUME NEW i \in DOMAIN intents', NEW j \in DOMAIN intents',
                          i < j, intents'[i].slot = intents'[j].slot,
                          Priority(intents'[i].source) = Priority(intents'[j].source),
                          intents'[i].message # NoMessage,
                          intents'[i].run # NoRun \/ intents'[j].run # NoRun,
                          intents'[i].state = "Queued", IsBusy(intents'[j])
                   PROVE  FALSE
        BY DEF NoOvertaking, IsBusy
      <3>1. j \in DOMAIN intents
        BY <1>1, <1>7 DEF IsBusy
      <3>2. i \in DOMAIN intents
        BY <1>3, <1>7, <2>3, <3>1
      <3>3. intents[i].state = "Queued" /\ IsBusy(intents[j])
        BY <1>10, <3>1, <3>2
      <3>4. /\ intents[i].slot = intents[j].slot
            /\ Priority(intents[i].source) = Priority(intents[j].source)
            /\ intents[i].message # NoMessage
            /\ intents[i].run # NoRun \/ intents[j].run # NoRun
        BY <1>6, <3>1, <3>2
      <3> QED
        BY <3>1, <3>2, <3>3, <3>4 DEF IInv, Ordered, NoOvertaking, IsBusy
    <2> QED
      BY <2>1, <2>4, <2>5, <2>6, <2>7, <2>8 DEF Ordered
  <1>13. Keeps
    BY <1>6, <1>7 DEF Keeps
  <1> QED
    BY <1>8, <1>9, <1>11, <1>12, <1>13 DEF Good, IInv

LEMMA NewIntentTyped ==
  ASSUME NEW s \in Slots, NEW source \in WorkSources, NEW m \in Messages \cup {NoMessage},
         NEW r \in Runs \cup {NoRun}, NEW id \in Nat
  PROVE  LET w == NewIntent(s, source, m, r, id)
         IN  w \in WorkIntent /\ w.slot = s /\ w.state = "Queued" /\ w.pos = id
  BY BoundsAssumption DEF NewIntent, WorkIntent, Live

LEMMA CommitStep ==
  ASSUME IInv, NEW l \in leases, NEW m \in Messages \cup {NoMessage}, CommitEnqueue(l, m)
  PROVE  Good
  <1> DEFINE n == Len(intents)
             w == NewIntent(l.slot, l.source, m, l.run, n + 1)
  <1>1. /\ n + 1 <= MaxIntents
        /\ intents' = Append(intents, w)
        /\ queued' = [queued EXCEPT ![l.slot] = @ \cup {n + 1}]
        /\ leases' = leases \ {l}
        /\ paused' = [paused EXCEPT ![l.slot] = @ /\ ~ResumesPausedSlot(l.source)]
        /\ UNCHANGED <<active, turn, constraint, removed, batches>>
    BY DEF CommitEnqueue
  <1>2. l.slot \in Slots /\ l.source \in WorkSources /\ l.run \in Runs \cup {NoRun}
    BY DEF IInv, TypeOK, EnqueueLease
  <1>3. n \in Nat /\ DOMAIN intents = 1..n /\ intents \in Seq(WorkIntent)
    BY Facts DEF IInv, TypeOK
  <1>4. w \in WorkIntent /\ w.slot = l.slot /\ w.state = "Queued" /\ w.pos = n + 1
    <2>1. n + 1 \in Nat /\ 0 \in 0..MaxOps /\ "Queued" \in Live
      BY <1>3, BoundsAssumption DEF Live
    <2> HIDE DEF n
    <2> QED
      BY <1>2, <2>1 DEF NewIntent, WorkIntent
  <1> HIDE DEF w
  <1>5. /\ intents' \in Seq(WorkIntent) /\ Len(intents') = n + 1
        /\ \A i \in 1..n : intents'[i] = intents[i]
        /\ intents'[n + 1] = w
    BY <1>1, <1>3, <1>4, AppendProperties
  <1>6. intents' = [i \in 1..(n + 1) |-> intents'[i]]
    <2>1. DOMAIN intents' = 1..(n + 1) /\ intents' \in [1..(n + 1) -> WorkIntent]
      BY <1>5, LenProperties
    <2> QED
      BY <2>1
  <1>7. \A i \in DOMAIN intents : intents'[i] = Move({}, "Completed", 0)[i]
    BY <1>3, <1>5 DEF Move
  <1>8. (n + 1)..(n + 1) = {n + 1}
    BY <1>3
  <1>9. \A i \in (n + 1)..(n + 1) : /\ intents'[i] \in WorkIntent
                                    /\ intents'[i].slot = l.slot
                                    /\ intents'[i].state = "Queued"
                                    /\ intents'[i].pos = i
    BY <1>4, <1>5, <1>8
  <1>10. paused' \in [Slots -> BOOLEAN]
    <2>1. paused \in [Slots -> BOOLEAN]
      BY DEF IInv, TypeOK
    <2> QED
      BY <1>1, <2>1, Zenon
  <1> DEFINE s == l.slot
             k == 1
             stale == {}
  <1>11. s \in Slots /\ k \in Nat /\ stale \subseteq queued[s] /\ n + k <= MaxIntents
    BY <1>1, <1>2
  <1>12. /\ intents' = [i \in 1..(n + k) |-> intents'[i]]
         /\ \A i \in DOMAIN intents : intents'[i] = Move(stale, "Completed", 0)[i]
    BY <1>6, <1>7
  <1>13. \A i \in (n + 1)..(n + k) : /\ intents'[i] \in WorkIntent
                                     /\ intents'[i].slot = s
                                     /\ intents'[i].state = "Queued"
                                     /\ intents'[i].pos = i
    BY <1>9
  <1>14. queued' = [queued EXCEPT ![s] = (@ \ stale) \cup ((n + 1)..(n + k))]
    BY <1>1, <1>8
  <1>15. /\ leases' \subseteq leases /\ UNCHANGED <<active, turn, removed, batches>>
         /\ constraint' \in [Slots -> RuntimeConstraint]
    BY <1>1 DEF IInv, TypeOK
  <1> HIDE DEF s, k, stale
  <1> QED
    BY <1>10, <1>11, <1>12, <1>13, <1>14, <1>15, GrowsIsGood, ZenonT(40) DEF n

LEMMA ReconcileStep ==
  ASSUME IInv, NEW s \in Slots, NEW unread \in SUBSET Messages, ReconcileMailbox(s, unread)
  PROVE  Good
  <1> DEFINE n == Len(intents)
             stale == Stale(s, unread)
             unowned == Unowned(s, unread)
             k == Cardinality(unowned)
             new == (n + 1)..(n + k)
  <1>1. /\ n + k <= MaxIntents
        /\ queued' = [queued EXCEPT ![s] = (@ \ stale) \cup new]
        /\ UNCHANGED <<active, turn, paused, removed, leases, batches>>
    BY DEF ReconcileMailbox
  <1>2. PICK recovers \in [new -> unowned] :
            intents' = [i \in 1..(n + k) |->
                IF i \in new
                THEN NewIntent(s, "RecoveryDrain", recovers[i], NoRun, i)
                ELSE Move(stale, "Completed", 0)[i]]
    BY DEF ReconcileMailbox
  <1>3. unowned \subseteq Messages /\ stale \subseteq queued[s]
    BY DEF Unowned, Stale
  <1>4. k \in Nat
    BY <1>3, MessagesAssumption, FS_Subset, FS_CardinalityType
  <1>5. n \in Nat /\ DOMAIN intents = 1..n
    BY Facts
  <1> HIDE DEF stale, unowned, k, n
  <1>6. ASSUME NEW i \in new
        PROVE  /\ intents'[i] \in WorkIntent
               /\ intents'[i].slot = s
               /\ intents'[i].state = "Queued"
               /\ intents'[i].pos = i
    <2>1. recovers[i] \in Messages \cup {NoMessage}
      BY <1>2, <1>3
    <2>2. i \in Nat /\ i \in 1..(n + k)
      BY <1>4, <1>5
    <2>3. intents'[i] = NewIntent(s, "RecoveryDrain", recovers[i], NoRun, i)
      BY <1>2, <2>2
    <2>4. "RecoveryDrain" \in WorkSources
      BY DEF WorkSources
    <2>5. \A m \in Messages \cup {NoMessage} :
             LET w == NewIntent(s, "RecoveryDrain", m, NoRun, i)
             IN  w \in WorkIntent /\ w.slot = s /\ w.state = "Queued" /\ w.pos = i
      BY <2>2, <2>4, BoundsAssumption DEF NewIntent, WorkIntent, Live
    <2> QED
      BY <2>1, <2>3, <2>5
  <1>7. \A i \in DOMAIN intents : intents'[i] = Move(stale, "Completed", 0)[i]
    BY <1>2, <1>4, <1>5
  <1>8. intents' = [i \in 1..(n + k) |-> intents'[i]]
    BY <1>2
  <1>9. paused' \in [Slots -> BOOLEAN]
    BY <1>1 DEF IInv, TypeOK
  <1>10. /\ leases' \subseteq leases /\ UNCHANGED <<active, turn, removed, batches>>
         /\ constraint' \in [Slots -> RuntimeConstraint]
    BY <1>1, KnownTyped DEF ReconcileMailbox
  <1> QED
    BY <1>1, <1>3, <1>4, <1>6, <1>7, <1>8, <1>9, <1>10, GrowsIsGood, ZenonT(40) DEF n

----------------------------------------------------------------------------
\* next
LEMMA ClaimStep ==
  ASSUME IInv, NEW s \in Slots, ClaimBatch(s)
  PROVE  Good
  <1> DEFINE op == Len(batches) + 1
  <1>1. PICK p \in 1..3 :
            LET B == BatchOf(MessageIntents(s, p))
            IN  /\ op <= MaxOps
                /\ intents' = Move(B, "Starting", op)
                /\ queued' = [queued EXCEPT ![s] = @ \ B]
                /\ active' = [active EXCEPT ![s] = op]
                /\ turn' = [turn EXCEPT ![s] = FALSE]
                /\ batches' = Append(batches, [slot |-> s, intents |-> B])
    BY DEF ClaimBatch
  <1> DEFINE M == MessageIntents(s, p)
             B == BatchOf(M)
             f == Move(B, "Starting", op)
  <1>2. /\ op <= MaxOps
        /\ intents' = f
        /\ queued' = [queued EXCEPT ![s] = @ \ B]
        /\ active' = [active EXCEPT ![s] = op]
        /\ turn' = [turn EXCEPT ![s] = FALSE]
        /\ batches' = Append(batches, [slot |-> s, intents |-> B])
        /\ active[s] = 0
        /\ UNCHANGED <<paused, constraint, removed, leases>>
    BY <1>1 DEF ClaimBatch, Claimable
  <1>3. /\ \A i \in DOMAIN intents : intents[i] \in WorkIntent /\ intents[i].slot \in Slots
        /\ DOMAIN intents \subseteq IntentId
        /\ Len(batches) \in Nat /\ DOMAIN batches = 1..Len(batches)
        /\ op \in 1..MaxOps /\ op \notin DOMAIN batches
    BY <1>2, Facts, BoundsAssumption DEF IntentId
  <1>4. f \in Seq(WorkIntent) /\ Len(f) = Len(intents) /\ IsMove(f, B, "Starting", op)
    <2>1. op \in 0..MaxOps /\ TypeOK /\ "Starting" \in Live \cup Terminal
      BY <1>3 DEF IInv, Live
    <2> QED
      BY <2>1, Moved
  <1>5. /\ B \subseteq M
        /\ \A i \in M : /\ i \in queued[s] /\ i \in DOMAIN intents
                        /\ intents[i].slot = s /\ intents[i].state = "Queued"
                        /\ Priority(intents[i].source) = p
                        /\ intents[i].message # NoMessage
        /\ \A i \in DOMAIN intents :
              /\ intents[i].slot = s /\ intents[i].state = "Queued"
              /\ Priority(intents[i].source) = p
              /\ intents[i].message # NoMessage
              => i \in M
    BY QueueIsQueued DEF BatchOf, MessageIntents, Queue
  \* A command is either the whole batch or not in it, and then nothing behind it is.
  <1>6. /\ \A i \in B : IsCommand(i) => \A j \in M : intents[i].pos <= intents[j].pos
        /\ \A i \in B : ~IsCommand(i) => \A j \in M : IsCommand(j) => intents[i].pos < intents[j].pos
        /\ \A i \in M : ~IsCommand(i) /\ (\A j \in M : IsCommand(j) => intents[i].pos < intents[j].pos) => i \in B
    BY DEF BatchOf
  <1> HIDE DEF f, B, M
  <1>7. [slot |-> s, intents |-> B] \in WorkBatch
    BY <1>3, <1>5 DEF WorkBatch
  <1>8. /\ batches' \in Seq(WorkBatch) /\ Len(batches') = op
        /\ DOMAIN batches' = DOMAIN batches \cup {op}
        /\ \A o \in DOMAIN batches : batches'[o] = batches[o]
        /\ batches'[op].slot = s /\ batches'[op].intents = B
    <2>1. batches \in Seq(WorkBatch)
      BY DEF IInv, TypeOK
    <2>2. /\ batches' \in Seq(WorkBatch) /\ Len(batches') = op
          /\ \A o \in 1..Len(batches) : batches'[o] = batches[o]
          /\ batches'[op] = [slot |-> s, intents |-> B]
      BY <1>2, <1>7, <2>1, AppendProperties
    <2>3. DOMAIN batches' = 1..op
      BY <2>2, LenProperties
    <2> QED
      BY <1>3, <2>2, <2>3
  <1>9. /\ queued \in [Slots -> SUBSET IntentId]
        /\ active \in [Slots -> 0..MaxOps]
        /\ turn \in [Slots -> BOOLEAN]
    BY DEF IInv, TypeOK
  <1>10. TypeOK'
    <2>1. queued' \in [Slots -> SUBSET IntentId]
      BY <1>2, <1>9
    <2>2. active' \in [Slots -> 0..MaxOps]
      <3>1. op \in 0..MaxOps
        BY <1>3
      <3> QED
        BY <1>2, <1>9, <3>1
    <2>3. turn' \in [Slots -> BOOLEAN]
      BY <1>2, <1>9
    <2> QED
      BY <1>2, <1>4, <1>8, <2>1, <2>2, <2>3 DEF IInv, TypeOK
  <1>11. EveryIntentHasOnePlace'
    <2>1. Placed(queued, intents, active, batches, turn)
      BY OnePlace DEF IInv
    <2>2. ASSUME NEW i \in DOMAIN f
          PROVE  /\ f[i].state = "Queued" <=> i \in queued'[f[i].slot]
                 /\ IsBusy(f[i]) <=> active'[f[i].slot] # 0 /\ i \in batches'[active'[f[i].slot]].intents
                 /\ IsBusy(f[i]) => f[i].op = active'[f[i].slot]
                 /\ f[i].state = "Running" => turn'[f[i].slot]
      <3>0. i \in DOMAIN intents /\ f[i].slot = intents[i].slot /\ intents[i].slot \in Slots
        BY <1>3, <1>4 DEF IsMove
      <3>1. CASE i \in B
        <4>1. f[i].slot = s /\ f[i].state = "Starting" /\ f[i].op = op
          BY <1>4, <1>5, <3>0, <3>1 DEF IsMove
        <4> QED
          BY <1>2, <1>3, <1>8, <1>9, <3>1, <4>1 DEF IsBusy
      <3>2. CASE i \notin B /\ intents[i].slot = s
        <4>1. f[i] = intents[i]
          BY <1>4, <3>0, <3>2 DEF IsMove
        <4>2. ~IsBusy(intents[i])
          BY <1>2, <2>1, <3>0, <3>2 DEF Placed
        <4>3. i \in queued'[s] <=> i \in queued[s]
          BY <1>2, <1>9, <3>2
        <4>4. active'[s] = op
          BY <1>2, <1>9
        <4> QED
          BY <1>8, <2>1, <3>0, <3>2, <4>1, <4>2, <4>3, <4>4 DEF Placed, IsBusy
      <3>3. CASE intents[i].slot # s
        <4>1. f[i] = intents[i]
          BY <1>4, <1>5, <3>0, <3>3 DEF IsMove
        <4>2. /\ active'[intents[i].slot] = active[intents[i].slot]
              /\ queued'[intents[i].slot] = queued[intents[i].slot]
              /\ turn'[intents[i].slot] = turn[intents[i].slot]
          BY <1>2, <1>9, <3>0, <3>3
        <4>3. active[intents[i].slot] # 0 =>
                  batches'[active[intents[i].slot]] = batches[active[intents[i].slot]]
          BY <1>8, <2>1, <3>0 DEF Placed
        <4> QED
          BY <2>1, <3>0, <4>1, <4>2, <4>3 DEF Placed
      <3> QED
        BY <3>1, <3>2, <3>3
    <2>3. ASSUME NEW x \in Slots
          PROVE  /\ \A i \in queued'[x] : i \in DOMAIN f /\ f[i].slot = x
                 /\ active'[x] # 0 => active'[x] \in DOMAIN batches' /\ batches'[active'[x]].slot = x
                 /\ active'[x] = 0 => ~turn'[x]
      <3>1. \A i \in queued'[x] : i \in DOMAIN f /\ f[i].slot = x
        BY <1>2, <1>4, <1>9, <2>1 DEF Placed, IsMove
      <3>2. CASE x = s
        BY <1>2, <1>8, <1>9, <3>1, <3>2
      <3>3. CASE x # s
        BY <1>2, <1>8, <1>9, <2>1, <3>1, <3>3 DEF Placed
      <3> QED
        BY <3>2, <3>3
    <2>4. Placed(queued', f, active', batches', turn')
      BY <2>2, <2>3 DEF Placed
    <2> QED
      BY <1>2, <2>4, OnePlace
  \* The work of the slot that is busy now is the batch; elsewhere nothing moved.
  <1>12. \A i \in DOMAIN intents :
            /\ f[i].slot = intents[i].slot /\ f[i].source = intents[i].source
            /\ f[i].message = intents[i].message /\ f[i].run = intents[i].run
            /\ f[i].pos = intents[i].pos
            /\ IsLive(f[i]) <=> IsLive(intents[i])
            /\ f[i].state = "Queued" <=> intents[i].state = "Queued" /\ i \notin B
            /\ IsBusy(f[i]) /\ intents[i].slot = s => i \in B
            /\ intents[i].slot # s => f[i] = intents[i]
    <2> SUFFICES ASSUME NEW i \in DOMAIN intents
                 PROVE  /\ f[i].slot = intents[i].slot /\ f[i].source = intents[i].source
                        /\ f[i].message = intents[i].message /\ f[i].run = intents[i].run
                        /\ f[i].pos = intents[i].pos
                        /\ IsLive(f[i]) <=> IsLive(intents[i])
                        /\ f[i].state = "Queued" <=> intents[i].state = "Queued" /\ i \notin B
                        /\ IsBusy(f[i]) /\ intents[i].slot = s => i \in B
                        /\ intents[i].slot # s => f[i] = intents[i]
      OBVIOUS
    <2>1. /\ f[i].slot = intents[i].slot /\ f[i].source = intents[i].source
          /\ f[i].message = intents[i].message /\ f[i].run = intents[i].run
          /\ f[i].pos = intents[i].pos
          /\ i \in B => f[i].state = "Starting"
          /\ i \notin B => f[i] = intents[i]
      BY <1>4 DEF IsMove
    <2>2. i \in B => intents[i].slot = s /\ intents[i].state = "Queued"
      BY <1>5
    <2>3. intents[i].slot = s => ~IsBusy(intents[i])
      BY <1>2 DEF IInv, EveryIntentHasOnePlace, IsBusy
    <2> QED
      BY <2>1, <2>2, <2>3 DEF IsLive, IsBusy, Live
  <1>13. DOMAIN f = DOMAIN intents
    BY <1>4 DEF IsMove
  <1>14. EndedStays
    <2> SUFFICES ASSUME NEW i \in DOMAIN intents, intents[i].state \in Terminal
                 PROVE  f[i].state = intents[i].state
      BY <1>2 DEF EndedStays
    <2>1. i \notin B
      BY <1>5 DEF Terminal
    <2> QED
      BY <1>4, <2>1 DEF IsMove
  <1>15. Ordered'
    <2>1. BatchesHoldTheirSlot'
      BY <1>2, <1>5, <1>8, <1>12, <1>13 DEF IInv, Ordered, BatchesHoldTheirSlot
    <2>2. PositionsDiffer'
      BY <1>2, <1>12, <1>13 DEF IInv, Ordered, PositionsDiffer
    <2>3. PositionsBounded'
      BY <1>2, <1>4, <1>12, <1>13 DEF IInv, Ordered, PositionsBounded
    <2>4. PositionsFollowArrival'
      BY <1>2, <1>12, <1>13 DEF IInv, Ordered, PositionsFollowArrival
    <2>5. CommandsTravelAlone'
      <3> SUFFICES ASSUME NEW o \in DOMAIN batches', NEW i \in batches'[o].intents, IsCommand(i)'
                   PROVE  Cardinality(batches'[o].intents) = 1
        BY DEF CommandsTravelAlone
      <3>1. CASE o \in DOMAIN batches
        <4>1. batches'[o] = batches[o] /\ i \in DOMAIN intents
          BY <1>8, <3>1 DEF IInv, Ordered, BatchesHoldTheirSlot
        <4>2. IsCommand(i)
          BY <1>2, <1>12, <4>1 DEF IsCommand
        <4> QED
          BY <3>1, <4>1, <4>2 DEF IInv, Ordered, CommandsTravelAlone
      <3>2. CASE o = op
        <4>1. batches'[o].intents = B /\ i \in B /\ i \in DOMAIN intents
          BY <1>5, <1>8, <3>2
        <4>2. IsCommand(i)
          BY <1>2, <1>12, <4>1 DEF IsCommand
        <4>3. ASSUME NEW j \in B PROVE j = i
          <5>1. /\ i \in M /\ j \in M /\ j \in DOMAIN intents
                /\ intents[i].pos \in Nat /\ intents[j].pos \in Nat
            BY <1>3, <1>5, <4>1 DEF WorkIntent
          <5>2. intents[i].pos <= intents[j].pos
            BY <1>6, <4>1, <4>2, <5>1
          <5>3. IsCommand(j) => intents[j].pos <= intents[i].pos
            BY <1>6, <5>1
          <5>4. ~IsCommand(j) => intents[j].pos < intents[i].pos
            BY <1>6, <4>2, <5>1
          <5>5. intents[i].pos = intents[j].pos
            BY <5>1, <5>2, <5>3, <5>4
          <5>6. intents[i].slot = intents[j].slot /\ IsLive(intents[i]) /\ IsLive(intents[j])
            BY <1>5, <5>1 DEF IsLive, Live
          <5> QED
            BY <4>1, <5>1, <5>5, <5>6 DEF IInv, Ordered, PositionsDiffer
        <4>4. B = {i}
          BY <4>1, <4>3
        <4> QED
          BY <4>1, <4>4, FS_Singleton
      <3> QED
        BY <1>8, <3>1, <3>2
    <2>6. NoOvertaking'
      <3> SUFFICES ASSUME NEW i \in DOMAIN intents, NEW j \in DOMAIN intents,
                          i < j, intents[i].slot = intents[j].slot,
                          Priority(intents[i].source) = Priority(intents[j].source),
                          intents[i].message # NoMessage,
                          intents[i].run # NoRun \/ intents[j].run # NoRun,
                          f[i].state = "Queued", IsBusy(f[j])
                   PROVE  FALSE
        BY <1>2, <1>12, <1>13 DEF NoOvertaking, IsBusy
      <3>1. CASE intents[j].slot = s
        <4>1. j \in B /\ j \in M
          BY <1>5, <1>12, <3>1
        <4>2. i \in M /\ i \notin B
          BY <1>5, <1>12, <3>1, <4>1
        <4>3. intents[i].pos < intents[j].pos
          <5>1. IsLive(intents[i]) /\ IsLive(intents[j])
            BY <1>5, <4>1, <4>2 DEF IsLive, Live
          <5> QED
            BY <5>1 DEF IInv, Ordered, PositionsFollowArrival
        <4>4. intents[i].pos \in Nat /\ intents[j].pos \in Nat
              /\ \A c \in M : intents[c].pos \in Nat
          BY <1>3, <1>5 DEF WorkIntent
        <4>5. ~IsCommand(j)
          BY <1>6, <4>1, <4>2, <4>3, <4>4
        <4>6. \A c \in M : IsCommand(c) => intents[j].pos < intents[c].pos
          BY <1>6, <4>1, <4>5
        <4>7. ~IsCommand(i) /\ \A c \in M : IsCommand(c) => intents[i].pos < intents[c].pos
          BY <4>2, <4>3, <4>4, <4>6
        <4> QED
          BY <1>6, <4>2, <4>7
      <3>2. CASE intents[j].slot # s
        BY <1>12, <3>2 DEF IInv, Ordered, NoOvertaking, IsBusy
      <3> QED
        BY <3>1, <3>2
    <2> QED
      BY <2>1, <2>2, <2>3, <2>4, <2>5, <2>6 DEF Ordered
  <1>16. Keeps
    BY <1>2, <1>12, <1>13 DEF Keeps
  <1> QED
    BY <1>10, <1>11, <1>14, <1>15, <1>16 DEF Good, IInv

----------------------------------------------------------------------------
LEMMA InitGood == Init => IInv
  <1> SUFFICES ASSUME Init PROVE IInv
    OBVIOUS
  <1>1. /\ intents = <<>> /\ batches = <<>> /\ leases = {}
        /\ queued = [s \in Slots |-> {}]
        /\ active = [s \in Slots |-> 0]
        /\ turn = [s \in Slots |-> FALSE]
        /\ paused = [s \in Slots |-> FALSE]
        /\ constraint = [s \in Slots |-> "Unknown"]
        /\ removed = [s \in Slots |-> FALSE]
    BY DEF Init
  <1>2. /\ intents \in Seq(WorkIntent) /\ Len(intents) = 0 /\ DOMAIN intents = {}
        /\ batches \in Seq(WorkBatch) /\ Len(batches) = 0 /\ DOMAIN batches = {}
    BY <1>1, EmptySeq, LenProperties
  <1>3. TypeOK
    BY <1>1, <1>2, BoundsAssumption DEF TypeOK, RuntimeConstraint
  <1>4. EveryIntentHasOnePlace
    BY <1>1, <1>2 DEF EveryIntentHasOnePlace
  <1>5. Ordered
    BY <1>2 DEF Ordered, BatchesHoldTheirSlot, PositionsDiffer, PositionsBounded,
                PositionsFollowArrival, CommandsTravelAlone, NoOvertaking
  <1> QED
    BY <1>3, <1>4, <1>5 DEF IInv

LEMMA StepGood == IInv /\ [Next]_coordinatorVars => Good
  <1> SUFFICES ASSUME IInv, [Next]_coordinatorVars PROVE Good
    OBVIOUS
  <1>1. CASE ProducerStep
    BY <1>1, AcquireStep, CommitStep, AbortStep DEF ProducerStep
  <1>2. ASSUME NEW s \in Slots, LoopStep(s) PROVE Good
    BY <1>2, ReconcileStep, ClaimStep, SignalsStep DEF LoopStep
  <1>3. ASSUME NEW op \in DOMAIN batches, BatchStep(op) PROVE Good
    BY <1>3, StartStep, RetryStep, TerminalizeStep DEF BatchStep
  <1>4. CASE ControlStep
    <2>1. ASSUME NEW s \in Slots, NEW c \in Constraints, SetConstraint(s, c) PROVE Good
      <3>1. CASE c = "Failed"
        BY <2>1, <3>1, SetFailedStep
      <3>2. CASE c = "SessionStopped"
        BY <2>1, <3>2, SetStoppedStep
      <3>3. CASE c \notin {"Failed", "SessionStopped"}
        BY <2>1, <3>3, SetOtherStep
      <3> QED
        BY <3>1, <3>2, <3>3
    <2> QED
      BY <1>4, <2>1, CancelStep, PauseStep, RemoveStep, StopStep DEF ControlStep
  <1>5. CASE UNCHANGED coordinatorVars
    <2>1. TypeOK'
      BY <1>5 DEF IInv, TypeOK, coordinatorVars
    <2> QED
      BY <1>5, <2>1, Untouched DEF coordinatorVars
  <1> QED
    BY <1>1, <1>2, <1>3, <1>4, <1>5 DEF Next

\* The inductive invariant holds of every behaviour of the coordinator.
THEOREM CoordinatorInvariant == Spec => []IInv
  <1>1. IInv /\ [Next]_coordinatorVars => IInv'
    BY StepGood DEF Good
  <1> QED
    BY InitGood, <1>1, PTL DEF Spec

\* Every queue, batch, lease and intent is well formed, whatever sequence of
\* calls the coordinator sees.
THEOREM CoordinatorTypeCorrect == Spec => []TypeOK
  <1>1. IInv => TypeOK
    BY DEF IInv
  <1> QED
    BY CoordinatorInvariant, <1>1, PTL

\* Work is neither lost nor doubled: a live intent is in the queue of its slot or
\* in the slot's active batch, a finished one in neither (EveryIntentHasOnePlace).
THEOREM WorkHasOnePlace == Spec => []EveryIntentHasOnePlace
  <1>1. IInv => EveryIntentHasOnePlace
    BY DEF IInv
  <1> QED
    BY CoordinatorInvariant, <1>1, PTL

\* A slash command is alone in its turn (CommandsTravelAlone).
THEOREM CommandsAreAlone == Spec => []CommandsTravelAlone
  <1>1. IInv => CommandsTravelAlone
    BY DEF IInv, Ordered
  <1> QED
    BY CoordinatorInvariant, <1>1, PTL

\* A message waits for no younger one of its priority (NoOvertaking): not after a
\* retry, a cancelled run or a failed runtime put work back into the queue.
THEOREM ArrivalOrderHolds == Spec => []NoOvertaking
  <1>1. IInv => NoOvertaking
    BY DEF IInv, Ordered
  <1> QED
    BY CoordinatorInvariant, <1>1, PTL

\* A late start, retry or completion of a superseded batch revives nothing and
\* changes no outcome (TerminalIsFinal).
THEOREM OutcomesAreFinal == Spec => TerminalIsFinal
  <1>1. IInv /\ [Next]_coordinatorVars =>
           [\A i \in DOMAIN intents : intents[i].state \in Terminal =>
               intents'[i].state = intents[i].state]_coordinatorVars
    BY StepGood DEF Good, EndedStays
  <1> QED
    BY CoordinatorInvariant, <1>1, PTL DEF Spec, TerminalIsFinal

\* Cancelling a run ends all of its live work, wherever it is, takes its leases
\* away and ends nothing of another run (CancelRunIsExact).
THEOREM CancellationIsExact == Spec => CancelRunIsExact
  <1> DEFINE Exact == \A r \in Runs : CancelRun(r) =>
                  /\ \A l \in leases' : l.run # r
                  /\ \A i \in DOMAIN intents' :
                        intents[i].state \in Live =>
                            (intents'[i].state \in Live <=> intents[i].run # r)
  <1>1. ASSUME IInv, NEW r \in Runs, CancelRun(r)
        PROVE  /\ \A l \in leases' : l.run # r
               /\ \A i \in DOMAIN intents' :
                     intents[i].state \in Live =>
                         (intents'[i].state \in Live <=> intents[i].run # r)
    <2>1. "Cancelled" \notin Live /\ "Queued" \in Live
      BY DEF Live
    <2> QED
      BY <1>1, <2>1, CancelMoves DEF IsLive
  <1>2. IInv /\ [Next]_coordinatorVars => [Exact]_coordinatorVars
    BY <1>1
  <1> QED
    BY CoordinatorInvariant, <1>2, PTL DEF Spec, CancelRunIsExact, Exact
=============================================================================
