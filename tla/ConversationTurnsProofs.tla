---------------------- MODULE ConversationTurnsProofs ----------------------
(***************************************************************************)
(* Proofs about ConversationTurns, for every set of turns, teams' turns and  *)
(* callers, every setting and every bound.                                  *)
(***************************************************************************)
EXTENDS ConversationTurns, TLAPS

\* A revoked turn has still to release, and a cancel names a turn that was asked to.
RevokedTurnsWork == \A t \in revoked : turn[t].stage \in Working
CancelsAreAsked == \A c \in Callers : call[c].op = "cancel" => call[c].turn \in asked

\* The inductive invariant.
IInv ==
    /\ TypeOK
    /\ WorkingTurnHoldsClaim
    /\ RevokedTurnsWork
    /\ DeletingIsCleared
    /\ WithdrawnWasAsked
    /\ CancelsAreAsked
    /\ SleeperIsNotForgotten

Stages == Before \cup Working \cup {"notify", "done"}

\* A turn that sleeps and that nobody has woken.
Asleep(t) == turn[t].stage = "sleep" /\ ~turn[t].woken

\* A step of one turn leaves the others alone.
OnlyTurn(t) == turn' \in [Turns -> Turn] /\ \A u \in Turns : u # t => turn'[u] = turn[u]

\* A kill changes nothing of the turns but their agents.
SameTurns ==
    /\ turn' \in [Turns -> Turn]
    /\ \A u \in Turns : /\ turn'[u].stage = turn[u].stage
                        /\ turn'[u].end = turn[u].end
                        /\ turn'[u].woken = turn[u].woken

OnlyCall(c) == call' \in [Callers -> Call] /\ \A b \in Callers : b # c => call'[b] = call[b]

\* A new turn and a turn that is over are turns; no call is a call.
LEMMA NewFacts ==
  /\ NewTurn \in Turn
  /\ \A end \in {"none", "withdrawn"} : Over(end) \in Turn
  /\ NoCall \in Call
<1>1. 0 \in 0..MaxContinuations
  BY ContinuationsAssumption
<1>2. NewTurn \in Turn
  BY <1>1 DEF NewTurn, Turn, Before, Working, Lifecycles
<1>3. \A end \in {"none", "withdrawn"} : Over(end) \in Turn
  BY <1>2 DEF Over, Turn, Working
<1>4. NoCall \in Call
  BY DEF NoCall, Call
<1> QED BY <1>2, <1>3, <1>4

LEMMA InitIInv == Init => IInv
<1> SUFFICES ASSUME Init PROVE IInv
  OBVIOUS
<1>1. TypeOK
  <2>1. setting.bound \in Nat
    BY SettingsAssumption DEF Init
  <2>2. spent \in 0..setting.bound
    BY <2>1 DEF Init
  <2>3. turn \in [Turns -> Turn] /\ call \in [Callers -> Call]
    BY NewFacts DEF Init
  <2> QED BY <2>2, <2>3 DEF Init, TypeOK
<1>2. WorkingTurnHoldsClaim /\ RevokedTurnsWork /\ SleeperIsNotForgotten
  BY TurnsAssumption
     DEF Init, WorkingTurnHoldsClaim, RevokedTurnsWork, SleeperIsNotForgotten, NewTurn, Working, At
<1>3. DeletingIsCleared /\ WithdrawnWasAsked /\ CancelsAreAsked
  BY TurnsAssumption DEF Init, DeletingIsCleared, WithdrawnWasAsked, CancelsAreAsked, NewTurn, NoCall
<1> QED BY <1>1, <1>2, <1>3 DEF IInv

----------------------------------------------------------------------------
(* What the helpers of the actions do. *)

LEMMA GotoFacts ==
  ASSUME TypeOK, NEW t \in Turns, NEW stage \in Stages, Goto(t, stage)
  PROVE  /\ OnlyTurn(t) /\ turn'[t].stage = stage
         /\ turn'[t].end = turn[t].end /\ turn'[t].woken = turn[t].woken
BY DEF TypeOK, Goto, OnlyTurn, Turn, Stages

LEMMA UpdateFacts ==
  ASSUME TypeOK, NEW t \in Turns, NEW r \in Turn, turn' = [turn EXCEPT ![t] = r]
  PROVE  OnlyTurn(t) /\ turn'[t] = r
BY DEF TypeOK, OnlyTurn

LEMMA FinishFacts ==
  ASSUME TypeOK, NEW t \in Turns, NEW end \in {"none", "withdrawn"}, Finish(t, end)
  PROVE  OnlyTurn(t) /\ turn'[t].stage = "release" /\ turn'[t].end = end
<1>1. Over(end) \in Turn /\ Over(end).stage = "release" /\ Over(end).end = end
  BY NewFacts DEF Over, Turn
<1> QED BY <1>1 DEF TypeOK, Finish, OnlyTurn

\* A kill of the agent, with the turns as they are or as given.
LEMMA KillFacts ==
  ASSUME NEW turns \in [Turns -> Turn], NEW reason, NEW waits \in BOOLEAN,
         KillAgent(turns, reason, waits)
  PROVE  /\ ready' = FALSE
         /\ turn' \in [Turns -> Turn]
         /\ \A u \in Turns : /\ turn'[u].stage = turns[u].stage
                             /\ turn'[u].end = turns[u].end
                             /\ turn'[u].woken = turns[u].woken
<1>1. \A u \in Turns : turn'[u] = turns[u]
                       \/ \E a \in {"orphan", "dead"} : turn'[u] = [turns[u] EXCEPT !.agent = a]
  BY DEF KillAgent, KilledTurn, Killed
<1>2. \A u \in Turns : /\ turn'[u] \in Turn
                       /\ turn'[u].stage = turns[u].stage
                       /\ turn'[u].end = turns[u].end
                       /\ turn'[u].woken = turns[u].woken
  <2> SUFFICES ASSUME NEW u \in Turns
               PROVE  /\ turn'[u] \in Turn
                      /\ turn'[u].stage = turns[u].stage
                      /\ turn'[u].end = turns[u].end
                      /\ turn'[u].woken = turns[u].woken
    OBVIOUS
  <2>1. turns[u] \in Turn
    OBVIOUS
  <2>2. ASSUME NEW a \in {"orphan", "dead"}, turn'[u] = [turns[u] EXCEPT !.agent = a]
        PROVE  /\ turn'[u] \in Turn
               /\ turn'[u].stage = turns[u].stage
               /\ turn'[u].end = turns[u].end
               /\ turn'[u].woken = turns[u].woken
    BY <2>1, <2>2 DEF Turn
  <2> QED BY <1>1, <2>1, <2>2
<1>3. turn' \in [Turns -> UNION {KilledTurn(u, turns[u], reason, waits) : u \in Turns}]
  BY DEF KillAgent
<1>4. turn' = [u \in Turns |-> turn'[u]]
  BY <1>3
<1>5. turn' \in [Turns -> Turn]
  BY <1>2, <1>4
<1>6. ready' = FALSE
  BY DEF KillAgent
<1> QED BY <1>2, <1>5, <1>6

LEMMA WokenFacts ==
  ASSUME TypeOK
  PROVE  /\ Woken \in [Turns -> Turn]
         /\ \A u \in Turns : /\ Woken[u].stage = turn[u].stage
                             /\ Woken[u].end = turn[u].end
                             /\ turn[u].stage = "sleep" => Woken[u].woken
<1>1. ASSUME NEW w \in Turn, NEW woken \in BOOLEAN
      PROVE  LET r == [w EXCEPT !.woken = woken] IN
             r \in Turn /\ r.stage = w.stage /\ r.end = w.end /\ r.woken = woken
  BY DEF Turn
<1>2. turn \in [Turns -> Turn]
  BY DEF TypeOK
<1>3. ASSUME NEW u \in Turns
      PROVE  /\ Woken[u] \in Turn
             /\ Woken[u].stage = turn[u].stage
             /\ Woken[u].end = turn[u].end
             /\ turn[u].stage = "sleep" => Woken[u].woken
  <2> DEFINE woken == turn[u].woken \/ turn[u].stage \in {"check", "sleep"}
  <2>1. Woken[u] = [turn[u] EXCEPT !.woken = woken]
    BY DEF Woken
  <2>2. turn[u] \in Turn /\ woken \in BOOLEAN
    BY <1>2 DEF Turn
  <2>3. turn[u].stage = "sleep" => woken
    OBVIOUS
  <2> HIDE DEF woken
  <2> QED BY <1>1, <2>1, <2>2, <2>3
<1>4. Woken = [u \in Turns |-> Woken[u]]
  BY DEF Woken
<1> QED BY <1>3, <1>4

LEMMA CallGoesFacts ==
  ASSUME TypeOK, NEW c \in Callers,
         NEW stage \in {"none", "look", "find", "defer", "mark", "hand", "unmark", "watch", "confirm",
                        "hook", "row", "clear", "kill", "notify"},
         CallGoes(c, stage)
  PROVE  /\ OnlyCall(c) /\ call'[c].stage = stage
         /\ call'[c].op = call[c].op /\ call'[c].turn = call[c].turn /\ call'[c].had = call[c].had
BY DEF TypeOK, CallGoes, OnlyCall, Call

LEMMA ReturnFacts ==
  ASSUME TypeOK, NEW c \in Callers, Return(c)
  PROVE  OnlyCall(c) /\ call'[c].stage = "none" /\ call'[c].op = "none"
BY DEF TypeOK, Return, NoCall, OnlyCall, Call

----------------------------------------------------------------------------
(* Steps that leave the runtime state alone. *)

\* Turns go on within their claims, or without one.
LEMMA QuietTurnsStep ==
  ASSUME IInv, UNCHANGED <<runtimeVars, call, history>>, row' \in BOOLEAN, ready' \in BOOLEAN,
         turn' \in [Turns -> Turn],
         \A u \in Turns : /\ turn[u].stage = "notify" => turn'[u].stage = "notify"
                          /\ turn'[u].stage \in Working <=> turn[u].stage \in Working
                          /\ turn'[u].end = "withdrawn" => turn[u].end = "withdrawn"
                          /\ Asleep(u)' => Asleep(u) \/ active # NoTurn
  PROVE  IInv'
<1> USE DEF IInv, runtimeVars, history
<1>1. TypeOK'
  BY DEF TypeOK
<1>2. WorkingTurnHoldsClaim' /\ RevokedTurnsWork'
  BY DEF WorkingTurnHoldsClaim, RevokedTurnsWork, TypeOK
<1>3. DeletingIsCleared' /\ CancelsAreAsked'
  BY DEF DeletingIsCleared, Clears, CancelsAreAsked
<1>4. WithdrawnWasAsked'
  BY DEF WithdrawnWasAsked
<1>5. Notifies => Notifies'
  BY DEF Notifies, At
<1>6. SleeperIsNotForgotten'
  BY <1>5 DEF SleeperIsNotForgotten, Asleep, At
<1> QED BY <1>1, <1>2, <1>3, <1>4, <1>6

\* So does one turn, while the others do nothing.
LEMMA QuietTurnStep ==
  ASSUME IInv, NEW t \in Turns, OnlyTurn(t),
         UNCHANGED <<runtimeVars, call, history>>, row' \in BOOLEAN, ready' \in BOOLEAN,
         turn[t].stage # "notify",
         turn'[t].stage \in Working <=> turn[t].stage \in Working,
         turn'[t].end = "withdrawn" => turn[t].end = "withdrawn",
         Asleep(t)' => Asleep(t) \/ active # NoTurn
  PROVE  IInv'
<1>1. \A u \in Turns : /\ turn[u].stage = "notify" => turn'[u].stage = "notify"
                       /\ turn'[u].stage \in Working <=> turn[u].stage \in Working
                       /\ turn'[u].end = "withdrawn" => turn[u].end = "withdrawn"
                       /\ Asleep(u)' => Asleep(u) \/ active # NoTurn
  BY DEF OnlyTurn, Asleep
<1> QED BY <1>1, QuietTurnsStep DEF OnlyTurn

\* A call goes on that is not the one that has to clear a mark or to notify.
LEMMA QuietCallStep ==
  ASSUME IInv, NEW c \in Callers, OnlyCall(c), SameTurns,
         UNCHANGED <<setting, active, deleting, deferred, revoked>>,
         {cancelling', shuttingDown', row', ready'} \subseteq BOOLEAN,
         asked \subseteq asked', asked' \in SUBSET Turns, spent' \in 0..setting.bound,
         call[c].stage # "notify",
         Clears(c) => Clears(c)',
         call'[c].op = "cancel" => call'[c].turn \in asked'
  PROVE  IInv'
<1> USE DEF IInv
<1>1. TypeOK'
  BY DEF TypeOK, OnlyCall, SameTurns
<1>2. WorkingTurnHoldsClaim' /\ RevokedTurnsWork'
  BY DEF WorkingTurnHoldsClaim, RevokedTurnsWork, SameTurns, TypeOK
<1>3. DeletingIsCleared'
  BY DEF DeletingIsCleared, Clears, OnlyCall
<1>4. CancelsAreAsked'
  BY DEF CancelsAreAsked, OnlyCall
<1>5. WithdrawnWasAsked'
  BY DEF WithdrawnWasAsked, SameTurns
<1>6. Notifies => Notifies'
  BY DEF Notifies, At, SameTurns, OnlyCall
<1>7. SleeperIsNotForgotten'
  BY <1>6 DEF SleeperIsNotForgotten, At, SameTurns
<1> QED BY <1>1, <1>2, <1>3, <1>4, <1>5, <1>7

----------------------------------------------------------------------------
(* The turns. *)

LEMMA LoadStep ==
  ASSUME IInv, NEW t \in Turns, Arrive(t) \/ Load(t)
  PROVE  IInv'
<1>1. /\ turn[t].stage \in {"idle", "load"}
      /\ \E stage \in {"claim", "done"} : Goto(t, stage)
      /\ UNCHANGED <<runtimeVars, row, ready, call, history>>
  BY DEF Arrive, Load, LoadFrom, At
<1>2. /\ OnlyTurn(t) /\ turn'[t].stage \in {"claim", "done"}
      /\ turn'[t].end = turn[t].end
  BY <1>1, GotoFacts DEF Stages, Before, IInv
<1> QED BY <1>1, <1>2, QuietTurnStep DEF Working, Asleep, IInv, TypeOK

LEMMA ClaimStep ==
  ASSUME IInv, NEW t \in Turns, Claim(t)
  PROVE  IInv'
<1>1. /\ turn[t].stage = "claim"
      /\ UNCHANGED <<deleting, cancelling, deferred, shuttingDown, row, ready, call, history>>
  BY DEF Claim, At
<1>2. CASE ~deleting /\ active = NoTurn /\ active' = t /\ Goto(t, "persist")
  <2> USE DEF IInv, history
  <2>1. OnlyTurn(t) /\ turn'[t].stage = "persist" /\ turn'[t].end = turn[t].end
    BY <1>2, GotoFacts DEF Stages, Working
  <2>2. t \notin revoked /\ t # NoTurn
    BY <1>1, TurnsAssumption DEF RevokedTurnsWork, Working
  <2>3. TypeOK'
    BY <1>1, <1>2, <2>1 DEF TypeOK, OnlyTurn
  <2>4. WorkingTurnHoldsClaim'
    BY <1>1, <1>2, <2>1, <2>2, TurnsAssumption DEF WorkingTurnHoldsClaim, OnlyTurn, Working
  <2>5. RevokedTurnsWork'
    BY <1>1, <2>1, <2>2 DEF RevokedTurnsWork, OnlyTurn, TypeOK
  <2>6. DeletingIsCleared' /\ SleeperIsNotForgotten'
    BY <1>1, <1>2, <2>2 DEF DeletingIsCleared, SleeperIsNotForgotten
  <2>7. WithdrawnWasAsked' /\ CancelsAreAsked'
    BY <1>1, <2>1 DEF WithdrawnWasAsked, CancelsAreAsked, OnlyTurn
  <2> QED BY <2>3, <2>4, <2>5, <2>6, <2>7
<1>3. CASE UNCHANGED active /\ \E stage \in {"register", "done"} : Goto(t, stage)
  <2>1. OnlyTurn(t) /\ turn'[t].stage \in {"register", "done"} /\ turn'[t].end = turn[t].end
    BY <1>3, GotoFacts DEF Stages, Before, IInv
  <2> QED BY <1>1, <1>3, <2>1, QuietTurnStep DEF Working, Asleep, IInv, TypeOK, runtimeVars
<1> QED BY <1>2, <1>3 DEF Claim

LEMMA WaitStep ==
  ASSUME IInv, NEW t \in Turns, WaitUntilUnclaimed(t)
  PROVE  IInv'
<1>1. UNCHANGED <<runtimeVars, row, ready, call, history>>
  BY DEF WaitUntilUnclaimed
<1>2. CASE turn[t].stage = "register" /\ turn' = [turn EXCEPT ![t].stage = "check", ![t].woken = FALSE]
  <2>1. OnlyTurn(t) /\ turn'[t].stage = "check" /\ turn'[t].end = turn[t].end
    <3> DEFINE r == [turn[t] EXCEPT !.stage = "check", !.woken = FALSE]
    <3>0. turn \in [Turns -> Turn] /\ turn[t] \in Turn /\ "check" \in Stages
      BY DEF IInv, TypeOK, Stages, Before
    <3>1. r \in Turn /\ r.stage = "check" /\ r.end = turn[t].end
      BY <3>0, Zenon DEF Turn, Stages
    <3>2. turn' = [turn EXCEPT ![t] = r]
      BY <1>2, <3>0
    <3> HIDE DEF r
    <3> QED BY <3>1, <3>2, UpdateFacts DEF IInv
  <2> QED BY <1>1, <1>2, <2>1, QuietTurnStep DEF Working, Asleep, IInv, TypeOK
<1>3. CASE turn[t].stage = "check" /\ Goto(t, IF active = NoTurn THEN "load" ELSE "sleep")
  <2>1. /\ OnlyTurn(t) /\ turn'[t].stage \in {"load", "sleep"} /\ turn'[t].end = turn[t].end
        /\ turn'[t].stage = "sleep" => active # NoTurn
    BY <1>3, GotoFacts DEF Stages, Before, IInv
  <2> QED BY <1>1, <1>3, <2>1, QuietTurnStep DEF Working, Asleep, IInv, TypeOK
<1>4. CASE turn[t].stage = "sleep" /\ Goto(t, "register")
  <2>1. OnlyTurn(t) /\ turn'[t].stage = "register" /\ turn'[t].end = turn[t].end
    BY <1>4, GotoFacts DEF Stages, Before, IInv
  <2> QED BY <1>1, <1>4, <2>1, QuietTurnStep DEF Working, Asleep, IInv, TypeOK
<1> QED BY <1>2, <1>3, <1>4 DEF WaitUntilUnclaimed, At

LEMMA PersistStep ==
  ASSUME IInv, NEW t \in Turns, Persist(t)
  PROVE  IInv'
<1>1. /\ turn[t].stage = "persist"
      /\ Goto(t, "enter") \/ Finish(t, "none")
      /\ UNCHANGED <<runtimeVars, row, ready, call, history>>
  BY DEF Persist, At
<1>2. /\ OnlyTurn(t) /\ turn'[t].stage \in {"enter", "release"}
      /\ turn'[t].end \in {turn[t].end, "none"}
  BY <1>1, GotoFacts, FinishFacts DEF Stages, Working, IInv
<1> QED BY <1>1, <1>2, QuietTurnStep DEF Working, Asleep, IInv, TypeOK

LEMMA EnterStep ==
  ASSUME IInv, NEW t \in Turns, Enter(t)
  PROVE  IInv'
<1>1. turn[t].stage = "enter" /\ UNCHANGED <<runtimeVars, row, ready, call, history>>
  BY DEF Enter, At
<1>2. /\ OnlyTurn(t) /\ turn'[t].stage \in {"ready", "build"}
      /\ turn'[t].end = turn[t].end
  <2>1. \E stage \in {"ready", "build"} : turn' = [turn EXCEPT ![t].agent = "mapped", ![t].stage = stage]
    BY DEF Enter
  <2>2. PICK stage \in {"ready", "build"} : turn' = [turn EXCEPT ![t].agent = "mapped", ![t].stage = stage]
    BY <2>1
  <2> DEFINE r == [turn[t] EXCEPT !.agent = "mapped", !.stage = stage]
  <2>3. stage \in Stages
    BY DEF Stages, Working
  <2>0. turn \in [Turns -> Turn] /\ turn[t] \in Turn
    BY DEF IInv, TypeOK
  <2>4. r \in Turn /\ r.stage = stage /\ r.end = turn[t].end
    BY <2>0, <2>3, Zenon DEF Turn, Stages
  <2>5. turn' = [turn EXCEPT ![t] = r]
    BY <2>0, <2>2
  <2> HIDE DEF r
  <2> QED BY <2>4, <2>5, UpdateFacts DEF IInv
<1> QED BY <1>1, <1>2, QuietTurnStep DEF Working, Asleep, IInv, TypeOK

LEMMA BuildStep ==
  ASSUME IInv, NEW t \in Turns, Build(t)
  PROVE  IInv'
<1>1. /\ turn[t].stage = "build"
      /\ Goto(t, "ready") \/ Finish(t, "none")
      /\ UNCHANGED <<runtimeVars, row, call, history>>
      /\ ready' \in BOOLEAN
  BY DEF Build, At, IInv, TypeOK
<1>2. /\ OnlyTurn(t) /\ turn'[t].stage \in {"ready", "release"}
      /\ turn'[t].end \in {turn[t].end, "none"}
  BY <1>1, GotoFacts, FinishFacts DEF Stages, Working, IInv
<1> QED BY <1>1, <1>2, QuietTurnStep DEF Working, Asleep, IInv, TypeOK

LEMMA TakeDeferredCancelStep ==
  ASSUME IInv, NEW t \in Turns, TakeDeferredCancel(t)
  PROVE  IInv'
<1>1. /\ turn[t].stage = "ready"
      /\ UNCHANGED <<active, deleting, cancelling, shuttingDown, row, ready, call, history>>
  BY DEF TakeDeferredCancel, At
<1>2. CASE deferred = t /\ deferred' = NoTurn /\ Finish(t, "withdrawn")
  <2> USE DEF IInv, history
  <2>1. OnlyTurn(t) /\ turn'[t].stage = "release" /\ turn'[t].end = "withdrawn"
    BY <1>2, FinishFacts
  <2>2. TypeOK'
    BY <1>1, <1>2, <2>1 DEF TypeOK, OnlyTurn
  <2>3. WorkingTurnHoldsClaim' /\ RevokedTurnsWork'
    BY <1>1, <2>1 DEF WorkingTurnHoldsClaim, RevokedTurnsWork, OnlyTurn, Working, TypeOK
  <2>4. DeletingIsCleared' /\ CancelsAreAsked'
    BY <1>1 DEF DeletingIsCleared, Clears, CancelsAreAsked
  <2>5. WithdrawnWasAsked'
    BY <1>1, <1>2, <2>1, TurnsAssumption DEF WithdrawnWasAsked, OnlyTurn
  <2>6. SleeperIsNotForgotten'
    BY <1>1, <2>1 DEF SleeperIsNotForgotten, Notifies, At, OnlyTurn
  <2> QED BY <2>2, <2>3, <2>4, <2>5, <2>6
<1>3. CASE UNCHANGED deferred /\ (Goto(t, "prompt") \/ Finish(t, "none"))
  <2>1. /\ OnlyTurn(t) /\ turn'[t].stage \in {"prompt", "release"}
        /\ turn'[t].end \in {turn[t].end, "none"}
    BY <1>3, GotoFacts, FinishFacts DEF Stages, Working, IInv
  <2> QED BY <1>1, <1>3, <2>1, QuietTurnStep DEF Working, Asleep, IInv, TypeOK, runtimeVars
<1> QED BY <1>2, <1>3 DEF TakeDeferredCancel

LEMMA PromptStep ==
  ASSUME IInv, NEW t \in Turns, Prompt(t)
  PROVE  IInv'
<1>1. turn[t].stage = "prompt" /\ UNCHANGED <<runtimeVars, row, ready, call, history>>
  BY DEF Prompt, At
<1>2. Lifecycle \in Lifecycles
  BY DEF Lifecycle, Lifecycles
<1>3. CASE turn' = [turn EXCEPT ![t].stage = "stream", ![t].seen = Lifecycle,
                              ![t].agent = IF @ = "dead" /\ InSession
                                           THEN "orphan" ELSE @]
  <2>1. \E a \in {"none", "mapped", "orphan", "dead"} :
           turn' = [turn EXCEPT ![t].stage = "stream", ![t].seen = Lifecycle, ![t].agent = a]
    BY <1>3 DEF IInv, TypeOK, Turn
  <2>2. OnlyTurn(t) /\ turn'[t].stage = "stream" /\ turn'[t].end = turn[t].end
    <3>1. PICK a \in {"none", "mapped", "orphan", "dead"} :
             turn' = [turn EXCEPT ![t].stage = "stream", ![t].seen = Lifecycle, ![t].agent = a]
      BY <2>1
    <3> DEFINE r == [turn[t] EXCEPT !.stage = "stream", !.seen = Lifecycle, !.agent = a]
    <3>0. turn \in [Turns -> Turn] /\ turn[t] \in Turn
      BY DEF IInv, TypeOK
    <3>2. r \in Turn /\ r.stage = "stream" /\ r.end = turn[t].end
      BY <1>2, <3>0, Zenon DEF Turn, Working
    <3>3. turn' = [turn EXCEPT ![t] = r]
      BY <3>0, <3>1
    <3> HIDE DEF r
    <3> QED BY <3>2, <3>3, UpdateFacts DEF IInv
  <2> QED BY <1>1, <2>2, QuietTurnStep DEF Working, Asleep, IInv, TypeOK
<1>4. CASE Finish(t, "none")
  <2>1. OnlyTurn(t) /\ turn'[t].stage = "release" /\ turn'[t].end = "none"
    BY <1>4, FinishFacts DEF IInv
  <2> QED BY <1>1, <2>1, QuietTurnStep DEF Working, Asleep, IInv, TypeOK
<1> QED BY <1>3, <1>4 DEF Prompt

LEMMA StreamStep ==
  ASSUME IInv, NEW t \in Turns, AgentAnswers(t) \/ StreamBreaks(t)
  PROVE  IInv'
<1>1. /\ turn[t].stage = "stream" /\ StreamEnds(t)
      /\ UNCHANGED <<runtimeVars, row, ready, call, history>>
  BY DEF AgentAnswers, StreamBreaks, At
<1>2. CASE /\ Continues(t)
           /\ turn' = [turn EXCEPT ![t].stage = "prompt", ![t].count = @ + 1, ![t].seen = "Active"]
  <2>1. turn[t].count + 1 \in 0..MaxContinuations
    BY <1>2, ContinuationsAssumption DEF Continues, IInv, TypeOK, Turn
  <2>2. OnlyTurn(t) /\ turn'[t].stage = "prompt" /\ turn'[t].end = turn[t].end
    BY <1>2, <2>1 DEF IInv, TypeOK, OnlyTurn, Turn, Working, Lifecycles
  <2> QED BY <1>1, <2>2, QuietTurnStep DEF Working, Asleep, IInv, TypeOK
<1>3. CASE Finish(t, "none")
  <2>1. OnlyTurn(t) /\ turn'[t].stage = "release" /\ turn'[t].end = "none"
    BY <1>3, FinishFacts DEF IInv
  <2> QED BY <1>1, <2>1, QuietTurnStep DEF Working, Asleep, IInv, TypeOK
<1>4. ASSUME NEW end \in {"error", "retry"},
             turn' = [turn EXCEPT ![t].stage = "judge", ![t].end = end, ![t].count = 0,
                                  ![t].seen = "Active"]
      PROVE  IInv'
  <2>1. 0 \in 0..MaxContinuations
    BY ContinuationsAssumption
  <2>2. OnlyTurn(t) /\ turn'[t].stage = "judge" /\ turn'[t].end = end
    <3> DEFINE r == [turn[t] EXCEPT !.stage = "judge", !.end = end, !.count = 0, !.seen = "Active"]
    <3>0. turn \in [Turns -> Turn] /\ turn[t] \in Turn
      BY DEF IInv, TypeOK
    <3>1. r \in Turn /\ r.stage = "judge" /\ r.end = end
      BY <2>1, <3>0, Zenon DEF Turn, Working, Lifecycles
    <3>2. turn' = [turn EXCEPT ![t] = r]
      BY <1>4, <3>0
    <3> HIDE DEF r
    <3> QED BY <3>1, <3>2, UpdateFacts DEF IInv
  <2> QED BY <1>1, <2>2, QuietTurnStep DEF Working, Asleep, IInv, TypeOK
<1> QED BY <1>1, <1>2, <1>3, <1>4 DEF StreamEnds

LEMMA JudgeStep ==
  ASSUME IInv, NEW t \in Turns, Judge(t)
  PROVE  IInv'
<1>1. /\ turn[t].stage = "judge"
      /\ UNCHANGED <<runtimeVars, row, ready, call, history>>
  BY DEF Judge, At
<1>2. CASE turn' = [turn EXCEPT ![t].stage = "evict", ![t].replayed = TRUE]
  <2>1. OnlyTurn(t) /\ turn'[t].stage = "evict" /\ turn'[t].end = turn[t].end
    <3> DEFINE r == [turn[t] EXCEPT !.stage = "evict", !.replayed = TRUE]
    <3>0. turn \in [Turns -> Turn] /\ turn[t] \in Turn /\ "evict" \in Stages
      BY DEF IInv, TypeOK, Stages, Working
    <3>1. r \in Turn /\ r.stage = "evict" /\ r.end = turn[t].end
      BY <3>0, Zenon DEF Turn, Stages
    <3>2. turn' = [turn EXCEPT ![t] = r]
      BY <1>2, <3>0
    <3> HIDE DEF r
    <3> QED BY <3>1, <3>2, UpdateFacts DEF IInv
  <2> QED BY <1>1, <2>1, QuietTurnStep DEF Working, Asleep, IInv, TypeOK
<1>3. CASE turn' = [turn EXCEPT ![t].stage = "evict", ![t].end = "error"]
  <2>1. OnlyTurn(t) /\ turn'[t].stage = "evict" /\ turn'[t].end = "error"
    <3> DEFINE r == [turn[t] EXCEPT !.stage = "evict", !.end = "error"]
    <3>0. turn \in [Turns -> Turn] /\ turn[t] \in Turn /\ "evict" \in Stages
      BY DEF IInv, TypeOK, Stages, Working
    <3>1. r \in Turn /\ r.stage = "evict" /\ r.end = "error"
      BY <3>0, Zenon DEF Turn, Stages
    <3>2. turn' = [turn EXCEPT ![t] = r]
      BY <1>3, <3>0
    <3> HIDE DEF r
    <3> QED BY <3>1, <3>2, UpdateFacts DEF IInv
  <2> QED BY <1>1, <2>1, QuietTurnStep DEF Working, Asleep, IInv, TypeOK
<1>4. CASE Finish(t, "none")
  <2>1. OnlyTurn(t) /\ turn'[t].stage = "release" /\ turn'[t].end = "none"
    BY <1>4, FinishFacts DEF IInv
  <2> QED BY <1>1, <2>1, QuietTurnStep DEF Working, Asleep, IInv, TypeOK
<1> QED BY <1>2, <1>3, <1>4 DEF Judge

LEMMA EvictStep ==
  ASSUME IInv, NEW t \in Turns, Evict(t)
  PROVE  IInv'
<1> DEFINE next == IF turn[t].end = "retry"
                   THEN [NewTurn EXCEPT !.stage = "enter", !.replayed = TRUE]
                   ELSE Over("none")
<1>1. /\ turn[t].stage = "evict"
      /\ KillAgent([turn EXCEPT ![t] = next], "AgentErrorRecovery", TRUE)
      /\ UNCHANGED <<runtimeVars, row, call, history>>
  BY DEF Evict, At
<1>2. /\ next \in Turn /\ next.stage \in {"enter", "release"}
      /\ next.end # "withdrawn"
  <2>1. NewTurn \in Turn /\ NewTurn.end = "none"
    BY NewFacts DEF NewTurn
  <2>2. Over("none") \in Turn /\ Over("none").stage = "release" /\ Over("none").end = "none"
    BY NewFacts DEF Over, Turn
  <2> QED BY <2>1, <2>2 DEF Turn, Working
<1> HIDE DEF next
<1>3. [turn EXCEPT ![t] = next] \in [Turns -> Turn]
  BY <1>2 DEF IInv, TypeOK
<1>4. /\ ready' \in BOOLEAN
      /\ turn' \in [Turns -> Turn]
      /\ \A u \in Turns : /\ turn'[u].stage = [turn EXCEPT ![t] = next][u].stage
                          /\ turn'[u].end = [turn EXCEPT ![t] = next][u].end
                          /\ turn'[u].woken = [turn EXCEPT ![t] = next][u].woken
  BY <1>1, <1>3, KillFacts
<1>5. \A u \in Turns : /\ turn[u].stage = "notify" => turn'[u].stage = "notify"
                       /\ turn'[u].stage \in Working <=> turn[u].stage \in Working
                       /\ turn'[u].end = "withdrawn" => turn[u].end = "withdrawn"
                       /\ Asleep(u)' => Asleep(u) \/ active # NoTurn
  BY <1>1, <1>2, <1>4 DEF IInv, TypeOK, Working, Asleep
<1>6. row' \in BOOLEAN
  BY <1>1 DEF IInv, TypeOK
<1> QED BY <1>1, <1>4, <1>5, <1>6, QuietTurnsStep

LEMMA ReleaseStep ==
  ASSUME IInv, NEW t \in Turns, Release(t)
  PROVE  IInv'
<1> USE DEF IInv
<1>1. /\ turn[t].stage = "release" /\ revoked' = revoked \ {t}
      /\ UNCHANGED <<setting, deferred, shuttingDown, row, ready, call, asked, spent>>
  BY DEF Release, At
<1>2. CASE /\ active = t /\ active' = NoTurn /\ deleting' = FALSE /\ cancelling' = FALSE
           /\ Goto(t, "notify")
  <2>1. OnlyTurn(t) /\ turn'[t].stage = "notify" /\ turn'[t].end = turn[t].end
    BY <1>2, GotoFacts DEF Stages
  <2>2. TypeOK'
    BY <1>1, <1>2, <2>1 DEF TypeOK, OnlyTurn
  <2>3. WorkingTurnHoldsClaim'
    BY <1>1, <1>2, <2>1, TurnsAssumption DEF WorkingTurnHoldsClaim, OnlyTurn, Working
  <2>4. RevokedTurnsWork'
    BY <1>1, <2>1 DEF RevokedTurnsWork, OnlyTurn, TypeOK
  <2>5. DeletingIsCleared'
    BY <1>2 DEF DeletingIsCleared
  <2>6. WithdrawnWasAsked' /\ CancelsAreAsked'
    BY <1>1, <2>1 DEF WithdrawnWasAsked, CancelsAreAsked, OnlyTurn
  <2>7. SleeperIsNotForgotten'
    BY <2>1 DEF SleeperIsNotForgotten, Notifies, At
  <2> QED BY <2>2, <2>3, <2>4, <2>5, <2>6, <2>7
<1>3. CASE active # t /\ Goto(t, "done") /\ UNCHANGED <<active, deleting, cancelling>>
  <2>1. OnlyTurn(t) /\ turn'[t].stage = "done" /\ turn'[t].end = turn[t].end
    BY <1>3, GotoFacts DEF Stages
  <2>2. TypeOK'
    BY <1>1, <1>3, <2>1 DEF TypeOK, OnlyTurn
  <2>3. WorkingTurnHoldsClaim'
    BY <1>1, <1>3, <2>1 DEF WorkingTurnHoldsClaim, OnlyTurn, Working
  <2>4. RevokedTurnsWork'
    BY <1>1, <2>1 DEF RevokedTurnsWork, OnlyTurn, TypeOK
  <2>5. DeletingIsCleared'
    BY <1>1, <1>3 DEF DeletingIsCleared, Clears
  <2>6. WithdrawnWasAsked' /\ CancelsAreAsked'
    BY <1>1, <2>1 DEF WithdrawnWasAsked, CancelsAreAsked, OnlyTurn
  <2>7. SleeperIsNotForgotten'
    BY <1>1, <1>3, <2>1 DEF SleeperIsNotForgotten, Notifies, At, OnlyTurn
  <2> QED BY <2>2, <2>3, <2>4, <2>5, <2>6, <2>7
<1> QED BY <1>2, <1>3 DEF Release

LEMMA NotifyReleasedStep ==
  ASSUME IInv, NEW t \in Turns, NotifyReleased(t)
  PROVE  IInv'
<1> USE DEF IInv, runtimeVars, history
<1>1. /\ turn[t].stage = "notify" /\ turn' = [Woken EXCEPT ![t].stage = "done"]
      /\ UNCHANGED <<runtimeVars, row, ready, call, history>>
  BY DEF NotifyReleased, At
<1>2. /\ Woken \in [Turns -> Turn]
      /\ \A u \in Turns : /\ Woken[u].stage = turn[u].stage
                          /\ Woken[u].end = turn[u].end
                          /\ turn[u].stage = "sleep" => Woken[u].woken
  BY WokenFacts
<1> HIDE DEF Woken
<1>3. /\ turn' \in [Turns -> Turn]
      /\ turn'[t].stage = "done" /\ turn'[t].end = turn[t].end
      /\ \A u \in Turns : u # t => turn'[u] = Woken[u]
  BY <1>1, <1>2 DEF Turn
<1>4. TypeOK'
  BY <1>1, <1>3 DEF TypeOK
<1>5. WorkingTurnHoldsClaim' /\ RevokedTurnsWork'
  BY <1>1, <1>2, <1>3 DEF WorkingTurnHoldsClaim, RevokedTurnsWork, Working, TypeOK
<1>6. DeletingIsCleared' /\ CancelsAreAsked'
  BY <1>1 DEF DeletingIsCleared, Clears, CancelsAreAsked
<1>7. WithdrawnWasAsked'
  BY <1>1, <1>2, <1>3 DEF WithdrawnWasAsked
<1>8. SleeperIsNotForgotten'
  BY <1>2, <1>3 DEF SleeperIsNotForgotten, At
<1> QED BY <1>4, <1>5, <1>6, <1>7, <1>8

----------------------------------------------------------------------------
(* The calls. *)

CallStages == {"none", "look", "find", "defer", "mark", "hand", "unmark", "watch", "confirm", "hook",
               "row", "clear", "kill", "notify"}

LEMMA SameTurnsFacts ==
  ASSUME IInv, UNCHANGED turn
  PROVE  SameTurns
BY DEF IInv, TypeOK, SameTurns

LEMMA KilledTurnsFacts ==
  ASSUME IInv, NEW reason, NEW waits \in BOOLEAN, KillAgent(turn, reason, waits)
  PROVE  SameTurns /\ ready' \in BOOLEAN
BY KillFacts DEF IInv, TypeOK, SameTurns

LEMMA BeginFacts ==
  ASSUME IInv, NEW c \in Callers, NEW op \in Operations, NEW stage \in CallStages,
         NEW t \in Turns \cup {NoTurn}, Begin(c, op, stage, t)
  PROVE  /\ OnlyCall(c) /\ call[c].stage = "none"
         /\ call'[c].op = op /\ call'[c].stage = stage /\ call'[c].turn = t
         /\ SameTurns
         /\ {cancelling', shuttingDown', row', ready'} \subseteq BOOLEAN
         /\ spent' \in 0..setting.bound
         /\ UNCHANGED <<setting, active, deleting, deferred, revoked>>
<1> USE DEF Begin, IInv
<1> DEFINE r == [NoCall EXCEPT !.op = op, !.stage = stage, !.turn = t]
<1>1. r \in Call /\ r.op = op /\ r.stage = stage /\ r.turn = t
  BY NewFacts DEF Call, CallStages
<1>2. call' = [call EXCEPT ![c] = r]
  OBVIOUS
<1> HIDE DEF r
<1>3. OnlyCall(c) /\ call'[c] = r
  BY <1>1, <1>2 DEF OnlyCall, TypeOK
<1>4. call[c].stage = "none"
  BY DEF NoCall
<1>5. spent' \in 0..setting.bound
  <2>1. setting.bound \in Nat
    BY SettingsAssumption DEF TypeOK
  <2> QED BY <2>1 DEF TypeOK
<1>6. /\ {cancelling', shuttingDown', row', ready'} \subseteq BOOLEAN
      /\ UNCHANGED <<setting, active, deleting, deferred, revoked>>
  BY DEF TypeOK, runtimeVars
<1> QED BY <1>1, <1>3, <1>4, <1>5, <1>6, SameTurnsFacts

LEMMA BeginCallStep ==
  ASSUME IInv, NEW c \in Callers, BeginCall(c)
  PROVE  IInv'
<1>1. ASSUME NEW t \in Turns, Begin(c, "cancel", "look", t), asked' = asked \cup {t}
      PROVE  IInv'
  <2>1. /\ OnlyCall(c) /\ call[c].stage = "none"
        /\ call'[c].op = "cancel" /\ call'[c].turn = t
        /\ SameTurns
        /\ {cancelling', shuttingDown', row', ready'} \subseteq BOOLEAN
        /\ spent' \in 0..setting.bound
        /\ UNCHANGED <<setting, active, deleting, deferred, revoked>>
    BY <1>1, BeginFacts DEF Operations, CallStages
  <2>2. asked \subseteq asked' /\ asked' \in SUBSET Turns /\ t \in asked'
    BY <1>1 DEF IInv, TypeOK
  <2> QED BY <2>1, <2>2, QuietCallStep DEF Clears
<1>2. ASSUME NEW op \in Operations \ {"cancel"}, NEW stage \in CallStages,
             Begin(c, op, stage, NoTurn), UNCHANGED asked
      PROVE  IInv'
  <2>1. /\ OnlyCall(c) /\ call[c].stage = "none"
        /\ call'[c].op # "cancel"
        /\ SameTurns
        /\ {cancelling', shuttingDown', row', ready'} \subseteq BOOLEAN
        /\ spent' \in 0..setting.bound
        /\ UNCHANGED <<setting, active, deleting, deferred, revoked>>
    BY <1>2, BeginFacts
  <2>2. asked \subseteq asked' /\ asked' \in SUBSET Turns
    BY <1>2 DEF IInv, TypeOK
  <2> QED BY <2>1, <2>2, QuietCallStep DEF Clears
<1>3. CASE BeginCancel(c)
  BY <1>1, <1>3 DEF BeginCancel
<1>4. CASE BeginDelete(c) \/ BeginTerminate(c) \/ BeginShutdown(c) \/ BeginKill(c)
  BY <1>2, <1>4 DEF BeginDelete, BeginTerminate, BeginShutdown, BeginKill, Operations, CallStages
<1> QED BY <1>3, <1>4 DEF BeginCall

\* A step of a call that changes the agent or the marks the invariant does not mention.
LEMMA QuietCall ==
  ASSUME IInv, NEW c \in Callers,
         Return(c) \/ \E stage \in CallStages : CallGoes(c, stage),
         SameTurns,
         UNCHANGED <<active, deleting, deferred, history>>,
         {cancelling', shuttingDown', row', ready'} \subseteq BOOLEAN,
         call[c].stage # "notify",
         Clears(c) => Clears(c)'
  PROVE  IInv'
<1>1. OnlyCall(c) /\ (call'[c].op = "cancel" => call'[c].turn \in asked)
  BY CallGoesFacts, ReturnFacts DEF IInv, CallStages, CancelsAreAsked
<1>2. spent' \in 0..setting.bound /\ asked' \in SUBSET Turns
  BY DEF IInv, TypeOK, history
<1> QED BY <1>1, <1>2, QuietCallStep DEF history

LEMMA CancelCallStep ==
  ASSUME IInv, NEW c \in Callers, CancelStep(c)
  PROVE  IInv'
<1>1. CASE DeferCancel(c)
  <2> USE DEF IInv, history
  <2>1. /\ call[c].op = "cancel" /\ call[c].stage = "defer"
        /\ deferred' = call[c].turn
        /\ UNCHANGED <<active, deleting, cancelling, shuttingDown, row, ready, turn, history>>
    BY <1>1 DEF DeferCancel, CallAt
  <2>2. OnlyCall(c) /\ call'[c].stage = "none" /\ call'[c].op = "none"
    BY <1>1, ReturnFacts DEF DeferCancel
  <2>3. deferred' \in asked
    BY <2>1 DEF CancelsAreAsked
  <2>4. TypeOK'
    BY <2>1, <2>2, <2>3 DEF TypeOK, OnlyCall
  <2>5. WorkingTurnHoldsClaim' /\ RevokedTurnsWork'
    BY <2>1 DEF WorkingTurnHoldsClaim, RevokedTurnsWork
  <2>6. DeletingIsCleared' /\ CancelsAreAsked'
    BY <2>1, <2>2 DEF DeletingIsCleared, Clears, CancelsAreAsked, OnlyCall
  <2>7. WithdrawnWasAsked'
    BY <2>1, <2>3 DEF WithdrawnWasAsked
  <2>8. SleeperIsNotForgotten'
    BY <2>1, <2>2 DEF SleeperIsNotForgotten, Notifies, At, OnlyCall
  <2> QED BY <2>4, <2>5, <2>6, <2>7, <2>8
<1>2. CASE LookForTurn(c)
  <2>1. /\ call[c].op = "cancel" /\ call[c].stage \in {"look", "find"}
        /\ Return(c) \/ \E stage \in CallStages : CallGoes(c, stage)
        /\ UNCHANGED <<runtimeVars, row, ready, turn, history>>
    BY <1>2 DEF LookForTurn, CallAt, CallStages
  <2> QED BY <2>1, SameTurnsFacts, QuietCall DEF Clears, IInv, TypeOK, runtimeVars
<1>3. CASE MarkCancelling(c)
  <2>1. /\ call[c].op = "cancel" /\ call[c].stage \in {"mark", "unmark"}
        /\ Return(c) \/ \E stage \in CallStages : CallGoes(c, stage)
        /\ cancelling' \in BOOLEAN
        /\ UNCHANGED <<active, deleting, deferred, shuttingDown, row, ready, turn, history>>
    BY <1>3 DEF MarkCancelling, CallAt, CallStages
  <2> QED BY <2>1, SameTurnsFacts, QuietCall DEF Clears, IInv, TypeOK
<1>4. CASE HandCancel(c)
  <2>1. /\ call[c].op = "cancel" /\ call[c].stage = "hand"
        /\ Return(c) \/ \E stage \in CallStages : CallGoes(c, stage)
        /\ UNCHANGED <<runtimeVars, row, ready, turn, history>>
    BY <1>4 DEF HandCancel, CallAt, CallStages
  <2> QED BY <2>1, SameTurnsFacts, QuietCall DEF Clears, IInv, TypeOK, runtimeVars
<1>5. CASE Watchdog(c)
  <2>1. /\ call[c].op = "cancel" /\ call[c].stage \in {"watch", "confirm"}
        /\ Return(c) \/ \E stage \in CallStages : CallGoes(c, stage)
        /\ UNCHANGED <<ready, turn>> \/ KillAgent(turn, "UserCancelTimeout", TRUE)
        /\ UNCHANGED <<runtimeVars, row, history>>
    BY <1>5 DEF Watchdog, CallAt, CallStages
  <2>2. SameTurns /\ ready' \in BOOLEAN
    BY <2>1, SameTurnsFacts, KilledTurnsFacts DEF IInv, TypeOK
  <2> QED BY <2>1, <2>2, QuietCall DEF Clears, IInv, TypeOK, runtimeVars
<1> QED BY <1>1, <1>2, <1>3, <1>4, <1>5 DEF CancelStep

LEMMA DeleteCallStep ==
  ASSUME IInv, NEW c \in Callers, DeleteStep(c)
  PROVE  IInv'
<1>1. CASE MarkDeleting(c)
  <2> USE DEF IInv, history
  <2>1. /\ call[c].op = "delete" /\ call[c].stage = "mark"
        /\ call' = [call EXCEPT ![c].stage = "hook", ![c].had = (active # NoTurn)]
        /\ UNCHANGED <<active, cancelling, deferred, shuttingDown, row, ready, turn, history>>
        /\ deleting' = TRUE
    BY <1>1 DEF MarkDeleting, CallAt
  <2>2. /\ OnlyCall(c) /\ call'[c].stage = "hook" /\ call'[c].op = "delete"
        /\ call'[c].had = (active # NoTurn)
    <3> DEFINE had == (active # NoTurn)
               r == [call[c] EXCEPT !.stage = "hook", !.had = had]
    <3>0. call \in [Callers -> Call] /\ call[c].op = "delete" /\ had \in BOOLEAN
      BY <2>1 DEF TypeOK
    <3>1. call' = [call EXCEPT ![c] = r]
      BY <2>1, <3>0
    <3> HIDE DEF had
    <3>2. r \in Call /\ r.stage = "hook" /\ r.op = "delete" /\ r.had = had
      BY <3>0, Zenon DEF Call
    <3> HIDE DEF r
    <3>3. OnlyCall(c) /\ call'[c] = r
      BY <3>0, <3>1, <3>2 DEF OnlyCall
    <3> QED BY <3>2, <3>3 DEF had
  <2>3. TypeOK'
    BY <2>1, <2>2 DEF TypeOK, OnlyCall
  <2>4. WorkingTurnHoldsClaim' /\ RevokedTurnsWork'
    BY <2>1 DEF WorkingTurnHoldsClaim, RevokedTurnsWork
  <2>5. DeletingIsCleared'
    BY <2>1, <2>2 DEF DeletingIsCleared, Clears
  <2>6. WithdrawnWasAsked' /\ CancelsAreAsked'
    BY <2>1, <2>2 DEF WithdrawnWasAsked, CancelsAreAsked, OnlyCall
  <2>7. SleeperIsNotForgotten'
    BY <2>1, <2>2 DEF SleeperIsNotForgotten, Notifies, At, OnlyCall
  <2> QED BY <2>3, <2>4, <2>5, <2>6, <2>7
<1>2. CASE KillDeleted(c)
  <2>1. /\ call[c].op = "delete" /\ call[c].stage = "hook"
        /\ CallGoes(c, "row")
        /\ KillAgent(turn, "ConversationDeleted", FALSE)
        /\ UNCHANGED <<runtimeVars, row, history>>
    BY <1>2 DEF KillDeleted, CallAt
  <2>2. call'[c].stage = "row" /\ call'[c].op = "delete" /\ call'[c].had = call[c].had
    BY <2>1, CallGoesFacts DEF IInv
  <2>3. Clears(c) => Clears(c)'
    BY <2>1, <2>2 DEF Clears
  <2>4. SameTurns /\ ready' \in BOOLEAN
    BY <2>1, KilledTurnsFacts
  <2> QED BY <2>1, <2>3, <2>4, QuietCall DEF CallStages, IInv, TypeOK, runtimeVars
<1>3. CASE DeleteRow(c)
  <2>1. /\ call[c].op = "delete" /\ call[c].stage = "row"
        /\ (Return(c) /\ call[c].had) \/ CallGoes(c, "clear")
        /\ row' \in BOOLEAN
        /\ UNCHANGED <<runtimeVars, ready, turn, history>>
    BY <1>3 DEF DeleteRow, CallAt, IInv, TypeOK
  <2>2. Clears(c) => Clears(c)'
    BY <2>1, CallGoesFacts DEF IInv, Clears
  <2> QED BY <2>1, <2>2, SameTurnsFacts, QuietCall DEF CallStages, IInv, TypeOK, runtimeVars
<1>4. CASE ClearDeleting(c)
  <2> USE DEF IInv, history
  <2>1. /\ call[c].op = "delete" /\ call[c].stage = "clear"
        /\ UNCHANGED <<active, cancelling, deferred, shuttingDown, row, ready, turn, history>>
        /\ deleting' = FALSE
    BY <1>4 DEF ClearDeleting, CallAt
  <2>2. OnlyCall(c) /\ call'[c].stage = "none" /\ call'[c].op = "none"
    BY <1>4, ReturnFacts DEF ClearDeleting
  <2>3. TypeOK'
    BY <2>1, <2>2 DEF TypeOK, OnlyCall
  <2>4. WorkingTurnHoldsClaim' /\ RevokedTurnsWork'
    BY <2>1 DEF WorkingTurnHoldsClaim, RevokedTurnsWork
  <2>5. DeletingIsCleared'
    BY <2>1 DEF DeletingIsCleared
  <2>6. WithdrawnWasAsked' /\ CancelsAreAsked'
    BY <2>1, <2>2 DEF WithdrawnWasAsked, CancelsAreAsked, OnlyCall
  <2>7. SleeperIsNotForgotten'
    BY <2>1, <2>2 DEF SleeperIsNotForgotten, Notifies, At, OnlyCall
  <2> QED BY <2>3, <2>4, <2>5, <2>6, <2>7
<1> QED BY <1>1, <1>2, <1>3, <1>4 DEF DeleteStep

LEMMA TerminateCallStep ==
  ASSUME IInv, NEW c \in Callers, TerminateStep(c)
  PROVE  IInv'
<1>1. CASE KillRevoked(c)
  <2>1. /\ call[c].op = "terminate" /\ call[c].stage = "kill"
        /\ CallGoes(c, "clear")
        /\ KillAgent(turn, "SessionRevoked", TRUE)
        /\ UNCHANGED <<runtimeVars, row, history>>
    BY <1>1 DEF KillRevoked, CallAt
  <2>2. SameTurns /\ ready' \in BOOLEAN
    BY <2>1, KilledTurnsFacts
  <2> QED BY <2>1, <2>2, QuietCall DEF CallStages, Clears, IInv, TypeOK, runtimeVars
<1>2. CASE ClearConversation(c)
  <2> USE DEF IInv
  <2>1. /\ call[c].op = "terminate" /\ call[c].stage = "clear"
        /\ active' = NoTurn /\ deleting' = FALSE /\ cancelling' = FALSE
        /\ revoked' = revoked \cup ({active} \ {NoTurn})
        /\ active # NoTurn => CallGoes(c, "notify")
        /\ CallGoes(c, "notify") \/ Return(c)
        /\ UNCHANGED <<setting, deferred, shuttingDown, row, ready, turn, asked, spent>>
    BY <1>2 DEF ClearConversation, CallAt
  <2>2. /\ OnlyCall(c) /\ call'[c].op # "cancel"
        /\ active # NoTurn => call'[c].stage = "notify"
    BY <2>1, CallGoesFacts, ReturnFacts
  <2>3. TypeOK'
    BY <2>1, <2>2 DEF TypeOK, OnlyCall
  <2>4. WorkingTurnHoldsClaim' /\ RevokedTurnsWork'
    BY <2>1, TurnsAssumption DEF WorkingTurnHoldsClaim, RevokedTurnsWork, TypeOK
  <2>5. DeletingIsCleared'
    BY <2>1 DEF DeletingIsCleared
  <2>6. WithdrawnWasAsked' /\ CancelsAreAsked'
    BY <2>1, <2>2 DEF WithdrawnWasAsked, CancelsAreAsked, OnlyCall
  <2>7. SleeperIsNotForgotten'
    BY <2>1, <2>2 DEF SleeperIsNotForgotten, Notifies, At, OnlyCall
  <2> QED BY <2>3, <2>4, <2>5, <2>6, <2>7
<1>3. CASE NotifyCleared(c)
  <2> USE DEF IInv, history, runtimeVars
  <2>1. /\ call[c].op = "terminate" /\ turn' = Woken
        /\ UNCHANGED <<runtimeVars, row, ready, history>>
    BY <1>3 DEF NotifyCleared, CallAt
  <2>2. /\ turn' \in [Turns -> Turn]
        /\ \A u \in Turns : /\ turn'[u].stage = turn[u].stage
                            /\ turn'[u].end = turn[u].end
                            /\ turn[u].stage = "sleep" => turn'[u].woken
    BY <2>1, WokenFacts
  <2>3. OnlyCall(c) /\ call'[c].op = "none"
    BY <1>3, ReturnFacts DEF NotifyCleared
  <2>4. TypeOK'
    BY <2>1, <2>2, <2>3 DEF TypeOK, OnlyCall
  <2>5. WorkingTurnHoldsClaim' /\ RevokedTurnsWork'
    BY <2>1, <2>2 DEF WorkingTurnHoldsClaim, RevokedTurnsWork, TypeOK
  <2>6. DeletingIsCleared' /\ CancelsAreAsked'
    BY <2>1, <2>3 DEF DeletingIsCleared, Clears, CancelsAreAsked, OnlyCall
  <2>7. WithdrawnWasAsked'
    BY <2>1, <2>2 DEF WithdrawnWasAsked
  <2>8. SleeperIsNotForgotten'
    BY <2>2 DEF SleeperIsNotForgotten, At
  <2> QED BY <2>4, <2>5, <2>6, <2>7, <2>8
<1> QED BY <1>1, <1>2, <1>3 DEF TerminateStep

LEMMA KillCallStep ==
  ASSUME IInv, NEW c \in Callers, ShutdownStep(c) \/ KillStep(c)
  PROVE  IInv'
<1>1. /\ call[c].op \in {"shutdown", "kill"} /\ call[c].stage \in {"mark", "kill"}
      /\ Return(c) \/ \E stage \in CallStages : CallGoes(c, stage)
      /\ shuttingDown' \in BOOLEAN
      /\ UNCHANGED <<active, deleting, cancelling, deferred, row, history>>
      /\ \/ UNCHANGED <<ready, turn>>
         \/ KillAgent(turn, "none", FALSE) \/ KillAgent(turn, "IdleTimeout", TRUE)
  BY DEF ShutdownStep, KillStep, CallAt, CallStages, IInv, TypeOK, runtimeVars
<1>2. SameTurns /\ ready' \in BOOLEAN
  BY <1>1, SameTurnsFacts, KilledTurnsFacts DEF IInv, TypeOK
<1> QED BY <1>1, <1>2, QuietCall DEF Clears, IInv, TypeOK

----------------------------------------------------------------------------
(* Every step. *)

LEMMA UnchangedStep ==
  ASSUME IInv, UNCHANGED <<runtimeVars, turn, call, history>>,
         row' \in BOOLEAN, ready' \in BOOLEAN
  PROVE  IInv'
BY QuietTurnsStep DEF Asleep, IInv, TypeOK

LEMMA StepIInv == IInv /\ [Next]_vars => IInv'
<1> SUFFICES ASSUME IInv, [Next]_vars PROVE IInv'
  OBVIOUS
<1>1. ASSUME NEW t \in Turns, Arrive(t) \/ TurnStep(t) \/ AgentAnswers(t) PROVE IInv'
  BY <1>1, LoadStep, ClaimStep, WaitStep, PersistStep, EnterStep, BuildStep, TakeDeferredCancelStep,
     PromptStep, StreamStep, JudgeStep, EvictStep, ReleaseStep, NotifyReleasedStep
     DEF TurnStep
<1>2. ASSUME NEW c \in Callers, BeginCall(c) \/ CallStep(c) PROVE IInv'
  BY <1>2, BeginCallStep, CancelCallStep, DeleteCallStep, TerminateCallStep, KillCallStep
     DEF CallStep
<1>3. CASE WarmUp
  BY <1>3, UnchangedStep DEF WarmUp, IInv, TypeOK
<1>4. CASE UNCHANGED vars
  BY <1>4, UnchangedStep DEF vars, runtimeVars, history, IInv, TypeOK
<1> QED BY <1>1, <1>2, <1>3, <1>4 DEF Next

LEMMA Invariant == Spec => []IInv
BY InitIInv, StepIInv, PTL DEF Spec

----------------------------------------------------------------------------

\* Every variable keeps its type, the counters within their bounds.
THEOREM TypeCorrect == Spec => []TypeOK
<1>1. IInv => TypeOK
  BY DEF IInv
<1> QED BY <1>1, Invariant, PTL

\* A turn works if and only if it holds the claim, however many turns there are and
\* whatever is cancelled, deleted, revoked, killed or shut down meanwhile: the
\* claim of another turn is never freed, and no claim outlives its turn.
THEOREM ClaimsAreExclusive == Spec => []WorkingTurnHoldsClaim
<1>1. IInv => WorkingTurnHoldsClaim
  BY DEF IInv
<1> QED BY <1>1, Invariant, PTL

\* The mark of a deletion always has an active turn or a deletion that will clear it,
\* however many deletions run and whichever of them fails.
THEOREM DeletionsAreCleared == Spec => []DeletingIsCleared
<1>1. IInv => DeletingIsCleared
  BY DEF IInv
<1> QED BY <1>1, Invariant, PTL

\* A deferred cancel only ever ends the turn that some cancel named.
THEOREM WithdrawalsWereAsked == Spec => []WithdrawnWasAsked
<1>1. IInv => WithdrawnWasAsked
  BY DEF IInv
<1> QED BY <1>1, Invariant, PTL

\* No team's turn sleeps, not woken, on a conversation that is free with nobody about
\* to notify: the wait has no lost wake-up.
THEOREM SleepersAreWoken == Spec => []SleeperIsNotForgotten
<1>1. IInv => SleeperIsNotForgotten
  BY DEF IInv
<1> QED BY <1>1, Invariant, PTL
=============================================================================
