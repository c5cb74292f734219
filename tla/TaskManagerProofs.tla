-------------------------- MODULE TaskManagerProofs --------------------------
(***************************************************************************)
(* Proofs about TaskManager, for every set of callers and versions and every *)
(* bound on cells and tokens.                                               *)
(***************************************************************************)
EXTENDS TaskManager, SequenceTheorems, TLAPS

\* What the type of the cells says of one of them.
LEMMA CellFacts ==
  ASSUME TypeOK, NEW k \in DOMAIN cells
  PROVE  /\ cells[k] \in Cell /\ cells[k].queue \in Seq(Callers)
         /\ k \in Nat \ {0} /\ k \in 1..Len(cells) /\ k \in 0..MaxCells
         /\ DOMAIN cells[k].queue = 1..Len(cells[k].queue) /\ Len(cells[k].queue) \in Nat
         /\ \A i \in DOMAIN cells[k].queue : i \in Nat \ {0} /\ cells[k].queue[i] \in Callers
<1>1. DOMAIN cells = 1..Len(cells) /\ Len(cells) \in Nat /\ Len(cells) <= MaxCells
  BY LenProperties DEF TypeOK
<1>2. cells[k] \in Cell
  BY <1>1, ElementOfSeq DEF TypeOK
<1>3. cells[k].queue \in Seq(Callers)
  BY <1>2 DEF Cell
<1>4. /\ DOMAIN cells[k].queue = 1..Len(cells[k].queue) /\ Len(cells[k].queue) \in Nat
      /\ \A i \in DOMAIN cells[k].queue : i \in Nat \ {0} /\ cells[k].queue[i] \in Callers
  BY <1>3, LenProperties, ElementOfSeq
<1> QED BY <1>1, <1>2, <1>3, <1>4, BoundsAssumption

\* Replacing a cell replaces that cell only.
LEMMA CellReplaced ==
  ASSUME TypeOK, NEW k \in DOMAIN cells, NEW e \in Cell, cells' = [cells EXCEPT ![k] = e]
  PROVE  /\ cells' \in Seq(Cell) /\ Len(cells') = Len(cells) /\ DOMAIN cells' = DOMAIN cells
         /\ cells'[k] = e
         /\ \A j \in DOMAIN cells : j # k => cells'[j] = cells[j]
<1>1. DOMAIN cells = 1..Len(cells)
  BY LenProperties DEF TypeOK
<1> QED BY <1>1, ExceptSeq, LenProperties DEF TypeOK

\* Allocating a cell leaves the others alone.
LEMMA CellAdded ==
  ASSUME TypeOK, cells' = Append(cells, EmptyCell), Len(cells) < MaxCells
  PROVE  /\ cells' \in Seq(Cell) /\ Len(cells') = Len(cells) + 1 /\ Len(cells') <= MaxCells
         /\ DOMAIN cells' = DOMAIN cells \cup {Len(cells) + 1}
         /\ Len(cells) + 1 \notin DOMAIN cells
         /\ cells'[Len(cells) + 1] = EmptyCell
         /\ \A j \in DOMAIN cells : cells'[j] = cells[j]
<1>1. EmptyCell \in Cell
  BY EmptySeq, BoundsAssumption DEF EmptyCell, Cell
<1>2. DOMAIN cells = 1..Len(cells) /\ Len(cells) \in Nat
  BY LenProperties DEF TypeOK
<1>3. cells' \in Seq(Cell) /\ Len(cells') = Len(cells) + 1
  BY <1>1, AppendProperties DEF TypeOK
<1>4. DOMAIN cells' = 1..(Len(cells) + 1)
  BY <1>3, LenProperties
<1>5. cells'[Len(cells) + 1] = EmptyCell /\ \A j \in 1..Len(cells) : cells'[j] = cells[j]
  BY <1>1, AppendProperties DEF TypeOK
<1> QED BY <1>2, <1>3, <1>4, <1>5, BoundsAssumption

\* A step changes the record of the caller that takes it.
OnlyCallOf(c) == call' \in [Callers -> Call] /\ \A b \in Callers : b # c => call'[b] = call[b]

\* A call that goes to another place, takes a token or enters a cell is a call.
LEMMA MovedCall ==
  ASSUME NEW r \in Call, NEW place \in Places, NEW then \in Places
  PROVE  /\ [r EXCEPT !.at = place] \in Call
         /\ [r EXCEPT !.at = place, !.then = then] \in Call
BY DEF Call

LEMMA TokenCall ==
  ASSUME NEW r \in Call, NEW place \in Places, NEW then \in Places, NEW v \in Versions \cup {0},
         NEW t \in 0..MaxTokens
  PROVE  /\ [r EXCEPT !.at = place, !.version = v, !.token = t] \in Call
         /\ [r EXCEPT !.at = place, !.then = then, !.version = v, !.token = t] \in Call
BY DEF Call

LEMMA CellCall ==
  ASSUME NEW r \in Call, NEW place \in Places, NEW then \in Places, NEW k \in 0..MaxCells,
         NEW m \in SUBSET Callers
  PROVE  /\ [r EXCEPT !.at = place, !.cell = k] \in Call
         /\ [r EXCEPT !.at = place, !.then = then] \in Call
         /\ [r EXCEPT !.at = place, !.then = then, !.cell = k, !.met = m] \in Call
BY DEF Call, Places

LEMMA GoesFacts ==
  ASSUME TypeOK, NEW c \in Callers, NEW place \in Places, Goes(c, place)
  PROVE  /\ OnlyCallOf(c) /\ call'[c].at = place
         /\ call'[c].cell = call[c].cell /\ call'[c].token = call[c].token
         /\ call'[c].met = call[c].met /\ call'[c].then = call[c].then
<1>1. call \in [Callers -> Call] /\ call' = [call EXCEPT ![c].at = place]
  BY DEF TypeOK, Goes
<1>2. call'[c] = [call[c] EXCEPT !.at = place] /\ OnlyCallOf(c)
  BY <1>1, MovedCall DEF OnlyCallOf
<1> QED BY <1>1, <1>2 DEF Call

LEMMA ReturnsFacts ==
  ASSUME TypeOK, NEW c \in Callers, Returns(c)
  PROVE  OnlyCallOf(c) /\ call'[c].at = "idle"
BY BoundsAssumption DEF TypeOK, Returns, Idle, Call, Places, OnlyCallOf

\* Issue hands out a token that validates, or begins to insert a new one.
LEMMA IssueFacts ==
  ASSUME TypeOK, NEW c \in Callers, NEW v \in Versions \cup {0}, NEW then \in {"look", "enter"},
         Issue(c, v, then)
  PROVE  /\ OnlyCallOf(c)
         /\ \/ /\ issued' = issued
               /\ call'[c].at = then /\ call'[c].token \in tokens
            \/ /\ tokens = {} /\ issued' = issued + 1 /\ issued' \in 0..MaxTokens
               /\ call'[c].at = "clear" /\ call'[c].then = then /\ call'[c].token = issued + 1
<1>1. call \in [Callers -> Call] /\ call[c] \in Call
  BY DEF TypeOK
<1>2. issued \in 0..MaxTokens /\ MaxTokens \in Nat /\ tokens \subseteq 1..issued
  BY BoundsAssumption DEF TypeOK
<1>3. then \in Places /\ "clear" \in Places
  BY DEF Places
<1>4. ASSUME NEW t \in tokens, UNCHANGED issued,
             call' = [call EXCEPT ![c].at = then, ![c].version = v, ![c].token = t]
      PROVE  OnlyCallOf(c) /\ call'[c].at = then /\ call'[c].token = t
  <2>1. call' = [call EXCEPT ![c] = [call[c] EXCEPT !.at = then, !.version = v, !.token = t]]
    BY <1>1, <1>4, Zenon
  <2>2. [call[c] EXCEPT !.at = then, !.version = v, !.token = t] \in Call
    <3>1. t \in 0..MaxTokens
      BY <1>2
    <3> QED BY <3>1, <1>1, <1>3, TokenCall, Zenon
  <2> QED BY <1>1, <2>1, <2>2 DEF Call, OnlyCallOf
<1>5. ASSUME issued < MaxTokens,
             call' = [call EXCEPT ![c].at = "clear", ![c].then = then, ![c].version = v,
                                ![c].token = issued + 1]
      PROVE  /\ OnlyCallOf(c)
             /\ call'[c].at = "clear" /\ call'[c].then = then /\ call'[c].token = issued + 1
  <2> DEFINE e == [call[c] EXCEPT !.at = "clear", !.then = then, !.version = v, !.token = issued + 1]
  <2>1. call' = [call EXCEPT ![c] = e]
    BY <1>1, <1>5, Zenon
  <2>2. e \in Call
    <3>1. issued + 1 \in 0..MaxTokens
      BY <1>2, <1>5
    <3> QED BY <3>1, <1>1, <1>3, TokenCall, Zenon
  <2> QED BY <1>1, <2>1, <2>2 DEF Call, OnlyCallOf
<1> QED BY <1>2, <1>4, <1>5 DEF Issue

\* The queue of a cell after a step.
LEMMA QueueBecomes ==
  ASSUME NEW k, NEW q, cells'[k].queue = q,
         \A i \in DOMAIN q, c \in Callers : q[i] = c => Queued(c, k)',
         \A i, j \in DOMAIN q : q[i] = q[j] => i = j,
         ~Initialised(k)' => \A c \in Callers : Queued(c, k)' => \E i \in DOMAIN q : q[i] = c
  PROVE  QueueIsExact(k)'
BY DEF QueueIsExact

LEMMA QueueStays ==
  ASSUME NEW k, QueueIsExact(k), cells'[k].queue = cells[k].queue, Initialised(k)' <=> Initialised(k),
         \/ cells[k].queue = <<>> /\ Initialised(k)
         \/ \A c \in Callers : Queued(c, k)' <=> Queued(c, k)
  PROVE  QueueIsExact(k)'
<1> DEFINE q == cells[k].queue
<1>1. /\ \A i \in DOMAIN q, c \in Callers : q[i] = c => Queued(c, k)'
      /\ \A i, j \in DOMAIN q : q[i] = q[j] => i = j
      /\ ~Initialised(k)' => \A c \in Callers : Queued(c, k)' => \E i \in DOMAIN q : q[i] = c
  BY DEF QueueIsExact
<1>2. cells'[k].queue = q
  OBVIOUS
<1> HIDE DEF q
<1> QED BY <1>1, <1>2, QueueBecomes

\* The initial state satisfies the inductive invariant.
LEMMA InitIInv == Init => IInv
<1> SUFFICES ASSUME Init PROVE IInv
  OBVIOUS
<1> USE BoundsAssumption, VersionsAssumption DEF Init
<1>1. DOMAIN cells = {} /\ Len(cells) = 0 /\ cells \in Seq(Cell)
  BY EmptySeq, LenProperties
<1>2. call \in [Callers -> Call]
  BY DEF Call, Places, Idle
<1>3. \A c \in Callers : call[c] = Idle
  OBVIOUS
<1> QED BY <1>1, <1>2, <1>3
        DEF IInv, TypeOK, CallsGoOn, InitialisedIsFinal, FreshTokensAreOwn, BuildersHaveToken,
            RemovedIsAwaited, RemovedAgentsHaveNoToken, QueueHoldsQueued, QueueIsExact, MetAreAhead,
            Queued, Awaits, HoldingCell, Building, Inserting, HasToken, At, Idle

\* Steps of a caller that inserts no token keep the tokens apart, while an agent gets
\* its builder's.
LEMMA TokensStay ==
  ASSUME IInv, NEW c \in Callers, \A b \in Callers : b # c => call'[b] = call[b],
         tokens' \subseteq tokens, issued' = issued,
         call'[c].at \notin Inserting,
         call'[c].at = "revoke" => call'[c].then \in {"idle", "refresh", "wait"},
         HasToken(c)' => HasToken(c) /\ call'[c].token = call[c].token,
         \A k \in DOMAIN cells' : Initialised(k)' =>
             \/ k \in DOMAIN cells /\ Initialised(k) /\ cells'[k].token = cells[k].token
             \/ HasToken(c) /\ call[c].at \notin Inserting /\ cells'[k].token = call[c].token
  PROVE  /\ CallsGoOn' /\ FreshTokensAreOwn'
         /\ \A b \in Callers : HasToken(b)' => call'[b].token \in 1..issued'
<1>1. CallsGoOn'
  <2> SUFFICES ASSUME NEW b \in Callers
               PROVE  /\ call'[b].at \in {"clear", "insert"} => call'[b].then \in {"look", "enter"}
                      /\ call'[b].at = "revoke" => call'[b].then \in {"idle", "refresh", "wait"}
    BY DEF CallsGoOn
  <2> QED BY DEF IInv, CallsGoOn, Inserting
<1>2. \A b \in Callers : HasToken(b)' => HasToken(b) /\ call'[b].token = call[b].token
  BY DEF HasToken, At
<1>3. FreshTokensAreOwn'
  <2> SUFFICES ASSUME NEW a \in Callers, call'[a].at \in Inserting
               PROVE  /\ call'[a].token \notin tokens'
                      /\ \A b \in Callers : b # a /\ HasToken(b)' => call'[b].token # call'[a].token
                      /\ \A k \in DOMAIN cells' : Initialised(k)' => cells'[k].token # call'[a].token
    BY DEF FreshTokensAreOwn
  <2>1. a # c /\ call'[a] = call[a]
    OBVIOUS
  <2>2. /\ call[a].token \notin tokens
        /\ \A b \in Callers : b # a /\ HasToken(b) => call[b].token # call[a].token
        /\ \A k \in DOMAIN cells : Initialised(k) => cells[k].token # call[a].token
    BY <2>1 DEF IInv, FreshTokensAreOwn
  <2> QED BY <1>2, <2>1, <2>2
<1> QED BY <1>1, <1>2, <1>3 DEF IInv, BuildersHaveToken

\* A step in which a caller takes or drops a token, or moves on, without a change
\* of the cells.
LEMMA CallOnlyIInv ==
  ASSUME IInv, NEW c \in Callers, OnlyCallOf(c),
         slot' = slot, cells' = cells, missed' = missed,
         issued' \in 0..MaxTokens, issued <= issued',
         \/ tokens' \subseteq tokens
         \/ tokens' = tokens \cup {call[c].token} /\ call[c].at = "insert",
         call[c].at \notin {"revoke", "wait", "waiting"},
         call[c].at = "queued" => Initialised(call[c].cell),
         call'[c].at \in {"idle", "look", "rebuild", "refresh", "enter"} \cup Inserting,
         call'[c].at \in Inserting =>
             /\ call'[c].then \in {"look", "enter"}
             /\ \/ call[c].at \in Inserting /\ call'[c].token = call[c].token
                \/ call'[c].token = issued + 1 /\ issued' = issued + 1
             /\ tokens' \subseteq tokens,
         call'[c].at \notin Inserting /\ HasToken(c)' =>
             \/ HasToken(c) /\ call'[c].token = call[c].token
             \/ call'[c].token \in tokens
  PROVE  IInv'
<1> USE DEF IInv, OnlyCallOf
<1>1. /\ issued \in Nat /\ MaxTokens \in Nat /\ issued' \in Nat
      /\ tokens \subseteq 1..issued /\ 1..issued \subseteq 1..issued'
  BY BoundsAssumption DEF TypeOK
<1>2. \A b \in Callers : HasToken(b) => call[b].token \in 1..issued
  BY DEF BuildersHaveToken
<1>3. HasToken(c)' => call'[c].token \in 1..issued'
  <2>1. call[c].at \in Inserting => HasToken(c)
    BY DEF HasToken
  <2> QED BY <1>1, <1>2, <2>1
<1>4. tokens' \subseteq 1..issued'
  BY <1>1, <1>2 DEF HasToken, Inserting
<1>5. TypeOK'
  BY <1>4 DEF TypeOK, HoldingCell, Inserting
<1>6. CallsGoOn'
  BY DEF CallsGoOn, Inserting
<1>7. InitialisedIsFinal'
  BY <1>1 DEF InitialisedIsFinal, Initialised
<1>8. ASSUME NEW a \in Callers, a # c, call[a].at \in Inserting
      PROVE  /\ call[a].token \notin tokens' /\ call[a].token \in 1..issued
             /\ HasToken(c)' => call'[c].token # call[a].token
  <2>1. /\ call[a].token \notin tokens /\ call[a].token \in 1..issued
        /\ HasToken(c) => call[c].token # call[a].token
    BY <1>2, <1>8 DEF FreshTokensAreOwn, HasToken
  <2>2. call[c].at \in Inserting => HasToken(c)
    BY DEF HasToken
  <2> QED BY <1>1, <2>1, <2>2 DEF Inserting
<1>9. FreshTokensAreOwn'
  <2> SUFFICES ASSUME NEW a \in Callers, call'[a].at \in Inserting
               PROVE  /\ call'[a].token \notin tokens'
                      /\ \A b \in Callers : b # a /\ HasToken(b)' => call'[b].token # call'[a].token
                      /\ \A k \in DOMAIN cells : Initialised(k) => cells[k].token # call'[a].token
    BY DEF FreshTokensAreOwn, Initialised
  <2>1. CASE a # c
    <3>1. ASSUME NEW b \in Callers, b # a, HasToken(b)'
          PROVE  call'[b].token # call'[a].token
      <4>1. CASE b = c
        BY <1>8, <2>1, <4>1, <3>1
      <4>2. CASE b # c
        BY <2>1, <4>2, <3>1 DEF FreshTokensAreOwn, HasToken, At
      <4> QED BY <4>1, <4>2
    <3>2. \A k \in DOMAIN cells : Initialised(k) => cells[k].token # call'[a].token
      BY <2>1 DEF FreshTokensAreOwn
    <3> QED BY <1>8, <2>1, <3>1, <3>2
  <2>2. CASE a = c /\ call[c].at \in Inserting /\ call'[c].token = call[c].token
    <3>1. \A b \in Callers : b # c => (HasToken(b)' <=> HasToken(b))
      BY DEF HasToken, At
    <3> QED BY <2>2, <3>1 DEF FreshTokensAreOwn
  <2>3. CASE a = c /\ call'[c].token = issued + 1
    <3>1. \A b \in Callers : b # c /\ HasToken(b)' => call'[b].token \in 1..issued
      BY <1>2 DEF HasToken, At
    <3>2. \A k \in DOMAIN cells : Initialised(k) => cells[k].token \in 1..issued
      BY DEF InitialisedIsFinal
    <3> QED BY <1>1, <2>3, <3>1, <3>2
  <2> QED BY <2>1, <2>2, <2>3
<1>10. \A k : Revoking(k)' <=> Revoking(k)
  BY DEF Revoking, At, Inserting
<1>11. BuildersHaveToken'
  <2> SUFFICES ASSUME NEW b \in Callers
               PROVE  /\ HasToken(b)' => call'[b].token \in 1..issued'
                      /\ call'[b].at \in {"init", "queued"} /\ call'[b].cell # slot /\ ~Revoking(call'[b].cell) =>
                            call'[b].token \notin tokens'
    BY <1>10 DEF BuildersHaveToken
  <2>1. CASE b = c
    BY <2>1, <1>3 DEF Inserting
  <2>2. CASE b # c
    <3>1. HasToken(b)' <=> HasToken(b)
      BY <2>2 DEF HasToken, At
    <3>2. call[b].at \in {"init", "queued"} => HasToken(b)
      BY DEF HasToken, Building
    <3>3. call[c].at = "insert" /\ HasToken(b) => call[b].token # call[c].token
      BY <2>2 DEF FreshTokensAreOwn, Inserting
    <3> QED BY <2>2, <3>1, <3>2, <3>3, <1>1 DEF BuildersHaveToken
  <2> QED BY <2>1, <2>2
<1>12. RemovedIsAwaited'
  BY DEF RemovedIsAwaited, Awaits
<1>13. RemovedAgentsHaveNoToken'
  <2>1. \A k \in DOMAIN cells : Initialised(k) /\ call[c].at = "insert" => cells[k].token # call[c].token
    BY DEF FreshTokensAreOwn, Inserting
  <2> QED BY <1>10, <2>1 DEF RemovedAgentsHaveNoToken, Initialised
<1>14. QueueHoldsQueued'
  <2>1. ASSUME NEW k \in DOMAIN cells
        PROVE  \/ cells[k].queue = <<>> /\ Initialised(k)
               \/ \A b \in Callers : Queued(b, k)' <=> Queued(b, k)
    BY DEF InitialisedIsFinal, Queued, Inserting
  <2> QED BY <2>1, QueueStays DEF QueueHoldsQueued, Initialised
<1>15. MetAreAhead'
  <2>1. \A a \in Callers, k \in DOMAIN cells :
          Awaits(a, k)' => a # c /\ Awaits(a, k) /\ call'[a].met = call[a].met
    BY DEF Awaits, Inserting
  <2>2. \A b : call'[b].at \in {"init", "queued"} => b # c
    BY DEF Inserting
  <2>3. \A a \in Callers : call[a].met \subseteq Callers
    BY DEF TypeOK, Call
  <2> QED BY <2>1, <2>2, <2>3 DEF MetAreAhead
<1> QED BY <1>5, <1>6, <1>7, <1>9, <1>11, <1>12, <1>13, <1>14, <1>15

\* Request and RefreshToken take a token or begin to insert one ...
LEMMA IssueIInv ==
  ASSUME IInv, NEW c \in Callers, NEW v \in Versions \cup {0}, NEW then \in {"look", "enter"},
         Issue(c, v, then), call[c].at \in {"idle", "refresh"}, UNCHANGED <<slot, cells, tokens, missed>>
  PROVE  IInv'
<1>1. /\ OnlyCallOf(c)
      /\ \/ /\ issued' = issued
            /\ call'[c].at = then /\ call'[c].token \in tokens
         \/ /\ tokens = {} /\ issued' = issued + 1 /\ issued' \in 0..MaxTokens
            /\ call'[c].at = "clear" /\ call'[c].then = then /\ call'[c].token = issued + 1
  BY IssueFacts DEF IInv
<1>2. issued \in 0..MaxTokens /\ issued \in Nat
  BY BoundsAssumption DEF IInv, TypeOK
<1>3. issued' \in 0..MaxTokens /\ issued <= issued'
  BY <1>1, <1>2
<1>4. call'[c].at \in {"look", "enter", "clear"} /\ (call'[c].at = "clear" => call'[c].then = then)
  BY <1>1
<1>5. /\ call'[c].at = "clear" => call'[c].token = issued + 1 /\ issued' = issued + 1
      /\ call'[c].at # "clear" => call'[c].token \in tokens
  BY <1>1
<1> QED BY <1>1, <1>3, <1>4, <1>5, CallOnlyIInv DEF Inserting

LEMMA RequestIInv == ASSUME IInv, NEW c \in Callers, NEW v \in Versions, Request(c, v) PROVE IInv'
  BY IssueIInv DEF Request, At

LEMMA RefreshTokenIInv == ASSUME IInv, NEW c \in Callers, RefreshToken(c) PROVE IInv'
<1>1. call[c].version \in Versions \cup {0}
  BY DEF IInv, TypeOK, Call
<1> QED BY <1>1, IssueIInv DEF RefreshToken, At

\* ... which replaces those of the conversation.
LEMMA ClearTokensIInv == ASSUME IInv, NEW c \in Callers, ClearTokens(c) PROVE IInv'
<1>1. /\ call[c].at = "clear" /\ Goes(c, "insert") /\ tokens' = {}
      /\ slot' = slot /\ cells' = cells /\ missed' = missed /\ issued' = issued
  BY DEF ClearTokens, At
<1>2. /\ OnlyCallOf(c) /\ call'[c].at = "insert" /\ call'[c].token = call[c].token
      /\ call'[c].then = call[c].then
  BY <1>1, GoesFacts DEF IInv, Places
<1>3. call[c].then \in {"look", "enter"} /\ issued \in 0..MaxTokens /\ issued <= issued
  BY <1>1, BoundsAssumption DEF IInv, TypeOK, CallsGoOn
<1>4. call[c].at \in Inserting /\ call'[c].at \in Inserting
  BY <1>1, <1>2 DEF Inserting
<1> QED BY <1>1, <1>2, <1>3, <1>4, CallOnlyIInv

LEMMA InsertTokenIInv == ASSUME IInv, NEW c \in Callers, InsertToken(c) PROVE IInv'
<1>1. /\ call[c].at = "insert" /\ tokens' = tokens \cup {call[c].token}
      /\ call' = [call EXCEPT ![c].at = call[c].then, ![c].then = "idle"]
      /\ slot' = slot /\ cells' = cells /\ missed' = missed /\ issued' = issued
  BY DEF InsertToken, At
<1>2. call \in [Callers -> Call] /\ call[c].then \in {"look", "enter"}
  BY <1>1 DEF IInv, TypeOK, CallsGoOn
<1>3. OnlyCallOf(c) /\ call'[c].at = call[c].then /\ call'[c].token = call[c].token
  <2> DEFINE e == [call[c] EXCEPT !.at = call[c].then, !.then = "idle"]
  <2>1. call' = [call EXCEPT ![c] = e]
    BY <1>1, <1>2, Zenon
  <2>2. e \in Call
    <3>1. call[c] \in Call /\ "idle" \in Places
      BY <1>2 DEF Places
    <3>2. call[c].then \in Places
      BY <1>2 DEF Places
    <3> QED BY <3>1, <3>2, MovedCall
  <2> QED BY <1>2, <2>1, <2>2 DEF Call, OnlyCallOf
<1>4. HasToken(c) /\ issued \in 0..MaxTokens /\ issued <= issued
  BY <1>1, BoundsAssumption DEF IInv, TypeOK, HasToken, Inserting
<1>5. call'[c].at \in {"look", "enter"} /\ call'[c].at \notin Inserting
  BY <1>2, <1>3 DEF Inserting
<1> QED BY <1>1, <1>3, <1>4, <1>5, CallOnlyIInv

LEMMA LookIInv == ASSUME IInv, NEW c \in Callers, Look(c) PROVE IInv'
<1>1. PICK place \in {"rebuild", "enter"} : Goes(c, place)
  BY DEF Look
<1>2. OnlyCallOf(c) /\ call'[c].at = place /\ call'[c].token = call[c].token
  BY <1>1, GoesFacts DEF IInv, Places
<1>3. /\ call[c].at = "look" /\ slot' = slot /\ cells' = cells /\ missed' = missed
      /\ tokens' = tokens /\ issued' = issued
  BY DEF Look, At
<1>4. HasToken(c) /\ issued \in 0..MaxTokens /\ issued <= issued /\ call'[c].at \notin Inserting
  BY <1>2, <1>3, BoundsAssumption DEF IInv, TypeOK, HasToken, Building, Inserting
<1> QED BY <1>2, <1>3, <1>4, CallOnlyIInv

LEMMA GetTaskIInv == ASSUME IInv, NEW c \in Callers, GetTask(c) PROVE IInv'
<1>1. OnlyCallOf(c) /\ call'[c].at = "idle"
  BY ReturnsFacts DEF GetTask, IInv
<1>2. /\ slot' = slot /\ cells' = cells /\ missed' = missed
      /\ tokens' = tokens /\ issued' = issued
  BY DEF GetTask
<1>3. call[c].at \notin {"revoke", "wait", "waiting"} /\ Initialised(call[c].cell)
  BY DEF GetTask, At
<1>4. issued \in 0..MaxTokens /\ issued <= issued
  BY BoundsAssumption DEF IInv, TypeOK
<1>5. ~HasToken(c)' /\ call'[c].at \notin Inserting
  BY <1>1 DEF HasToken, At, Building, Inserting
<1> QED BY <1>1, <1>2, <1>3, <1>4, <1>5, CallOnlyIInv

\* Killing an agent leaves the rest of its cell alone.
LEMMA KilledFacts ==
  ASSUME TypeOK, NEW k \in DOMAIN cells, cells' = Killed(k), Initialised(k)
  PROVE  /\ cells' \in Seq(Cell) /\ Len(cells') = Len(cells) /\ DOMAIN cells' = DOMAIN cells
         /\ cells'[k].agent = "killed"
         /\ \A j \in DOMAIN cells : j # k => cells'[j] = cells[j]
         /\ \A j \in DOMAIN cells : cells'[j].queue = cells[j].queue /\ cells'[j].token = cells[j].token
         /\ \A j \in DOMAIN cells : Initialised(j)' <=> Initialised(j)
<1> DEFINE e == [cells[k] EXCEPT !.agent = "killed"]
<1>1. cells[k] \in Cell
  BY CellFacts
<1>2. e \in Cell /\ e.agent = "killed" /\ e.queue = cells[k].queue /\ e.token = cells[k].token
  BY <1>1 DEF Cell
<1>3. cells' = [cells EXCEPT ![k] = e]
  BY LenProperties DEF Killed, TypeOK
<1> HIDE DEF e
<1> QED BY <1>2, <1>3, CellReplaced DEF Initialised

\* Whoever removes a cell awaits the builders queued for it by now.
LEMMA RemoveIInv ==
  ASSUME IInv, NEW c \in Callers, NEW then \in {"idle", "refresh", "wait"}, Remove(c, then),
         call[c].at \in {"idle", "rebuild"}, then = "refresh" => call[c].at = "rebuild"
  PROVE  IInv'
<1> USE DEF IInv
<1>1. /\ slot # 0 /\ slot' = 0 /\ cells' = cells /\ tokens' = tokens
      /\ issued' = issued /\ missed' = missed
  BY DEF Remove
<1>2. slot \in DOMAIN cells /\ slot \in 0..MaxCells /\ Waiting(slot) \subseteq Callers
  BY <1>1, CellFacts, LenProperties DEF TypeOK, Waiting
<1>3. /\ call' \in [Callers -> Call] /\ \A b \in Callers : b # c => call'[b] = call[b]
      /\ call'[c].at = "revoke" /\ call'[c].then = then /\ call'[c].cell = slot
      /\ call'[c].met = Waiting(slot) /\ call'[c].token = call[c].token
  <2> DEFINE e == [call[c] EXCEPT !.at = "revoke", !.then = then, !.cell = slot, !.met = Waiting(slot)]
  <2>1. call \in [Callers -> Call]
    BY DEF TypeOK
  <2>2. call' = [call EXCEPT ![c].at = "revoke", ![c].then = then, ![c].cell = slot, ![c].met = Waiting(slot)]
    BY DEF Remove
  <2>3. call' = [call EXCEPT ![c] = e]
    BY <2>1, <2>2, Zenon
  <2>4. e \in Call
    <3>1. call[c] \in Call /\ "revoke" \in Places /\ then \in Places /\ Waiting(slot) \in SUBSET Callers
      BY <2>1, <1>2 DEF Places
    <3> QED BY <3>1, <1>2, CellCall, Zenon
  <2> QED BY <2>1, <2>3, <2>4 DEF Call
<1>4. TypeOK'
  BY <1>1, <1>2, <1>3, LenProperties DEF TypeOK
<1>5. InitialisedIsFinal'
  BY <1>1 DEF InitialisedIsFinal, Initialised
<1>6. \A k : Revoking(k)' <=> Revoking(k) \/ k = slot
  BY <1>3 DEF Revoking, At
<1>7. CallsGoOn' /\ FreshTokensAreOwn' /\ BuildersHaveToken'
  <2>1. call'[c].at \notin Inserting /\ (HasToken(c)' => HasToken(c) /\ call'[c].token = call[c].token)
    BY <1>3 DEF HasToken, At, Building, Inserting
  <2>2. CallsGoOn' /\ FreshTokensAreOwn' /\ \A b \in Callers : HasToken(b)' => call'[b].token \in 1..issued'
    BY <1>1, <1>3, <2>1, TokensStay DEF Initialised
  <2> QED BY <1>1, <1>3, <1>6, <2>2 DEF BuildersHaveToken
<1>8. RemovedIsAwaited'
  <2> SUFFICES ASSUME NEW k \in DOMAIN cells, k \notin missed, cells[k].agent # "killed"
               PROVE  \E a \in Callers : Awaits(a, k)'
    BY <1>1 DEF RemovedIsAwaited
  <2>1. CASE k = slot
    BY <2>1, <1>3 DEF Awaits
  <2>2. CASE k # slot
    <3>1. PICK a \in Callers : Awaits(a, k)
      BY <2>2 DEF RemovedIsAwaited
    <3> QED BY <3>1, <1>3 DEF Awaits
  <2> QED BY <2>1, <2>2
<1>9. RemovedAgentsHaveNoToken'
  BY <1>1, <1>6 DEF RemovedAgentsHaveNoToken, Initialised
<1>10. QueueHoldsQueued'
  <2>1. \A b \in Callers, k \in DOMAIN cells : Queued(b, k)' <=> Queued(b, k)
    BY <1>3 DEF Queued
  <2> QED BY <2>1, <1>1, QueueStays DEF QueueHoldsQueued, Initialised
<1>11. MetAreAhead'
  <2> SUFFICES ASSUME NEW a \in Callers, NEW k \in DOMAIN cells, Awaits(a, k)'
               PROVE  /\ k # 0
                      /\ \A b \in call'[a].met : ~(call'[b].at = "init" /\ call'[b].cell = k)
                      /\ \A i \in DOMAIN cells[k].queue, b \in call'[a].met :
                           cells[k].queue[i] = a /\ call'[b].at = "queued" /\ call'[b].cell = k =>
                               \E j \in DOMAIN cells[k].queue : j < i /\ cells[k].queue[j] = b
    BY <1>1 DEF MetAreAhead
  <2>1. k # 0
    BY CellFacts
  <2>2. CASE a = c
    <3>1. k = slot
      BY <2>2, <1>3 DEF Awaits
    <3>2. \A b \in Waiting(slot) : b \in Callers /\ b # c /\ call[b].at # "init"
      BY <1>2 DEF Waiting, QueueHoldsQueued, QueueIsExact, Queued
    <3>3. \A i \in DOMAIN cells[k].queue : cells[k].queue[i] # c
      BY DEF QueueHoldsQueued, QueueIsExact, Queued
    <3> QED BY <2>1, <2>2, <3>1, <3>2, <3>3, <1>3
  <2>3. CASE a # c
    <3>1. Awaits(a, k) /\ call'[a] = call[a] /\ call[a].met \subseteq Callers
      BY <2>3, <1>3 DEF Awaits, TypeOK, Call
    <3>2. \A b \in Callers : call'[b].at \in {"init", "queued"} => call'[b] = call[b]
      BY <1>3
    <3> QED BY <2>1, <3>1, <3>2 DEF MetAreAhead
  <2> QED BY <2>2, <2>3
<1> QED BY <1>4, <1>5, <1>7, <1>8, <1>9, <1>10, <1>11

LEMMA KillIInv == ASSUME IInv, NEW c \in Callers, Kill(c) PROVE IInv'
  BY RemoveIInv DEF Kill, At

LEMMA KillAndWaitIInv == ASSUME IInv, NEW c \in Callers, KillAndWait(c) PROVE IInv'
  BY RemoveIInv DEF KillAndWait, At

LEMMA RebuildIInv == ASSUME IInv, NEW c \in Callers, Rebuild(c) PROVE IInv'
<1>1. call[c].at = "rebuild"
  BY DEF Rebuild, At
<1>2. CASE slot # 0
  BY <1>1, <1>2, RemoveIInv DEF Rebuild
<1>3. CASE slot = 0
  <2>1. /\ Goes(c, "refresh") /\ slot' = slot /\ cells' = cells /\ missed' = missed
        /\ tokens' = tokens /\ issued' = issued
    BY <1>3 DEF Rebuild
  <2>2. OnlyCallOf(c) /\ call'[c].at = "refresh" /\ call'[c].token = call[c].token
    BY <2>1, GoesFacts DEF IInv, Places
  <2>3. HasToken(c) /\ issued \in 0..MaxTokens /\ issued <= issued /\ call'[c].at \notin Inserting
    BY <1>1, <2>2, BoundsAssumption DEF IInv, TypeOK, HasToken, Building, Inserting
  <2> QED BY <1>1, <2>1, <2>2, <2>3, CallOnlyIInv
<1> QED BY <1>2, <1>3

\* The tokens go and the agent of the removed cell, if it has one; the caller is done,
\* refreshes its token or waits.
LEMMA RevokeIInv == ASSUME IInv, NEW c \in Callers, Revoke(c) PROVE IInv'
<1> USE DEF IInv
<1> DEFINE k == call[c].cell
<1>1. /\ call[c].at = "revoke" /\ tokens' = {} /\ KillFound(c)
      /\ slot' = slot /\ issued' = issued
  BY DEF Revoke, At
<1>2. k \in DOMAIN cells /\ k # slot
  BY <1>1 DEF TypeOK, HoldingCell, MetAreAhead, Awaits
<1>3. /\ call' \in [Callers -> Call] /\ \A b \in Callers : b # c => call'[b] = call[b]
      /\ \/ call'[c].at = "idle" /\ (call[c].then = "wait" => Initialised(k))
         \/ /\ call'[c].at = "refresh" /\ call[c].then = "refresh"
            /\ call'[c].token = call[c].token
         \/ /\ call'[c].at = "wait" /\ call[c].then = "wait" /\ ~Initialised(k)
            /\ call'[c].cell = k /\ call'[c].met = call[c].met
  <2>1. call \in [Callers -> Call] /\ call[c] \in Call
    BY DEF TypeOK
  <2>2. CASE call' = [call EXCEPT ![c].at = "refresh", ![c].then = "idle", ![c].cell = 0, ![c].met = {}]
             /\ call[c].then = "refresh"
    <3> DEFINE e == [call[c] EXCEPT !.at = "refresh", !.then = "idle", !.cell = 0, !.met = {}]
    <3>1. call' = [call EXCEPT ![c] = e]
      BY <2>1, <2>2, Zenon
    <3>2. e \in Call
      <4>1. /\ "refresh" \in Places /\ "idle" \in Places /\ 0 \in 0..MaxCells
            /\ {} \in SUBSET Callers
        BY BoundsAssumption DEF Places
      <4> QED BY <2>1, <4>1, CellCall, Zenon
    <3> QED BY <2>1, <2>2, <3>1, <3>2 DEF Call
  <2>3. CASE call' = [call EXCEPT ![c].at = "wait", ![c].then = "idle"]
             /\ call[c].then = "wait" /\ ~Initialised(k)
    <3> DEFINE e == [call[c] EXCEPT !.at = "wait", !.then = "idle"]
    <3>1. call' = [call EXCEPT ![c] = e]
      BY <2>1, <2>3, Zenon
    <3>2. e \in Call
      <4>1. "wait" \in Places /\ "idle" \in Places /\ 0 \in 0..MaxCells /\ {} \in SUBSET Callers
        BY BoundsAssumption DEF Places
      <4> QED BY <2>1, <4>1, CellCall, Zenon
    <3> QED BY <2>1, <2>3, <3>1, <3>2 DEF Call
  <2>4. CASE Returns(c) /\ (call[c].then = "idle" \/ (call[c].then = "wait" /\ Initialised(k)))
    <3>1. OnlyCallOf(c) /\ call'[c].at = "idle"
      BY <2>4, ReturnsFacts
    <3> QED BY <2>4, <3>1 DEF OnlyCallOf
  <2> QED BY <1>1, <2>2, <2>3, <2>4 DEF KillFound
<1>4. /\ cells' \in Seq(Cell) /\ Len(cells') = Len(cells) /\ DOMAIN cells' = DOMAIN cells
      /\ \A j \in DOMAIN cells : j # k => cells'[j] = cells[j]
      /\ \A j \in DOMAIN cells : cells'[j].queue = cells[j].queue /\ cells'[j].token = cells[j].token
      /\ \A j \in DOMAIN cells : Initialised(j)' <=> Initialised(j)
      /\ cells'[k].agent = "killed" \/ k \in missed' \/ (call[c].then = "wait" /\ ~Initialised(k))
      /\ missed \subseteq missed' /\ missed' \subseteq DOMAIN cells
  <2>1. CASE Initialised(k)
    BY <2>1, <1>1, <1>2, KilledFacts DEF KillFound, TypeOK
  <2>2. CASE ~Initialised(k)
    BY <2>2, <1>1, <1>2 DEF KillFound, TypeOK, Initialised
  <2> QED BY <2>1, <2>2
<1>5. call[c].then \in {"idle", "refresh", "wait"}
  BY <1>1 DEF CallsGoOn
<1> HIDE DEF k
<1>6. TypeOK'
  BY <1>1, <1>2, <1>3, <1>4, LenProperties DEF TypeOK, HoldingCell
<1>7. InitialisedIsFinal'
  BY <1>1, <1>4 DEF InitialisedIsFinal
<1>8. CallsGoOn' /\ FreshTokensAreOwn' /\ BuildersHaveToken'
  <2>1. call'[c].at \notin Inserting \cup {"revoke"}
    BY <1>3 DEF Inserting
  <2>2. HasToken(c)' => HasToken(c) /\ call'[c].token = call[c].token
    BY <1>1, <1>3 DEF HasToken, At, Building, Inserting
  <2>3. CallsGoOn' /\ FreshTokensAreOwn' /\ \A b \in Callers : HasToken(b)' => call'[b].token \in 1..issued'
    BY <1>1, <1>3, <1>4, <2>1, <2>2, TokensStay
  <2> QED BY <1>1, <2>3 DEF BuildersHaveToken
<1>9. RemovedIsAwaited'
  <2> SUFFICES ASSUME NEW j \in DOMAIN cells \ ({slot} \cup missed'), cells'[j].agent # "killed"
               PROVE  \E a \in Callers : Awaits(a, j)'
    BY <1>1, <1>4 DEF RemovedIsAwaited
  <2>1. CASE j = k
    <3>1. call'[c].at = "wait" /\ call'[c].cell = k
      BY <2>1, <1>3, <1>4, <1>5
    <3> QED BY <2>1, <3>1 DEF Awaits
  <2>2. CASE j # k
    <3>1. cells[j].agent # "killed" /\ j \notin missed
      BY <2>2, <1>4
    <3>2. PICK a \in Callers : Awaits(a, j)
      BY <3>1 DEF RemovedIsAwaited
    <3>3. a # c
      BY <2>2, <3>2 DEF Awaits, k
    <3> QED BY <3>2, <3>3, <1>3 DEF Awaits
  <2> QED BY <2>1, <2>2
<1>10. RemovedAgentsHaveNoToken'
  BY <1>1 DEF RemovedAgentsHaveNoToken
<1>11. QueueHoldsQueued'
  <2>1. \A b \in Callers, j \in DOMAIN cells : Queued(b, j)' <=> Queued(b, j)
    BY <1>1, <1>3 DEF Queued
  <2> QED BY <2>1, <1>4, QueueStays DEF QueueHoldsQueued
<1>12. MetAreAhead'
  <2>1. \A a \in Callers, j \in DOMAIN cells :
          Awaits(a, j)' => Awaits(a, j) /\ call'[a].met = call[a].met /\ call[a].met \subseteq Callers
    BY <1>1, <1>3 DEF Awaits, TypeOK, Call, k
  <2>2. \A b \in Callers : call'[b].at \in {"init", "queued"} => call'[b] = call[b]
    BY <1>3
  <2> QED BY <2>1, <2>2, <1>1, <1>4 DEF MetAreAhead
<1> QED BY <1>6, <1>7, <1>8, <1>9, <1>10, <1>11, <1>12

\* The agent of the build it met is killed.
LEMMA KillBuiltIInv == ASSUME IInv, NEW c \in Callers, KillBuilt(c) PROVE IInv'
<1> USE DEF IInv
<1> DEFINE k == call[c].cell
<1>1. /\ call[c].at \in {"wait", "waiting"} /\ Initialised(k) /\ cells' = Killed(k) /\ Returns(c)
      /\ slot' = slot /\ tokens' = tokens /\ issued' = issued /\ missed' = missed
  BY DEF KillBuilt, At
<1>2. k \in DOMAIN cells
  BY <1>1 DEF TypeOK, HoldingCell
<1>3. OnlyCallOf(c) /\ call'[c].at = "idle"
  BY <1>1, ReturnsFacts
<1> HIDE DEF k
<1>4. /\ cells' \in Seq(Cell) /\ Len(cells') = Len(cells) /\ DOMAIN cells' = DOMAIN cells
      /\ cells'[k].agent = "killed"
      /\ \A j \in DOMAIN cells : j # k => cells'[j] = cells[j]
      /\ \A j \in DOMAIN cells : cells'[j].queue = cells[j].queue /\ cells'[j].token = cells[j].token
      /\ \A j \in DOMAIN cells : Initialised(j)' <=> Initialised(j)
  BY <1>1, <1>2, KilledFacts
<1>5. /\ call' \in [Callers -> Call] /\ \A b \in Callers : b # c => call'[b] = call[b]
      /\ \A b \in Callers : call'[b].at \in HoldingCell => b # c
  BY <1>3 DEF OnlyCallOf, HoldingCell
<1>6. TypeOK'
  BY <1>1, <1>4, <1>5 DEF TypeOK
<1>7. InitialisedIsFinal'
  BY <1>1, <1>4 DEF InitialisedIsFinal
<1>8. CallsGoOn' /\ FreshTokensAreOwn' /\ BuildersHaveToken'
  <2>1. \A j : Revoking(j)' <=> Revoking(j)
    BY <1>1, <1>3, <1>5 DEF Revoking, At
  <2>2. ~HasToken(c)' /\ call'[c].at \notin Inserting \cup {"revoke"}
    BY <1>3 DEF HasToken, At, Building, Inserting
  <2>3. CallsGoOn' /\ FreshTokensAreOwn' /\ \A b \in Callers : HasToken(b)' => call'[b].token \in 1..issued'
    BY <1>1, <1>4, <1>5, <2>2, TokensStay
  <2> QED BY <1>1, <1>5, <2>1, <2>3 DEF BuildersHaveToken, HoldingCell
<1>9. RemovedIsAwaited'
  <2> SUFFICES ASSUME NEW j \in DOMAIN cells \ ({slot} \cup missed), cells'[j].agent # "killed"
               PROVE  \E a \in Callers : Awaits(a, j)'
    BY <1>1, <1>4 DEF RemovedIsAwaited
  <2>1. j # k /\ cells[j].agent # "killed"
    BY <1>4
  <2>2. PICK a \in Callers : Awaits(a, j)
    BY <2>1 DEF RemovedIsAwaited
  <2>3. a # c
    BY <2>1, <2>2 DEF Awaits, k
  <2> QED BY <2>2, <2>3, <1>5 DEF Awaits
<1>10. RemovedAgentsHaveNoToken'
  <2>1. \A j : Revoking(j)' <=> Revoking(j)
    BY <1>1, <1>3, <1>5 DEF Revoking, At
  <2> QED BY <1>1, <1>4, <2>1 DEF RemovedAgentsHaveNoToken
<1>11. QueueHoldsQueued'
  <2>1. ASSUME NEW j \in DOMAIN cells
        PROVE  \/ cells[j].queue = <<>> /\ Initialised(j)
               \/ \A b \in Callers : Queued(b, j)' <=> Queued(b, j)
    BY <1>1, <1>3, <1>5 DEF InitialisedIsFinal, Queued, k
  <2> QED BY <2>1, <1>4, QueueStays DEF QueueHoldsQueued
<1>12. MetAreAhead'
  <2>1. \A a \in Callers, j \in DOMAIN cells :
          Awaits(a, j)' => Awaits(a, j) /\ call'[a].met = call[a].met /\ call[a].met \subseteq Callers
    BY <1>3, <1>5 DEF Awaits, TypeOK, Call
  <2>2. \A b \in Callers : call'[b].at \in {"init", "queued"} => call'[b] = call[b]
    BY <1>5 DEF HoldingCell
  <2> QED BY <2>1, <2>2, <1>1, <1>4 DEF MetAreAhead
<1> QED BY <1>6, <1>7, <1>8, <1>9, <1>10, <1>11, <1>12

\* The caller gets the cell of the map, a new one if there is none.
LEMMA EnterIInv == ASSUME IInv, NEW c \in Callers, Enter(c) PROVE IInv'
<1> USE DEF IInv
<1>1. /\ call[c].at = "enter" /\ tokens' = tokens /\ issued' = issued /\ missed' = missed
      /\ issued \in 0..MaxTokens /\ tokens \subseteq 1..issued /\ MaxTokens \in Nat /\ MaxCells \in Nat
  BY BoundsAssumption DEF Enter, At, TypeOK
<1>2. /\ cells' \in Seq(Cell) /\ Len(cells') <= MaxCells /\ Len(cells') \in Nat
      /\ DOMAIN cells' = DOMAIN cells \cup {slot'}
      /\ slot' \in 1..Len(cells') /\ slot \in {0, slot'}
      /\ \A j \in DOMAIN cells : cells'[j] = cells[j] /\ j # 0 /\ (j # slot' \/ slot' = slot)
      /\ slot' \notin DOMAIN cells => cells'[slot'] = EmptyCell
  <2>1. Len(cells) \in Nat /\ Len(cells) <= MaxCells /\ DOMAIN cells = 1..Len(cells) /\ slot \in 0..Len(cells)
    BY LenProperties DEF TypeOK
  <2>2. CASE slot # 0
    BY <2>1, <2>2 DEF Enter, TypeOK
  <2>3. CASE slot = 0
    <3>1. cells' = Append(cells, EmptyCell) /\ Len(cells) < MaxCells /\ slot' = Len(cells) + 1
      BY <2>3 DEF Enter
    <3> QED BY <2>1, <2>3, <3>1, CellAdded
  <2> QED BY <2>2, <2>3
<1>3. /\ call' \in [Callers -> Call] /\ \A b \in Callers : b # c => call'[b] = call[b]
      /\ call'[c].at = "init" /\ call'[c].cell = slot' /\ call'[c].token = call[c].token
  <2>1. call \in [Callers -> Call] /\ slot' \in 0..MaxCells
    BY <1>1, <1>2 DEF TypeOK
  <2>2. call' = [call EXCEPT ![c] = [call[c] EXCEPT !.at = "init", !.cell = slot']]
    <3>1. call' = [call EXCEPT ![c].at = "init", ![c].cell = slot']
      BY DEF Enter
    <3> QED BY <2>1, <3>1, Zenon
  <2>3. [call[c] EXCEPT !.at = "init", !.cell = slot'] \in Call
    <3>1. call[c] \in Call /\ "init" \in Places /\ {} \in SUBSET Callers
      BY <2>1 DEF Places
    <3> QED BY <2>1, <3>1, CellCall, Zenon
  <2> QED BY <2>1, <2>2, <2>3 DEF Call
<1>4. TypeOK'
  BY <1>1, <1>2, <1>3 DEF TypeOK, HoldingCell
<1>5. InitialisedIsFinal'
  BY <1>1, <1>2 DEF InitialisedIsFinal, Initialised, EmptyCell
<1>6. CallsGoOn' /\ FreshTokensAreOwn' /\ BuildersHaveToken' /\ \A k : Revoking(k)' <=> Revoking(k)
  <2>1. \A k : Revoking(k)' <=> Revoking(k)
    BY <1>1, <1>3 DEF Revoking, At
  <2>2. HasToken(c) /\ call[c].at \notin Inserting /\ call'[c].at \notin Inserting
    BY <1>1, <1>3 DEF HasToken, Building, Inserting
  <2>3. \A k \in DOMAIN cells' : Initialised(k)' =>
           k \in DOMAIN cells /\ Initialised(k) /\ cells'[k].token = cells[k].token
    BY <1>2 DEF Initialised, EmptyCell
  <2>4. CallsGoOn' /\ FreshTokensAreOwn' /\ \A b \in Callers : HasToken(b)' => call'[b].token \in 1..issued'
    BY <1>1, <1>3, <2>2, <2>3, TokensStay
  <2>5. ASSUME NEW b \in Callers, call'[b].at \in {"init", "queued"}, call'[b].cell # slot',
               ~Revoking(call'[b].cell)
        PROVE  call'[b].token \notin tokens
    <3>1. b # c /\ call'[b] = call[b] /\ call[b].cell \in DOMAIN cells
      BY <2>5, <1>3 DEF TypeOK, HoldingCell
    <3> QED BY <2>5, <3>1, <1>2 DEF BuildersHaveToken
  <2> QED BY <1>1, <2>1, <2>4, <2>5 DEF BuildersHaveToken
<1>7. RemovedIsAwaited'
  <2> SUFFICES ASSUME NEW k \in DOMAIN cells', k # slot', k \notin missed, cells'[k].agent # "killed"
               PROVE  \E a \in Callers : Awaits(a, k)'
    BY <1>1 DEF RemovedIsAwaited
  <2>1. k \in DOMAIN cells \ ({slot} \cup missed) /\ cells[k].agent # "killed"
    BY <1>2
  <2>2. PICK a \in Callers : Awaits(a, k)
    BY <2>1 DEF RemovedIsAwaited
  <2> QED BY <2>2, <1>1, <1>3 DEF Awaits
<1>8. RemovedAgentsHaveNoToken'
  BY <1>1, <1>2, <1>6 DEF RemovedAgentsHaveNoToken, Initialised, EmptyCell
<1>9. QueueHoldsQueued'
  <2>1. \A b \in Callers, k \in DOMAIN cells : Queued(b, k)' <=> Queued(b, k)
    BY <1>1, <1>3 DEF Queued
  <2>2. ASSUME NEW k \in DOMAIN cells', k \notin DOMAIN cells
        PROVE  cells'[k].queue = <<>> /\ \A b \in Callers : ~Queued(b, k)'
    <3>1. k = slot' /\ cells'[k] = EmptyCell
      BY <2>2, <1>2
    <3>2. \A b \in Callers : call[b].at \in {"queued", "waiting"} => call[b].cell # k
      BY <2>2 DEF TypeOK, HoldingCell
    <3> QED BY <3>1, <3>2, <1>3 DEF EmptyCell, Queued
  <2>3. \A k \in DOMAIN cells : cells'[k] = cells[k] /\ (Initialised(k)' <=> Initialised(k))
    BY <1>2 DEF Initialised
  <2>4. ASSUME NEW k \in DOMAIN cells', k \in DOMAIN cells PROVE QueueIsExact(k)'
    BY <2>1, <2>3, <2>4, QueueStays DEF QueueHoldsQueued
  <2>5. ASSUME NEW k \in DOMAIN cells', k \notin DOMAIN cells PROVE QueueIsExact(k)'
    BY <2>2, <2>5 DEF QueueIsExact
  <2> QED BY <2>4, <2>5 DEF QueueHoldsQueued
<1>10. MetAreAhead'
  <2> SUFFICES ASSUME NEW a \in Callers, NEW k \in DOMAIN cells', Awaits(a, k)'
               PROVE  /\ k # slot'
                      /\ \A b \in call'[a].met : ~(call'[b].at = "init" /\ call'[b].cell = k)
                      /\ \A i \in DOMAIN cells'[k].queue, b \in call'[a].met :
                           cells'[k].queue[i] = a /\ call'[b].at = "queued" /\ call'[b].cell = k =>
                               \E j \in DOMAIN cells'[k].queue : j < i /\ cells'[k].queue[j] = b
    BY DEF MetAreAhead
  <2>1. Awaits(a, k) /\ call'[a] = call[a] /\ call[a].met \subseteq Callers
    BY <1>1, <1>3 DEF Awaits, TypeOK, Call
  <2>2. k \in DOMAIN cells /\ k # slot
    BY <2>1 DEF Awaits, TypeOK, HoldingCell, MetAreAhead
  <2>3. k # slot' /\ cells'[k] = cells[k]
    BY <2>2, <1>2
  <2>4. \A b \in Callers : call'[b].at \in {"init", "queued"} /\ call'[b].cell = k => call'[b] = call[b]
    BY <2>3, <1>3
  <2> QED BY <2>1, <2>2, <2>3, <2>4 DEF MetAreAhead
<1> QED BY <1>4, <1>5, <1>6, <1>7, <1>8, <1>9, <1>10

\* Queueing for an empty cell, as a builder or as one who awaits it.
LEMMA JoinQueueIInv ==
  ASSUME IInv, NEW c \in Callers, NEW k \in DOMAIN cells, ~Initialised(k), call[c].cell = k,
         cells' = [cells EXCEPT ![k].queue = Append(@, c)],
         slot' = slot, tokens' = tokens, issued' = issued, missed' = missed,
         \/ call[c].at = "init" /\ Goes(c, "queued")
         \/ call[c].at = "wait" /\ Goes(c, "waiting")
  PROVE  IInv'
<1> USE DEF IInv
<1> DEFINE q == cells[k].queue
           e == [cells[k] EXCEPT !.queue = Append(q, c)]
<1>1. /\ cells[k] \in Cell /\ q \in Seq(Callers) /\ DOMAIN q = 1..Len(q) /\ Len(q) \in Nat
      /\ \A i \in DOMAIN q : q[i] \in Callers
  BY CellFacts
<1>2. /\ Append(q, c) \in Seq(Callers) /\ DOMAIN Append(q, c) = 1..(Len(q) + 1)
      /\ Append(q, c)[Len(q) + 1] = c /\ \A i \in 1..Len(q) : Append(q, c)[i] = q[i]
  BY <1>1, AppendProperties, LenProperties
<1>3. e \in Cell /\ e.queue = Append(q, c) /\ e.agent = cells[k].agent /\ e.token = cells[k].token
  BY <1>1, <1>2 DEF Cell
<1>4. cells' = [cells EXCEPT ![k] = e]
  BY LenProperties DEF TypeOK
<1> HIDE DEF e
<1>5. /\ cells' \in Seq(Cell) /\ Len(cells') = Len(cells) /\ DOMAIN cells' = DOMAIN cells
      /\ cells'[k] = e /\ \A j \in DOMAIN cells : j # k => cells'[j] = cells[j]
      /\ \A j \in DOMAIN cells : cells'[j].agent = cells[j].agent /\ cells'[j].token = cells[j].token
      /\ \A j \in DOMAIN cells : Initialised(j)' <=> Initialised(j)
  BY <1>3, <1>4, CellReplaced DEF Initialised
<1>6. PICK place \in {"queued", "waiting"} :
        /\ place = "queued" <=> call[c].at = "init"
        /\ call[c].at \in {"init", "wait"}
        /\ call' \in [Callers -> Call] /\ \A b \in Callers : b # c => call'[b] = call[b]
        /\ call'[c].at = place /\ call'[c].cell = k /\ call'[c].token = call[c].token
        /\ call'[c].met = call[c].met /\ call'[c].then = call[c].then
  BY GoesFacts DEF OnlyCallOf, Places
<1>7. \A i \in DOMAIN q : q[i] # c
  BY <1>6 DEF QueueHoldsQueued, QueueIsExact, Queued
<1> HIDE DEF q
<1>8. TypeOK'
  <2>1. \A b \in Callers : call'[b].at \in HoldingCell => call'[b].cell \in DOMAIN cells
    BY <1>6 DEF TypeOK
  <2> QED BY <2>1, <1>5, <1>6 DEF TypeOK
<1>9. InitialisedIsFinal'
  BY <1>5 DEF InitialisedIsFinal, Initialised
<1>10. CallsGoOn' /\ FreshTokensAreOwn' /\ BuildersHaveToken' /\ \A j : Revoking(j)' <=> Revoking(j)
  <2>1. \A j : Revoking(j)' <=> Revoking(j)
    BY <1>6 DEF Revoking, At
  <2>2. call'[c].at \notin Inserting /\ (HasToken(c)' => HasToken(c) /\ call'[c].token = call[c].token)
    BY <1>6 DEF HasToken, At, Building, Inserting
  <2>3. CallsGoOn' /\ FreshTokensAreOwn' /\ \A b \in Callers : HasToken(b)' => call'[b].token \in 1..issued'
    BY <1>5, <1>6, <2>2, TokensStay
  <2> QED BY <1>6, <2>1, <2>3 DEF BuildersHaveToken
<1>11. RemovedIsAwaited'
  <2>1. \A a \in Callers, j \in DOMAIN cells : Awaits(a, j) => Awaits(a, j)'
    BY <1>6 DEF Awaits
  <2> QED BY <2>1, <1>5 DEF RemovedIsAwaited
<1>12. RemovedAgentsHaveNoToken'
  BY <1>5, <1>10 DEF RemovedAgentsHaveNoToken
<1>13. QueueHoldsQueued'
  <2> SUFFICES ASSUME NEW j \in DOMAIN cells PROVE QueueIsExact(j)'
    BY <1>5 DEF QueueHoldsQueued
  <2>1. \A b \in Callers : b # c => (Queued(b, j)' <=> Queued(b, j))
    BY <1>6 DEF Queued
  <2>2. QueueIsExact(j)
    BY DEF QueueHoldsQueued
  <2>3. CASE j = k
    <3>1. cells'[j].queue = Append(q, c) /\ q = cells[j].queue /\ Queued(c, j)' /\ ~Initialised(j)
      BY <2>3, <1>3, <1>5, <1>6 DEF q, Queued
    <3>2. \A i \in DOMAIN Append(q, c) :
             \/ i \in DOMAIN q /\ Append(q, c)[i] = q[i]
             \/ i = Len(q) + 1
      BY <1>1, <1>2
    <3>3. ASSUME NEW i \in DOMAIN Append(q, c), NEW b \in Callers, Append(q, c)[i] = b
          PROVE  Queued(b, j)'
      <4>1. \/ b = c
            \/ i \in DOMAIN q /\ q[i] = b
        BY <3>2, <3>3, <1>1, <1>2
      <4>2. CASE b = c
        BY <4>2, <3>1
      <4>3. CASE b # c /\ i \in DOMAIN q /\ q[i] = b
        BY <4>3, <2>1, <2>2, <3>1 DEF QueueIsExact
      <4> QED BY <4>1, <4>2, <4>3
    <3>4. \A i, l \in DOMAIN Append(q, c) : Append(q, c)[i] = Append(q, c)[l] => i = l
      BY <2>2, <3>1, <3>2, <1>1, <1>2, <1>7 DEF QueueIsExact
    <3>5. ASSUME NEW b \in Callers, Queued(b, j)'
          PROVE  \E i \in DOMAIN Append(q, c) : Append(q, c)[i] = b
      <4>1. CASE b = c
        BY <4>1, <1>1, <1>2
      <4>2. CASE b # c
        <5>1. PICK i \in DOMAIN q : q[i] = b
          BY <4>2, <3>5, <2>1, <2>2, <3>1 DEF QueueIsExact
        <5> QED BY <5>1, <1>1, <1>2
      <4> QED BY <4>1, <4>2
    <3>6. \A i \in DOMAIN Append(q, c) : Append(q, c)[i] \in Callers
      BY <3>2, <1>1, <1>2
    <3> QED BY <3>1, <3>3, <3>4, <3>5, <3>6, QueueBecomes
  <2>4. CASE j # k
    <3>1. cells'[j] = cells[j] /\ ~Queued(c, j)' /\ ~Queued(c, j)
      BY <2>4, <1>5, <1>6 DEF Queued
    <3>2. \A b \in Callers : Queued(b, j)' <=> Queued(b, j)
      BY <2>1, <3>1
    <3>3. Initialised(j)' <=> Initialised(j)
      BY <1>5
    <3> QED BY <2>2, <3>1, <3>2, <3>3, QueueStays
  <2> QED BY <2>3, <2>4
<1>14. MetAreAhead'
  <2> SUFFICES ASSUME NEW a \in Callers, NEW j \in DOMAIN cells, Awaits(a, j)'
               PROVE  /\ j # slot
                      /\ \A b \in call'[a].met : ~(call'[b].at = "init" /\ call'[b].cell = j)
                      /\ \A i \in DOMAIN cells'[j].queue, b \in call'[a].met :
                           cells'[j].queue[i] = a /\ call'[b].at = "queued" /\ call'[b].cell = j =>
                               \E l \in DOMAIN cells'[j].queue : l < i /\ cells'[j].queue[l] = b
    <3>1. slot' = slot /\ DOMAIN cells' = DOMAIN cells
      BY <1>5
    <3> QED BY <3>1 DEF MetAreAhead
  <2>1. Awaits(a, j) /\ call'[a].met = call[a].met /\ call[a].met \subseteq Callers
    BY <1>6 DEF Awaits, TypeOK, Call
  <2>2. j # slot /\ \A b \in call'[a].met : ~(call'[b].at = "init" /\ call'[b].cell = j)
    BY <2>1, <1>6 DEF MetAreAhead
  <2>3. ASSUME NEW b \in call'[a].met, call'[b].at = "queued", call'[b].cell = j
        PROVE  b \in Callers /\ b # c /\ Queued(b, j) /\ call[b].at = "queued"
    <3>1. b # c
      BY <2>1, <2>3, <1>6 DEF MetAreAhead
    <3> QED BY <3>1, <2>1, <2>3, <1>6 DEF Queued
  <2>4. ASSUME NEW i \in DOMAIN cells'[j].queue, NEW b \in call'[a].met,
               cells'[j].queue[i] = a, call'[b].at = "queued", call'[b].cell = j
        PROVE  \E l \in DOMAIN cells'[j].queue : l < i /\ cells'[j].queue[l] = b
    <3>1. CASE j # k
      BY <3>1, <2>1, <2>3, <2>4, <1>5 DEF MetAreAhead, Queued
    <3>2. CASE j = k /\ a = c
      <4>1. cells'[j].queue = Append(q, c)
        BY <3>2, <1>3, <1>5
      <4>2. i \in DOMAIN Append(q, c) /\ Append(q, c)[i] = c
        BY <3>2, <2>4, <4>1
      <4>3. i = Len(q) + 1
        BY <4>2, <1>1, <1>2, <1>7
      <4>4. PICK l \in DOMAIN q : q[l] = b
        BY <3>2, <2>3, <2>4 DEF QueueHoldsQueued, QueueIsExact, q
      <4> QED BY <4>1, <4>3, <4>4, <1>1, <1>2
    <3>3. CASE j = k /\ a # c
      <4>1. cells'[j].queue = Append(q, c)
        BY <3>3, <1>3, <1>5
      <4>2. i \in DOMAIN Append(q, c) /\ Append(q, c)[i] = a
        BY <2>4, <4>1
      <4>3. i \in DOMAIN q /\ q[i] = a
        BY <4>2, <3>3, <1>1, <1>2
      <4>4. q = cells[j].queue /\ b \in call[a].met
        BY <3>3, <2>1, <2>4 DEF q
      <4>5. PICK l \in DOMAIN q : l < i /\ q[l] = b
        BY <4>3, <4>4, <2>1, <2>3, <2>4 DEF MetAreAhead, Queued
      <4> QED BY <4>1, <4>5, <1>1, <1>2
    <3> QED BY <3>1, <3>2, <3>3
  <2> QED BY <2>2, <2>4
<1> QED BY <1>8, <1>9, <1>10, <1>11, <1>12, <1>13, <1>14

LEMMA InitialiseIInv == ASSUME IInv, NEW c \in Callers, Initialise(c) PROVE IInv'
<1>1. call[c].at = "init" /\ call[c].cell \in DOMAIN cells
  BY DEF Initialise, At, IInv, TypeOK, HoldingCell
<1> QED BY <1>1, JoinQueueIInv DEF Initialise

LEMMA AwaitBuildIInv == ASSUME IInv, NEW c \in Callers, AwaitBuild(c) PROVE IInv'
<1>1. call[c].at = "wait" /\ call[c].cell \in DOMAIN cells
  BY DEF AwaitBuild, At, IInv, TypeOK, HoldingCell
<1> QED BY <1>1, JoinQueueIInv DEF AwaitBuild

\* The head of the queue builds the agent; the queue goes.
LEMMA BuiltIInv == ASSUME IInv, NEW c \in Callers, Built(c) PROVE IInv'
<1> USE DEF IInv
<1>1. PICK k \in DOMAIN cells :
        /\ call[c].cell = k /\ call[c].at = "queued" /\ Permitted(c, k)
        /\ cells' = [cells EXCEPT ![k] = [agent |-> "alive", version |-> call[c].version,
                                         token |-> call[c].token, queue |-> <<>>]]
        /\ Returns(c)
        /\ slot' = slot /\ tokens' = tokens /\ issued' = issued /\ missed' = missed
  BY DEF Built, At, TypeOK, HoldingCell
<1> DEFINE e == [agent |-> "alive", version |-> call[c].version, token |-> call[c].token, queue |-> <<>>]
<1>2. /\ call[c] \in Call /\ HasToken(c) /\ call[c].token \in 1..issued
      /\ k # slot /\ ~Revoking(k) => call[c].token \notin tokens
  BY <1>1 DEF TypeOK, BuildersHaveToken, HasToken, Building
<1>3. e \in Cell /\ e.agent = "alive" /\ e.token = call[c].token /\ e.queue = <<>>
  BY <1>2, EmptySeq DEF Cell, Call
<1> HIDE DEF e
<1>4. /\ cells' \in Seq(Cell) /\ Len(cells') = Len(cells) /\ DOMAIN cells' = DOMAIN cells
      /\ cells'[k] = e /\ \A j \in DOMAIN cells : j # k => cells'[j] = cells[j]
  BY <1>1, <1>3, CellReplaced DEF e
<1>5. /\ call' \in [Callers -> Call] /\ \A b \in Callers : b # c => call'[b] = call[b]
      /\ call'[c].at = "idle"
  BY <1>1, ReturnsFacts DEF OnlyCallOf
<1>6. ~Initialised(k)
  BY <1>1 DEF Permitted, InitialisedIsFinal
<1>7. TypeOK'
  BY <1>1, <1>4, <1>5 DEF TypeOK, HoldingCell
<1>8. InitialisedIsFinal'
  BY <1>1, <1>2, <1>3, <1>4 DEF InitialisedIsFinal, Initialised
<1>9. CallsGoOn' /\ FreshTokensAreOwn' /\ BuildersHaveToken' /\ \A j : Revoking(j)' <=> Revoking(j)
  <2>1. \A j : Revoking(j)' <=> Revoking(j)
    BY <1>1, <1>5 DEF Revoking, At
  <2>2. ~HasToken(c)' /\ call[c].at \notin Inserting /\ call'[c].at \notin Inserting
    BY <1>1, <1>5 DEF HasToken, At, Building, Inserting
  <2>3. \A j \in DOMAIN cells' : Initialised(j)' =>
           \/ j \in DOMAIN cells /\ Initialised(j) /\ cells'[j].token = cells[j].token
           \/ cells'[j].token = call[c].token
    BY <1>3, <1>4 DEF Initialised
  <2>4. CallsGoOn' /\ FreshTokensAreOwn' /\ \A b \in Callers : HasToken(b)' => call'[b].token \in 1..issued'
    BY <1>1, <1>2, <1>5, <2>2, <2>3, TokensStay
  <2> QED BY <1>1, <1>5, <2>1, <2>4 DEF BuildersHaveToken
<1>10. RemovedIsAwaited'
  <2> SUFFICES ASSUME NEW j \in DOMAIN cells \ ({slot} \cup missed), cells'[j].agent # "killed"
               PROVE  \E a \in Callers : Awaits(a, j)'
    BY <1>1, <1>4 DEF RemovedIsAwaited
  <2>1. cells[j].agent # "killed"
    BY <1>4, <1>6 DEF Initialised
  <2>2. PICK a \in Callers : Awaits(a, j)
    BY <2>1 DEF RemovedIsAwaited
  <2> QED BY <2>2, <1>1, <1>5 DEF Awaits
<1>11. RemovedAgentsHaveNoToken'
  BY <1>1, <1>2, <1>3, <1>4, <1>9 DEF RemovedAgentsHaveNoToken, Initialised
<1>12. QueueHoldsQueued'
  <2> SUFFICES ASSUME NEW j \in DOMAIN cells PROVE QueueIsExact(j)'
    BY <1>4 DEF QueueHoldsQueued
  <2>1. CASE j = k
    BY <2>1, <1>3, <1>4 DEF QueueIsExact, Initialised
  <2>2. CASE j # k
    <3>1. QueueIsExact(j) /\ cells'[j] = cells[j] /\ (Initialised(j)' <=> Initialised(j))
      BY <2>2, <1>4 DEF QueueHoldsQueued, Initialised
    <3>2. \A b \in Callers : Queued(b, j)' <=> Queued(b, j)
      BY <2>2, <1>1, <1>5 DEF Queued
    <3> QED BY <3>1, <3>2, QueueStays
  <2> QED BY <2>1, <2>2
<1>13. MetAreAhead'
  <2>1. \A a \in Callers, j \in DOMAIN cells :
          Awaits(a, j)' => Awaits(a, j) /\ call'[a].met = call[a].met /\ call[a].met \subseteq Callers
    BY <1>5 DEF Awaits, TypeOK, Call
  <2>2. \A b \in Callers : call'[b].at \in {"init", "queued"} => call'[b] = call[b]
    BY <1>5
  <2>3. \A j \in DOMAIN cells : DOMAIN cells'[j].queue = {} \/ cells'[j] = cells[j]
    BY <1>3, <1>4
  <2> QED BY <2>1, <2>2, <2>3, <1>1, <1>4 DEF MetAreAhead
<1> QED BY <1>7, <1>8, <1>9, <1>10, <1>11, <1>12, <1>13

\* The head of the queue leaves a cell empty: a build that fails, or one that awaited
\* the builds before it.
LEMMA LeaveQueueIInv ==
  ASSUME IInv, NEW c \in Callers, NEW k \in DOMAIN cells, Permitted(c, k), call[c].cell = k,
         cells' = [cells EXCEPT ![k].queue = Tail(@)], Returns(c),
         slot' = slot, tokens' = tokens, issued' = issued,
         \/ call[c].at = "queued" /\ missed' = missed
         \/ call[c].at = "waiting" /\ missed' = missed \cup {k}
  PROVE  IInv'
<1> USE DEF IInv
<1> DEFINE q == cells[k].queue
           e == [cells[k] EXCEPT !.queue = Tail(q)]
<1>1. /\ cells[k] \in Cell /\ q \in Seq(Callers) /\ DOMAIN q = 1..Len(q) /\ Len(q) \in Nat
      /\ \A i \in DOMAIN q : q[i] \in Callers
  BY CellFacts
<1>2. q # <<>> /\ q[1] = c /\ 1 \in DOMAIN q
  BY <1>1, EmptySeq DEF Permitted
<1>3. /\ Tail(q) \in Seq(Callers) /\ DOMAIN Tail(q) = 1..(Len(q) - 1)
      /\ \A i \in 1..(Len(q) - 1) : Tail(q)[i] = q[i + 1]
  BY <1>1, <1>2, HeadTailProperties, LenProperties
<1>4. e \in Cell /\ e.queue = Tail(q) /\ e.agent = cells[k].agent /\ e.token = cells[k].token
  BY <1>1, <1>3 DEF Cell
<1>5. cells' = [cells EXCEPT ![k] = e]
  BY LenProperties DEF TypeOK
<1> HIDE DEF e
<1>6. /\ cells' \in Seq(Cell) /\ Len(cells') = Len(cells) /\ DOMAIN cells' = DOMAIN cells
      /\ cells'[k] = e /\ \A j \in DOMAIN cells : j # k => cells'[j] = cells[j]
      /\ \A j \in DOMAIN cells : cells'[j].agent = cells[j].agent /\ cells'[j].token = cells[j].token
      /\ \A j \in DOMAIN cells : Initialised(j)' <=> Initialised(j)
  BY <1>4, <1>5, CellReplaced DEF Initialised
<1>7. /\ call' \in [Callers -> Call] /\ \A b \in Callers : b # c => call'[b] = call[b]
      /\ call'[c].at = "idle"
  BY ReturnsFacts DEF OnlyCallOf
<1>8. ~Initialised(k)
  BY <1>2 DEF InitialisedIsFinal
<1> HIDE DEF q
<1>9. TypeOK'
  BY <1>6, <1>7 DEF TypeOK, HoldingCell
<1>10. InitialisedIsFinal'
  BY <1>6, <1>8 DEF InitialisedIsFinal, Initialised
<1>11. CallsGoOn' /\ FreshTokensAreOwn' /\ BuildersHaveToken' /\ \A j : Revoking(j)' <=> Revoking(j)
  <2>1. \A j : Revoking(j)' <=> Revoking(j)
    BY <1>7 DEF Revoking, At
  <2>2. ~HasToken(c)' /\ call'[c].at \notin Inserting
    BY <1>7 DEF HasToken, At, Building, Inserting
  <2>3. CallsGoOn' /\ FreshTokensAreOwn' /\ \A b \in Callers : HasToken(b)' => call'[b].token \in 1..issued'
    BY <1>6, <1>7, <2>2, TokensStay
  <2> QED BY <1>7, <2>1, <2>3 DEF BuildersHaveToken
<1>12. RemovedIsAwaited'
  <2> SUFFICES ASSUME NEW j \in DOMAIN cells \ ({slot} \cup missed'), cells'[j].agent # "killed"
               PROVE  \E a \in Callers : Awaits(a, j)'
    BY <1>6 DEF RemovedIsAwaited
  <2>1. PICK a \in Callers : Awaits(a, j)
    BY <1>6 DEF RemovedIsAwaited
  <2>2. a # c
    BY <2>1 DEF Awaits
  <2> QED BY <2>1, <2>2, <1>7 DEF Awaits
<1>13. RemovedAgentsHaveNoToken'
  BY <1>6, <1>11 DEF RemovedAgentsHaveNoToken
<1>14. QueueHoldsQueued'
  <2> SUFFICES ASSUME NEW j \in DOMAIN cells PROVE QueueIsExact(j)'
    BY <1>6 DEF QueueHoldsQueued
  <2>1. QueueIsExact(j)
    BY DEF QueueHoldsQueued
  <2>2. \A b \in Callers : b # c => (Queued(b, j)' <=> Queued(b, j))
    BY <1>7 DEF Queued
  <2>3. ~Queued(c, j)'
    BY <1>7 DEF Queued
  <2>4. CASE j = k
    <3>1. cells'[j].queue = Tail(q) /\ q = cells[j].queue
      BY <2>4, <1>4, <1>6 DEF q
    <3>2. \A i \in DOMAIN Tail(q) : i + 1 \in DOMAIN q /\ i \in Nat /\ i + 1 # 1 /\ Tail(q)[i] = q[i + 1]
      BY <1>1, <1>3
    <3>3. \A i \in DOMAIN Tail(q) : Tail(q)[i] \in Callers /\ Tail(q)[i] # c
      BY <3>1, <3>2, <2>1, <1>1, <1>2 DEF QueueIsExact
    <3>4. ASSUME NEW i \in DOMAIN Tail(q), NEW b \in Callers, Tail(q)[i] = b
          PROVE  Queued(b, j)'
      BY <3>1, <3>2, <3>3, <3>4, <2>1, <2>2 DEF QueueIsExact
    <3>5. \A i, l \in DOMAIN Tail(q) : Tail(q)[i] = Tail(q)[l] => i = l
      BY <3>1, <3>2, <2>1 DEF QueueIsExact
    <3>6. ASSUME NEW b \in Callers, Queued(b, j)'
          PROVE  \E i \in DOMAIN Tail(q) : Tail(q)[i] = b
      <4>1. b # c
        BY <3>6, <2>3
      <4>2. PICK i \in DOMAIN q : q[i] = b
        BY <4>1, <3>1, <3>6, <2>1, <2>2, <2>4, <1>8 DEF QueueIsExact
      <4>3. i - 1 \in DOMAIN Tail(q) /\ Tail(q)[i - 1] = b
        BY <4>1, <4>2, <1>1, <1>2, <1>3
      <4> QED BY <4>3
    <3> QED BY <3>1, <3>3, <3>4, <3>5, <3>6, QueueBecomes
  <2>5. CASE j # k
    <3>1. cells'[j] = cells[j] /\ ~Queued(c, j)
      BY <2>5, <1>6 DEF Queued
    <3>2. \A b \in Callers : Queued(b, j)' <=> Queued(b, j)
      BY <2>2, <2>3, <3>1
    <3>3. Initialised(j)' <=> Initialised(j)
      BY <1>6
    <3> QED BY <2>1, <3>1, <3>2, <3>3, QueueStays
  <2> QED BY <2>4, <2>5
<1>15. MetAreAhead'
  <2> SUFFICES ASSUME NEW a \in Callers, NEW j \in DOMAIN cells, Awaits(a, j)'
               PROVE  /\ j # slot
                      /\ \A b \in call'[a].met : ~(call'[b].at = "init" /\ call'[b].cell = j)
                      /\ \A i \in DOMAIN cells'[j].queue, b \in call'[a].met :
                           cells'[j].queue[i] = a /\ call'[b].at = "queued" /\ call'[b].cell = j =>
                               \E l \in DOMAIN cells'[j].queue : l < i /\ cells'[j].queue[l] = b
    BY <1>6 DEF MetAreAhead
  <2>1. a # c /\ Awaits(a, j) /\ call'[a].met = call[a].met /\ call[a].met \subseteq Callers
    BY <1>7 DEF Awaits, TypeOK, Call
  <2>2. \A b \in Callers : call'[b].at \in {"init", "queued"} => b # c /\ call'[b] = call[b]
    BY <1>7
  <2>3. j # slot /\ \A b \in call'[a].met : ~(call'[b].at = "init" /\ call'[b].cell = j)
    BY <2>1, <2>2 DEF MetAreAhead
  <2>4. ASSUME NEW i \in DOMAIN cells'[j].queue, NEW b \in call'[a].met,
               cells'[j].queue[i] = a, call'[b].at = "queued", call'[b].cell = j
        PROVE  \E l \in DOMAIN cells'[j].queue : l < i /\ cells'[j].queue[l] = b
    <3>1. b \in call[a].met /\ b # c /\ call[b].at = "queued" /\ call[b].cell = j
      BY <2>1, <2>2, <2>4
    <3>2. CASE j # k
      BY <3>1, <3>2, <2>1, <2>4, <1>6 DEF MetAreAhead
    <3>3. CASE j = k
      <4>1. cells'[j].queue = Tail(q) /\ q = cells[j].queue
        BY <3>3, <1>4, <1>6 DEF q
      <4>2. i \in 1..(Len(q) - 1) /\ Tail(q)[i] = a
        BY <4>1, <2>4, <1>3
      <4>3. i \in Nat /\ i + 1 \in DOMAIN q /\ q[i + 1] = a
        BY <4>2, <1>1, <1>3
      <4>4. PICK l \in DOMAIN q : l < i + 1 /\ q[l] = b
        BY <4>1, <4>3, <3>1, <2>1 DEF MetAreAhead
      <4>5. l - 1 \in DOMAIN Tail(q) /\ Tail(q)[l - 1] = b /\ l - 1 < i
        BY <4>3, <4>4, <3>1, <1>1, <1>2, <1>3
      <4> QED BY <4>1, <4>5
    <3> QED BY <3>2, <3>3
  <2> QED BY <2>3, <2>4
<1> QED BY <1>9, <1>10, <1>11, <1>12, <1>13, <1>14, <1>15

LEMMA BuildFailsIInv == ASSUME IInv, NEW c \in Callers, BuildFails(c) PROVE IInv'
<1>1. call[c].at = "queued" /\ call[c].cell \in DOMAIN cells
  BY DEF BuildFails, At, IInv, TypeOK, HoldingCell
<1> QED BY <1>1, LeaveQueueIInv DEF BuildFails

LEMMA NothingBuiltIInv == ASSUME IInv, NEW c \in Callers, NothingBuilt(c) PROVE IInv'
<1>1. call[c].at = "waiting" /\ call[c].cell \in DOMAIN cells
  BY DEF NothingBuilt, At, IInv, TypeOK, HoldingCell
<1> QED BY <1>1, LeaveQueueIInv DEF NothingBuilt

\* Every step keeps the inductive invariant.
LEMMA NextIInv == IInv /\ [Next]_vars => IInv'
<1> SUFFICES ASSUME IInv, [Next]_vars PROVE IInv'
  OBVIOUS
<1>1. ASSUME NEW c \in Callers, GetOrBuild(c) PROVE IInv'
  BY <1>1, RequestIInv, ClearTokensIInv, InsertTokenIInv, LookIInv, RebuildIInv, RefreshTokenIInv, EnterIInv, InitialiseIInv,
     BuiltIInv, BuildFailsIInv, GetTaskIInv DEF GetOrBuild
<1>2. ASSUME NEW c \in Callers, KillWaiting(c) PROVE IInv'
  BY <1>2, AwaitBuildIInv, KillBuiltIInv, NothingBuiltIInv DEF KillWaiting
<1>3. CASE UNCHANGED vars
  BY <1>3 DEF vars, IInv, TypeOK, CallsGoOn, InitialisedIsFinal, FreshTokensAreOwn, BuildersHaveToken,
              RemovedIsAwaited, RemovedAgentsHaveNoToken, QueueHoldsQueued, QueueIsExact, MetAreAhead,
              Queued, Awaits, Initialised, HasToken, Revoking, At
<1>4. ASSUME NEW c \in Callers, Killing(c) PROVE IInv'
  BY <1>4, KillIInv, KillAndWaitIInv, RevokeIInv DEF Killing
<1> QED BY <1>1, <1>2, <1>3, <1>4 DEF Next

\* kill_and_wait returns with an agent that it has killed, or from its turn in the queue
\* when nobody it met is left there.
LEMMA NextOutlastsBuilds == IInv /\ Next => OutlastsBuilds
<1> SUFFICES ASSUME IInv, Next, NEW c \in Callers, Awaiting(c), call'[c].at = "idle"
             PROVE  \/ cells'[call[c].cell].agent = "killed"
                    \/ \A b \in call[c].met : ~(call[b].at = "queued" /\ call[b].cell = call[c].cell)
  BY DEF OutlastsBuilds
<1> DEFINE k == call[c].cell
<1>1. k \in DOMAIN cells /\ call \in [Callers -> Call]
  BY DEF IInv, TypeOK, HoldingCell, Awaiting, At
<1>2. PICK d \in Callers : GetOrBuild(d) \/ Killing(d) \/ KillWaiting(d)
  BY DEF Next
<1>3. CASE d # c
  <2>1. call'[c] = call[c]
    BY <1>1, <1>2, <1>3
       DEF GetOrBuild, Request, RefreshToken, Issue, ClearTokens, InsertToken, Look, Rebuild, Enter,
           Initialise, Built, BuildFails, GetTask, Killing, Kill, KillAndWait, Remove, Revoke, KillFound,
           KillWaiting, AwaitBuild, KillBuilt, NothingBuilt, Goes, Returns
  <2> QED BY <2>1 DEF Awaiting, At
<1>4. CASE d = c
  <2>1. Revoke(c) \/ KillBuilt(c) \/ NothingBuilt(c)
    <3>1. ~GetOrBuild(c) /\ ~Kill(c) /\ ~KillAndWait(c)
      BY DEF GetOrBuild, Request, RefreshToken, ClearTokens, InsertToken, Look, Rebuild, Enter, Initialise,
             Built, BuildFails, GetTask, Kill, KillAndWait, At, Awaiting
    <3>2. ~AwaitBuild(c)
      BY GoesFacts DEF AwaitBuild, IInv, Places
    <3> QED BY <3>1, <3>2, <1>2, <1>4 DEF Killing, KillWaiting
  <2>2. CASE KillBuilt(c)
    BY <2>2, <1>1, KilledFacts DEF KillBuilt, IInv
  <2>3. CASE NothingBuilt(c)
    <3>1. call[c].at = "waiting" /\ cells[k].queue # <<>> /\ Head(cells[k].queue) = c
      BY <2>3 DEF NothingBuilt, Permitted, At
    <3>2. 1 \in DOMAIN cells[k].queue /\ cells[k].queue[1] = c
      BY <3>1, <1>1, CellFacts, EmptySeq DEF IInv
    <3>3. ~\E j \in DOMAIN cells[k].queue : j < 1
      BY <1>1, CellFacts DEF IInv
    <3> QED BY <3>1, <3>2, <3>3, <1>1 DEF IInv, MetAreAhead, Awaits
  <2>4. CASE Revoke(c)
    <3>1. call[c].then = "wait" /\ KillFound(c)
      BY <2>4 DEF Revoke, Awaiting, At
    <3>2. Initialised(k)
      <4> SUFFICES ASSUME ~Initialised(k) PROVE FALSE
        OBVIOUS
      <4>1. call' = [call EXCEPT ![c].at = "wait", ![c].then = "idle"]
        BY <3>1 DEF KillFound
      <4>2. call'[c].at = "wait"
        BY <4>1, <1>1 DEF IInv, TypeOK, Call
      <4> QED BY <4>2
    <3> QED BY <3>1, <3>2, <1>1, KilledFacts DEF KillFound, IInv
  <2> QED BY <2>1, <2>2, <2>3, <2>4
<1> QED BY <1>3, <1>4

----------------------------------------------------------------------------
\* The inductive invariant holds in every reachable state.
THEOREM Invariant == Spec => []IInv
  BY InitIInv, NextIInv, PTL DEF Spec

\* The manager's variables keep their types.
THEOREM TypeCorrect == Spec => []TypeOK
  BY Invariant, PTL DEF IInv

\* Concurrent requests never build an agent that the map does not know.
THEOREM BuildsAreManaged == Spec => []NoAgentEscapesByBuilding
<1>1. IInv => NoAgentEscapesByBuilding
  BY DEF IInv, RemovedIsAwaited, NoAgentEscapesByBuilding, Awaits, Lasting
<1> QED BY <1>1, Invariant, PTL

\* An agent that the manager let go has no token that validates once the removal of its
\* cell has revoked the tokens.
THEOREM TokensAreRevoked == Spec => []RemovedAgentsHaveNoToken
  BY Invariant, PTL DEF IInv

\* kill_and_wait returns only when no build that it met can leave an agent.
THEOREM KillOutlastsBuilds == Spec => KillWaitsForBuilds
<1>1. IInv /\ [Next]_vars => [OutlastsBuilds]_vars
  BY NextOutlastsBuilds
<1> QED BY <1>1, Invariant, PTL DEF Spec, KillWaitsForBuilds
=============================================================================
