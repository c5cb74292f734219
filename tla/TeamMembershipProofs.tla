------------------------ MODULE TeamMembershipProofs ------------------------
(***************************************************************************)
(* Proofs about TeamMembership, for every set of slots and callers and every *)
(* bound on the operations: its tasks use the registry as MemberRuntime      *)
(* describes it, so that everything proved there holds here; a member that   *)
(* was removed is forgotten and is gone; and a ready member has an event     *)
(* loop.  The last two rest on MembersIInv, whose parts are proved one after *)
(* the other, each with the help of the ones before.                         *)
(***************************************************************************)
EXTENDS TeamMembership, MemberRuntimeProofs

----------------------------------------------------------------------------
(* The registry.                                                            *)

\* What is done with a lease is a step of the registry, or there is no lease.
LEMMA LeaseSteps ==
  ASSUME NEW op,
         \/ DropLeaseOf(op) \/ FinishRemoveOf(op) \/ RestoreAttachRequiredOf(op)
  PROVE  [Next]_vars
  BY DEF DropLeaseOf, FinishRemoveOf, RestoreAttachRequiredOf, Next, CommitSome

\* So is a reservation, whatever the answer.
LEMMA ReserveSteps ==
  ASSUME NEW a \in Agents, NEW retryFailed \in BOOLEAN, Reserves(a, retryFailed)
  PROVE  [Next]_vars
  BY DEF Reserves, Next

\* Every step of a membership task is a step of the registry or leaves it alone.
LEMMA RegistryStep ==
  ASSUME ForgottenIInv, [MembershipNext]_allVars
  PROVE  [Next]_vars
<1>1. ASSUME NEW c \in Callers, CallBegins(c)
      PROVE  [Next]_vars
  <2>1. CASE EnsureLoads(c)
    BY <2>1 DEF EnsureLoads
  <2>2. ASSUME NEW a \in Agents, Send(c, a)
        PROVE  [Next]_vars
    BY <2>2, ReserveSteps DEF Send
  <2>3. ASSUME NEW a \in Agents, AddMember(c, a) \/ SpawnPersists(c, a)
        PROVE  [Next]_vars
    BY <2>3, ReserveSteps DEF AddMember, Enters, SpawnPersists
  <2>4. ASSUME NEW a \in Agents, RemoveBegins(c, a)
        PROVE  [Next]_vars
    BY <2>4 DEF RemoveBegins, Next
  <2> QED BY <1>1, <2>1, <2>2, <2>3, <2>4 DEF CallBegins
<1>2. ASSUME NEW c \in Callers, CallProceeds(c)
      PROVE  [Next]_vars
  <2>1. CASE EnsureStarts(c) \/ EnsureEnds(c)
    BY <2>1 DEF EnsureStarts, EnsureEnds
  <2>2. ASSUME NEW a \in Agents, EnsureReconciles(c, a)
        PROVE  [Next]_vars
    <3>1. CASE Reserves(a, TRUE)
      BY <3>1, ReserveSteps
    <3> QED BY <2>2, <3>1 DEF EnsureReconciles, Next
  <2>3. CASE SendFinds(c)
    BY <2>3, LeaseSteps DEF SendFinds, Abandon
  <2>4. CASE AddSpawns(c) \/ UndoEnds(c)
    BY <2>4 DEF AddSpawns, UndoEnds
  <2>5. CASE AddFails(c)
    BY <2>5, LeaseSteps DEF AddFails, Abandon
  <2>8. CASE SpawnReserves(c)
    <3>1. call[c].slot \in Agents
      BY <2>8 DEF SpawnReserves, ForgottenIInv
    <3> QED BY <2>8, <3>1, ReserveSteps DEF SpawnReserves
  <2>9. CASE SpawnEnters(c)
    BY <2>9 DEF SpawnEnters
  <2>6. CASE RemoveKills(c) \/ RemoveJoins(c) \/ RemoveDeletes(c)
    BY <2>6 DEF RemoveKills, RemoveJoins, RemoveDeletes
  <2>7. CASE RemoveForgets(c)
    BY <2>7, LeaseSteps DEF RemoveForgets
  <2> QED BY <1>2, <2>1, <2>2, <2>3, <2>4, <2>5, <2>6, <2>7, <2>8, <2>9 DEF CallProceeds
<1>3. ASSUME NEW c \in Callers, CallLocks(c)
      PROVE  [Next]_vars
  <2>1. CASE RemovePersists(c)
    <3>1. call[c].slot \in Agents
      BY <2>1 DEF RemovePersists, ForgottenIInv
    <3> QED BY <2>1, <3>1 DEF RemovePersists, RemoveRejoins, Next
  <2>2. CASE RemovePersistFails(c) \/ RemoveLoadFails(c)
    BY <2>2, LeaseSteps DEF RemovePersistFails, RemoveLoadFails, Abandon
  <2> QED BY <1>3, <2>1, <2>2 DEF CallLocks
<1>4. ASSUME NEW op \in OpId, AttachProceeds(op)
      PROVE  [Next]_vars
  <2>1. CASE AttachResets(op) \/ AttachWarms(op) \/ AttachErrs(op) \/ AttachRegisters(op)
               \/ AttachPublishes(op)
    BY <2>1 DEF AttachResets, AttachWarms, AttachErrs, AttachRegisters, AttachPublishes
  <2>2. CASE AttachCommits(op) \/ AttachFails(op)
    BY <2>2 DEF AttachCommits, AttachFails, Next, CommitSome
  <2>3. CASE AttachCleans(op)
    BY <2>3, LeaseSteps DEF AttachCleans
  <2> QED BY <1>4, <2>1, <2>2, <2>3 DEF AttachProceeds
<1>5. ASSUME NEW a \in Agents, Retry(a) \/ AddToRow(a) \/ AgentEnds(a)
      PROVE  [Next]_vars
  BY <1>5, ReserveSteps DEF Retry, AddToRow, AgentEnds
<1>6. CASE SessionStops
  BY <1>6 DEF SessionStops, Next
<1>7. CASE UNCHANGED allVars
  BY <1>7 DEF allVars, vars, historyVars
<1> QED BY <1>1, <1>2, <1>3, <1>4, <1>5, <1>6, <1>7 DEF MembershipNext

----------------------------------------------------------------------------
(* Removed members are forgotten.                                           *)

\* The parts of the state that ForgottenIInv speaks of.
Shape ==
    /\ row \in [Agents -> {"New", "Member", "Removed", "Deleted"}]
    /\ known \in [Agents -> BOOLEAN]
    /\ late \in [Agents -> BOOLEAN]
    /\ call \in [Callers -> [pc : CallPCs, slot : Agents \cup {NoAgent}, op : {0} \cup OpId,
                             captured : BOOLEAN, roster : SUBSET Agents]]

\* A step that leaves the row, the scheduler and the session alone may move a caller
\* anywhere but to the last part of a removal, and from anywhere but there.
LEMMA QuietStep ==
  ASSUME ForgottenIInv, Shape,
         UNCHANGED <<row, known, session, guard, late>>,
         NEW c \in Callers, NEW d,
         call' = [call EXCEPT ![c] = d],
         call[c].pc \notin {"Ensure", "Join", "Forget"},
         d.pc \in {"Idle", "Send", "Add", "Undo", "Kill", "Persist"},
         d.pc # "Idle" => d.slot \in Agents,
         d.pc \in {"Kill", "Persist"} => row[d.slot] # "New"
  PROVE  ForgottenIInv'
<1>1. \A e \in Callers : call'[e] = IF e = c THEN d ELSE call[e]
  BY DEF Shape
<1> QED BY <1>1 DEF ForgottenIInv, IsRemoved, Roster, Published

\* Nothing that ForgottenIInv speaks of changes.
LEMMA IdleStep ==
  ASSUME ForgottenIInv, UNCHANGED <<row, known, session, guard, call, late>>
  PROVE  ForgottenIInv'
  BY DEF ForgottenIInv, IsRemoved, Roster, Published

\* What an ensure does to the roster and the scheduler.
LEMMA EnsureForgotten ==
  ASSUME ForgottenIInv, Shape, NEW c \in Callers,
         EnsureLoads(c) \/ EnsureStarts(c) \/ EnsureEnds(c) \/ \E a \in Agents : EnsureReconciles(c, a)
  PROVE  ForgottenIInv'
<1>1. CASE EnsureLoads(c)
  <2>1. /\ UNCHANGED <<row, known, session, late>> /\ guard = NoCaller /\ guard' = c
        /\ call[c].pc = "Idle"
        /\ call'[c].pc = "Ensure" /\ call'[c].roster = Roster
        /\ \A e \in Callers : e # c => call'[e] = call[e]
    BY <1>1 DEF EnsureLoads, LockFree, Idle, NewCall, Shape, memberVars, historyVars
  <2>2. \A e \in Callers : call[e].pc # "Ensure"
    BY <2>1, CallersAssumption DEF ForgottenIInv
  <2> QED BY <2>1, <2>2 DEF ForgottenIInv, IsRemoved, Roster, Published
<1>2. ASSUME call[c].pc = "Ensure", Leave(c)
      PROVE  /\ \A e \in Callers : e # c => call'[e] = call[e] /\ call[e].pc # "Ensure"
             /\ call'[c].pc = "Idle"
  BY <1>2 DEF Leave, Return, Idle, NewCall, Shape, ForgottenIInv
<1>3. CASE EnsureStarts(c)
  <2>1. /\ row' = row /\ late' = late /\ session' = "Published" /\ call[c].pc = "Ensure" /\ Leave(c)
        /\ \A a \in Agents : known'[a] <=> a \in call[c].roster
    BY <1>3 DEF EnsureStarts, historyVars
  <2>2. \A a \in Agents : known'[a] => ~IsRemoved(a)
    BY <2>1 DEF ForgottenIInv, Roster, IsRemoved
  <2> QED BY <1>2, <2>1, <2>2 DEF ForgottenIInv, IsRemoved, Roster, Published
<1>4. CASE EnsureEnds(c)
  <2>1. UNCHANGED <<row, known, session, late>> /\ call[c].pc = "Ensure" /\ Leave(c)
    BY <1>4 DEF EnsureEnds, memberVars, historyVars
  <2> QED BY <1>2, <2>1 DEF ForgottenIInv, IsRemoved, Roster, Published
<1>5. ASSUME NEW a \in Agents, EnsureReconciles(c, a)
      PROVE  ForgottenIInv'
  <2>1. /\ UNCHANGED <<row, session, late>> /\ call[c].pc = "Ensure" /\ Published
        /\ known' = [known EXCEPT ![a] = TRUE] /\ a \in call[c].roster
    BY <1>5 DEF EnsureReconciles, historyVars
  <2>2. row[a] = "Member"
    BY <2>1 DEF ForgottenIInv, Roster
  <2>3. \A b \in Agents : known'[b] => known[b] \/ ~IsRemoved(b)
    BY <2>1, <2>2 DEF Shape, IsRemoved
  <2>4. CASE Leave(c)
    BY <1>2, <2>1, <2>3, <2>4 DEF ForgottenIInv, IsRemoved, Roster, Published
  <2>5. CASE call' = [call EXCEPT ![c].roster = @ \ {a}] /\ guard' = guard
    <3>1. /\ \A e \in Callers : e # c => call'[e] = call[e]
          /\ call'[c].pc = "Ensure" /\ call'[c].roster \subseteq call[c].roster
      BY <2>1, <2>5 DEF Shape
    <3> QED BY <2>1, <2>3, <2>5, <3>1 DEF ForgottenIInv, IsRemoved, Roster, Published
  <2> QED BY <1>5, <2>4, <2>5 DEF EnsureReconciles
<1> QED BY <1>1, <1>3, <1>4, <1>5

\* What an addition does to them.
LEMMA AddForgotten ==
  ASSUME ForgottenIInv, Shape
  PROVE  /\ \A c \in Callers, a \in Agents :
               AddMember(c, a) \/ SpawnPersists(c, a) => ForgottenIInv'
         /\ \A c \in Callers : SpawnReserves(c) \/ SpawnEnters(c) => ForgottenIInv'
         /\ \A a \in Agents : AddToRow(a) => ForgottenIInv'
<1>1. ASSUME NEW a \in Agents, row[a] = "New", row' = [row EXCEPT ![a] = "Member"]
      PROVE  \A b \in Agents : /\ row'[b] = "Member" <=> (b = a \/ row[b] = "Member")
                               /\ row'[b] \in {"Removed", "Deleted"} <=> row[b] \in {"Removed", "Deleted"}
                               /\ row'[b] = "New" => row[b] = "New"
  BY <1>1 DEF Shape
<1>2. ASSUME NEW c \in Callers, NEW a \in Agents, AddMember(c, a) \/ SpawnPersists(c, a)
      PROVE  ForgottenIInv'
  <2>1. /\ UNCHANGED <<session, late>> /\ Published /\ guard = NoCaller /\ row[a] = "New"
        /\ row' = [row EXCEPT ![a] = "Member"] /\ known' \in {known, [known EXCEPT ![a] = TRUE]}
        /\ call[c].pc = "Idle" /\ call'[c].pc \in {"Add", "Spawn"} /\ call'[c].slot = a
        /\ \A e \in Callers : e # c => call'[e] = call[e]
    <3>1. CASE AddMember(c, a)
      BY <3>1 DEF AddMember, Enters, LockFree, Idle, NewCall, Shape, historyVars
    <3>2. CASE SpawnPersists(c, a)
      BY <3>2 DEF SpawnPersists, LockFree, Idle, NewCall, Shape, historyVars
    <3> QED BY <1>2, <3>1, <3>2
  <2>2. \A e \in Callers : call[e].pc # "Ensure"
    BY <2>1, CallersAssumption DEF ForgottenIInv
  <2>3. \A b \in Agents : known'[b] /\ b # a => known[b]
    BY <2>1 DEF Shape
  <2> QED BY <1>1, <2>1, <2>2, <2>3 DEF ForgottenIInv, IsRemoved, Roster, Published
<1>5. ASSUME NEW c \in Callers, SpawnReserves(c)
      PROVE  ForgottenIInv'
  <2>1. /\ UNCHANGED <<row, known, session, guard, late>> /\ call[c].slot \in Agents
        /\ call[c].pc = "Spawn" /\ call'[c].pc = "Enter" /\ call'[c].slot = call[c].slot
        /\ \A e \in Callers : e # c => call'[e] = call[e]
    BY <1>5 DEF SpawnReserves, NewCall, Shape, ForgottenIInv, memberVars
  <2>2. session # "Unborn"
    BY <2>1 DEF ForgottenIInv
  <2> QED BY <2>1, <2>2 DEF ForgottenIInv, IsRemoved, Roster, Published
<1>4. ASSUME NEW c \in Callers, SpawnEnters(c)
      PROVE  ForgottenIInv'
  <2> DEFINE a == call[c].slot
  <2>1. /\ UNCHANGED <<row, session, guard>> /\ a \in Agents
        /\ known' = [known EXCEPT ![a] = TRUE]
        /\ late' = [late EXCEPT ![a] = @ \/ row[a] # "Member"]
        /\ call[c].pc = "Enter" /\ call'[c].pc = "Add" /\ call'[c].slot = a
        /\ \A e \in Callers : e # c => call'[e] = call[e]
    BY <1>4 DEF SpawnEnters, Continue, Shape, ForgottenIInv
  <2>2. /\ \A b \in Agents : b # a => known'[b] = known[b] /\ late'[b] = late[b]
        /\ IsRemoved(a) => late'[a]
    BY <2>1 DEF Shape, IsRemoved
  <2>3. session # "Unborn"
    BY <2>1 DEF ForgottenIInv
  <2> QED BY <2>1, <2>2, <2>3 DEF ForgottenIInv, IsRemoved, Roster, Published
<1>3. ASSUME NEW a \in Agents, AddToRow(a)
      PROVE  ForgottenIInv'
  <2>1. /\ UNCHANGED <<session, guard, known, call, late>> /\ row[a] = "New"
        /\ row' = [row EXCEPT ![a] = "Member"]
    BY <1>3 DEF AddToRow, taskVars, historyVars
  <2> QED BY <1>1, <2>1 DEF ForgottenIInv, IsRemoved, Roster, Published
<1> QED BY <1>2, <1>3, <1>4, <1>5

\* What a removal does to them.
LEMMA RemoveForgotten ==
  ASSUME ForgottenIInv, Shape, NEW c \in Callers,
         RemovePersists(c) \/ RemoveJoins(c) \/ RemoveForgets(c) \/ RemoveDeletes(c)
  PROVE  ForgottenIInv'
<1>0. \A a \in Agents : IsRemoved(a) => row[a] # "Member"
  BY DEF IsRemoved
<1>1. CASE RemovePersists(c)
  <2> DEFINE a == call[c].slot
  <2>1. /\ call[c].pc = "Persist" /\ guard = NoCaller /\ a \in Agents
        /\ row' = [row EXCEPT ![a] = IF @ = "Member" THEN "Removed" ELSE @]
        /\ UNCHANGED <<known, session, guard, late>>
    BY <1>1 DEF RemovePersists, LockFree, ForgottenIInv
  <2>2. \A e \in Callers : call[e].pc # "Ensure"
    BY <2>1, CallersAssumption DEF ForgottenIInv
  <2>3. /\ \A e \in Callers : e # c => call'[e] = call[e]
        /\ call'[c].slot = a
        /\ call'[c].pc \in {"Delete", "Forget", "Join"}
        /\ Published => call'[c].pc \in {"Forget", "Join"}
    <3>1. \/ ~Published /\ call' = [call EXCEPT ![c].pc = "Delete"]
          \/ call' = [call EXCEPT ![c].pc = "Forget"]
          \/ call' = [call EXCEPT ![c].pc = "Forget", ![c].op = nextOp]
          \/ call' = [call EXCEPT ![c].pc = "Join", ![c].op = entries[a].op]
      BY <1>1 DEF RemovePersists, RemoveRejoins, Continue
    <3> QED BY <3>1 DEF Shape
  <2>4. row'[a] \in {"Removed", "Deleted"}
    BY <2>1 DEF IsRemoved, Shape, ForgottenIInv
  <2>5. \A b \in Agents : b # a => row'[b] = row[b]
    BY <2>1 DEF Shape
  <2> QED BY <2>1, <2>2, <2>3, <2>4, <2>5 DEF ForgottenIInv, IsRemoved, Roster, Published
<1>2. CASE RemoveJoins(c)
  <2>1. /\ UNCHANGED <<row, known, session, guard, late>> /\ call[c].pc = "Join"
        /\ call'[c].pc = "Forget" /\ call'[c].slot = call[c].slot
        /\ \A e \in Callers : e # c => call'[e] = call[e]
    BY <1>2 DEF RemoveJoins, Shape
  <2> QED BY <2>1 DEF ForgottenIInv, IsRemoved, Roster, Published
<1>3. CASE RemoveForgets(c)
  <2>1. /\ UNCHANGED <<row, session, guard, late>> /\ call[c].pc = "Forget"
        /\ known' = [known EXCEPT ![call[c].slot] = FALSE]
        /\ call'[c].pc = "Delete" /\ call'[c].slot = call[c].slot
        /\ \A e \in Callers : e # c => call'[e] = call[e]
    BY <1>3 DEF RemoveForgets, Continue, Shape, historyVars
  <2>2. \A b \in Agents : known'[b] => known[b] /\ b # call[c].slot
    BY <2>1 DEF Shape
  <2> QED BY <2>1, <2>2 DEF ForgottenIInv, IsRemoved, Roster, Published
<1>4. CASE RemoveDeletes(c)
  <2> DEFINE a == call[c].slot
  <2>1. /\ UNCHANGED <<known, session, guard, late>> /\ call[c].pc = "Delete" /\ IsRemoved(a)
        /\ row' = row \/ row' = [row EXCEPT ![a] = "Deleted"]
        /\ call'[c].pc = "Idle"
        /\ \A e \in Callers : e # c => call'[e] = call[e]
    BY <1>4 DEF RemoveDeletes, Return, Idle, NewCall, Shape, ForgottenIInv, historyVars
  <2>2. \A b \in Agents : /\ (IsRemoved(b))' <=> IsRemoved(b)
                          /\ (row'[b] = "Member") <=> (row[b] = "Member")
                          /\ (row'[b] = "New") <=> (row[b] = "New")
    BY <2>1 DEF Shape, IsRemoved
  <2> QED BY <2>1, <2>2 DEF ForgottenIInv, Roster, Published
<1> QED BY <1>1, <1>2, <1>3, <1>4

\* Every step keeps ForgottenIInv.
LEMMA ForgottenStep ==
  ASSUME ForgottenIInv, Shape, [MembershipNext]_allVars
  PROVE  ForgottenIInv'
<1>1. ASSUME NEW c \in Callers, CallBegins(c)
      PROVE  ForgottenIInv'
  <2>1. CASE EnsureLoads(c)
    BY <2>1, EnsureForgotten
  <2>2. ASSUME NEW a \in Agents, Send(c, a)
        PROVE  ForgottenIInv'
    <3>1. UNCHANGED <<row, known, session, guard, late>>
      BY <2>2 DEF Send, memberVars, historyVars
    <3>2. CASE UNCHANGED call
      BY <3>1, <3>2, IdleStep
    <3>3. CASE call' = [call EXCEPT ![c] = NewCall("Send", a, nextOp, FALSE, {})]
      <4>1. call[c].pc = "Idle"
        BY <2>2 DEF Send, Idle, NewCall
      <4>2. NewCall("Send", a, nextOp, FALSE, {}).pc = "Send" /\ NewCall("Send", a, nextOp, FALSE, {}).slot = a
        BY DEF NewCall
      <4> QED BY <3>1, <3>3, <4>1, <4>2, QuietStep
    <3> QED BY <2>2, <3>2, <3>3 DEF Send
  <2>3. ASSUME NEW a \in Agents, AddMember(c, a) \/ SpawnPersists(c, a)
        PROVE  ForgottenIInv'
    BY <2>3, AddForgotten
  <2>4. ASSUME NEW a \in Agents, RemoveBegins(c, a)
        PROVE  ForgottenIInv'
    <3>1. /\ UNCHANGED <<row, known, session, guard, late>> /\ row[a] = "Member"
          /\ call[c].pc \in {"Idle", "Undo"}
      BY <2>4 DEF RemoveBegins, Idle, NewCall, historyVars
    <3>2. PICK d : /\ call' = [call EXCEPT ![c] = d]
                   /\ d = Idle \/ \E op, captured : d = NewCall("Kill", a, op, captured, {})
      BY <2>4 DEF RemoveBegins, Return
    <3>3. d.pc \in {"Idle", "Kill"} /\ (d.pc # "Idle" => d.slot = a)
      BY <3>2 DEF Idle, NewCall
    <3> QED BY <3>1, <3>2, <3>3, QuietStep
  <2> QED BY <1>1, <2>1, <2>2, <2>3, <2>4 DEF CallBegins
<1>2. ASSUME NEW c \in Callers, CallProceeds(c)
      PROVE  ForgottenIInv'
  <2>1. CASE EnsureStarts(c) \/ EnsureEnds(c) \/ \E a \in Agents : EnsureReconciles(c, a)
    BY <2>1, EnsureForgotten
  <2>2. CASE RemoveJoins(c) \/ RemoveForgets(c) \/ RemoveDeletes(c)
    BY <2>2, RemoveForgotten
  <2>3. ASSUME UNCHANGED <<row, known, session, late>>, call[c].pc # "Ensure",
               call[c].pc \notin {"Join", "Forget"}, Leave(c)
        PROVE  ForgottenIInv'
    <3>1. call'[c].pc = "Idle" /\ \A e \in Callers : e # c => call'[e] = call[e]
      BY <2>3 DEF Leave, Return, Idle, NewCall, Shape
    <3>2. \A e \in Callers : call'[e].pc = "Ensure" => guard' = guard
      BY <2>3, <3>1 DEF Leave, ForgottenIInv
    <3> QED BY <2>3, <3>1, <3>2 DEF ForgottenIInv, IsRemoved, Roster, Published
  <2>4. CASE AddSpawns(c)
    BY <2>3, <2>4 DEF AddSpawns, memberVars, historyVars
  <2>8. CASE SpawnReserves(c) \/ SpawnEnters(c)
    BY <2>8, AddForgotten
  <2>5. CASE AddFails(c)
    <3>1. UNCHANGED <<row, known, session, late>> /\ call[c].pc = "Add"
      BY <2>5 DEF AddFails, memberVars, Abandon
    <3>2. CASE Leave(c)
      BY <2>3, <3>1, <3>2
    <3>3. CASE guard' = guard /\ call' = [call EXCEPT ![c].pc = "Undo"]
      <4>1. /\ call'[c].pc = "Undo" /\ call'[c].slot = call[c].slot
            /\ \A e \in Callers : e # c => call'[e] = call[e]
        BY <3>3 DEF Shape
      <4> QED BY <3>1, <3>3, <4>1 DEF ForgottenIInv, IsRemoved, Roster, Published
    <3> QED BY <2>5, <3>2, <3>3 DEF AddFails, Continue, Abandon
  <2>6. CASE SendFinds(c) \/ UndoEnds(c)
    <3>1. /\ UNCHANGED <<row, known, session, guard, late>> /\ call[c].pc \in {"Send", "Undo"}
          /\ call' = [call EXCEPT ![c] = Idle]
      BY <2>6 DEF SendFinds, UndoEnds, Return, memberVars, historyVars, Abandon
    <3>2. Idle.pc = "Idle"
      BY DEF Idle, NewCall
    <3> QED BY <3>1, <3>2, QuietStep
  <2>7. CASE RemoveKills(c)
    <3>1. /\ UNCHANGED <<row, known, session, guard, late>> /\ call[c].pc = "Kill"
          /\ call'[c].pc = "Persist" /\ call'[c].slot = call[c].slot
          /\ \A e \in Callers : e # c => call'[e] = call[e]
      BY <2>7 DEF RemoveKills, Continue, Shape, historyVars
    <3> QED BY <3>1 DEF ForgottenIInv, IsRemoved, Roster, Published
  <2> QED BY <1>2, <2>1, <2>2, <2>4, <2>5, <2>6, <2>7, <2>8 DEF CallProceeds
<1>3. ASSUME NEW c \in Callers, CallLocks(c)
      PROVE  ForgottenIInv'
  <2>1. CASE RemovePersists(c)
    BY <2>1, RemoveForgotten
  <2>2. CASE RemovePersistFails(c) \/ RemoveLoadFails(c)
    <3>1. /\ UNCHANGED <<row, known, session, guard, late>> /\ call[c].pc = "Persist"
          /\ call' = [call EXCEPT ![c] = Idle]
      BY <2>2 DEF RemovePersistFails, RemoveLoadFails, Return, memberVars, historyVars, Abandon
    <3>2. Idle.pc = "Idle"
      BY DEF Idle, NewCall
    <3> QED BY <3>1, <3>2, QuietStep
  <2> QED BY <1>3, <2>1, <2>2 DEF CallLocks
<1>4. ASSUME NEW op \in OpId, AttachProceeds(op)
      PROVE  ForgottenIInv'
  <2>1. UNCHANGED <<row, known, session, guard, call, late>>
    BY <1>4 DEF AttachProceeds, AttachResets, AttachWarms, AttachErrs, AttachRegisters,
                AttachCommits, AttachPublishes, AttachCleans, AttachFails, memberVars, historyVars
  <2> QED BY <2>1, IdleStep
<1>5. ASSUME NEW a \in Agents, Retry(a) \/ AgentEnds(a)
      PROVE  ForgottenIInv'
  BY <1>5, IdleStep DEF Retry, AgentEnds, memberVars, taskVars, historyVars
<1>6. ASSUME NEW a \in Agents, AddToRow(a)
      PROVE  ForgottenIInv'
  BY <1>6, AddForgotten
<1>7. CASE SessionStops
  <2>1. UNCHANGED <<row, known, guard, call, late>> /\ session' = "Stopped"
    BY <1>7 DEF SessionStops, taskVars, historyVars
  <2> QED BY <2>1 DEF ForgottenIInv, IsRemoved, Roster, Published
<1>8. CASE UNCHANGED allVars
  BY <1>8, IdleStep DEF allVars, memberVars, taskVars, historyVars
<1> QED BY <1>1, <1>2, <1>3, <1>4, <1>5, <1>6, <1>7, <1>8 DEF MembershipNext

----------------------------------------------------------------------------
(* Types.                                                                   *)

Row == [Agents -> {"New", "Member", "Removed", "Deleted"}]
Flags == [Agents -> BOOLEAN]
Calls == [pc : CallPCs, slot : Agents \cup {NoAgent}, op : {0} \cup OpId,
          captured : BOOLEAN, roster : SUBSET Agents]
Attaches == [pc : AttachPCs, registered : BOOLEAN]

\* An operation is only started while there are ids to hand out.
LEMMA StartedOperation ==
  ASSUME [Next]_vars, Started
  PROVE  nextOp \in OpId
<1>1. ASSUME NEW l \in leases, CommitSome(l) \/ DropLease(l)
      PROVE  FALSE
  BY <1>1 DEF CommitSome, CommitReady, CommitFailed, FinishRemove, RestoreAttachRequired, Commit,
              DropLease, Started
<1> QED BY <1>1 DEF Next, vars, Started, Stop, ReserveAttach, ReserveRepair, BeginRemove, Join,
                    StartAttach, StartOperation

\* A request is replaced by another, or moves on.
Replaces(c) ==
    \/ call' = call
    \/ call' = [call EXCEPT ![c] = Idle]
    \/ \E pc \in CallPCs, a \in Agents \cup {NoAgent}, op \in {0} \cup OpId,
          captured \in BOOLEAN, roster \in SUBSET Agents :
          call' = [call EXCEPT ![c] = NewCall(pc, a, op, captured, roster)]
Moves(c) ==
    \/ \E pc \in CallPCs : call' = [call EXCEPT ![c].pc = pc]
    \/ \E pc \in CallPCs, op \in {0} \cup OpId : call' = [call EXCEPT ![c].pc = pc, ![c].op = op]
    \/ \E a \in Agents : call' = [call EXCEPT ![c].roster = @ \ {a}]

\* Either way it has the type of a request.
LEMMA CallTypes ==
  ASSUME NEW c \in Callers, call \in [Callers -> Calls], Replaces(c) \/ Moves(c)
  PROVE  call' \in [Callers -> Calls]
<1>1. call[c] \in Calls /\ Idle \in Calls
  BY DEF Calls, Idle, NewCall, CallPCs
<1>2. CASE Replaces(c)
  BY <1>1, <1>2 DEF Replaces, Calls, NewCall
<1>3. ASSUME NEW pc \in CallPCs, call' = [call EXCEPT ![c].pc = pc]
      PROVE  call' \in [Callers -> Calls]
  BY <1>1, <1>3 DEF Calls
<1>4. ASSUME NEW pc \in CallPCs, NEW op \in {0} \cup OpId,
             call' = [call EXCEPT ![c].pc = pc, ![c].op = op]
      PROVE  call' \in [Callers -> Calls]
  BY <1>1, <1>4 DEF Calls
<1>5. ASSUME NEW a \in Agents, call' = [call EXCEPT ![c].roster = @ \ {a}]
      PROVE  call' \in [Callers -> Calls]
  BY <1>1, <1>5 DEF Calls
<1> QED BY <1>2, <1>3, <1>4, <1>5 DEF Moves

\* A request keeps its type.
LEMMA CallStep ==
  ASSUME IInv, ForgottenIInv, call \in [Callers -> Calls], [MembershipNext]_allVars
  PROVE  call' \in [Callers -> Calls]
<1>0. Started => nextOp \in OpId
  BY RegistryStep, StartedOperation
<1>1. ASSUME NEW c \in Callers, CallBegins(c)
      PROVE  call' \in [Callers -> Calls]
  <2>1. Roster \in SUBSET Agents /\ {} \in SUBSET Agents /\ {"Ensure", "Send", "Spawn", "Add", "Kill"} \subseteq CallPCs
    BY DEF Roster, CallPCs
  <2>2. CASE EnsureLoads(c)
    <3>1. call' = [call EXCEPT ![c] = NewCall("Ensure", NoAgent, 0, FALSE, Roster)]
      BY <2>2 DEF EnsureLoads
    <3> QED BY <2>1, <3>1, CallTypes DEF Replaces
  <2>3. ASSUME NEW a \in Agents, Send(c, a)
        PROVE  call' \in [Callers -> Calls]
    <3>1. call' = call \/ (Started /\ call' = [call EXCEPT ![c] = NewCall("Send", a, nextOp, FALSE, {})])
      BY <2>3 DEF Send
    <3> QED BY <1>0, <2>1, <3>1, CallTypes DEF Replaces
  <2>4. ASSUME NEW a \in Agents, AddMember(c, a) \/ SpawnPersists(c, a)
        PROVE  call' \in [Callers -> Calls]
    <3>1. \/ call' = [call EXCEPT ![c] = NewCall("Spawn", a, 0, FALSE, {})]
          \/ Started /\ call' = [call EXCEPT ![c] = NewCall("Add", a, nextOp, FALSE, {})]
          \/ call' = [call EXCEPT ![c] = NewCall("Add", a, 0, FALSE, {})]
      BY <2>4 DEF AddMember, Enters, SpawnPersists
    <3> QED BY <1>0, <2>1, <3>1, CallTypes DEF Replaces
  <2>5. ASSUME NEW a \in Agents, RemoveBegins(c, a)
        PROVE  call' \in [Callers -> Calls]
    <3>1. \/ Started /\ call' = [call EXCEPT ![c] = NewCall("Kill", a, nextOp, TRUE, {})]
          \/ \E captured \in BOOLEAN : call' = [call EXCEPT ![c] = NewCall("Kill", a, 0, captured, {})]
          \/ call' = [call EXCEPT ![c] = Idle]
      BY <2>5 DEF RemoveBegins, Return, Published
    <3> QED BY <1>0, <2>1, <3>1, CallTypes DEF Replaces
  <2> QED BY <1>1, <2>2, <2>3, <2>4, <2>5 DEF CallBegins
<1>2. ASSUME NEW c \in Callers, CallProceeds(c)
      PROVE  call' \in [Callers -> Calls]
  <2>4. CASE SpawnReserves(c)
    <3>1. \E a \in Agents :
             \/ Started /\ call' = [call EXCEPT ![c] = NewCall("Enter", a, nextOp, FALSE, {})]
             \/ call' = [call EXCEPT ![c] = NewCall("Enter", a, 0, FALSE, {})]
      BY <2>4 DEF SpawnReserves, ForgottenIInv
    <3> {} \in SUBSET Agents /\ "Enter" \in CallPCs
      BY DEF CallPCs
    <3> QED BY <1>0, <3>1, CallTypes DEF Replaces
  <2>1. \/ SpawnReserves(c)
        \/ call' = [call EXCEPT ![c] = Idle]
        \/ \E a \in Agents : call' = [call EXCEPT ![c].roster = @ \ {a}]
        \/ \E pc \in {"Add", "Undo", "Persist", "Delete"} : call' = [call EXCEPT ![c].pc = pc]
        \/ call' = [call EXCEPT ![c].pc = "Forget", ![c].op = 0]
    BY <1>2 DEF CallProceeds, EnsureStarts, EnsureEnds, SendFinds, SpawnEnters, AddSpawns, UndoEnds, EnsureReconciles,
                AddFails, RemoveKills, RemoveForgets, RemoveJoins, RemoveDeletes, Leave, Return, Continue, Abandon
  <2>2. {"Add", "Undo", "Persist", "Delete", "Forget"} \subseteq CallPCs
    BY DEF CallPCs
  <2>3. SpawnReserves(c) \/ Replaces(c) \/ Moves(c)
    BY <2>1, <2>2 DEF Replaces, Moves
  <2> QED BY <2>3, <2>4, CallTypes
<1>3. ASSUME NEW c \in Callers, CallLocks(c)
      PROVE  call' \in [Callers -> Calls]
  <2> DEFINE a == call[c].slot
  <2>1. {"Delete", "Forget", "Join"} \subseteq CallPCs
    BY DEF CallPCs
  <2>2. CASE RemovePersists(c)
    <3>1. a \in Agents
      BY <2>2 DEF RemovePersists, ForgottenIInv
    <3>2. entries[a].op \in {0} \cup OpId
      BY <3>1 DEF IInv, TypeOK, MemberRuntimeEntry, Absent, Ready, InFlight
    <3>3. \/ \E pc \in {"Delete", "Forget"} : call' = [call EXCEPT ![c].pc = pc]
          \/ Started /\ call' = [call EXCEPT ![c].pc = "Forget", ![c].op = nextOp]
          \/ call' = [call EXCEPT ![c].pc = "Join", ![c].op = entries[a].op]
      BY <2>2 DEF RemovePersists, RemoveRejoins, Continue
    <3>4. Moves(c)
      BY <1>0, <2>1, <3>2, <3>3 DEF Moves
    <3> QED BY <3>4, CallTypes
  <2>3. CASE RemovePersistFails(c) \/ RemoveLoadFails(c)
    BY <2>3, CallTypes DEF RemovePersistFails, RemoveLoadFails, Return, Replaces, Abandon
  <2> QED BY <1>3, <2>2, <2>3 DEF CallLocks
<1>4. ASSUME NEW op \in OpId, AttachProceeds(op)
      PROVE  call' = call
  BY <1>4 DEF AttachProceeds, AttachResets, AttachWarms, AttachErrs, AttachRegisters,
              AttachCommits, AttachPublishes, AttachCleans, AttachFails
<1>5. ASSUME NEW a \in Agents, Retry(a) \/ AddToRow(a) \/ AgentEnds(a)
      PROVE  call' = call
  BY <1>5 DEF Retry, AddToRow, AgentEnds, taskVars
<1> QED BY <1>1, <1>2, <1>3, <1>4, <1>5 DEF MembershipNext, SessionStops, taskVars, allVars, historyVars

\* The attach tasks keep their type.
LEMMA AttachTypes ==
  ASSUME attach \in [OpId -> Attaches], [MembershipNext]_allVars
  PROVE  attach' \in [OpId -> Attaches]
<1>1. \A pc \in AttachPCs : NewAttach(pc) \in Attaches
  BY DEF NewAttach, Attaches
<1>2. NoAttach \in Attaches
  BY <1>1 DEF NoAttach, AttachPCs
<1>3. ASSUME NEW op, SpawnAttach(op)
      PROVE  attach' \in [OpId -> Attaches]
  BY <1>1, <1>3 DEF SpawnAttach, AttachPCs
<1>4. ASSUME NEW op \in OpId, NEW pc \in AttachPCs, Goto(op, pc)
      PROVE  attach' \in [OpId -> Attaches]
  BY <1>4 DEF Goto, Attaches
<1>5. ASSUME NEW op \in OpId, Finish(op)
      PROVE  attach' \in [OpId -> Attaches]
  BY <1>2, <1>5 DEF Finish
<1>6. ASSUME NEW op \in OpId, NEW pc \in AttachPCs, NEW b \in BOOLEAN,
             attach' = [attach EXCEPT ![op] = [pc |-> pc, registered |-> b]]
      PROVE  attach' \in [OpId -> Attaches]
  BY <1>6 DEF Attaches
<1>7. ASSUME NEW op \in OpId, AttachProceeds(op)
      PROVE  attach' \in [OpId -> Attaches]
  <2>1. \/ \E pc \in AttachPCs : Goto(op, pc)
        \/ Finish(op)
        \/ \E pc \in AttachPCs, b \in BOOLEAN :
              attach' = [attach EXCEPT ![op] = [pc |-> pc, registered |-> b]]
    BY <1>7 DEF AttachProceeds, AttachResets, AttachWarms, AttachErrs, AttachRegisters, AttachCommits,
                AttachPublishes, AttachCleans, AttachFails, Withdraw, AttachPCs
  <2> QED BY <2>1, <1>4, <1>5, <1>6
<1>8. ASSUME NEW c \in Callers, CallBegins(c) \/ CallProceeds(c) \/ CallLocks(c)
      PROVE  attach' = attach \/ \E op : SpawnAttach(op)
  BY <1>8 DEF CallBegins, EnsureLoads, Send, AddMember, RemoveBegins,
              CallProceeds, EnsureStarts, EnsureEnds, EnsureReconciles, SpawnIfStarted, SendFinds,
              AddSpawns, AddFails, UndoEnds, RemoveKills, RemoveJoins, RemoveForgets, RemoveDeletes,
              CallLocks, RemovePersists, RemovePersistFails, RemoveLoadFails, Enters, SpawnPersists, SpawnReserves, SpawnEnters, Abandon
<1>9. ASSUME NEW a \in Agents, Retry(a) \/ AddToRow(a) \/ AgentEnds(a)
      PROVE  attach' = attach \/ \E op : SpawnAttach(op)
  BY <1>9 DEF Retry, SpawnIfStarted, AddToRow, AgentEnds, taskVars
<1> QED BY <1>3, <1>7, <1>8, <1>9 DEF MembershipNext, SessionStops, taskVars, allVars, historyVars

\* The members and the session keep theirs.
MemberTypes ==
    /\ row \in Row
    /\ known \in Flags
    /\ loops \in Flags
    /\ agent \in Flags
    /\ session \in {"Unborn", "Published", "Stopped"}
    /\ guard \in Callers \cup {NoCaller}
    /\ unleased \in Flags
    /\ late \in Flags
    /\ abandoned \subseteq OpId

LEMMA MemberStep ==
  ASSUME MemberTypes, call \in [Callers -> Calls], [MembershipNext]_allVars
  PROVE  MemberTypes'
<1> USE DEF MemberTypes, Row, Flags
<1>1. ASSUME NEW c \in Callers, CallBegins(c)
      PROVE  MemberTypes'
  <2>1. CASE EnsureLoads(c) \/ \E a \in Agents : Send(c, a)
    BY <2>1 DEF EnsureLoads, Send, memberVars, historyVars
  <2>2. ASSUME NEW a \in Agents, AddMember(c, a) \/ SpawnPersists(c, a)
        PROVE  MemberTypes'
    BY <2>2 DEF AddMember, Enters, SpawnPersists, historyVars
  <2>3. ASSUME NEW a \in Agents, RemoveBegins(c, a)
        PROVE  MemberTypes'
    <3>1. UNCHANGED <<row, known, agent, session, guard, historyVars>> /\ (StopLoop(a) \/ loops' = loops)
      BY <2>3 DEF RemoveBegins
    <3> QED BY <3>1 DEF StopLoop, historyVars
  <2> QED BY <1>1, <2>1, <2>2, <2>3 DEF CallBegins
<1>2. ASSUME NEW c \in Callers, CallProceeds(c)
      PROVE  MemberTypes'
  <2>1. CASE EnsureEnds(c) \/ SendFinds(c) \/ AddSpawns(c) \/ AddFails(c) \/ UndoEnds(c)
    <3>1. /\ UNCHANGED <<row, known, loops, agent, session, unleased, late>>
          /\ guard' = guard \/ guard' = NoCaller
          /\ abandoned' = abandoned \/ abandoned' = abandoned \cup ({call[c].op} \ {0})
      BY <2>1 DEF EnsureEnds, SendFinds, AddSpawns, AddFails, UndoEnds, Leave, memberVars, historyVars, Abandon
    <3> QED BY <3>1 DEF Calls
  <2>6. CASE SpawnReserves(c) \/ SpawnEnters(c)
    BY <2>6 DEF SpawnReserves, SpawnEnters, memberVars
  <2>5. CASE EnsureStarts(c)
    <3>1. known' = [a \in Agents |-> a \in call[c].roster]
      BY <2>5 DEF EnsureStarts
    <3>2. known' \in [Agents -> BOOLEAN]
      <4>1. \A a \in Agents : (a \in call[c].roster) \in BOOLEAN
        OBVIOUS
      <4> QED BY <3>1, <4>1
    <3>3. /\ UNCHANGED <<row, loops, agent, unleased, late, abandoned>>
          /\ session' = "Published" /\ (guard' = guard \/ guard' = NoCaller)
      BY <2>5 DEF EnsureStarts, Leave, historyVars
    <3> QED BY <3>2, <3>3
  <2>2. ASSUME NEW a \in Agents, EnsureReconciles(c, a)
        PROVE  MemberTypes'
    BY <2>2 DEF EnsureReconciles, Leave, historyVars
  <2>3. CASE RemoveKills(c) \/ RemoveForgets(c) \/ RemoveDeletes(c)
    BY <2>3 DEF RemoveKills, RemoveForgets, RemoveDeletes, KillAgent, historyVars
  <2>4. CASE RemoveJoins(c)
    BY <2>4 DEF RemoveJoins, StopLoop
  <2> QED BY <1>2, <2>1, <2>2, <2>3, <2>4, <2>5, <2>6 DEF CallProceeds
<1>3. ASSUME NEW c \in Callers, CallLocks(c)
      PROVE  MemberTypes'
  <2>1. abandoned' = abandoned \/ abandoned' = abandoned \cup ({call[c].op} \ {0})
    BY <1>3 DEF CallLocks, RemovePersists, RemovePersistFails, RemoveLoadFails, Abandon, historyVars
  <2>2. abandoned' \subseteq OpId
    BY <2>1 DEF Calls
  <2> QED BY <1>3, <2>2 DEF CallLocks, RemovePersists, RemoveRejoins, RemovePersistFails, RemoveLoadFails, StopLoop, memberVars, historyVars, Abandon
<1>4. ASSUME NEW op \in OpId, AttachProceeds(op)
      PROVE  MemberTypes'
  BY <1>4 DEF AttachProceeds, AttachResets, AttachWarms, AttachErrs, AttachRegisters, AttachCommits,
              AttachPublishes, AttachCleans, AttachFails, Withdraw, StopLoop, KillAgent, memberVars, historyVars
<1>5. ASSUME NEW a \in Agents, Retry(a) \/ AddToRow(a) \/ AgentEnds(a)
      PROVE  MemberTypes'
  BY <1>5 DEF Retry, AddToRow, AgentEnds, KillAgent, memberVars, taskVars, historyVars
<1>6. CASE SessionStops
  BY <1>6 DEF SessionStops, taskVars, historyVars
<1>7. CASE UNCHANGED allVars
  BY <1>7 DEF allVars, memberVars, taskVars, historyVars
<1> QED BY <1>1, <1>2, <1>3, <1>4, <1>5, <1>6, <1>7 DEF MembershipNext

\* MembershipTypeOK, put together from its parts.
LEMMA TypeParts ==
  /\ MembershipTypeOK <=>
        TypeOK /\ MemberTypes /\ call \in [Callers -> Calls] /\ attach \in [OpId -> Attaches]
  /\ MembershipTypeOK' <=>
        TypeOK' /\ MemberTypes' /\ call' \in [Callers -> Calls] /\ attach' \in [OpId -> Attaches]
  BY DEF MembershipTypeOK, MemberTypes, Row, Flags, Calls, Attaches

----------------------------------------------------------------------------
(* The theorems.                                                            *)

\* The inductive invariant: the registry's, the types, and what it takes for a
\* removed member to stay forgotten.
MembershipIInv == IInv /\ MembershipTypeOK /\ ForgottenIInv

\* The initial states satisfy it.
LEMMA InitMembershipIInv == MembershipInit => MembershipIInv
<1> SUFFICES ASSUME MembershipInit PROVE MembershipIInv
  OBVIOUS
<1>1. IInv
  BY InitIInv DEF MembershipInit, historyVars
<1>2. \A c \in Callers : call[c].pc = "Idle"
  BY DEF MembershipInit, Idle, NewCall, historyVars
<1>3. MemberTypes
  BY DEF MembershipInit, MemberTypes, Row, Flags, historyVars
<1>4. call \in [Callers -> Calls]
  BY DEF MembershipInit, Idle, NewCall, Calls, CallPCs, historyVars
<1>5. attach \in [OpId -> Attaches]
  BY DEF MembershipInit, NoAttach, NewAttach, Attaches, AttachPCs, historyVars
<1>6. MembershipTypeOK
  BY <1>1, <1>3, <1>4, <1>5, TypeParts DEF IInv
<1>7. ForgottenIInv
  BY <1>2 DEF MembershipInit, ForgottenIInv, Published, historyVars
<1> QED BY <1>1, <1>6, <1>7 DEF MembershipIInv

\* Every step keeps it, and is a step of the registry.
LEMMA NextMembershipIInv ==
  MembershipIInv /\ [MembershipNext]_allVars => [Next]_vars /\ MembershipIInv'
<1> SUFFICES ASSUME MembershipIInv, [MembershipNext]_allVars
             PROVE  [Next]_vars /\ MembershipIInv'
  OBVIOUS
<1> USE DEF MembershipIInv
<1>1. [Next]_vars
  BY RegistryStep
<1>2. IInv'
  BY <1>1, NextIInv
<1>3. ForgottenIInv'
  BY ForgottenStep DEF Shape, MembershipTypeOK
<1>4. MemberTypes' /\ attach' \in [OpId -> Attaches] /\ call' \in [Callers -> Calls]
  BY MemberStep, AttachTypes, CallStep, TypeParts
<1>5. MembershipTypeOK'
  BY <1>2, <1>4, TypeParts DEF IInv
<1> QED BY <1>1, <1>2, <1>3, <1>5

\* The inductive invariant holds in every reachable state.
THEOREM MembershipInvariant == MembershipSpec => []MembershipIInv
  BY InitMembershipIInv, NextMembershipIInv, PTL DEF MembershipSpec

\* The variables of the members and of the tasks keep their types.
THEOREM MembershipTypeCorrect == MembershipSpec => []MembershipTypeOK
  BY MembershipInvariant, PTL DEF MembershipIInv

\* The tasks of service.rs and session.rs implement the registry: whatever they do
\* to it, in whatever order, is a behaviour of MemberRuntime.
THEOREM ImplementsRegistry == MembershipSpec => Spec
<1>1. MembershipInit => Init
  BY DEF MembershipInit, historyVars
<1> QED BY <1>1, MembershipInvariant, NextMembershipIInv, PTL DEF MembershipSpec, Spec

\* So what is proved of the registry holds of the members: a slot's entry follows
\* from the outcome of the last operation started on it,
THEOREM MembersReflectLatest == MembershipSpec => []EntryReflectsLatest
  BY ImplementsRegistry, SnapshotAgreesWithWaiters, PTL

\* an outcome that a joined task may have seen is never replaced,
THEOREM MembersOutcomesAreFinal == MembershipSpec => OutcomeIsFinal
  BY ImplementsRegistry, OutcomesAreFinal

\* no attach, repair or other removal replaces a removal,
THEOREM MembersRemovalsAreExclusive == MembershipSpec => RemovalIsExclusive
  BY ImplementsRegistry, RemovalsAreExclusive

\* and a task that was overtaken commits without effect.
THEOREM OvertakenTasksAreInert == MembershipSpec => SupersededLeaseIsInert
  BY ImplementsRegistry, SupersededLeasesAreInert

\* Once a member's removal is over the session's scheduler has forgotten it, unless
\* spawn_agent made it known later: no ensure with an old roster brings it back.
THEOREM RemovedIsForgotten == MembershipSpec => []RemovedIsUnknown
<1>1. ForgottenIInv => RemovedIsUnknown
  BY DEF ForgottenIInv, RemovedIsUnknown, Removing
<1> QED BY <1>1, MembershipInvariant, PTL DEF MembershipIInv

----------------------------------------------------------------------------
(* What the operations of the registry do to the leases and to the entries  *)
(* of operations that have begun.                                           *)

\* An operation of kind and state st is started on slot a, or nothing happens.
Starts(a, st, kind) == ~stopped /\ StartOperation(a, st, kind) /\ stopped' = stopped

\* A step of the registry is one of four things.
LEMMA RegistryCases ==
  ASSUME IInv, [Next]_vars
  PROVE  \/ UNCHANGED vars
         \/ \E a \in Agents : /\ entries[a].state # "Removing"
                              /\ Starts(a, "Attaching", "attach") \/ Starts(a, "Removing", "remove")
         \/ \E l \in leases : CommitSome(l) \/ DropLease(l)
         \/ Stop
  BY DEF Next, Starts, ReserveAttach, ReserveRepair, BeginRemove, Join, StartAttach

\* What starting an operation on slot a does.
LEMMA StartFacts ==
  ASSUME IInv, NEW a \in Agents, NEW st, NEW kind, Starts(a, st, kind)
  PROVE  /\ nextOp \in OpId /\ nextOp' = nextOp + 1
         /\ opAgent'[nextOp] = a
         /\ \A p \in OpId : p # nextOp => opAgent'[p] = opAgent[p]
         /\ entries'[a] = InFlight(st, nextOp) /\ entries'[a].op = nextOp
         /\ \A b \in Agents : b # a => entries'[b] = entries[b]
         /\ [kind |-> kind, agent |-> a, op |-> nextOp] \in leases' /\ leases \subseteq leases'
         /\ \A l \in leases' \ leases : l.kind = kind /\ l.agent = a /\ l.op = nextOp
         /\ \A l, m \in leases' \ leases : l = m
<1>1. nextOp \in OpId /\ nextOp' = nextOp + 1
  BY DEF Starts, StartOperation
<1>2. opAgent' = [opAgent EXCEPT ![nextOp] = a] /\ entries' = [entries EXCEPT ![a] = InFlight(st, nextOp)]
  BY DEF Starts, StartOperation
<1>3. entries'[a] = InFlight(st, nextOp)
  BY <1>2 DEF IInv, TypeOK
<1>4. entries'[a].op = nextOp
  BY <1>3 DEF InFlight
<1>5. leases' = leases \cup {[kind |-> kind, agent |-> a, op |-> nextOp]}
  BY DEF Starts, StartOperation
<1> QED BY <1>1, <1>2, <1>3, <1>4, <1>5 DEF IInv, TypeOK

\* What a task does when it is done with its lease: at most the entry changes that the
\* lease is current for.
LEMMA CommitCases ==
  ASSUME IInv, NEW l \in leases, CommitSome(l) \/ DropLease(l)
  PROVE  /\ leases' = leases \ {l} /\ UNCHANGED <<nextOp, stopped, opAgent>>
         /\ \/ UNCHANGED entries
            \/ /\ \A b \in Agents : b # l.agent => entries'[b] = entries[b]
               /\ l.agent \in Agents
               /\ \/ Current(l, "Attaching") /\ CommitReady(l) /\ entries'[l.agent] = Ready
                  \/ Current(l, "Attaching") /\ entries'[l.agent] = InFlight("Failed", l.op)
                  \/ /\ Current(l, "Removing") /\ entries'[l.agent] = InFlight("Failed", l.op)
                     /\ signal'[l.op] = "Failed"
                  \/ Current(l, "Removing") /\ FinishRemove(l) /\ entries'[l.agent] = Absent
<1>1. l.agent \in Agents /\ l.op \in OpId
  BY DEF IInv, TypeOK, Lease
<1>2. ASSUME NEW st, NEW entry, NEW outcome, Commit(l, st, entry, outcome)
      PROVE  /\ leases' = leases \ {l} /\ UNCHANGED <<nextOp, stopped, opAgent>>
             /\ \/ UNCHANGED entries
                \/ /\ Current(l, st) /\ entries'[l.agent] = entry /\ signal'[l.op] = outcome
                   /\ \A b \in Agents : b # l.agent => entries'[b] = entries[b]
  BY <1>1, <1>2 DEF Commit, Settle, IInv, TypeOK
<1>3. CASE DropLease(l)
  BY <1>3 DEF DropLease
<1>4. CASE CommitReady(l)
  BY <1>1, <1>2, <1>4 DEF CommitReady
<1>5. CASE CommitFailed(l)
  BY <1>1, <1>2, <1>5 DEF CommitFailed
<1>6. CASE FinishRemove(l)
  BY <1>1, <1>2, <1>6 DEF FinishRemove
<1>7. CASE RestoreAttachRequired(l)
  BY <1>1, <1>2, <1>7 DEF RestoreAttachRequired
<1> QED BY <1>3, <1>4, <1>5, <1>6, <1>7 DEF CommitSome

\* What has begun stays as it is: the slot of an operation and the kind of its lease, and
\* an operation in flight was in flight before.
LEMMA BegunStays ==
  ASSUME IInv, [Next]_vars
  PROVE  /\ \A p \in 1..(nextOp - 1) : p \in 1..(nextOp' - 1) /\ opAgent'[p] = opAgent[p]
         /\ \A p \in OpId : IsAttach(p) => IsAttach(p)'
         /\ \A a \in Agents, p \in 1..(nextOp - 1), st \in {"Attaching", "Removing"} :
               entries'[a] = InFlight(st, p) => entries[a] = InFlight(st, p)
<1>0. nextOp \in 1..(MaxOps + 1) /\ MaxOps \in Nat /\ \A l \in leases : l.op \in OpId /\ l.op < nextOp
  BY MaxOpsAssumption DEF IInv, TypeOK, Bookkeeping, Lease
<1>1. CASE UNCHANGED vars
  BY <1>1 DEF vars, IsAttach
<1>2. ASSUME NEW a \in Agents, NEW st \in {"Attaching", "Removing"}, NEW kind, Starts(a, st, kind)
      PROVE  /\ \A p \in 1..(nextOp - 1) : p \in 1..(nextOp' - 1) /\ opAgent'[p] = opAgent[p]
             /\ \A p \in OpId : IsAttach(p) => IsAttach(p)'
             /\ \A b \in Agents, p \in 1..(nextOp - 1), s \in {"Attaching", "Removing"} :
                   entries'[b] = InFlight(s, p) => entries[b] = InFlight(s, p)
  <2>1. /\ nextOp' = nextOp + 1 /\ \A p \in OpId : p # nextOp => opAgent'[p] = opAgent[p]
        /\ entries'[a].op = nextOp /\ \A b \in Agents : b # a => entries'[b] = entries[b]
        /\ \A l \in leases' \ leases : l.op = nextOp
    BY <1>2, StartFacts
  <2>2. \A p \in 1..(nextOp - 1) : p \in OpId /\ p # nextOp /\ p \in 1..(nextOp' - 1)
    BY <1>0, <2>1 DEF OpId
  <2>3. \A p \in OpId : IsAttach(p) => IsAttach(p)'
    BY <2>1, <2>2 DEF IsAttach
  <2>4. ASSUME NEW b \in Agents, NEW p \in 1..(nextOp - 1), NEW s \in {"Attaching", "Removing"},
               entries'[b] = InFlight(s, p)
        PROVE  entries[b] = InFlight(s, p)
    <3>1. entries'[b].op = p
      BY <2>4 DEF InFlight
    <3> QED BY <2>1, <2>2, <2>4, <3>1
  <2> QED BY <2>1, <2>2, <2>3, <2>4
<1>3. ASSUME NEW l \in leases, CommitSome(l) \/ DropLease(l)
      PROVE  /\ \A p \in 1..(nextOp - 1) : p \in 1..(nextOp' - 1) /\ opAgent'[p] = opAgent[p]
             /\ \A p \in OpId : IsAttach(p) => IsAttach(p)'
             /\ \A b \in Agents, p \in 1..(nextOp - 1), s \in {"Attaching", "Removing"} :
                   entries'[b] = InFlight(s, p) => entries[b] = InFlight(s, p)
  <2>1. leases' = leases \ {l} /\ UNCHANGED <<nextOp, opAgent>>
    BY <1>3, CommitCases
  <2>2. \A b \in Agents : entries'[b] = entries[b] \/ entries'[b].state \in {"Ready", "Failed", "Absent"}
    <3>1. Ready.state = "Ready" /\ Absent.state = "Absent" /\ InFlight("Failed", l.op).state = "Failed"
      BY DEF Ready, Absent, InFlight
    <3> QED BY <1>3, <3>1, CommitCases
  <2>3. ASSUME NEW b \in Agents, NEW p \in 1..(nextOp - 1), NEW s \in {"Attaching", "Removing"},
               entries'[b] = InFlight(s, p)
        PROVE  entries[b] = InFlight(s, p)
    <3>1. entries'[b].state = s
      BY <2>3 DEF InFlight
    <3> QED BY <2>2, <2>3, <3>1
  <2> QED BY <2>1, <2>3 DEF IsAttach
<1>4. CASE Stop
  BY <1>4 DEF Stop, IsAttach, Absent, InFlight
<1> QED BY <1>1, <1>2, <1>3, <1>4, RegistryCases

----------------------------------------------------------------------------
(* Leases.                                                                  *)

\* The fields of an entry.
LEMMA EntryFields == /\ \A st, op : InFlight(st, op).state = st /\ InFlight(st, op).op = op
                     /\ Ready.state = "Ready" /\ Absent.state = "Absent"
  BY DEF InFlight, Ready, Absent

\* Every step of the registry leaves the leases current and unique.
LEMMA LeasesStay ==
  ASSUME IInv, LeasesAreCurrent, LeasesAreUnique, [Next]_vars
  PROVE  LeasesAreCurrent' /\ LeasesAreUnique'
<1>0. \A l \in leases : l.op \in OpId /\ l.op < nextOp /\ l.agent \in Agents
  BY DEF IInv, TypeOK, Bookkeeping, Lease
<1>1. CASE UNCHANGED vars
  BY <1>1 DEF vars, LeasesAreCurrent, LeasesAreUnique
<1>2. ASSUME NEW a \in Agents, NEW st, NEW kind, Starts(a, st, kind), entries[a].state # "Removing",
             kind = "remove" => st = "Removing"
      PROVE  LeasesAreCurrent' /\ LeasesAreUnique'
  <2>1. /\ entries'[a] = InFlight(st, nextOp)
        /\ \A b \in Agents : b # a => entries'[b] = entries[b]
        /\ \A l \in leases' \ leases : l.kind = kind /\ l.agent = a /\ l.op = nextOp
        /\ \A l, m \in leases' \ leases : l = m
        /\ stopped' = stopped
    BY <1>2, StartFacts DEF Starts
  <2>2. \A l \in leases : l.kind = "remove" /\ ~stopped => l.agent # a
    BY <1>0, <1>2, EntryFields DEF LeasesAreCurrent
  <2>3. LeasesAreCurrent'
    BY <1>0, <1>2, <2>1, <2>2 DEF LeasesAreCurrent
  <2>4. LeasesAreUnique'
    BY <1>0, <2>1 DEF LeasesAreUnique, OpId
  <2> QED BY <2>3, <2>4
<1>3. ASSUME NEW l \in leases, CommitSome(l) \/ DropLease(l)
      PROVE  LeasesAreCurrent' /\ LeasesAreUnique'
  <2>1. leases' = leases \ {l} /\ stopped' = stopped
    BY <1>3, CommitCases
  <2>2. \A b \in Agents : entries'[b] = entries[b] \/ (b = l.agent /\ entries[b].op = l.op /\ ~stopped)
    BY <1>3, CommitCases, EntryFields DEF Current
  <2>3. \A m \in leases' : m.kind = "remove" /\ ~stopped => m.op # l.op /\ entries[m.agent].op = m.op
    BY <2>1, EntryFields DEF LeasesAreCurrent, LeasesAreUnique
  <2>4. LeasesAreCurrent'
    BY <1>0, <2>1, <2>2, <2>3 DEF LeasesAreCurrent
  <2> QED BY <2>1, <2>4 DEF LeasesAreUnique
<1>4. CASE Stop
  BY <1>4 DEF Stop, LeasesAreCurrent, LeasesAreUnique
<1>5. ASSUME NEW a \in Agents, entries[a].state # "Removing",
             Starts(a, "Attaching", "attach") \/ Starts(a, "Removing", "remove")
      PROVE  LeasesAreCurrent' /\ LeasesAreUnique'
  BY <1>2, <1>5
<1> QED BY <1>1, <1>3, <1>4, <1>5, RegistryCases

\* The operation of a caller or of an attach task has begun.
LEMMA HeldHasBegun ==
  ASSUME MembershipIInv, LeasesAreHeld
  PROVE  /\ \A c \in Callers : Holds(c) => call[c].op \in 1..(nextOp - 1)
         /\ \A p \in OpId : attach[p].pc # "None" => p \in 1..(nextOp - 1) /\ opAgent[p] \in Agents
         /\ \A c \in Callers : Holds(c) /\ call[c].pc \notin {"Send", "Enter", "Add"} => ~IsAttach(call[c].op)
<1>1. ASSUME NEW c \in Callers, Holds(c), call[c].pc \notin {"Send", "Enter", "Add"}
      PROVE  call[c].op \in 1..(nextOp - 1) /\ ~IsAttach(call[c].op)
  <2>1. [kind |-> "remove", agent |-> call[c].slot, op |-> call[c].op] \in leases
    BY <1>1 DEF LeasesAreHeld, Holding
  <2>2. PICK l \in leases : l.kind = "remove" /\ l.op = call[c].op
    BY <2>1
  <2>3. l.op < nextOp /\ l.op \in OpId /\ nextOp \in 1..(MaxOps + 1)
    BY <2>2 DEF MembershipIInv, IInv, TypeOK, Bookkeeping, Lease
  <2> QED BY <2>2, <2>3, MaxOpsAssumption DEF IsAttach, OpId
<1>2. \A p \in OpId : p \in 1..(nextOp - 1) => opAgent[p] \in Agents
  BY MaxOpsAssumption DEF MembershipIInv, IInv, Bookkeeping, TypeOK, OpId
<1> QED BY <1>1, <1>2 DEF LeasesAreHeld, Holding, IsAttach

\* A step of an attach task that touches no lease but its own.
LEMMA HeldByAttach ==
  ASSUME MembershipIInv, LeasesAreHeld, [Next]_vars, NEW op \in OpId, attach[op].pc # "None",
         call' = call, \A p \in OpId : p # op => attach'[p] = attach[p],
         \A l \in leases : l.op # op => l \in leases'
  PROVE  LeasesAreHeld'
<1>1. LeasesAreCurrent' /\ LeasesAreUnique' /\ \A p \in OpId : IsAttach(p) => IsAttach(p)'
  BY LeasesStay, BegunStays DEF MembershipIInv, LeasesAreHeld
<1>2. \A c \in Callers : (Holds(c))' <=> Holds(c)
  BY DEF Holds
<1>3. ASSUME NEW c \in Callers, Holds(c)
      PROVE  Holding(c)'
  <2>1. CASE call[c].pc \in {"Send", "Enter", "Add"}
    <3>1. call[c].op \in OpId
      BY <1>3 DEF Holds, MembershipIInv, MembershipTypeOK
    <3> QED BY <1>1, <1>3, <2>1, <3>1 DEF LeasesAreHeld, Holding
  <2>2. CASE call[c].pc \notin {"Send", "Enter", "Add"}
    <3>1. call[c].op # op
      BY <1>3, <2>2, HeldHasBegun DEF LeasesAreHeld
    <3> QED BY <1>3, <2>2, <3>1 DEF LeasesAreHeld, Holding
  <2> QED BY <2>1, <2>2
<1>4. \A p \in OpId : attach'[p].pc # "None" => IsAttach(p)'
  BY <1>1 DEF LeasesAreHeld
<1> QED BY <1>1, <1>2, <1>3, <1>4 DEF LeasesAreHeld

\* A step of a caller: it touches no lease but its own, and it goes on holding it, takes
\* that of an operation it starts, or has an attach spawned for it.
LEMMA HeldByCaller ==
  ASSUME MembershipIInv, LeasesAreHeld, [Next]_vars, NEW c \in Callers,
         \A d \in Callers : d # c => call'[d] = call[d],
         \A l \in leases : (Holds(c) /\ l.op = call[c].op) \/ l \in leases',
         (Holds(c))' =>
            \/ /\ Holds(c) /\ call'[c].op = call[c].op /\ call'[c].slot = call[c].slot
               /\ call[c].pc \in {"Send", "Enter", "Add"} <=> call'[c].pc \in {"Send", "Enter", "Add"}
               /\ leases \subseteq leases'
            \/ call'[c].op = nextOp /\ Holding(c)',
         \A p \in OpId :
            \/ attach'[p] = attach[p]
            \/ ~(Holds(c))' /\ Holds(c) /\ call[c].pc \in {"Send", "Enter", "Add"} /\ p = call[c].op
            \/ ~(Holds(c))' /\ p = nextOp /\ IsAttach(p)'
  PROVE  LeasesAreHeld'
<1>1. LeasesAreCurrent' /\ LeasesAreUnique' /\ \A p \in OpId : IsAttach(p) => IsAttach(p)'
  BY LeasesStay, BegunStays DEF MembershipIInv, LeasesAreHeld
<1>2. \A d \in Callers : d # c => ((Holds(d))' <=> Holds(d))
  BY DEF Holds
<1>3. \A d \in Callers : Holds(d) => call[d].op \in OpId /\ call[d].op # nextOp
  BY HeldHasBegun, MaxOpsAssumption DEF MembershipIInv, MembershipTypeOK, Holds, OpId, TypeOK
<1>4. \A d \in Callers : d # c /\ Holds(d) /\ Holds(c) => call[d].op # call[c].op
  BY DEF LeasesAreHeld
<1>5. ASSUME NEW d \in Callers, d # c, Holds(d)
      PROVE  Holding(d)'
  <2>1. attach'[call[d].op] = attach[call[d].op]
    BY <1>3, <1>4, <1>5
  <2>2. CASE call[d].pc \in {"Send", "Enter", "Add"}
    BY <1>1, <1>3, <1>5, <2>1, <2>2 DEF LeasesAreHeld, Holding
  <2>3. CASE call[d].pc \notin {"Send", "Enter", "Add"}
    BY <1>4, <1>5, <2>3 DEF LeasesAreHeld, Holding
  <2> QED BY <2>2, <2>3
<1>6. ASSUME (Holds(c))', call'[c].op # nextOp
      PROVE  Holding(c)'
  <2>1. /\ Holds(c) /\ call'[c].op = call[c].op /\ call'[c].slot = call[c].slot
        /\ leases \subseteq leases'
        /\ call[c].pc \in {"Send", "Enter", "Add"} <=> call'[c].pc \in {"Send", "Enter", "Add"}
    BY <1>6
  <2>2. attach'[call[c].op] = attach[call[c].op]
    BY <1>3, <1>6, <2>1
  <2>3. CASE call[c].pc \in {"Send", "Enter", "Add"}
    BY <1>1, <1>3, <2>1, <2>2, <2>3 DEF LeasesAreHeld, Holding
  <2>4. CASE call[c].pc \notin {"Send", "Enter", "Add"}
    BY <2>1, <2>4 DEF LeasesAreHeld, Holding
  <2> QED BY <2>3, <2>4
<1>9. ASSUME (Holds(c))', call'[c].op = nextOp
      PROVE  Holding(c)'
  BY <1>3, <1>9
<1>7. \A d \in Callers : Holds(d) /\ (Holds(c))' /\ d # c => call'[c].op # call[d].op
  BY <1>3, <1>4
<1>8. \A p \in OpId : attach'[p].pc # "None" => IsAttach(p)'
  BY <1>1 DEF LeasesAreHeld, Holding
<1> QED BY <1>1, <1>2, <1>5, <1>6, <1>7, <1>8, <1>9 DEF LeasesAreHeld

\* A step of neither gives no lease away.
LEMMA HeldByOthers ==
  ASSUME MembershipIInv, LeasesAreHeld, [Next]_vars, call' = call, leases \subseteq leases',
         \A p \in OpId : attach'[p] = attach[p] \/ (p = nextOp /\ IsAttach(p)')
  PROVE  LeasesAreHeld'
<1>1. LeasesAreCurrent' /\ LeasesAreUnique' /\ \A p \in OpId : IsAttach(p) => IsAttach(p)'
  BY LeasesStay, BegunStays DEF MembershipIInv, LeasesAreHeld
<1>2. \A d \in Callers : (Holds(d))' <=> Holds(d)
  BY DEF Holds
<1>3. \A d \in Callers : Holds(d) => call[d].op \in OpId /\ call[d].op # nextOp
  BY HeldHasBegun, MaxOpsAssumption DEF MembershipIInv, MembershipTypeOK, Holds, OpId, TypeOK
<1>4. ASSUME NEW d \in Callers, Holds(d)
      PROVE  Holding(d)'
  <2>1. attach'[call[d].op] = attach[call[d].op]
    BY <1>3, <1>4
  <2>2. CASE call[d].pc \in {"Send", "Enter", "Add"}
    BY <1>1, <1>3, <1>4, <2>1, <2>2 DEF LeasesAreHeld, Holding
  <2>3. CASE call[d].pc \notin {"Send", "Enter", "Add"}
    BY <1>4, <2>3 DEF LeasesAreHeld, Holding
  <2> QED BY <2>2, <2>3
<1>5. \A p \in OpId : attach'[p].pc # "None" => IsAttach(p)'
  BY <1>1 DEF LeasesAreHeld
<1> QED BY <1>1, <1>2, <1>4, <1>5 DEF LeasesAreHeld

\* What a reservation or a repair does: nothing, or it starts an attach.
LEMMA ReserveFacts ==
  ASSUME MembershipIInv, NEW a \in Agents, NEW retryFailed \in BOOLEAN,
         Reserves(a, retryFailed) \/ ReserveRepair(a)
  PROVE  \/ ~Started /\ UNCHANGED vars
         \/ /\ Started /\ Starts(a, "Attaching", "attach") /\ signal' = signal
            /\ entries[a].state \notin {"Attaching", "Removing"}
            /\ leases \subseteq leases' /\ \A p \in OpId : p = nextOp => IsAttach(p)'
<1>0. nextOp \in 1..(MaxOps + 1) /\ MaxOps \in Nat /\ \A l \in leases : l.op < nextOp
  BY MaxOpsAssumption DEF MembershipIInv, IInv, TypeOK, Bookkeeping
<1>1. CASE UNCHANGED vars
  BY <1>1 DEF vars, Started
<1>2. CASE /\ Starts(a, "Attaching", "attach") /\ signal' = signal
           /\ entries[a].state \notin {"Attaching", "Removing"}
  <2>1. /\ nextOp \in OpId /\ nextOp' = nextOp + 1 /\ leases \subseteq leases'
        /\ \A l \in leases' \ leases : l.kind = "attach"
    BY <1>2, StartFacts DEF MembershipIInv
  <2>2. ASSUME NEW p \in OpId, p = nextOp
        PROVE  IsAttach(p)'
    <3>1. p \in 1..(nextOp' - 1) /\ \A l \in leases' : l.op = p => l.kind = "attach"
      BY <1>0, <2>1, <2>2 DEF OpId
    <3> QED BY <3>1 DEF IsAttach
  <2> QED BY <1>0, <1>2, <2>1, <2>2 DEF Started
<1>3. UNCHANGED vars \/ ( /\ Starts(a, "Attaching", "attach") /\ signal' = signal
                          /\ entries[a].state \notin {"Attaching", "Removing"})
  BY DEF Reserves, ReserveAttach, ReserveRepair, Join, StartAttach, Starts
<1> QED BY <1>1, <1>2, <1>3

\* What a caller's lease comes to.
LEMMA LeaseFacts ==
  ASSUME MembershipIInv, NEW op,
         DropLeaseOf(op) \/ FinishRemoveOf(op) \/ RestoreAttachRequiredOf(op)
  PROVE  /\ UNCHANGED <<nextOp, stopped, opAgent>>
         /\ \A l \in leases : (op # 0 /\ l.op = op) \/ l \in leases'
         /\ op = 0 => UNCHANGED vars
<1>1. CASE op = 0
  BY <1>1 DEF DropLeaseOf, FinishRemoveOf, RestoreAttachRequiredOf, vars
<1>2. CASE op # 0
  <2>1. PICK l \in leases : l.op = op /\ (CommitSome(l) \/ DropLease(l))
    BY <1>2 DEF DropLeaseOf, FinishRemoveOf, RestoreAttachRequiredOf, CommitSome
  <2> QED BY <1>2, <2>1, CommitCases DEF MembershipIInv
<1> QED BY <1>1, <1>2

\* A request's fields.
LEMMA RequestFields ==
  /\ \A pc, a, op, captured, roster :
        /\ NewCall(pc, a, op, captured, roster).pc = pc
        /\ NewCall(pc, a, op, captured, roster).slot = a
        /\ NewCall(pc, a, op, captured, roster).op = op
  /\ Idle.pc = "Idle" /\ Idle.op = 0
  BY DEF NewCall, Idle

\* How a request is changed.
LEMMA RequestSteps ==
  ASSUME MembershipIInv, NEW c \in Callers
  PROVE  /\ \A d : call' = [call EXCEPT ![c] = d] =>
               call'[c] = d /\ \A e \in Callers : e # c => call'[e] = call[e]
         /\ \A pc : Continue(c, pc) =>
               /\ call'[c].pc = pc /\ call'[c].slot = call[c].slot /\ call'[c].op = call[c].op
               /\ \A e \in Callers : e # c => call'[e] = call[e]
         /\ \A pc, op : call' = [call EXCEPT ![c].pc = pc, ![c].op = op] =>
               /\ call'[c].pc = pc /\ call'[c].slot = call[c].slot /\ call'[c].op = op
               /\ \A e \in Callers : e # c => call'[e] = call[e]
         /\ \A a : call' = [call EXCEPT ![c].roster = @ \ {a}] =>
               /\ call'[c].pc = call[c].pc
               /\ \A e \in Callers : e # c => call'[e] = call[e]
         /\ Return(c) => /\ call'[c] = Idle /\ call'[c].pc = "Idle"
                         /\ \A e \in Callers : e # c => call'[e] = call[e]
  BY RequestFields DEF MembershipIInv, MembershipTypeOK, Continue, Return

\* The two halves of spawn_agent.
LEMMA SpawnPersistsFacts ==
  ASSUME MembershipIInv, NEW c \in Callers, NEW a \in Agents, SpawnPersists(c, a)
  PROVE  /\ UNCHANGED <<vars, known, loops, agent, session, guard, attach, unleased>>
         /\ Published /\ guard = NoCaller
         /\ row[a] = "New" /\ row' = [row EXCEPT ![a] = "Member"]
         /\ call[c].pc = "Idle"
         /\ call'[c].pc = "Spawn" /\ call'[c].slot = a /\ call'[c].op = 0
         /\ \A e \in Callers : e # c => call'[e] = call[e]
<1>1. call'[c] = NewCall("Spawn", a, 0, FALSE, {}) /\ \A e \in Callers : e # c => call'[e] = call[e]
  <2>1. call' = [call EXCEPT ![c] = NewCall("Spawn", a, 0, FALSE, {})]
    BY DEF SpawnPersists
  <2> QED BY <2>1, RequestSteps
<1>2. call[c].pc = "Idle"
  BY RequestFields DEF SpawnPersists
<1>3. call'[c].pc = "Spawn" /\ call'[c].slot = a /\ call'[c].op = 0
  BY <1>1 DEF NewCall
<1> QED BY <1>1, <1>2, <1>3 DEF SpawnPersists, LockFree, historyVars

LEMMA SpawnReservesFacts ==
  ASSUME MembershipIInv, NEW c \in Callers, SpawnReserves(c), NEW a, a = call[c].slot
  PROVE  /\ a \in Agents /\ Reserves(a, FALSE)
         /\ UNCHANGED <<row, known, loops, agent, session, guard, attach>>
         /\ unleased' = [unleased EXCEPT ![a] = @ \/ row[a] # "Member"]
         /\ call[c].pc = "Spawn"
         /\ call'[c].pc = "Enter" /\ call'[c].slot = a
         /\ call'[c].op = IF Started THEN nextOp ELSE 0
         /\ \A e \in Callers : e # c => call'[e] = call[e]
<1> DEFINE d == NewCall("Enter", a, IF Started THEN nextOp ELSE 0, FALSE, {})
<1>1. /\ a \in Agents /\ Reserves(a, FALSE) /\ call[c].pc = "Spawn"
      /\ UNCHANGED <<row, known, loops, agent, session, guard, attach>>
      /\ unleased' = [unleased EXCEPT ![a] = @ \/ row[a] # "Member"]
      /\ call' = [call EXCEPT ![c] = d]
  BY DEF SpawnReserves, MembershipIInv, ForgottenIInv, memberVars
<1>3. call'[c] = d /\ \A e \in Callers : e # c => call'[e] = call[e]
  BY <1>1, RequestSteps
<1>4. d.pc = "Enter" /\ d.slot = a /\ d.op = IF Started THEN nextOp ELSE 0
  BY DEF NewCall
<1> QED BY <1>1, <1>3, <1>4

LEMMA SpawnEntersFacts ==
  ASSUME MembershipIInv, NEW c \in Callers, SpawnEnters(c), NEW a, a = call[c].slot
  PROVE  /\ a \in Agents
         /\ UNCHANGED <<vars, row, loops, agent, session, guard, attach>>
         /\ known' = [known EXCEPT ![a] = TRUE]
         /\ unleased' = [unleased EXCEPT ![a] = @ \/ row[a] # "Member"]
         /\ call[c].pc = "Enter"
         /\ call'[c].pc = "Add" /\ call'[c].slot = a /\ call'[c].op = call[c].op
         /\ \A e \in Callers : e # c => call'[e] = call[e]
<1>1. /\ a \in Agents /\ call[c].pc = "Enter" /\ Continue(c, "Add")
      /\ UNCHANGED <<vars, row, loops, agent, session, guard, attach>>
      /\ known' = [known EXCEPT ![a] = TRUE]
      /\ unleased' = [unleased EXCEPT ![a] = @ \/ row[a] # "Member"]
  BY DEF SpawnEnters, MembershipIInv, ForgottenIInv
<1> QED BY <1>1, RequestSteps

\* A removal that joined another one goes on without a lease.
LEMMA RemoveJoinsFields ==
  ASSUME MembershipIInv, NEW c \in Callers, RemoveJoins(c)
  PROVE  /\ call[c].pc = "Join" /\ call[c].slot \in Agents
         /\ call'[c].pc = "Forget" /\ call'[c].slot = call[c].slot /\ call'[c].op = 0
         /\ \A e \in Callers : e # c => call'[e] = call[e]
  BY DEF RemoveJoins, MembershipIInv, MembershipTypeOK, ForgottenIInv

\* How a removal begins: it starts an operation, or it has nothing to undo in the
\* registry, or it has joined another removal and is over.
LEMMA RemoveBeginsCases ==
  ASSUME MembershipIInv, NEW c \in Callers, NEW a \in Agents, RemoveBegins(c, a)
  PROVE  \/ /\ Starts(a, "Removing", "remove") /\ StopLoop(a)
            /\ entries[a].state \notin {"Absent", "Removing"}
            /\ call' = [call EXCEPT ![c] = NewCall("Kill", a, nextOp, TRUE, {})]
         \/ /\ UNCHANGED vars
            /\ loops' = loops \/ (entries[a] = Absent /\ StopLoop(a))
            /\ \E d : call' = [call EXCEPT ![c] = d] /\ d.op = 0 /\ d.pc \in {"Idle", "Kill"}
<1>1. /\ BeginRemove(a) => \/ UNCHANGED vars
                           \/ /\ Starts(a, "Removing", "remove")
                              /\ entries[a].state \notin {"Absent", "Removing"}
      /\ UNCHANGED vars => ~Started
      /\ Starts(a, "Removing", "remove") => Started
  <2>1. Starts(a, "Removing", "remove") => nextOp \in OpId /\ nextOp' = nextOp + 1
    BY DEF Starts, StartOperation
  <2> QED BY <2>1, MaxOpsAssumption DEF BeginRemove, Join, Starts, vars, Started, OpId
<1>2. /\ NewCall("Kill", a, 0, Published, {}).op = 0 /\ NewCall("Kill", a, 0, Published, {}).pc = "Kill"
      /\ Idle.op = 0 /\ Idle.pc = "Idle"
  BY DEF NewCall, Idle
<1>3. \/ /\ BeginRemove(a) /\ Started /\ StopLoop(a)
         /\ call' = [call EXCEPT ![c] = NewCall("Kill", a, nextOp, TRUE, {})]
      \/ BeginRemove(a) /\ ~Started /\ UNCHANGED loops /\ call' = [call EXCEPT ![c] = Idle]
      \/ /\ UNCHANGED vars /\ call' = [call EXCEPT ![c] = NewCall("Kill", a, 0, Published, {})]
         /\ loops' = loops \/ (entries[a] = Absent /\ StopLoop(a))
  BY DEF RemoveBegins, Return
<1> QED BY <1>1, <1>2, <1>3

\* A caller that has reserved answers for the lease it may have got.
LEMMA ReservesKeepHeld ==
  ASSUME MembershipIInv, LeasesAreHeld, [Next]_vars, NEW c \in Callers,
         NEW a \in Agents, Reserves(a, FALSE), attach' = attach,
         NEW pc \in {"Send", "Enter", "Add"}, NEW o, o = IF Started THEN nextOp ELSE 0,
         call' = [call EXCEPT ![c] = NewCall(pc, a, o, FALSE, {})]
  PROVE  LeasesAreHeld'
<1>1. /\ call'[c].pc = pc /\ call'[c].op = o
      /\ \A e \in Callers : e # c => call'[e] = call[e]
  <2>1. call' = [call EXCEPT ![c] = NewCall(pc, a, o, FALSE, {})]
    OBVIOUS
  <2>2. call'[c] = NewCall(pc, a, o, FALSE, {}) /\ \A e \in Callers : e # c => call'[e] = call[e]
    BY <2>1, RequestSteps
  <2> QED BY <2>2 DEF NewCall
<1>2. leases \subseteq leases'
  BY ReserveFacts DEF vars
<1>3. ASSUME Started
      PROVE  Holding(c)' /\ o = nextOp
  <2>1. nextOp \in OpId /\ \A p \in OpId : p = nextOp => IsAttach(p)'
    BY <1>3, ReserveFacts, StartFacts DEF MembershipIInv
  <2>2. attach[nextOp].pc = "None"
    BY <2>1, HeldHasBegun, MaxOpsAssumption DEF OpId
  <2> QED BY <1>1, <1>3, <2>1, <2>2 DEF Holding
<1>4. ~Started => ~(Holds(c))'
  BY <1>1 DEF Holds
<1> QED BY <1>1, <1>2, <1>3, <1>4, HeldByCaller

\* Leases stay with the tasks that answer for them: the requests that begin,
LEMMA BeginsKeepHeld ==
  ASSUME MembershipIInv, LeasesAreHeld, [Next]_vars, NEW c \in Callers, CallBegins(c)
  PROVE  LeasesAreHeld'
<1>1. CASE EnsureLoads(c)
  <2>1. call'[c].pc = "Ensure" /\ \A e \in Callers : e # c => call'[e] = call[e]
    <3>1. /\ call'[c] = NewCall("Ensure", NoAgent, 0, FALSE, Roster)
          /\ \A e \in Callers : e # c => call'[e] = call[e]
      BY <1>1, RequestSteps DEF EnsureLoads
    <3> QED BY <3>1 DEF NewCall
  <2>2. UNCHANGED <<leases, attach>>
    BY <1>1 DEF EnsureLoads, vars
  <2>3. ~(Holds(c))'
    BY <2>1 DEF Holds
  <2> QED BY <2>1, <2>2, <2>3, HeldByCaller
<1>2. ASSUME NEW a \in Agents, Reserves(a, FALSE), attach' = attach, ~Holds(c), UNCHANGED call
      PROVE  LeasesAreHeld'
  <2>1. leases \subseteq leases'
    BY <1>2, ReserveFacts DEF vars
  <2> QED BY <1>2, <2>1, HeldByOthers
<1>4. ASSUME NEW a \in Agents, Send(c, a)
      PROVE  LeasesAreHeld'
  <2>1. /\ Reserves(a, FALSE) /\ attach' = attach /\ ~Holds(c)
        /\ IF Started THEN call' = [call EXCEPT ![c] = NewCall("Send", a, nextOp, FALSE, {})]
                      ELSE UNCHANGED call
    BY <1>4, RequestFields DEF Send, Holds
  <2>2. CASE Started
    BY <2>1, <2>2, ReservesKeepHeld
  <2> QED BY <1>2, <2>1, <2>2
<1>5. ASSUME NEW a \in Agents, AddMember(c, a)
      PROVE  LeasesAreHeld'
  BY <1>5, ReservesKeepHeld DEF AddMember, Enters
<1>7. ASSUME NEW a \in Agents, SpawnPersists(c, a)
      PROVE  LeasesAreHeld'
  <2>1. leases' = leases /\ attach' = attach
    BY <1>7, SpawnPersistsFacts DEF vars
  <2>2. call'[c].op = 0 /\ \A e \in Callers : e # c => call'[e] = call[e]
    BY <1>7, SpawnPersistsFacts
  <2>3. ~(Holds(c))'
    BY <2>2 DEF Holds
  <2> QED BY <2>1, <2>2, <2>3, HeldByCaller
<1>6. ASSUME NEW a \in Agents, RemoveBegins(c, a)
      PROVE  LeasesAreHeld'
  <2>1. attach' = attach /\ ~Holds(c)
    BY <1>6, RequestFields DEF RemoveBegins, Holds
  <2>2. CASE UNCHANGED vars /\ \E d : call' = [call EXCEPT ![c] = d] /\ d.op = 0
    <3>1. call'[c].op = 0 /\ \A e \in Callers : e # c => call'[e] = call[e]
      BY <2>2, RequestSteps
    <3>2. leases' = leases /\ ~(Holds(c))'
      BY <2>2, <3>1 DEF vars, Holds
    <3> QED BY <2>1, <3>1, <3>2, HeldByCaller
  <2>3. CASE Starts(a, "Removing", "remove") /\ call' = [call EXCEPT ![c] = NewCall("Kill", a, nextOp, TRUE, {})]
    <3>1. /\ call'[c].pc = "Kill" /\ call'[c].op = nextOp /\ call'[c].slot = a
          /\ \A e \in Callers : e # c => call'[e] = call[e]
      <4>1. /\ call'[c] = NewCall("Kill", a, nextOp, TRUE, {})
            /\ \A e \in Callers : e # c => call'[e] = call[e]
        BY <2>3, RequestSteps
      <4> QED BY <4>1 DEF NewCall
    <3>2. leases \subseteq leases' /\ [kind |-> "remove", agent |-> a, op |-> nextOp] \in leases'
      BY <2>3, StartFacts DEF MembershipIInv
    <3>3. Holding(c)'
      BY <3>1, <3>2 DEF Holding
    <3> QED BY <2>1, <3>1, <3>2, <3>3, HeldByCaller
  <2>4. \/ UNCHANGED vars /\ \E d : call' = [call EXCEPT ![c] = d] /\ d.op = 0
        \/ Starts(a, "Removing", "remove") /\ call' = [call EXCEPT ![c] = NewCall("Kill", a, nextOp, TRUE, {})]
    BY <1>6, RemoveBeginsCases
  <2> QED BY <2>2, <2>3, <2>4
<1> QED BY <1>1, <1>4, <1>5, <1>6, <1>7 DEF CallBegins

\* How a removal goes on once the member is out of the row.
LEMMA RemovePersistsCases ==
  ASSUME MembershipIInv, NEW c \in Callers, RemovePersists(c), NEW a, a = call[c].slot
  PROVE  /\ a \in Agents /\ call[c].pc = "Persist" /\ call'[c].slot = a
         /\ \A e \in Callers : e # c => call'[e] = call[e]
         /\ \/ /\ ~Published /\ UNCHANGED <<vars, loops>>
               /\ call'[c].pc = "Delete" /\ call'[c].op = call[c].op
            \/ /\ Published /\ UNCHANGED vars /\ StopLoop(a)
               /\ call[c].captured \/ entries[a] = Absent
               /\ call'[c].pc = "Forget" /\ call'[c].op = call[c].op
            \/ /\ Published /\ Starts(a, "Removing", "remove") /\ StopLoop(a)
               /\ entries[a].state \notin {"Absent", "Removing"}
               /\ call'[c].pc = "Forget" /\ call'[c].op = nextOp
            \/ /\ Published /\ UNCHANGED <<vars, loops>>
               /\ entries[a].state = "Removing"
               /\ call'[c].pc = "Join" /\ call'[c].op = entries[a].op
<1>1. a \in Agents /\ call[c].pc = "Persist" /\ RemoveRejoins(c, a)
  BY DEF RemovePersists, MembershipIInv, ForgottenIInv
<1>2. /\ BeginRemove(a) => \/ UNCHANGED vars /\ entries[a].state = "Removing"
                           \/ /\ Starts(a, "Removing", "remove")
                              /\ entries[a].state \notin {"Absent", "Removing"}
      /\ UNCHANGED vars => ~Started
      /\ Starts(a, "Removing", "remove") => Started
  <2>1. Starts(a, "Removing", "remove") => nextOp \in OpId /\ nextOp' = nextOp + 1
    BY DEF Starts, StartOperation
  <2> QED BY <2>1, MaxOpsAssumption DEF BeginRemove, Join, Starts, vars, Started, OpId
<1>3. CASE ~Published /\ Continue(c, "Delete") /\ UNCHANGED <<vars, loops>>
  BY <1>1, <1>3, RequestSteps
<1>4. CASE /\ Published
           /\ call[c].captured \/ entries[a] = Absent
           /\ Continue(c, "Forget") /\ StopLoop(a) /\ UNCHANGED vars
  BY <1>1, <1>4, RequestSteps
<1>5. CASE /\ Published /\ BeginRemove(a)
           /\ IF Started
              THEN call' = [call EXCEPT ![c].pc = "Forget", ![c].op = nextOp] /\ StopLoop(a)
              ELSE call' = [call EXCEPT ![c].pc = "Join", ![c].op = entries[a].op] /\ UNCHANGED loops
  <2>1. CASE Started
    <3>1. /\ Starts(a, "Removing", "remove") /\ StopLoop(a)
          /\ entries[a].state \notin {"Absent", "Removing"}
      BY <1>2, <1>5, <2>1
    <3>2. call' = [call EXCEPT ![c].pc = "Forget", ![c].op = nextOp]
      BY <1>5, <2>1
    <3>3. /\ call'[c].pc = "Forget" /\ call'[c].slot = call[c].slot /\ call'[c].op = nextOp
          /\ \A e \in Callers : e # c => call'[e] = call[e]
      BY <3>2, RequestSteps
    <3> QED BY <1>1, <1>5, <3>1, <3>3
  <2>2. CASE ~Started
    <3>1. UNCHANGED <<vars, loops>> /\ entries[a].state = "Removing"
      BY <1>2, <1>5, <2>2
    <3>2. call' = [call EXCEPT ![c].pc = "Join", ![c].op = entries[a].op]
      BY <1>5, <2>2
    <3>3. /\ call'[c].pc = "Join" /\ call'[c].slot = call[c].slot /\ call'[c].op = entries[a].op
          /\ \A e \in Callers : e # c => call'[e] = call[e]
      BY <3>2, RequestSteps
    <3> QED BY <1>1, <1>5, <3>1, <3>3
  <2> QED BY <2>1, <2>2
<1> QED BY <1>1, <1>3, <1>4, <1>5 DEF RemoveRejoins

\* A step of a caller that holds no lease after it.
LEMMA HeldByLeaving ==
  ASSUME MembershipIInv, LeasesAreHeld, [Next]_vars, NEW c \in Callers, attach' = attach,
         \A d \in Callers : d # c => call'[d] = call[d],
         call'[c].pc \in {"Idle", "Undo", "Delete"},
         \/ UNCHANGED vars
         \/ /\ call[c].pc \in {"Send", "Add", "Persist", "Forget"}
            /\ \/ DropLeaseOf(call[c].op)
               \/ FinishRemoveOf(call[c].op)
               \/ RestoreAttachRequiredOf(call[c].op)
  PROVE  LeasesAreHeld'
<1>1. ~(Holds(c))'
  BY DEF Holds
<1>2. \A l \in leases : (Holds(c) /\ l.op = call[c].op) \/ l \in leases'
  BY LeaseFacts DEF Holds, vars
<1> QED BY <1>1, <1>2, HeldByCaller

\* ... the requests that go on,
LEMMA ProceedsKeepHeld ==
  ASSUME MembershipIInv, LeasesAreHeld, [Next]_vars, NEW c \in Callers, CallProceeds(c)
  PROVE  LeasesAreHeld'
<1>1. ASSUME NEW a \in Agents, EnsureReconciles(c, a)
      PROVE  LeasesAreHeld'
  <2>1. /\ call[c].pc = "Ensure" /\ SpawnIfStarted
        /\ Return(c) \/ call' = [call EXCEPT ![c].roster = @ \ {a}]
        /\ UNCHANGED vars \/ Reserves(a, TRUE) \/ ReserveRepair(a)
    BY <1>1 DEF EnsureReconciles, Leave
  <2>2. /\ call'[c].pc \in {"Ensure", "Idle"}
        /\ \A e \in Callers : e # c => call'[e] = call[e]
    BY <2>1, RequestSteps, RequestFields
  <2>3. /\ leases \subseteq leases'
        /\ attach' = attach \/ (\A p \in OpId : p = nextOp => IsAttach(p)')
    BY <2>1, ReserveFacts DEF SpawnIfStarted, Started, vars
  <2>4. \A p \in OpId : attach'[p] = attach[p] \/ p = nextOp
    BY <2>1 DEF SpawnIfStarted, SpawnAttach, MembershipIInv, MembershipTypeOK
  <2>5. ~(Holds(c))' /\ ~Holds(c)
    BY <2>1, <2>2 DEF Holds
  <2> QED BY <2>2, <2>3, <2>4, <2>5, HeldByCaller
<1>2. CASE SendFinds(c) \/ AddSpawns(c)
  <2>1. /\ call[c].pc \in {"Send", "Enter", "Add"} /\ Return(c)
        /\ \/ UNCHANGED vars /\ SpawnAttach(call[c].op)
           \/ UNCHANGED vars /\ attach' = attach
           \/ DropLeaseOf(call[c].op) /\ attach' = attach
    BY <1>2 DEF SendFinds, AddSpawns, Leave, Abandon
  <2>2. /\ \A e \in Callers : e # c => call'[e] = call[e]
        /\ ~(Holds(c))'
    BY <2>1, RequestSteps DEF Holds
  <2>3. \A l \in leases : (Holds(c) /\ l.op = call[c].op) \/ l \in leases'
    BY <2>1, LeaseFacts DEF Holds, vars
  <2>4. \A p \in OpId : attach'[p] = attach[p] \/ (Holds(c) /\ p = call[c].op)
    <3>1. 0 \notin OpId
      BY DEF OpId
    <3>2. \A p \in OpId : attach'[p] = attach[p] \/ p = call[c].op
      BY <2>1 DEF SpawnAttach, MembershipIInv, MembershipTypeOK
    <3> QED BY <2>1, <3>1, <3>2 DEF Holds
  <2> QED BY <2>1, <2>2, <2>3, <2>4, HeldByCaller
<1>3. CASE EnsureStarts(c) \/ EnsureEnds(c) \/ UndoEnds(c) \/ RemoveDeletes(c)
  <2>1. Return(c) /\ UNCHANGED vars /\ attach' = attach
    BY <1>3 DEF EnsureStarts, EnsureEnds, UndoEnds, RemoveDeletes, Leave
  <2> QED BY <2>1, RequestSteps, HeldByLeaving
<1>4. CASE AddFails(c)
  <2>1. /\ call[c].pc = "Add" /\ attach' = attach /\ DropLeaseOf(call[c].op)
        /\ Return(c) \/ Continue(c, "Undo")
    BY <1>4 DEF AddFails, Leave, Abandon
  <2>2. call'[c].pc \in {"Idle", "Undo"} /\ \A e \in Callers : e # c => call'[e] = call[e]
    BY <2>1, RequestSteps
  <2> QED BY <2>1, <2>2, HeldByLeaving
<1>8. CASE SpawnReserves(c)
  <2>1. call[c].slot \in Agents
    BY <1>8 DEF SpawnReserves, MembershipIInv, ForgottenIInv
  <2> QED BY <1>8, <2>1, ReservesKeepHeld DEF SpawnReserves
<1>9. CASE SpawnEnters(c)
  <2>1. /\ call[c].pc = "Enter" /\ call'[c].pc = "Add"
        /\ call'[c].slot = call[c].slot /\ call'[c].op = call[c].op
        /\ \A e \in Callers : e # c => call'[e] = call[e]
        /\ leases' = leases /\ attach' = attach
    BY <1>9, SpawnEntersFacts DEF vars
  <2>2. (Holds(c))' => Holds(c)
    BY <2>1 DEF Holds
  <2> QED BY <2>1, <2>2, HeldByCaller
<1>5. CASE RemoveKills(c)
  <2>1. /\ call[c].pc = "Kill" /\ call'[c].pc = "Persist"
        /\ call'[c].slot = call[c].slot /\ call'[c].op = call[c].op
        /\ \A e \in Callers : e # c => call'[e] = call[e]
    BY <1>5, RequestSteps DEF RemoveKills
  <2>2. leases' = leases /\ attach' = attach
    BY <1>5 DEF RemoveKills, vars
  <2>3. (Holds(c))' => Holds(c)
    BY <2>1 DEF Holds
  <2> QED BY <2>1, <2>2, <2>3, HeldByCaller
<1>6. CASE RemoveJoins(c)
  <2>1. UNCHANGED <<vars, attach>>
    BY <1>6 DEF RemoveJoins
  <2>2. call'[c].op = 0 /\ \A e \in Callers : e # c => call'[e] = call[e]
    BY <1>6, RemoveJoinsFields
  <2>3. ~(Holds(c))' /\ leases' = leases
    BY <2>1, <2>2 DEF Holds, vars
  <2> QED BY <2>1, <2>2, <2>3, HeldByCaller
<1>7. CASE RemoveForgets(c)
  <2>1. /\ call[c].pc = "Forget" /\ attach' = attach /\ FinishRemoveOf(call[c].op) /\ Continue(c, "Delete")
    BY <1>7 DEF RemoveForgets
  <2>2. call'[c].pc = "Delete" /\ \A e \in Callers : e # c => call'[e] = call[e]
    BY <2>1, RequestSteps
  <2> QED BY <2>1, <2>2, HeldByLeaving
<1> QED BY <1>1, <1>2, <1>3, <1>4, <1>5, <1>6, <1>7, <1>8, <1>9 DEF CallProceeds

\* ... the requests that take the lock again,
LEMMA LocksKeepHeld ==
  ASSUME MembershipIInv, LeasesAreHeld, [Next]_vars, NEW c \in Callers, CallLocks(c)
  PROVE  LeasesAreHeld'
<1>1. CASE RemovePersists(c)
  <2> DEFINE a == call[c].slot
  <2>1. attach' = attach /\ call[c].pc = "Persist"
    BY <1>1 DEF RemovePersists
  <2>2. \A e \in Callers : e # c => call'[e] = call[e]
    BY <1>1, RemovePersistsCases
  <2>3. CASE UNCHANGED vars /\ call'[c].pc = "Forget" /\ call'[c].op = call[c].op
    <3>1. call'[c].slot = call[c].slot /\ leases' = leases
      BY <1>1, <2>3, RemovePersistsCases DEF vars
    <3>2. (Holds(c))' => Holds(c)
      BY <2>1, <2>3 DEF Holds
    <3> QED BY <2>1, <2>2, <2>3, <3>1, <3>2, HeldByCaller
  <2>4. CASE Starts(a, "Removing", "remove") /\ call'[c].pc = "Forget" /\ call'[c].op = nextOp
    <3>1. a \in Agents /\ call'[c].slot = a
      BY <1>1, RemovePersistsCases
    <3>2. leases \subseteq leases' /\ [kind |-> "remove", agent |-> a, op |-> nextOp] \in leases'
      BY <2>4, <3>1, StartFacts DEF MembershipIInv
    <3>3. Holding(c)'
      BY <2>4, <3>1, <3>2 DEF Holding
    <3> QED BY <2>1, <2>2, <2>4, <3>2, <3>3, HeldByCaller
  <2>5. CASE UNCHANGED vars /\ call'[c].pc \in {"Delete", "Join"}
    <3>1. ~(Holds(c))' /\ leases' = leases
      BY <2>5 DEF Holds, vars
    <3> QED BY <2>1, <2>2, <3>1, HeldByCaller
  <2> QED BY <1>1, <2>3, <2>4, <2>5, RemovePersistsCases
<1>2. CASE RemovePersistFails(c) \/ RemoveLoadFails(c)
  <2>1. /\ call[c].pc = "Persist" /\ attach' = attach /\ Return(c)
        /\ DropLeaseOf(call[c].op) \/ RestoreAttachRequiredOf(call[c].op)
    BY <1>2 DEF RemovePersistFails, RemoveLoadFails, Abandon
  <2> QED BY <2>1, RequestSteps, HeldByLeaving
<1> QED BY <1>1, <1>2 DEF CallLocks

\* An attach task is somewhere, changes nobody else's place and consumes no other lease.
LEMMA AttachSteps ==
  ASSUME MembershipIInv, NEW op \in OpId, AttachProceeds(op)
  PROVE  /\ attach[op].pc # "None" /\ UNCHANGED <<row, known, session, guard, call, unleased>>
         /\ \A p \in OpId : p # op => attach'[p] = attach[p]
         /\ \A l \in leases : l.op # op => l \in leases'
<1>1. attach[op].pc # "None" /\ UNCHANGED <<row, known, session, guard, call, unleased>>
  BY DEF AttachProceeds, AttachResets, AttachWarms, AttachErrs, AttachRegisters, AttachCommits,
         AttachPublishes, AttachCleans, AttachFails, At, memberVars, historyVars
<1>2. ASSUME \/ \E pc : Goto(op, pc)
             \/ \E a : attach' = [attach EXCEPT ![op] = a]
      PROVE  \A p \in OpId : p # op => attach'[p] = attach[p]
  BY <1>2 DEF Goto, MembershipIInv, MembershipTypeOK
<1>3. CASE AttachResets(op) \/ AttachWarms(op) \/ AttachErrs(op) \/ AttachRegisters(op) \/ AttachPublishes(op)
  <2>1. /\ UNCHANGED vars
        /\ (\E pc : Goto(op, pc)) \/ (\E a : attach' = [attach EXCEPT ![op] = a])
    BY <1>3 DEF AttachResets, AttachWarms, AttachErrs, AttachRegisters, AttachPublishes, Withdraw, Finish
  <2> QED BY <1>1, <1>2, <2>1 DEF vars
<1>4. CASE AttachCommits(op) \/ AttachFails(op)
  <2>1. /\ \E l \in leases : l.op = op /\ CommitSome(l)
        /\ (\E pc : Goto(op, pc)) \/ (\E a : attach' = [attach EXCEPT ![op] = a])
    BY <1>4 DEF AttachCommits, AttachFails, Withdraw, Finish, CommitSome
  <2>2. \A l \in leases : l.op # op => l \in leases'
    BY <2>1, CommitCases DEF MembershipIInv
  <2> QED BY <1>1, <1>2, <2>1, <2>2
<1>5. CASE AttachCleans(op)
  <2>1. /\ UNCHANGED vars \/ DropLeaseOf(op)
        /\ \E a : attach' = [attach EXCEPT ![op] = a]
    BY <1>5 DEF AttachCleans, Finish
  <2>2. \A l \in leases : l.op # op => l \in leases'
    BY <2>1, LeaseFacts DEF vars
  <2> QED BY <1>1, <1>2, <2>1, <2>2
<1> QED BY <1>3, <1>4, <1>5 DEF AttachProceeds

\* ... and so do the attaches and everything else.
LEMMA NextKeepsHeld ==
  ASSUME MembershipIInv, LeasesAreHeld, [MembershipNext]_allVars
  PROVE  LeasesAreHeld'
<1>1. [Next]_vars
  BY NextMembershipIInv
<1>2. ASSUME NEW c \in Callers, CallBegins(c) \/ CallProceeds(c) \/ CallLocks(c)
      PROVE  LeasesAreHeld'
  BY <1>1, <1>2, BeginsKeepHeld, ProceedsKeepHeld, LocksKeepHeld
<1>3. ASSUME NEW op \in OpId, AttachProceeds(op)
      PROVE  LeasesAreHeld'
  BY <1>1, <1>3, AttachSteps, HeldByAttach
<1>4. ASSUME NEW a \in Agents, Retry(a)
      PROVE  LeasesAreHeld'
  <2>1. call' = call /\ Reserves(a, TRUE) /\ SpawnIfStarted
    BY <1>4 DEF Retry
  <2>2. /\ leases \subseteq leases'
        /\ attach' = attach \/ (\A p \in OpId : p = nextOp => IsAttach(p)')
    BY <2>1, ReserveFacts DEF SpawnIfStarted, Started, vars
  <2>3. \A p \in OpId : attach'[p] = attach[p] \/ p = nextOp
    BY <2>1 DEF SpawnIfStarted, SpawnAttach, MembershipIInv, MembershipTypeOK
  <2> QED BY <1>1, <2>1, <2>2, <2>3, HeldByOthers
<1>5. ASSUME NEW a \in Agents, AddToRow(a) \/ AgentEnds(a)
      PROVE  LeasesAreHeld'
  BY <1>1, <1>5, HeldByOthers DEF AddToRow, AgentEnds, taskVars, vars
<1>6. CASE SessionStops \/ UNCHANGED allVars
  BY <1>1, <1>6, HeldByOthers DEF SessionStops, Stop, taskVars, allVars, vars, historyVars
<1> QED BY <1>2, <1>3, <1>4, <1>5, <1>6 DEF MembershipNext

----------------------------------------------------------------------------
(* The session is ahead of what runs in it.                                 *)

\* A step that leaves the session where it is, and does nothing before it is published.
LEMMA AheadStep ==
  ASSUME SessionIsAhead, session' = session, stopped' = stopped,
         Published \/ \A a \in Agents : loops'[a] => loops[a],
         session = "Unborn" =>
            /\ UNCHANGED <<leases, entries, attach>>
            /\ \A a \in Agents : agent'[a] => agent[a]
            /\ \A c \in Callers :
                  call'[c].pc \in {"Send", "Spawn", "Enter", "Add"} => call[c].pc \in {"Send", "Spawn", "Enter", "Add"}
  PROVE  SessionIsAhead'
<1>1. /\ session' = "Stopped" <=> stopped'
      /\ ~Published' => \A a \in Agents : ~loops'[a]
  BY DEF SessionIsAhead, Published
<1>2. session' = "Unborn" =>
        /\ leases' = {}
        /\ \A op \in OpId : attach'[op].pc = "None"
        /\ \A c \in Callers : call'[c].pc \notin {"Send", "Spawn", "Enter", "Add"}
        /\ \A a \in Agents : entries'[a] = Absent /\ ~agent'[a]
  BY DEF SessionIsAhead
<1> QED BY <1>1, <1>2 DEF SessionIsAhead

\* A caller keeps the session ahead,
LEMMA CallersKeepAhead ==
  ASSUME MembershipIInv, SessionIsAhead, NEW c \in Callers,
         CallBegins(c) \/ CallProceeds(c) \/ CallLocks(c)
  PROVE  SessionIsAhead'
<1>1. \A a \in Agents : StopLoop(a) => \A b \in Agents : loops'[b] => loops[b]
  BY DEF StopLoop, MembershipIInv, MembershipTypeOK
<1>2. \A a : KillAgent(a) => \A b \in Agents : agent'[b] => agent[b]
  BY DEF KillAgent, MembershipIInv, MembershipTypeOK
<1>3. CASE EnsureLoads(c) \/ EnsureEnds(c) \/ UndoEnds(c) \/ RemoveDeletes(c)
  <2>1. /\ UNCHANGED <<vars, loops, session, attach>>
        /\ Return(c) \/ call' = [call EXCEPT ![c] = NewCall("Ensure", NoAgent, 0, FALSE, Roster)]
        /\ agent' = agent \/ \E a : KillAgent(a)
    BY <1>3 DEF EnsureLoads, EnsureEnds, UndoEnds, RemoveDeletes, Leave, memberVars, historyVars
  <2>2. NewCall("Ensure", NoAgent, 0, FALSE, Roster).pc = "Ensure"
    BY DEF NewCall
  <2>3. call'[c].pc \in {"Idle", "Ensure"} /\ \A e \in Callers : e # c => call'[e] = call[e]
    BY <2>1, <2>2, RequestSteps
  <2> QED BY <1>2, <2>1, <2>3, AheadStep DEF vars
<1>4. ASSUME NEW a \in Agents, Send(c, a) \/ AddMember(c, a) \/ EnsureReconciles(c, a)
      PROVE  SessionIsAhead'
  <2>1. /\ Published /\ UNCHANGED <<loops, session>>
        /\ UNCHANGED vars \/ Reserves(a, FALSE) \/ Reserves(a, TRUE) \/ ReserveRepair(a)
    BY <1>4 DEF Send, AddMember, Enters, EnsureReconciles, memberVars
  <2>2. stopped' = stopped
    BY <2>1, ReserveFacts DEF vars, Starts
  <2> QED BY <2>1, <2>2, AheadStep DEF Published
<1>5. ASSUME NEW a \in Agents, RemoveBegins(c, a)
      PROVE  SessionIsAhead'
  <2>1. /\ UNCHANGED <<session, attach, agent>>
        /\ Published \/ UNCHANGED vars
        /\ StopLoop(a) \/ loops' = loops
    BY <1>5 DEF RemoveBegins
  <2>2. stopped' = stopped
    BY <1>5, RemoveBeginsCases DEF vars, Starts
  <2>3. call'[c].pc \in {"Idle", "Kill"} /\ \A e \in Callers : e # c => call'[e] = call[e]
    <3>1. NewCall("Kill", a, nextOp, TRUE, {}).pc = "Kill"
      BY DEF NewCall
    <3>2. PICK d : call' = [call EXCEPT ![c] = d] /\ d.pc \in {"Idle", "Kill"}
      BY <1>5, <3>1, RemoveBeginsCases
    <3>3. call'[c] = d /\ \A e \in Callers : e # c => call'[e] = call[e]
      BY <3>2, RequestSteps
    <3> QED BY <3>2, <3>3
  <2> QED BY <1>1, <2>1, <2>2, <2>3, AheadStep DEF vars, Published
<1>6. CASE EnsureStarts(c)
  <2>1. session = "Unborn" /\ session' = "Published" /\ stopped' = stopped
    BY <1>6 DEF EnsureStarts, vars
  <2> QED BY <2>1 DEF SessionIsAhead, Published
<1>11. ASSUME NEW a \in Agents, SpawnPersists(c, a)
       PROVE  SessionIsAhead'
  BY <1>11, SpawnPersistsFacts, AheadStep DEF Published, vars
<1>12. CASE SpawnReserves(c)
  <2>1. stopped' = stopped
    BY <1>12, SpawnReservesFacts, ReserveFacts DEF vars, Starts
  <2>2. session # "Unborn" /\ UNCHANGED <<loops, session>>
    BY <1>12, SpawnReservesFacts DEF SessionIsAhead
  <2> QED BY <2>1, <2>2, AheadStep
<1>13. CASE SpawnEnters(c)
  <2>1. session # "Unborn" /\ UNCHANGED <<vars, loops, session>>
    BY <1>13, SpawnEntersFacts DEF SessionIsAhead
  <2> QED BY <2>1, AheadStep DEF vars
<1>7. CASE SendFinds(c) \/ AddSpawns(c) \/ AddFails(c)
  <2>1. /\ UNCHANGED <<loops, session>> /\ call[c].pc \in {"Send", "Enter", "Add"}
        /\ UNCHANGED vars \/ DropLeaseOf(call[c].op)
    BY <1>7 DEF SendFinds, AddSpawns, AddFails, memberVars, Abandon
  <2>2. stopped' = stopped /\ session # "Unborn"
    BY <2>1, LeaseFacts DEF vars, SessionIsAhead
  <2> QED BY <2>1, <2>2, AheadStep
<1>8. CASE RemoveKills(c) \/ RemoveForgets(c) \/ RemovePersistFails(c) \/ RemoveLoadFails(c)
  <2>1. /\ UNCHANGED <<loops, session, attach>>
        /\ agent' = agent \/ \E a : KillAgent(a)
        /\ UNCHANGED vars \/ DropLeaseOf(call[c].op) \/ FinishRemoveOf(call[c].op) \/ RestoreAttachRequiredOf(call[c].op)
        /\ Continue(c, "Persist") \/ Continue(c, "Delete") \/ Return(c)
    BY <1>8 DEF RemoveKills, RemoveForgets, RemovePersistFails, RemoveLoadFails, memberVars, historyVars, Abandon
  <2>2. stopped' = stopped
    BY <2>1, LeaseFacts DEF vars
  <2>3. session = "Unborn" => UNCHANGED <<leases, entries>>
    <3>1. leases = {} /\ call[c].op # 0 =>
            ~(DropLeaseOf(call[c].op) \/ FinishRemoveOf(call[c].op) \/ RestoreAttachRequiredOf(call[c].op))
      BY DEF DropLeaseOf, FinishRemoveOf, RestoreAttachRequiredOf
    <3>2. call[c].op = 0 \/ session # "Unborn" \/ UNCHANGED vars
      BY <2>1, <3>1 DEF SessionIsAhead
    <3>3. call[c].op = 0 => UNCHANGED vars
      BY <2>1, LeaseFacts
    <3> QED BY <3>2, <3>3 DEF vars
  <2>4. call'[c].pc \in {"Persist", "Delete", "Idle"} /\ \A e \in Callers : e # c => call'[e] = call[e]
    BY <2>1, RequestSteps
  <2> QED BY <1>2, <2>1, <2>2, <2>3, <2>4, AheadStep
<1>9. CASE RemoveJoins(c)
  <2>1. UNCHANGED <<vars, agent, session, attach>> /\ StopLoop(call[c].slot)
    BY <1>9 DEF RemoveJoins
  <2> QED BY <1>1, <1>9, <2>1, RemoveJoinsFields, AheadStep DEF vars
<1>10. CASE RemovePersists(c)
  <2> DEFINE a == call[c].slot
  <2>1. UNCHANGED <<agent, session, attach>>
    BY <1>10 DEF RemovePersists
  <2>2. /\ a \in Agents
        /\ StopLoop(a) \/ loops' = loops
        /\ UNCHANGED vars \/ (Published /\ Starts(a, "Removing", "remove"))
        /\ call'[c].pc \in {"Delete", "Forget", "Join"} /\ \A e \in Callers : e # c => call'[e] = call[e]
    BY <1>10, RemovePersistsCases
  <2>3. stopped' = stopped
    BY <2>2 DEF Starts, vars
  <2> QED BY <1>1, <2>1, <2>2, <2>3, AheadStep DEF vars, Published
<1> QED BY <1>3, <1>4, <1>5, <1>6, <1>7, <1>8, <1>9, <1>10, <1>11, <1>12, <1>13 DEF CallBegins, CallProceeds, CallLocks

\* ... so does an attach, which exists only after the session was published and registers
\* a loop only while the registry runs,
LEMMA AttachesKeepAhead ==
  ASSUME MembershipIInv, SessionIsAhead, NEW op \in OpId, AttachProceeds(op)
  PROVE  SessionIsAhead'
<1>1. session' = session /\ session # "Unborn"
  BY AttachSteps DEF SessionIsAhead
<1>2. stopped' = stopped
  <2>1. \/ UNCHANGED vars
        \/ DropLeaseOf(op)
        \/ \E l \in leases : CommitSome(l)
    BY DEF AttachProceeds, AttachResets, AttachWarms, AttachErrs, AttachRegisters, AttachCommits,
           AttachPublishes, AttachCleans, AttachFails, CommitSome
  <2> QED BY <2>1, LeaseFacts, CommitCases DEF vars, MembershipIInv
<1>3. Published \/ \A a \in Agents : loops'[a] => loops[a]
  <2>1. CASE AttachRegisters(op) /\ ~stopped
    BY <1>1, <2>1 DEF SessionIsAhead, Published, MembershipIInv, MembershipTypeOK
  <2>2. CASE ~(AttachRegisters(op) /\ ~stopped)
    <3>1. loops' = loops \/ StopLoop(opAgent[op])
      BY <2>2 DEF AttachProceeds, AttachResets, AttachWarms, AttachErrs, AttachRegisters, AttachCommits,
                  AttachPublishes, AttachCleans, AttachFails, Withdraw, memberVars, historyVars
    <3> QED BY <3>1 DEF StopLoop, MembershipIInv, MembershipTypeOK
  <2> QED BY <2>1, <2>2
<1> QED BY <1>1, <1>2, <1>3, AheadStep

\* ... and everything else.
LEMMA NextKeepsAhead ==
  ASSUME MembershipIInv, SessionIsAhead, [MembershipNext]_allVars
  PROVE  SessionIsAhead'
<1>1. ASSUME NEW a \in Agents, Retry(a)
      PROVE  SessionIsAhead'
  <2>1. Published /\ UNCHANGED <<loops, session>> /\ Reserves(a, TRUE)
    BY <1>1 DEF Retry, memberVars, historyVars
  <2>2. stopped' = stopped
    BY <2>1, ReserveFacts DEF vars, Starts
  <2> QED BY <2>1, <2>2, AheadStep DEF Published
<1>2. ASSUME NEW a \in Agents, AddToRow(a) \/ AgentEnds(a)
      PROVE  SessionIsAhead'
  <2>1. /\ UNCHANGED <<vars, loops, session, call, attach>>
        /\ \A b \in Agents : agent'[b] => agent[b]
    BY <1>2 DEF AddToRow, AgentEnds, KillAgent, taskVars, MembershipIInv, MembershipTypeOK, historyVars
  <2> QED BY <2>1, AheadStep DEF vars
<1>3. CASE SessionStops
  BY <1>3 DEF SessionStops, Stop, SessionIsAhead, Published
<1>4. CASE UNCHANGED allVars
  BY <1>4, AheadStep DEF allVars, vars, memberVars, taskVars, historyVars
<1> QED BY <1>1, <1>2, <1>3, <1>4, CallersKeepAhead, AttachesKeepAhead DEF MembershipNext

----------------------------------------------------------------------------
(* What the steps do to the entries, the loops, the agents and the requests.*)

\* What the end of a lease does to the entries.
LEMMA LeaseEffects ==
  ASSUME MembershipIInv, NEW op
  PROVE  /\ DropLeaseOf(op) => entries' = entries
         /\ FinishRemoveOf(op) => \A a \in Agents :
               entries'[a] = entries[a] \/ (entries[a] = InFlight("Removing", op) /\ entries'[a] = Absent)
         /\ RestoreAttachRequiredOf(op) => \A a \in Agents :
               \/ entries'[a] = entries[a]
               \/ /\ entries[a] = InFlight("Removing", op) /\ entries'[a] = InFlight("Failed", op)
                  /\ signal'[op] = "Failed"
<1>1. DropLeaseOf(op) => entries' = entries
  BY DEF DropLeaseOf, DropLease, vars
<1>2. ASSUME NEW entry, NEW outcome, NEW l \in leases, l.op = op, Commit(l, "Removing", entry, outcome)
      PROVE  \A a \in Agents :
                \/ entries'[a] = entries[a]
                \/ entries[a] = InFlight("Removing", op) /\ entries'[a] = entry /\ signal'[op] = outcome
  <2>1. l.agent \in Agents /\ l.op \in OpId
    BY DEF MembershipIInv, IInv, TypeOK, Lease
  <2> QED BY <1>2, <2>1 DEF Commit, Current, Settle, MembershipIInv, IInv, TypeOK
<1>3. FinishRemoveOf(op) => \A a \in Agents :
         entries'[a] = entries[a] \/ (entries[a] = InFlight("Removing", op) /\ entries'[a] = Absent)
  BY <1>2 DEF FinishRemoveOf, FinishRemove, vars
<1>4. RestoreAttachRequiredOf(op) => \A a \in Agents :
         \/ entries'[a] = entries[a]
         \/ /\ entries[a] = InFlight("Removing", op) /\ entries'[a] = InFlight("Failed", op)
            /\ signal'[op] = "Failed"
  BY <1>2 DEF RestoreAttachRequiredOf, RestoreAttachRequired, vars
<1> QED BY <1>1, <1>3, <1>4

\* What an attach does to them: a slot becomes ready or failed when the attach it waits
\* for commits.
LEMMA AttachEffects ==
  ASSUME MembershipIInv, NEW op \in OpId, AttachProceeds(op), NEW a \in Agents
  PROVE  \/ entries'[a] = entries[a]
         \/ /\ Owns(op) /\ opAgent[op] = a /\ entries[a] = InFlight("Attaching", op)
            /\ entries'[a] = InFlight("Failed", op) \/ (AttachCommits(op) /\ entries'[a] = Ready)
<1>1. ASSUME NEW entry, NEW outcome, NEW l \in leases, l.op = op, Commit(l, "Attaching", entry, outcome)
      PROVE  \/ entries'[a] = entries[a]
             \/ /\ Owns(op) /\ opAgent[op] = a /\ entries[a] = InFlight("Attaching", op)
                /\ entries'[a] = entry
  <2>1. l.agent \in Agents /\ l.op \in OpId /\ opAgent[op] = l.agent
    BY <1>1 DEF MembershipIInv, IInv, TypeOK, Lease, Bookkeeping
  <2>2. CASE Current(l, "Attaching")
    <3>1. Owns(op)
      BY <1>1, <2>2 DEF Owns
    <3> QED BY <1>1, <2>1, <2>2, <3>1 DEF Commit, Current, Settle, MembershipIInv, IInv, TypeOK
  <2>3. CASE ~Current(l, "Attaching")
    BY <1>1, <2>3 DEF Commit
  <2> QED BY <2>2, <2>3
<1>2. CASE AttachCommits(op)
  <2>1. PICK l \in leases : l.op = op /\ Commit(l, "Attaching", Ready, "Ready")
    BY <1>2 DEF AttachCommits, CommitReady
  <2> QED BY <1>1, <1>2, <2>1
<1>3. CASE AttachFails(op)
  <2>1. PICK l \in leases : l.op = op /\ Commit(l, "Attaching", InFlight("Failed", l.op), "Failed")
    BY <1>3 DEF AttachFails, CommitFailed
  <2> QED BY <1>1, <2>1
<1>4. CASE ~AttachCommits(op) /\ ~AttachFails(op)
  <2>1. UNCHANGED vars \/ DropLeaseOf(op)
    BY <1>4 DEF AttachProceeds, AttachResets, AttachWarms, AttachErrs, AttachRegisters,
                AttachPublishes, AttachCleans
  <2> QED BY <2>1, LeaseEffects DEF vars
<1> QED BY <1>2, <1>3, <1>4

\* An attach that still owns its slot owned it before.
LEMMA OwnedBefore ==
  ASSUME MembershipIInv, [Next]_vars, NEW p \in 1..(nextOp - 1), (Owns(p))'
  PROVE  Owns(p)
<1>1. PICK l \in leases' : l.op = p /\ (Current(l, "Attaching"))'
  BY DEF Owns
<1>2. l \in leases
  <2>1. ASSUME NEW a \in Agents, NEW st, NEW kind, Starts(a, st, kind), l \notin leases
        PROVE  l.op = nextOp
    BY <2>1, StartFacts DEF MembershipIInv
  <2>2. ASSUME NEW m \in leases, CommitSome(m) \/ DropLease(m)
        PROVE  l \in leases
    BY <2>2, CommitCases DEF MembershipIInv
  <2>3. p # nextOp
    BY MaxOpsAssumption DEF MembershipIInv, MembershipTypeOK, TypeOK
  <2> QED BY <1>1, <2>1, <2>2, <2>3, RegistryCases DEF MembershipIInv, vars, Stop
<1>3. l.agent \in Agents
  BY <1>2 DEF MembershipIInv, IInv, TypeOK, Lease
<1>4. ~stopped' /\ entries'[l.agent] = InFlight("Attaching", p)
  BY <1>1 DEF Current
<1>5. entries[l.agent] = InFlight("Attaching", p)
  BY <1>3, <1>4, BegunStays DEF MembershipIInv
<1>6. ~stopped
  <2>1. ASSUME NEW m \in leases, CommitSome(m) \/ DropLease(m)
        PROVE  stopped' = stopped
    BY <2>1, CommitCases DEF MembershipIInv
  <2> QED BY <1>4, <2>1, RegistryCases DEF MembershipIInv, vars, Stop, Starts
<1> QED BY <1>1, <1>2, <1>5, <1>6 DEF Owns, Current

\* A member of a published session that was removed without a lease stays marked.
LEMMA UnleasedStays ==
  ASSUME MembershipIInv, [MembershipNext]_allVars, NEW a \in Agents, unleased[a]
  PROVE  unleased'[a]
<1>1. ASSUME NEW c \in Callers, RemovePersists(c) \/ RemoveJoins(c) \/ SpawnReserves(c) \/ SpawnEnters(c)
      PROVE  unleased'[a]
  BY <1>1 DEF RemovePersists, RemoveJoins, SpawnReserves, SpawnEnters, MembershipIInv, MembershipTypeOK
<1>2. ASSUME NEW c \in Callers, CallBegins(c) \/ CallProceeds(c) \/ CallLocks(c),
             ~(RemovePersists(c) \/ RemoveJoins(c) \/ SpawnReserves(c) \/ SpawnEnters(c))
      PROVE  unleased' = unleased
  BY <1>2 DEF CallBegins, EnsureLoads, Send, AddMember, RemoveBegins, CallProceeds, EnsureStarts, EnsureEnds,
              EnsureReconciles, SendFinds, AddSpawns, AddFails, UndoEnds, RemoveKills, RemoveForgets,
              RemoveDeletes, CallLocks, RemovePersistFails, RemoveLoadFails, Enters, SpawnPersists, Abandon, historyVars
<1>3. ASSUME NEW b \in Agents, Retry(b) \/ AddToRow(b) \/ AgentEnds(b)
      PROVE  unleased' = unleased
  BY <1>3 DEF Retry, AddToRow, AgentEnds, historyVars
<1> QED BY <1>1, <1>2, <1>3, AttachSteps DEF MembershipNext, SessionStops, allVars, historyVars

\* A reservation starts the attach of a slot that no attach or removal is using.
LEMMA ReserveEffects ==
  ASSUME MembershipIInv, NEW a \in Agents, NEW retryFailed \in BOOLEAN,
         Reserves(a, retryFailed) \/ ReserveRepair(a), NEW b \in Agents
  PROVE  \/ entries'[b] = entries[b]
         \/ /\ b = a /\ entries[a].state \notin {"Attaching", "Removing"}
            /\ entries'[b] = InFlight("Attaching", nextOp)
<1>1. UNCHANGED vars \/ (Starts(a, "Attaching", "attach") /\ entries[a].state \notin {"Attaching", "Removing"})
  BY ReserveFacts
<1>2. CASE Starts(a, "Attaching", "attach") /\ entries[a].state \notin {"Attaching", "Removing"}
  BY <1>2, StartFacts DEF MembershipIInv
<1> QED BY <1>1, <1>2 DEF vars

\* A caller's request makes no member ready, and attaches are spawned where there is none.
LEMMA CallersEffects ==
  ASSUME MembershipIInv, LeasesAreHeld, NEW c \in Callers,
         CallBegins(c) \/ CallProceeds(c) \/ CallLocks(c)
  PROVE  /\ \A a \in Agents : entries'[a] = Ready => entries[a] = Ready
         /\ \A op \in OpId :
               attach'[op] = attach[op] \/ (attach[op].pc = "None" /\ attach'[op].pc = "Config")
<1>0. \A st, op : InFlight(st, op).state = st
  BY EntryFields
<1>1. ASSUME UNCHANGED <<vars, attach>>
      PROVE  /\ \A a \in Agents : entries'[a] = Ready => entries[a] = Ready
             /\ \A op \in OpId :
                   attach'[op] = attach[op] \/ (attach[op].pc = "None" /\ attach'[op].pc = "Config")
  BY <1>1 DEF vars
<1>2. ASSUME NEW op, SpawnAttach(op), attach[op].pc = "None"
      PROVE  \A p \in OpId : attach'[p] = attach[p] \/ (attach[p].pc = "None" /\ attach'[p].pc = "Config")
  BY <1>2 DEF SpawnAttach, NewAttach, MembershipIInv, MembershipTypeOK
<1>3. ASSUME NEW a \in Agents, Reserves(a, FALSE) \/ Reserves(a, TRUE) \/ ReserveRepair(a)
      PROVE  \A b \in Agents : entries'[b] = Ready => entries[b] = Ready
  <2>1. InFlight("Attaching", nextOp) # Ready
    BY <1>0, EntryFields
  <2>2. \A b \in Agents : entries'[b] = entries[b] \/ entries'[b] = InFlight("Attaching", nextOp)
    BY <1>3, ReserveEffects
  <2> QED BY <2>1, <2>2
<1>4. ASSUME NEW a \in Agents, Starts(a, "Removing", "remove")
      PROVE  \A b \in Agents : entries'[b] = Ready => entries[b] = Ready
  <2>1. InFlight("Removing", nextOp) # Ready
    BY <1>0, EntryFields
  <2> QED BY <1>4, <2>1, StartFacts DEF MembershipIInv
<1>5. ASSUME NEW op, DropLeaseOf(op) \/ FinishRemoveOf(op) \/ RestoreAttachRequiredOf(op)
      PROVE  \A b \in Agents : entries'[b] = Ready => entries[b] = Ready
  <2>1. InFlight("Failed", op) # Ready /\ Absent # Ready
    BY <1>0, EntryFields
  <2> QED BY <1>5, <2>1, LeaseEffects
<1>6. SpawnIfStarted => \A p \in OpId :
         attach'[p] = attach[p] \/ (attach[p].pc = "None" /\ attach'[p].pc = "Config")
  <2>1. nextOp \in OpId => attach[nextOp].pc = "None"
    BY HeldHasBegun, MaxOpsAssumption DEF OpId
  <2>2. nextOp \notin OpId => (SpawnAttach(nextOp) => attach' = attach)
    BY DEF SpawnAttach, MembershipIInv, MembershipTypeOK
  <2> QED BY <1>2, <2>1, <2>2 DEF SpawnIfStarted
<1>7. CASE CallBegins(c)
  <2>1. CASE EnsureLoads(c)
    BY <1>1, <2>1 DEF EnsureLoads
  <2>2. ASSUME NEW a \in Agents, Send(c, a) \/ AddMember(c, a)
        PROVE  Reserves(a, FALSE) /\ attach' = attach
    BY <2>2 DEF Send, AddMember, Enters
  <2>4. ASSUME NEW a \in Agents, SpawnPersists(c, a)
        PROVE  UNCHANGED <<vars, attach>>
    BY <2>4 DEF SpawnPersists
  <2>3. ASSUME NEW a \in Agents, RemoveBegins(c, a)
        PROVE  (UNCHANGED vars \/ Starts(a, "Removing", "remove")) /\ attach' = attach
    BY <2>3, RemoveBeginsCases DEF RemoveBegins
  <2> QED BY <1>1, <1>3, <1>4, <1>7, <2>1, <2>2, <2>3, <2>4 DEF CallBegins
<1>8. CASE CallLocks(c)
  <2>1. CASE RemovePersists(c)
    <3>1. attach' = attach
      BY <2>1 DEF RemovePersists
    <3>2. \E a \in Agents : UNCHANGED vars \/ Starts(a, "Removing", "remove")
      BY <2>1, RemovePersistsCases
    <3> QED BY <1>1, <1>4, <3>1, <3>2
  <2>2. CASE RemovePersistFails(c) \/ RemoveLoadFails(c)
    BY <1>5, <2>2 DEF RemovePersistFails, RemoveLoadFails, Abandon
  <2> QED BY <1>8, <2>1, <2>2 DEF CallLocks
<1>9. CASE CallProceeds(c)
  <2>1. ASSUME NEW a \in Agents, EnsureReconciles(c, a)
        PROVE  (UNCHANGED vars \/ Reserves(a, TRUE) \/ ReserveRepair(a)) /\ SpawnIfStarted
    BY <2>1 DEF EnsureReconciles
  <2>2. CASE SendFinds(c) \/ AddSpawns(c)
    <3>1. /\ call[c].pc \in {"Send", "Enter", "Add"}
          /\ \/ UNCHANGED vars /\ SpawnAttach(call[c].op)
             \/ UNCHANGED vars /\ attach' = attach
             \/ DropLeaseOf(call[c].op) /\ attach' = attach
      BY <2>2 DEF SendFinds, AddSpawns, Abandon
    <3>2. call[c].op # 0 => attach[call[c].op].pc = "None"
      BY <3>1 DEF LeasesAreHeld, Holds, Holding
    <3>3. call[c].op = 0 => (SpawnAttach(call[c].op) => attach' = attach)
      BY DEF SpawnAttach, MembershipIInv, MembershipTypeOK, OpId
    <3> QED BY <1>1, <1>2, <1>5, <3>1, <3>2, <3>3 DEF vars
  <2>3. CASE AddFails(c) \/ RemoveForgets(c)
    BY <1>5, <2>3 DEF AddFails, RemoveForgets, Abandon
  <2>4. CASE EnsureStarts(c) \/ EnsureEnds(c) \/ UndoEnds(c) \/ RemoveKills(c) \/ RemoveJoins(c) \/ RemoveDeletes(c)
    <3>1. UNCHANGED <<vars, attach>>
      BY <2>4 DEF EnsureStarts, EnsureEnds, UndoEnds, RemoveKills, RemoveJoins, RemoveDeletes
    <3> QED BY <1>1, <3>1
  <2>5. ASSUME NEW a \in Agents, EnsureReconciles(c, a)
        PROVE  /\ \A b \in Agents : entries'[b] = Ready => entries[b] = Ready
               /\ \A op \in OpId :
                     attach'[op] = attach[op] \/ (attach[op].pc = "None" /\ attach'[op].pc = "Config")
    <3>1. (UNCHANGED vars \/ Reserves(a, TRUE) \/ ReserveRepair(a)) /\ SpawnIfStarted
      BY <2>1, <2>5
    <3> QED BY <1>3, <1>6, <3>1 DEF vars
  <2>6. CASE SpawnReserves(c)
    BY <1>3, <2>6, SpawnReservesFacts
  <2>7. CASE SpawnEnters(c)
    BY <1>1, <2>7 DEF SpawnEnters
  <2> QED BY <1>9, <2>2, <2>3, <2>4, <2>5, <2>6, <2>7 DEF CallProceeds
<1> QED BY <1>7, <1>8, <1>9

----------------------------------------------------------------------------
(* Ready members have a loop.                                               *)

\* A member is ready, or an attach that owns it is about to make it so.
NeedsLoop(a) ==
    \/ entries[a] = Ready
    \/ \E op \in OpId : opAgent[op] = a /\ attach[op].pc = "Commit" /\ Owns(op)

\* The two invariants about that are one.
LoopsAreThere == \A a \in Agents : Published /\ ~unleased[a] /\ NeedsLoop(a) => loops[a]
EndingsDiffer ==
    \A op, other \in OpId : Ending(op) /\ Ending(other) /\ opAgent[op] = opAgent[other] => op = other
EndingsAwait == \A op \in OpId : Ending(op) => entries[opAgent[op]] # Ready

LEMMA EndingParts ==
  ASSUME MembershipIInv, LeasesAreHeld
  PROVE  EndingIsAlone /\ ReadyHasLoop <=> EndingsDiffer /\ EndingsAwait /\ LoopsAreThere
<1>1. \A op \in OpId : attach[op].pc = "Commit" => opAgent[op] \in Agents
  BY HeldHasBegun
<1> QED BY <1>1 DEF EndingIsAlone, ReadyHasLoop, EndingsDiffer, EndingsAwait, LoopsAreThere, NeedsLoop

\* A step that makes nobody ready and in which no attach comes to its end or goes on
\* there, and that takes a loop only from a member that does not need it.
EndsQuietly ==
    /\ \A a \in Agents : entries'[a] = Ready => entries[a] = Ready
    /\ \A op \in OpId : attach'[op].pc \in {"Register", "Commit"} => attach'[op].pc = attach[op].pc
    /\ Published' => Published
    /\ \A a \in Agents :
          loops[a] => loops'[a] \/ ~Published' \/ unleased'[a] \/ ~(NeedsLoop(a))'

LEMMA EndsStep ==
  ASSUME MembershipIInv, LeasesAreHeld, EndingIsAlone, ReadyHasLoop,
         [MembershipNext]_allVars, EndsQuietly
  PROVE  EndingIsAlone' /\ ReadyHasLoop'
<1>1. [Next]_vars /\ MembershipIInv' /\ LeasesAreHeld'
  BY NextMembershipIInv, NextKeepsHeld
<1>2. EndingsDiffer /\ EndingsAwait /\ LoopsAreThere
  BY EndingParts
<1>3. ASSUME NEW op \in OpId, (Ending(op))'
      PROVE  Ending(op) /\ op \in 1..(nextOp - 1) /\ opAgent'[op] = opAgent[op] /\ opAgent[op] \in Agents
  <2>1. Ending(op)
    BY <1>3 DEF EndsQuietly, Ending
  <2> QED BY <1>1, <2>1, HeldHasBegun, BegunStays DEF Ending, MembershipIInv
<1>4. EndingsDiffer'
  BY <1>2, <1>3 DEF EndingsDiffer
<1>5. EndingsAwait'
  BY <1>2, <1>3 DEF EndingsAwait, EndsQuietly
<1>6. ASSUME NEW a \in Agents, (NeedsLoop(a))'
      PROVE  NeedsLoop(a)
  <2>1. CASE entries'[a] = Ready
    BY <2>1 DEF EndsQuietly, NeedsLoop
  <2>2. ASSUME NEW op \in OpId, opAgent'[op] = a, attach'[op].pc = "Commit", (Owns(op))'
        PROVE  NeedsLoop(a)
    <3>1. (Ending(op))' /\ attach[op].pc = "Commit"
      BY <2>2 DEF Ending, EndsQuietly
    <3>2. opAgent[op] = a /\ Owns(op)
      BY <1>1, <1>3, <2>2, <3>1, OwnedBefore
    <3> QED BY <3>1, <3>2 DEF NeedsLoop
  <2> QED BY <1>6, <2>1, <2>2 DEF NeedsLoop
<1>7. LoopsAreThere'
  BY <1>2, <1>6, UnleasedStays DEF LoopsAreThere, EndsQuietly
<1>8. (EndingIsAlone /\ ReadyHasLoop <=> EndingsDiffer /\ EndingsAwait /\ LoopsAreThere)'
  BY <1>1, EndingParts, PTL
<1> QED BY <1>4, <1>5, <1>7, <1>8

\* Who needs a loop has an entry that says so.
LEMMA NeedsEntry ==
  MembershipIInv => \A a \in Agents : NeedsLoop(a) => entries[a].state \in {"Ready", "Attaching"}
<1> SUFFICES ASSUME MembershipIInv, NEW a \in Agents, NeedsLoop(a)
             PROVE  entries[a].state \in {"Ready", "Attaching"}
  OBVIOUS
<1>1. ASSUME NEW op \in OpId, opAgent[op] = a, Owns(op)
      PROVE  entries[a] = InFlight("Attaching", op)
  BY <1>1 DEF Owns, Current, MembershipIInv, IInv, Bookkeeping
<1> QED BY <1>1, EntryFields DEF NeedsLoop

\* A removal that holds the lease has the slot, and one that is over with another's
\* removal finds it failed, the member dismissed or brought back by a late spawn_agent.
LEMMA RemovalEntries ==
  ASSUME MembershipIInv, LeasesAreHeld, SessionIsAhead, Published, NEW c \in Callers
  PROVE  /\ Holds(c) /\ call[c].pc \notin {"Send", "Enter", "Add"} =>
               /\ entries[call[c].slot] = InFlight("Removing", call[c].op)
               /\ [kind |-> "remove", agent |-> call[c].slot, op |-> call[c].op] \in leases
         /\ RemovalsGoOn /\ call[c].pc = "Join" /\ signal[call[c].op] \notin {"Pending", "Failed"} =>
               Dismissed(call[c].slot) \/ unleased[call[c].slot]
<1>1. ~stopped
  BY DEF SessionIsAhead, Published
<1>2. ASSUME Holds(c), call[c].pc \notin {"Send", "Enter", "Add"}
      PROVE  /\ entries[call[c].slot] = InFlight("Removing", call[c].op)
             /\ [kind |-> "remove", agent |-> call[c].slot, op |-> call[c].op] \in leases
  <2>1. [kind |-> "remove", agent |-> call[c].slot, op |-> call[c].op] \in leases
    BY <1>2 DEF LeasesAreHeld, Holding
  <2> QED BY <1>1, <2>1 DEF LeasesAreHeld, LeasesAreCurrent
<1>3. ASSUME RemovalsGoOn, call[c].pc = "Join", signal[call[c].op] \notin {"Pending", "Failed"}
      PROVE  Dismissed(call[c].slot) \/ unleased[call[c].slot]
  <2> DEFINE a == call[c].slot
             op == call[c].op
  <2>1. a \in Agents /\ op \in OpId
    BY <1>3 DEF MembershipIInv, ForgottenIInv, RemovalsGoOn
  <2>2. entries[a] = InFlight("Removing", op) => signal[op] = "Pending"
    <3>1. SUFFICES ASSUME entries[a] = InFlight("Removing", op) PROVE signal[op] = "Pending"
      OBVIOUS
    <3>2. entries[a].op = op /\ entries[a].state = "Removing"
      BY <3>1, EntryFields
    <3>3. Latest(a, op)
      BY <2>1, <3>2 DEF OpId, MembershipIInv, IInv, Bookkeeping
    <3>4. entries[a] # Ready /\ entries[a] # InFlight("Failed", op) /\ entries[a] # Absent
      BY <3>2, EntryFields
    <3> QED BY <1>1, <2>1, <3>3, <3>4 DEF MembershipIInv, IInv, EntryReflectsLatest
  <2> QED BY <1>3, <2>2 DEF RemovalsGoOn
<1> QED BY <1>2, <1>3

\* A caller, other than the one that publishes the session, does nothing to endings and
\* takes loops only from members that are being removed.
LEMMA CallersEndQuietly ==
  ASSUME MembershipIInv, LeasesAreHeld, SessionIsAhead, RemovalsGoOn, [MembershipNext]_allVars,
         NEW c \in Callers, CallBegins(c) \/ CallProceeds(c) \/ CallLocks(c), ~EnsureStarts(c)
  PROVE  EndsQuietly
<1>0. /\ MembershipIInv'
      /\ \A a \in Agents : (NeedsLoop(a))' => entries'[a].state \in {"Ready", "Attaching"}
  <2>1. MembershipIInv'
    BY NextMembershipIInv
  <2>2. (MembershipIInv => \A a \in Agents : NeedsLoop(a) => entries[a].state \in {"Ready", "Attaching"})'
    BY NeedsEntry, PTL
  <2> QED BY <2>1, <2>2
<1>1. session' = session
  BY DEF CallBegins, EnsureLoads, Send, AddMember, RemoveBegins, CallProceeds, EnsureEnds, EnsureReconciles,
         SendFinds, AddSpawns, AddFails, UndoEnds, RemoveKills, RemoveJoins, RemoveForgets, RemoveDeletes,
         CallLocks, RemovePersists, RemovePersistFails, RemoveLoadFails, Enters, SpawnPersists, SpawnReserves, SpawnEnters, Abandon
<1>2. ASSUME NEW a \in Agents, StopLoop(a), ~Published' \/ unleased'[a] \/ ~(NeedsLoop(a))'
      PROVE  \A b \in Agents : loops[b] => loops'[b] \/ ~Published' \/ unleased'[b] \/ ~(NeedsLoop(b))'
  BY <1>2 DEF StopLoop, MembershipIInv, MembershipTypeOK
<1>3. ASSUME NEW a \in Agents, Starts(a, "Removing", "remove")
      PROVE  ~(NeedsLoop(a))'
  <2>1. entries'[a] = InFlight("Removing", nextOp)
    BY <1>3, StartFacts DEF MembershipIInv
  <2>2. entries'[a].state = "Removing"
    BY <2>1, EntryFields
  <2> QED BY <1>0, <2>2
<1>4. ASSUME NEW a \in Agents, UNCHANGED vars, entries[a].state \in {"Absent", "Removing"}
      PROVE  ~(NeedsLoop(a))'
  BY <1>0, <1>4 DEF vars
<1>5. \A a \in Agents : loops[a] => loops'[a] \/ ~Published' \/ unleased'[a] \/ ~(NeedsLoop(a))'
  <2>1. ASSUME NEW a \in Agents, RemoveBegins(c, a)
        PROVE  \A b \in Agents : loops[b] => loops'[b] \/ ~Published' \/ unleased'[b] \/ ~(NeedsLoop(b))'
    BY <1>2, <1>3, <1>4, <2>1, RemoveBeginsCases, EntryFields
  <2>2. CASE RemovePersists(c)
    <3> DEFINE a == call[c].slot
    <3>1. a \in Agents /\ call[c].pc = "Persist" /\ call'[c].slot = a
      BY <2>2, RemovePersistsCases
    <3>2. CASE loops' = loops
      BY <3>2
    <3>3. CASE /\ Published /\ UNCHANGED vars /\ StopLoop(a)
               /\ call[c].captured \/ entries[a] = Absent
               /\ call'[c].pc = "Forget" /\ call'[c].op = call[c].op
      <4>1. CASE call[c].op = 0
        <5>1. unleased'[a]
          <6>1. /\ unleased' = [unleased EXCEPT ![a] =
                        @ \/ (session # "Unborn" /\ call'[c].pc # "Join" /\ call'[c].op = 0)]
                /\ unleased \in [Agents -> BOOLEAN]
            BY <2>2 DEF RemovePersists, MembershipIInv, MembershipTypeOK
          <6>2. session # "Unborn" /\ call'[c].pc # "Join" /\ call'[c].op = 0
            BY <3>3, <4>1 DEF Published
          <6> QED BY <3>1, <6>1, <6>2
        <5> QED BY <1>2, <3>1, <3>3, <5>1
      <4>2. CASE call[c].op # 0
        <5>1. Holds(c)
          BY <3>1, <4>2 DEF Holds
        <5>2. entries[a].state = "Removing"
          <6>1. entries[a] = InFlight("Removing", call[c].op)
            BY <3>1, <3>3, <5>1, RemovalEntries
          <6> QED BY <6>1, EntryFields
        <5> QED BY <1>2, <1>4, <3>1, <3>3, <5>2
      <4> QED BY <4>1, <4>2
    <3>4. CASE Starts(a, "Removing", "remove") /\ StopLoop(a)
      BY <1>2, <1>3, <3>1, <3>4
    <3> QED BY <2>2, <3>2, <3>3, <3>4, RemovePersistsCases
  <2>3. CASE RemoveJoins(c)
    <3> DEFINE a == call[c].slot
    <3>1. /\ call[c].pc = "Join" /\ a \in Agents /\ StopLoop(a) /\ UNCHANGED vars
          /\ signal[call[c].op] # "Pending"
      BY <2>3, RemoveJoinsFields DEF RemoveJoins
    <3>2. CASE signal[call[c].op] = "Failed"
      <4>1. unleased'[a]
        BY <2>3, <3>1, <3>2 DEF RemoveJoins, MembershipIInv, MembershipTypeOK
      <4> QED BY <1>2, <3>1, <4>1
    <3>3. CASE signal[call[c].op] # "Failed" /\ Published
      <4>1. entries[a].state = "Absent" \/ unleased'[a]
        BY <3>1, <3>3, RemovalEntries, EntryFields, UnleasedStays DEF Dismissed
      <4> QED BY <1>2, <1>4, <3>1, <4>1
    <3>4. CASE ~Published
      BY <1>1, <3>4 DEF Published
    <3> QED BY <3>2, <3>3, <3>4
  <2>4. CASE ~(RemovePersists(c) \/ RemoveJoins(c) \/ \E a \in Agents : RemoveBegins(c, a))
    <3>1. loops' = loops
      BY <2>4 DEF CallBegins, EnsureLoads, Send, AddMember, CallProceeds, EnsureEnds, EnsureReconciles,
                  SendFinds, AddSpawns, AddFails, UndoEnds, RemoveKills, RemoveForgets, RemoveDeletes,
                  CallLocks, RemovePersistFails, RemoveLoadFails, memberVars, historyVars, Enters, SpawnPersists, SpawnReserves, SpawnEnters, Abandon
    <3> QED BY <3>1
  <2> QED BY <2>1, <2>2, <2>3, <2>4
<1> QED BY <1>1, <1>5, CallersEffects DEF EndsQuietly, Published

\* An attach that does not come to its end, goes on there or commits keeps quiet, too.
LEMMA AttachesEndQuietly ==
  ASSUME MembershipIInv, LeasesAreHeld, EndingIsAlone, NEW op \in OpId, AttachProceeds(op),
         ~AttachWarms(op), ~AttachRegisters(op), ~(AttachCommits(op) /\ Owns(op))
  PROVE  EndsQuietly
<1>1. session' = session
  BY AttachSteps
<1>2. \A a \in Agents : entries'[a] = Ready => entries[a] = Ready
  <2>1. InFlight("Failed", op) # Ready
    BY EntryFields
  <2> QED BY <2>1, AttachEffects
<1>3. \A p \in OpId : attach'[p].pc \in {"Register", "Commit"} => attach'[p].pc = attach[p].pc
  <2>1. attach'[op].pc \notin {"Register", "Commit"}
    BY DEF AttachProceeds, AttachResets, AttachErrs, AttachCommits, AttachPublishes, AttachCleans, AttachFails,
           Goto, Finish, Withdraw, NoAttach, NewAttach, MembershipIInv, MembershipTypeOK, historyVars
  <2> QED BY <2>1, AttachSteps
<1>4. ASSUME NEW a \in Agents, loops[a], ~loops'[a], Published'
      PROVE  ~(NeedsLoop(a))'
  <2>1. /\ opAgent[op] = a /\ ~Owns(op) /\ AttachCommits(op)
    <3>1. loops' = loops \/ (StopLoop(opAgent[op]) /\ AttachCommits(op)) \/ ~Published
      BY DEF AttachProceeds, AttachResets, AttachErrs, AttachCommits, AttachPublishes, AttachCleans, AttachFails,
             Withdraw, memberVars, historyVars
    <3>2. StopLoop(opAgent[op]) => opAgent[op] = a
      BY <1>4 DEF StopLoop, MembershipIInv, MembershipTypeOK
    <3> QED BY <1>1, <1>4, <3>1, <3>2 DEF Published
  <2>2. Ending(op)
    BY <2>1 DEF AttachCommits, At, Ending
  <2>3. entries[a] # Ready /\ \A p \in OpId : Ending(p) /\ opAgent[p] = a => p = op
    BY <2>1, <2>2 DEF EndingIsAlone
  <2>4. attach'[op].pc # "Commit" /\ opAgent' = opAgent
    BY <2>1 DEF AttachCommits, Withdraw, Goto, MembershipIInv, MembershipTypeOK, CommitReady, Commit, historyVars
  <2> QED BY <1>2, <1>3, <2>3, <2>4 DEF NeedsLoop, Ending
<1> QED BY <1>1, <1>2, <1>3, <1>4 DEF EndsQuietly, Published

\* The end of an attach: it begins only while no other attach of the member ends,
LEMMA WarmsKeepEndings ==
  ASSUME MembershipIInv, LeasesAreHeld, EndingsDiffer, EndingsAwait, LoopsAreThere,
         NEW op \in OpId, AttachWarms(op)
  PROVE  EndingsDiffer' /\ EndingsAwait' /\ LoopsAreThere'
<1>1. /\ UNCHANGED <<entries, opAgent, leases, stopped, loops, session, unleased>>
      /\ NoneEnding(opAgent[op])
      /\ attach' = [attach EXCEPT ![op].pc = IF Owns(op) THEN "Register" ELSE "Clean"]
  BY DEF AttachWarms, Goto, vars, historyVars
<1>2. /\ \A p \in OpId : p # op => attach'[p] = attach[p]
      /\ attach'[op].pc = IF Owns(op) THEN "Register" ELSE "Clean"
  BY <1>1 DEF MembershipIInv, MembershipTypeOK
<1>3. \A p \in OpId : (Ending(p))' => Ending(p) \/ (p = op /\ Owns(op))
  BY <1>2 DEF Ending
<1>4. EndingsDiffer'
  BY <1>1, <1>3 DEF EndingsDiffer, NoneEnding, Ending
<1>5. Owns(op) => entries[opAgent[op]] # Ready
  <2>1. ASSUME NEW l \in leases, l.op = op, entries[l.agent] = InFlight("Attaching", op)
        PROVE  entries[opAgent[op]] # Ready
    <3>1. entries[l.agent] # Ready
      BY <2>1, EntryFields
    <3> QED BY <2>1, <3>1 DEF MembershipIInv, IInv, Bookkeeping
  <2> QED BY <2>1 DEF Owns, Current
<1>6. EndingsAwait'
  BY <1>1, <1>3, <1>5 DEF EndingsAwait
<1>7. \A a \in Agents : (NeedsLoop(a))' => NeedsLoop(a)
  BY <1>1, <1>2 DEF NeedsLoop, Owns, Current
<1> QED BY <1>1, <1>4, <1>6, <1>7 DEF LoopsAreThere, Published

\* ... then a loop is there,
LEMMA RegistersKeepEndings ==
  ASSUME MembershipIInv, LeasesAreHeld, EndingsDiffer, EndingsAwait, LoopsAreThere,
         NEW op \in OpId, AttachRegisters(op)
  PROVE  EndingsDiffer' /\ EndingsAwait' /\ LoopsAreThere'
<1>1. /\ UNCHANGED <<entries, opAgent, leases, stopped, session, unleased>>
      /\ attach[op].pc = "Register"
  BY DEF AttachRegisters, At, vars, historyVars
<1>2. \/ attach'[op].pc = "Fail" /\ loops' = loops
      \/ attach'[op].pc = "Commit" /\ loops' = [loops EXCEPT ![opAgent[op]] = TRUE]
  BY DEF AttachRegisters, Goto, MembershipIInv, MembershipTypeOK, historyVars
<1>3. \A p \in OpId : p # op => attach'[p] = attach[p]
  BY DEF AttachRegisters, Goto, MembershipIInv, MembershipTypeOK, historyVars
<1>4. \A p \in OpId : (Ending(p))' => Ending(p)
  BY <1>1, <1>3 DEF Ending
<1>5. EndingsDiffer' /\ EndingsAwait'
  BY <1>1, <1>4 DEF EndingsDiffer, EndingsAwait
<1>6. \A a \in Agents : (NeedsLoop(a))' => NeedsLoop(a) \/ (a = opAgent[op] /\ attach'[op].pc = "Commit")
  BY <1>1, <1>3 DEF NeedsLoop, Owns, Current
<1>7. \A a \in Agents : /\ loops[a] => loops'[a]
                        /\ a = opAgent[op] /\ attach'[op].pc = "Commit" => loops'[a]
  BY <1>2 DEF MembershipIInv, MembershipTypeOK
<1> QED BY <1>1, <1>5, <1>6, <1>7 DEF LoopsAreThere, Published

\* ... and it still is when the member becomes ready.
LEMMA CommitsKeepEndings ==
  ASSUME MembershipIInv, LeasesAreHeld, EndingsDiffer, EndingsAwait, LoopsAreThere,
         NEW op \in OpId, AttachCommits(op), Owns(op)
  PROVE  EndingsDiffer' /\ EndingsAwait' /\ LoopsAreThere'
<1> DEFINE a == opAgent[op]
<1>1. /\ attach[op].pc = "Commit" /\ attach' = [attach EXCEPT ![op].pc = "Publish"]
      /\ UNCHANGED <<session, loops, unleased>>
  BY DEF AttachCommits, At, Goto, historyVars
<1>2. /\ UNCHANGED <<opAgent, stopped>> /\ leases' \subseteq leases
  BY DEF AttachCommits, CommitReady, Commit
<1>3. /\ \A p \in OpId : p # op => attach'[p] = attach[p]
      /\ attach'[op].pc = "Publish"
  BY <1>1 DEF MembershipIInv, MembershipTypeOK
<1>4. \A b \in Agents : b # a => entries'[b] = entries[b]
  BY AttachEffects DEF AttachProceeds
<1>5. \A p \in OpId : (Ending(p))' => Ending(p) /\ p # op
  BY <1>3 DEF Ending
<1>6. Ending(op)
  BY <1>1 DEF Ending
<1>7. EndingsDiffer'
  BY <1>2, <1>5 DEF EndingsDiffer
<1>8. EndingsAwait'
  <2> SUFFICES ASSUME NEW p \in OpId, (Ending(p))'
               PROVE  entries'[opAgent[p]] # Ready
    BY <1>2 DEF EndingsAwait
  <2>1. Ending(p) /\ opAgent[p] # a
    BY <1>5, <1>6 DEF EndingsDiffer
  <2>2. opAgent[p] \in Agents
    BY <2>1, HeldHasBegun DEF Ending
  <2> QED BY <1>4, <2>1, <2>2 DEF EndingsAwait
<1>9. ASSUME NEW b \in Agents, (NeedsLoop(b))'
      PROVE  NeedsLoop(b)
  <2>1. CASE b = a
    BY <1>1, <2>1 DEF NeedsLoop
  <2>2. CASE b # a
    <3>1. CASE entries'[b] = Ready
      BY <1>4, <2>2, <3>1 DEF NeedsLoop
    <3>2. ASSUME NEW p \in OpId, opAgent[p] = b, attach'[p].pc = "Commit", (Owns(p))'
          PROVE  NeedsLoop(b)
      <4>1. p # op /\ attach[p].pc = "Commit"
        BY <1>3, <3>2
      <4>2. PICK l \in leases : l.op = p /\ ~stopped /\ entries'[l.agent] = InFlight("Attaching", p)
        BY <1>2, <3>2 DEF Owns, Current
      <4>3. l.agent = b
        BY <3>2, <4>2 DEF MembershipIInv, IInv, Bookkeeping
      <4>4. Owns(p)
        BY <1>4, <2>2, <4>2, <4>3 DEF Owns, Current
      <4> QED BY <3>2, <4>1, <4>4 DEF NeedsLoop
    <3> QED BY <1>2, <1>9, <3>1, <3>2 DEF NeedsLoop
  <2> QED BY <2>1, <2>2
<1> QED BY <1>1, <1>7, <1>8, <1>9 DEF LoopsAreThere, Published

\* When the session is published nobody needs an event loop yet.
LEMMA StartKeepsEndings ==
  ASSUME MembershipIInv, SessionIsAhead, NEW c \in Callers, EnsureStarts(c)
  PROVE  EndingsDiffer' /\ EndingsAwait' /\ LoopsAreThere'
<1>1. session = "Unborn" /\ UNCHANGED <<entries, attach, opAgent>>
  BY DEF EnsureStarts, vars
<1>2. /\ \A op \in OpId : attach'[op].pc = "None"
      /\ \A a \in Agents : entries'[a] # Ready
  BY <1>1 DEF SessionIsAhead, Absent, Ready
<1>3. \A op \in OpId : ~(Ending(op))'
  BY <1>2 DEF Ending
<1>4. \A a \in Agents : ~(NeedsLoop(a))'
  BY <1>2 DEF NeedsLoop
<1> QED BY <1>3, <1>4 DEF EndingsDiffer, EndingsAwait, LoopsAreThere

\* A retry, the end of an idle agent and the stop leave every attach and loop alone.
LEMMA OthersEndQuietly ==
  ASSUME MembershipIInv, SessionIsAhead, [MembershipNext]_allVars,
         \/ \E a \in Agents : Retry(a) \/ AddToRow(a) \/ AgentEnds(a)
         \/ SessionStops
         \/ UNCHANGED allVars
  PROVE  EndsQuietly
<1>1. ASSUME NEW a \in Agents, Retry(a)
      PROVE  EndsQuietly
  <2>1. \A b \in Agents : entries'[b] = entries[b] \/ entries'[b] = InFlight("Attaching", nextOp)
    BY <1>1, ReserveEffects DEF Retry
  <2>2. \A b \in Agents : entries'[b] = Ready => entries[b] = Ready
    BY <2>1, EntryFields
  <2>3. \A p \in OpId : attach'[p] = attach[p] \/ attach'[p].pc = "Config"
    BY <1>1 DEF Retry, SpawnIfStarted, SpawnAttach, NewAttach, MembershipIInv, MembershipTypeOK, historyVars
  <2>4. session' = session /\ loops' = loops
    BY <1>1 DEF Retry, memberVars, historyVars
  <2> QED BY <2>2, <2>3, <2>4 DEF EndsQuietly, Published
<1>2. ASSUME SessionStops
      PROVE  EndsQuietly
  <2>1. \A a \in Agents : entries'[a] # Ready
    BY <1>2 DEF SessionStops, Stop, Absent, Ready
  <2>2. attach' = attach /\ session' = "Stopped"
    BY <1>2 DEF SessionStops, taskVars
  <2> QED BY <2>1, <2>2 DEF EndsQuietly, Published
<1>3. ASSUME \/ \E a \in Agents : AddToRow(a) \/ AgentEnds(a)
             \/ UNCHANGED allVars
      PROVE  EndsQuietly
  <2>1. UNCHANGED <<entries, attach, session, loops>>
    BY <1>3 DEF AddToRow, AgentEnds, allVars, memberVars, taskVars, vars, historyVars
  <2> QED BY <2>1 DEF EndsQuietly, Published
<1> QED BY <1>1, <1>2, <1>3

LEMMA NextKeepsEndings ==
  ASSUME MembershipIInv, MembershipIInv', LeasesAreHeld, LeasesAreHeld', SessionIsAhead, RemovalsGoOn,
         EndingIsAlone, ReadyHasLoop, [MembershipNext]_allVars
  PROVE  EndingIsAlone' /\ ReadyHasLoop'
<1>1. EndingsDiffer /\ EndingsAwait /\ LoopsAreThere
  BY EndingParts
<1>2. (EndingIsAlone /\ ReadyHasLoop <=> EndingsDiffer /\ EndingsAwait /\ LoopsAreThere)'
  BY EndingParts, PTL
<1>3. ASSUME NEW c \in Callers, CallBegins(c) \/ CallProceeds(c) \/ CallLocks(c)
      PROVE  EndingIsAlone' /\ ReadyHasLoop'
  <2>1. CASE EnsureStarts(c)
    BY <1>2, <2>1, StartKeepsEndings
  <2>2. CASE ~EnsureStarts(c)
    BY <1>3, <2>2, CallersEndQuietly, EndsStep
  <2> QED BY <2>1, <2>2
<1>4. ASSUME NEW op \in OpId, AttachProceeds(op)
      PROVE  EndingIsAlone' /\ ReadyHasLoop'
  <2>1. CASE AttachWarms(op)
    BY <1>1, <1>2, <2>1, WarmsKeepEndings
  <2>2. CASE AttachRegisters(op)
    BY <1>1, <1>2, <2>2, RegistersKeepEndings
  <2>3. CASE AttachCommits(op) /\ Owns(op)
    BY <1>1, <1>2, <2>3, CommitsKeepEndings
  <2>4. CASE ~AttachWarms(op) /\ ~AttachRegisters(op) /\ ~(AttachCommits(op) /\ Owns(op))
    BY <1>4, <2>4, AttachesEndQuietly, EndsStep
  <2> QED BY <2>1, <2>2, <2>3, <2>4
<1>5. CASE \/ \E a \in Agents : Retry(a) \/ AddToRow(a) \/ AgentEnds(a)
           \/ SessionStops
           \/ UNCHANGED allVars
  BY <1>5, OthersEndQuietly, EndsStep
<1> QED BY <1>3, <1>4, <1>5 DEF MembershipNext

\* Such a removal goes on: while nothing is published and nobody brings a removed
\* member back, its entry only goes when the removal has failed or is over.
GoesOnQuietly ==
    /\ Published' => Published
    /\ \A a \in Agents : IsRemoved(a)' => IsRemoved(a)
    /\ \A a \in Agents, op \in OpId : entries[a] = InFlight("Removing", op) =>
          entries'[a] = entries[a] \/ signal'[op] = "Failed" \/ ~Published'
    /\ \A a \in Agents : IsRemoved(a) /\ Dismissed(a) => Dismissed(a)' \/ unleased'[a]
    /\ \A c \in Callers :
          call[c].pc \in {"Join", "Forget"} \/ call'[c].pc = "Join" => call'[c] = call[c]

LEMMA GoesOnStep ==
  ASSUME MembershipIInv, RemovalsGoOn, [MembershipNext]_allVars, GoesOnQuietly
  PROVE  RemovalsGoOn'
<1>1. ASSUME NEW c \in Callers, call'[c].pc = "Join", NEW a, a = call'[c].slot, NEW op, op = call'[c].op
      PROVE  /\ op \in OpId
             /\ Published' /\ ~unleased'[a] =>
                   entries'[a] = InFlight("Removing", op) \/ signal'[op] = "Failed" \/ Dismissed(a)'
  <2>1. call[c].pc = "Join" /\ a = call[c].slot /\ op = call[c].op
    BY <1>1 DEF GoesOnQuietly
  <2>2. op \in OpId /\ a \in Agents /\ IsRemoved(a)
    BY <2>1 DEF RemovalsGoOn, MembershipIInv, ForgottenIInv
  <2>3. Published /\ ~unleased[a] =>
            entries[a] = InFlight("Removing", op) \/ signal[op] = "Failed" \/ Dismissed(a)
    BY <2>1 DEF RemovalsGoOn
  <2>4. signal[op] = "Failed" => signal'[op] = "Failed"
    BY <2>2, RegistryStep, NextOutcomeIsFinal DEF MembershipIInv
  <2>5. unleased[a] => unleased'[a]
    BY <2>2, UnleasedStays
  <2> QED BY <2>2, <2>3, <2>4, <2>5 DEF GoesOnQuietly
<1>2. ASSUME NEW a \in Agents, Published', IsRemoved(a)', ~unleased'[a]
      PROVE  \/ Dismissed(a)'
             \/ \E c \in Callers : call'[c].slot = a /\ call'[c].pc = "Join"
             \/ \E c \in Callers : call'[c].slot = a /\ call'[c].pc = "Forget" /\ Holds(c)'
  <2>1. /\ Published /\ IsRemoved(a) /\ ~unleased[a]
    BY <1>2, UnleasedStays DEF GoesOnQuietly
  <2>2. CASE Dismissed(a)
    BY <1>2, <2>1, <2>2 DEF GoesOnQuietly
  <2>3. ASSUME NEW c \in Callers, call[c].slot = a, call[c].pc = "Join" \/ (call[c].pc = "Forget" /\ Holds(c))
        PROVE  call'[c].slot = a /\ (call'[c].pc = "Join" \/ (call'[c].pc = "Forget" /\ Holds(c)'))
    <3>1. call'[c] = call[c]
      BY <2>3 DEF GoesOnQuietly
    <3> QED BY <2>3, <3>1 DEF Holds
  <2> QED BY <2>1, <2>2, <2>3 DEF RemovalsGoOn
<1> QED BY <1>1, <1>2 DEF RemovalsGoOn

\* What a request does to an entry, but for the two steps that end a removal: but for a
\* spawn_agent that comes late, it never brings one back for a member that was removed
\* and is not known.
LEMMA CallersEntries ==
  ASSUME MembershipIInv, NEW c \in Callers,
         CallBegins(c) \/ CallProceeds(c) \/ CallLocks(c), ~RemovePersists(c), ~RemoveForgets(c),
         NEW a \in Agents
  PROVE  \/ entries'[a] = entries[a]
         \/ entries[a].state \notin {"Absent", "Removing"}
         \/ entries[a].state = "Absent" /\ (known[a] \/ ~IsRemoved(a) \/ unleased'[a])
         \/ \E op : entries[a] = InFlight("Removing", op) /\ signal'[op] = "Failed"
<1>1. ASSUME NEW b \in Agents, NEW retryFailed \in BOOLEAN,
             Reserves(b, retryFailed) \/ ReserveRepair(b), known[b] \/ ~IsRemoved(b) \/ unleased'[b]
      PROVE  \/ entries'[a] = entries[a]
             \/ entries[a].state \notin {"Absent", "Removing"}
             \/ entries[a].state = "Absent" /\ (known[a] \/ ~IsRemoved(a) \/ unleased'[a])
  BY <1>1, ReserveEffects
<1>2. ASSUME NEW b \in Agents, Starts(b, "Removing", "remove"), entries[b].state \notin {"Absent", "Removing"}
      PROVE  entries'[a] = entries[a] \/ entries[a].state \notin {"Absent", "Removing"}
  BY <1>2, StartFacts DEF MembershipIInv
<1>3. ASSUME NEW op, DropLeaseOf(op) \/ RestoreAttachRequiredOf(op)
      PROVE  \/ entries'[a] = entries[a]
             \/ entries[a] = InFlight("Removing", op) /\ signal'[op] = "Failed"
  BY <1>3, LeaseEffects
<1>4. CASE CallBegins(c)
  <2>1. CASE EnsureLoads(c)
    BY <2>1 DEF EnsureLoads, vars
  <2>2. ASSUME NEW b \in Agents, Send(c, b) \/ AddMember(c, b)
        PROVE  Reserves(b, FALSE) /\ (known[b] \/ ~IsRemoved(b))
    BY <2>2 DEF Send, AddMember, IsRemoved, Enters
  <2>3. ASSUME NEW b \in Agents, RemoveBegins(c, b)
        PROVE  entries'[a] = entries[a] \/ entries[a].state \notin {"Absent", "Removing"}
    BY <1>2, <2>3, RemoveBeginsCases DEF vars
  <2>4. ASSUME NEW b \in Agents, SpawnPersists(c, b)
        PROVE  entries' = entries
    BY <2>4 DEF SpawnPersists, vars
  <2> QED BY <1>1, <1>4, <2>1, <2>2, <2>3, <2>4 DEF CallBegins
<1>5. CASE CallLocks(c)
  BY <1>3, <1>5 DEF CallLocks, RemovePersistFails, RemoveLoadFails, Abandon
<1>6. CASE CallProceeds(c)
  <2>1. ASSUME NEW b \in Agents, EnsureReconciles(c, b)
        PROVE  /\ UNCHANGED vars \/ Reserves(b, TRUE) \/ ReserveRepair(b)
               /\ known[b] \/ ~IsRemoved(b)
    BY <2>1 DEF EnsureReconciles, MembershipIInv, ForgottenIInv, Roster, IsRemoved
  <2>2. CASE SendFinds(c) \/ AddFails(c)
    BY <1>3, <2>2 DEF SendFinds, AddFails, vars, Abandon
  <2>3. CASE EnsureStarts(c) \/ EnsureEnds(c) \/ SpawnEnters(c) \/ AddSpawns(c) \/ UndoEnds(c) \/ RemoveKills(c)
             \/ RemoveJoins(c) \/ RemoveDeletes(c)
    BY <2>3 DEF EnsureStarts, EnsureEnds, SpawnEnters, AddSpawns, UndoEnds, RemoveKills, RemoveJoins, RemoveDeletes, vars
  <2>4. ASSUME NEW b \in Agents, EnsureReconciles(c, b)
        PROVE  \/ entries'[a] = entries[a]
               \/ entries[a].state \notin {"Absent", "Removing"}
               \/ entries[a].state = "Absent" /\ (known[a] \/ ~IsRemoved(a) \/ unleased'[a])
    BY <1>1, <2>1, <2>4 DEF vars
  <2>5. CASE SpawnReserves(c)
    <3>1. PICK b \in Agents : b = call[c].slot /\ Reserves(b, FALSE)
                             /\ unleased' = [unleased EXCEPT ![b] = @ \/ row[b] # "Member"]
      BY <2>5, SpawnReservesFacts
    <3>2. ~IsRemoved(b) \/ unleased'[b]
      BY <3>1 DEF IsRemoved, MembershipIInv, MembershipTypeOK
    <3> QED BY <1>1, <3>1, <3>2
  <2> QED BY <1>6, <2>2, <2>3, <2>4, <2>5 DEF CallProceeds
<1> QED BY <1>4, <1>5, <1>6

\* Nor does it make one known, and the members it removes from the row were removed
\* before or are in its removal's second critical section.
LEMMA CallersMembers ==
  ASSUME MembershipIInv, NEW c \in Callers,
         CallBegins(c) \/ CallProceeds(c) \/ CallLocks(c), ~EnsureStarts(c), NEW a \in Agents
  PROVE  /\ known'[a] => known[a] \/ ~IsRemoved(a) \/ unleased'[a]
         /\ IsRemoved(a)' => IsRemoved(a) \/ (RemovePersists(c) /\ call[c].slot = a)
<1>1. CASE CallBegins(c)
  <2>1. ASSUME NEW b \in Agents, AddMember(c, b)
        PROVE  row[b] = "New" /\ row' = [row EXCEPT ![b] = "Member"] /\ known' = [known EXCEPT ![b] = TRUE]
    BY <2>1 DEF AddMember, Enters
  <2>2. ASSUME NEW b \in Agents, AddMember(c, b)
        PROVE  /\ known'[a] => known[a] \/ ~IsRemoved(a)
               /\ IsRemoved(a)' => IsRemoved(a)
    BY <2>1, <2>2 DEF IsRemoved, MembershipIInv, MembershipTypeOK
  <2>3. ASSUME NEW b \in Agents, Send(c, b) \/ RemoveBegins(c, b)
        PROVE  UNCHANGED <<row, known>>
    BY <2>3 DEF Send, RemoveBegins, memberVars, historyVars
  <2>4. CASE EnsureLoads(c)
    BY <2>4 DEF EnsureLoads, memberVars, IsRemoved, historyVars
  <2>5. ASSUME NEW b \in Agents, SpawnPersists(c, b)
        PROVE  known' = known /\ row[b] = "New" /\ row' = [row EXCEPT ![b] = "Member"]
    BY <2>5, SpawnPersistsFacts
  <2>6. ASSUME NEW b \in Agents, SpawnPersists(c, b)
        PROVE  known' = known /\ (IsRemoved(a)' => IsRemoved(a))
    BY <2>5, <2>6 DEF IsRemoved, MembershipIInv, MembershipTypeOK
  <2> QED BY <1>1, <2>2, <2>3, <2>4, <2>6 DEF CallBegins, IsRemoved
<1>2. CASE RemovePersists(c)
  BY <1>2 DEF RemovePersists, IsRemoved, MembershipIInv, MembershipTypeOK
<1>3. CASE RemovePersistFails(c) \/ RemoveLoadFails(c)
  BY <1>3 DEF RemovePersistFails, RemoveLoadFails, memberVars, IsRemoved, historyVars, Abandon
<1>4. CASE CallProceeds(c)
  <2>1. ASSUME NEW b \in Agents, EnsureReconciles(c, b)
        PROVE  ~IsRemoved(b) /\ row' = row /\ known' = [known EXCEPT ![b] = TRUE]
    BY <2>1 DEF EnsureReconciles, MembershipIInv, ForgottenIInv, Roster, IsRemoved
  <2>2. ASSUME NEW b \in Agents, EnsureReconciles(c, b)
        PROVE  /\ known'[a] => known[a] \/ ~IsRemoved(a)
               /\ IsRemoved(a)' => IsRemoved(a)
    BY <2>1, <2>2 DEF IsRemoved, MembershipIInv, MembershipTypeOK
  <2>3. CASE RemoveForgets(c)
    BY <2>3 DEF RemoveForgets, IsRemoved, MembershipIInv, MembershipTypeOK, historyVars
  <2>4. CASE RemoveDeletes(c)
    <3>1. IsRemoved(call[c].slot) /\ known' = known
      BY <2>4 DEF RemoveDeletes, MembershipIInv, ForgottenIInv
    <3>2. row' = row \/ row' = [row EXCEPT ![call[c].slot] = "Deleted"]
      BY <2>4 DEF RemoveDeletes
    <3> QED BY <3>1, <3>2 DEF IsRemoved, MembershipIInv, MembershipTypeOK
  <2>5. CASE EnsureEnds(c) \/ SendFinds(c) \/ AddSpawns(c) \/ AddFails(c) \/ UndoEnds(c) \/ RemoveKills(c)
             \/ RemoveJoins(c)
    BY <2>5 DEF EnsureEnds, SendFinds, AddSpawns, AddFails, UndoEnds, RemoveKills, RemoveJoins, memberVars,
                IsRemoved
  <2>7. CASE SpawnReserves(c)
    BY <2>7, SpawnReservesFacts DEF IsRemoved
  <2>6. CASE SpawnEnters(c)
    <3>1. PICK b \in Agents : /\ row' = row /\ known' = [known EXCEPT ![b] = TRUE]
                              /\ unleased' = [unleased EXCEPT ![b] = @ \/ row[b] # "Member"]
      BY <2>6, SpawnEntersFacts
    <3> QED BY <3>1 DEF IsRemoved, MembershipIInv, MembershipTypeOK
  <2> QED BY <1>4, <2>2, <2>3, <2>4, <2>5, <2>6, <2>7 DEF CallProceeds
<1> QED BY <1>1, <1>2, <1>3, <1>4 DEF CallLocks

\* The way of a removal through its request.
LEMMA CallersPaths ==
  ASSUME MembershipIInv, NEW c \in Callers, CallBegins(c) \/ CallProceeds(c) \/ CallLocks(c)
  PROVE  /\ session' = session \/ EnsureStarts(c)
         /\ \A d \in Callers : d # c => call'[d] = call[d]
         /\ call[c].pc = "Join" => RemoveJoins(c)
         /\ call[c].pc = "Forget" => RemoveForgets(c)
         /\ call'[c].pc = "Join" => RemovePersists(c)
         /\ call'[c].pc = "Persist" => RemoveKills(c)
<1> DEFINE Quiet == /\ \A d \in Callers : d # c => call'[d] = call[d]
                    /\ call'[c].pc \notin {"Join", "Persist"}
<1>0. /\ \A d : d.pc \notin {"Join", "Persist"} => (call' = [call EXCEPT ![c] = d] => Quiet)
      /\ Return(c) => Quiet
      /\ \A pc : pc \notin {"Join", "Persist"} => (Continue(c, pc) => Quiet)
  BY RequestSteps
<1>1. session' = session \/ EnsureStarts(c)
  BY DEF CallBegins, EnsureLoads, Send, AddMember, RemoveBegins, CallProceeds, EnsureEnds, EnsureReconciles,
         SendFinds, AddSpawns, AddFails, UndoEnds, RemoveKills, RemoveJoins, RemoveForgets, RemoveDeletes,
         CallLocks, RemovePersists, RemovePersistFails, RemoveLoadFails, Enters, SpawnPersists, SpawnReserves, SpawnEnters, Abandon
<1>2. /\ call[c].pc = "Join" => RemoveJoins(c)
      /\ call[c].pc = "Forget" => RemoveForgets(c)
  <2>1. CallBegins(c) => call[c].pc \in {"Idle", "Undo"}
    BY RequestFields DEF CallBegins, EnsureLoads, Send, AddMember, RemoveBegins, Enters, SpawnPersists
  <2>2. CallLocks(c) => call[c].pc = "Persist"
    BY DEF CallLocks, RemovePersists, RemovePersistFails, RemoveLoadFails, Abandon
  <2>3. CallProceeds(c) => call[c].pc \notin {"Join", "Forget"} \/ RemoveJoins(c) \/ RemoveForgets(c)
    BY DEF CallProceeds, EnsureStarts, EnsureEnds, EnsureReconciles, SendFinds, AddSpawns, AddFails, UndoEnds,
           RemoveKills, RemoveDeletes, SpawnReserves, SpawnEnters, Abandon
  <2>4. /\ RemoveJoins(c) => call[c].pc = "Join"
        /\ RemoveForgets(c) => call[c].pc = "Forget"
    BY DEF RemoveJoins, RemoveForgets
  <2> QED BY <2>1, <2>2, <2>3, <2>4
<1>3. CASE CallBegins(c)
  <2>1. CASE EnsureLoads(c)
    <3>1. \E d : d.pc = "Ensure" /\ call' = [call EXCEPT ![c] = d]
      BY <2>1 DEF EnsureLoads, NewCall
    <3> QED BY <1>0, <1>1, <1>2, <3>1
  <2>2. ASSUME NEW a \in Agents, Send(c, a) \/ AddMember(c, a) \/ SpawnPersists(c, a)
        PROVE  Quiet
    <3>1. \/ call' = call /\ call[c] = Idle
          \/ \E pc \in {"Send", "Add", "Spawn"} : \E op : call' = [call EXCEPT ![c] = NewCall(pc, a, op, FALSE, {})]
      BY <2>2 DEF Send, AddMember, Enters, SpawnPersists
    <3>2. \A pc, op : NewCall(pc, a, op, FALSE, {}).pc = pc
      BY DEF NewCall
    <3> QED BY <1>0, <3>1, <3>2, RequestFields
  <2>3. ASSUME NEW a \in Agents, RemoveBegins(c, a)
        PROVE  Quiet
    <3>1. \/ Return(c)
          \/ \E d : d.pc = "Kill" /\ call' = [call EXCEPT ![c] = d]
      BY <2>3 DEF RemoveBegins, NewCall
    <3> QED BY <1>0, <3>1
  <2> QED BY <1>1, <1>2, <1>3, <2>1, <2>2, <2>3 DEF CallBegins
<1>4. CASE CallLocks(c)
  <2>1. CASE RemovePersists(c)
    <3>1. call'[c].pc # "Persist" /\ \A d \in Callers : d # c => call'[d] = call[d]
      BY <2>1, RemovePersistsCases
    <3> QED BY <1>1, <1>2, <2>1, <3>1
  <2>2. CASE RemovePersistFails(c) \/ RemoveLoadFails(c)
    BY <1>0, <1>1, <1>2, <2>2 DEF RemovePersistFails, RemoveLoadFails, Abandon
  <2> QED BY <1>4, <2>1, <2>2 DEF CallLocks
<1>5. CASE CallProceeds(c)
  <2>1. ASSUME NEW a \in Agents, EnsureReconciles(c, a)
        PROVE  Quiet
    <3>1. Return(c) \/ (call' = [call EXCEPT ![c].roster = @ \ {a}] /\ call[c].pc = "Ensure")
      BY <2>1 DEF EnsureReconciles, Leave
    <3> QED BY <1>0, <3>1, RequestSteps
  <2>2. CASE EnsureStarts(c) \/ EnsureEnds(c) \/ SendFinds(c) \/ AddSpawns(c) \/ UndoEnds(c) \/ RemoveDeletes(c)
    <3>1. Return(c)
      BY <2>2 DEF EnsureStarts, EnsureEnds, SendFinds, AddSpawns, UndoEnds, RemoveDeletes, Leave, Abandon
    <3> QED BY <1>0, <1>1, <1>2, <3>1
  <2>3. CASE AddFails(c)
    <3>1. Return(c) \/ Continue(c, "Undo")
      BY <2>3 DEF AddFails, Leave, Abandon
    <3> QED BY <1>0, <1>1, <1>2, <3>1
  <2>4. CASE RemoveKills(c)
    <3>1. call'[c].pc # "Join" /\ \A d \in Callers : d # c => call'[d] = call[d]
      BY <2>4, RequestSteps DEF RemoveKills
    <3> QED BY <1>1, <1>2, <2>4, <3>1
  <2>5. CASE RemoveJoins(c)
    <3>1. call'[c].pc \notin {"Join", "Persist"} /\ \A d \in Callers : d # c => call'[d] = call[d]
      BY <2>5, RemoveJoinsFields
    <3> QED BY <1>1, <1>2, <3>1
  <2>6. CASE RemoveForgets(c)
    BY <1>0, <1>1, <1>2, <2>6 DEF RemoveForgets
  <2>7. CASE SpawnReserves(c)
    <3>1. call'[c].pc = "Enter" /\ \A d \in Callers : d # c => call'[d] = call[d]
      BY <2>7, SpawnReservesFacts
    <3> QED BY <1>1, <1>2, <3>1
  <2>8. CASE SpawnEnters(c)
    <3>1. call'[c].pc = "Add" /\ \A d \in Callers : d # c => call'[d] = call[d]
      BY <2>8, SpawnEntersFacts
    <3> QED BY <1>1, <1>2, <3>1
  <2> QED BY <1>1, <1>2, <1>5, <2>1, <2>2, <2>3, <2>4, <2>5, <2>6, <2>7, <2>8 DEF CallProceeds
<1> QED BY <1>3, <1>4, <1>5

LEMMA CallersGoOn ==
  ASSUME MembershipIInv, NEW c \in Callers,
         CallBegins(c) \/ CallProceeds(c) \/ CallLocks(c),
         ~EnsureStarts(c), ~RemovePersists(c), ~RemoveJoins(c), ~RemoveForgets(c)
  PROVE  GoesOnQuietly
<1>1. session' = session /\ \A d \in Callers : d # c => call'[d] = call[d]
  BY CallersPaths
<1>2. call[c].pc \notin {"Join", "Forget"} /\ call'[c].pc # "Join"
  BY CallersPaths
<1>3. \A a \in Agents : IsRemoved(a)' => IsRemoved(a)
  BY CallersMembers
<1>4. ASSUME NEW a \in Agents, NEW op \in OpId, entries[a] = InFlight("Removing", op)
      PROVE  entries'[a] = entries[a] \/ signal'[op] = "Failed"
  <2>1. /\ entries[a].state = "Removing"
        /\ \A p : entries[a] = InFlight("Removing", p) => p = op
    BY <1>4, EntryFields
  <2> QED BY <2>1, CallersEntries
<1>5. ASSUME NEW a \in Agents, IsRemoved(a), Dismissed(a)
      PROVE  Dismissed(a)' \/ unleased'[a]
  <2>1. entries[a].state = "Absent" /\ \A op : entries[a] # InFlight("Removing", op)
    BY <1>5, EntryFields DEF Dismissed
  <2>2. entries'[a] = entries[a] \/ unleased'[a]
    BY <1>5, <2>1, CallersEntries DEF Dismissed
  <2> QED BY <1>5, <2>2, CallersMembers DEF Dismissed
<1> QED BY <1>1, <1>2, <1>3, <1>4, <1>5 DEF GoesOnQuietly, Published

\* The publication of the session makes nobody known who was removed before.
LEMMA StartGoesOn ==
  ASSUME MembershipIInv, MembershipIInv', SessionIsAhead, RemovalsGoOn, NEW c \in Callers, EnsureStarts(c)
  PROVE  RemovalsGoOn'
<1>1. /\ session = "Unborn" /\ UNCHANGED <<entries, row, signal>>
      /\ known' = [a \in Agents |-> a \in call[c].roster]
      /\ call[c].pc = "Ensure" /\ Return(c)
  BY DEF EnsureStarts, vars, Leave
<1>2. call[c].roster \subseteq Roster
  BY <1>1 DEF MembershipIInv, ForgottenIInv
<1>3. \A a \in Agents : IsRemoved(a)' => Dismissed(a)'
  BY <1>1, <1>2 DEF SessionIsAhead, IsRemoved, Dismissed, Roster
<1>4. \A d \in Callers : call'[d].pc = "Join" => call'[d] = call[d]
  BY <1>1, RequestSteps
<1>5. ASSUME NEW d \in Callers, call'[d].pc = "Join"
      PROVE  call'[d].op \in OpId /\ Dismissed(call[d].slot)' /\ call'[d].slot = call[d].slot
  <2>1. call[d].pc = "Join" /\ call'[d] = call[d]
    BY <1>4, <1>5
  <2>2. call[d].slot \in Agents /\ IsRemoved(call[d].slot)
    BY <2>1 DEF MembershipIInv, ForgottenIInv
  <2> QED BY <1>1, <1>3, <2>1, <2>2 DEF RemovalsGoOn, IsRemoved
<1> QED BY <1>3, <1>5 DEF RemovalsGoOn

\* A waiter of the removal of another member or of another removal still waits, while
\* its entry goes only by a step that is told about.
LEMMA WaitersStay ==
  ASSUME MembershipIInv, RemovalsGoOn, [MembershipNext]_allVars, session' = session,
         NEW d \in Callers, call'[d] = call[d], call[d].pc = "Join",
         NEW a, a = call[d].slot, NEW op, op = call[d].op,
         entries'[a] = entries[a] \/ Dismissed(a)' \/ entries[a].state \notin {"Absent", "Removing"},
         known'[a] => known[a]
  PROVE  /\ op \in OpId
         /\ Published' /\ ~unleased'[a] =>
               entries'[a] = InFlight("Removing", op) \/ signal'[op] = "Failed" \/ Dismissed(a)'
<1>1. op \in OpId /\ a \in Agents
  BY DEF RemovalsGoOn, MembershipIInv, ForgottenIInv
<1>2. Published' /\ ~unleased'[a] =>
          entries[a] = InFlight("Removing", op) \/ signal[op] = "Failed" \/ Dismissed(a)
  BY <1>1, UnleasedStays DEF RemovalsGoOn, Published
<1>3. signal[op] = "Failed" => signal'[op] = "Failed"
  BY <1>1, RegistryStep, NextOutcomeIsFinal DEF MembershipIInv
<1>4. entries[a] = InFlight("Removing", op) \/ Dismissed(a) => entries[a].state \in {"Absent", "Removing"}
  BY EntryFields DEF Dismissed
<1>5. Dismissed(a) => Dismissed(a)' \/ entries'[a] # entries[a]
  BY DEF Dismissed
<1> QED BY <1>1, <1>2, <1>3, <1>4, <1>5

\* What goes on for the other members goes on.
LEMMA OthersGoOn ==
  ASSUME MembershipIInv, RemovalsGoOn, [MembershipNext]_allVars, session' = session,
         NEW c \in Callers, \A d \in Callers : d # c => call'[d] = call[d],
         NEW b \in Agents, b # call[c].slot, Published, IsRemoved(b)', IsRemoved(b)' => IsRemoved(b),
         ~unleased'[b], entries'[b] = entries[b], known'[b] => known[b]
  PROVE  \/ Dismissed(b)'
         \/ \E d \in Callers : call'[d].slot = b /\ call'[d].pc = "Join"
         \/ \E d \in Callers : call'[d].slot = b /\ call'[d].pc = "Forget" /\ Holds(d)'
<1>1. ~unleased[b]
  BY UnleasedStays
<1>2. \/ Dismissed(b)
      \/ \E d \in Callers : call[d].slot = b /\ (call[d].pc = "Join" \/ (call[d].pc = "Forget" /\ Holds(d)))
  BY <1>1 DEF RemovalsGoOn
<1>3. Dismissed(b) => Dismissed(b)'
  BY DEF Dismissed
<1>4. \A d \in Callers : call[d].slot = b => call'[d] = call[d] /\ Holds(d)' = Holds(d)
  BY DEF Holds
<1> QED BY <1>2, <1>3, <1>4

\* The second critical section of a removal gets hold of a lease or joins the removal
\* that has it.
LEMMA PersistGoesOn ==
  ASSUME MembershipIInv, LeasesAreHeld, RemovalsGoOn, [MembershipNext]_allVars,
         NEW c \in Callers, RemovePersists(c)
  PROVE  RemovalsGoOn'
<1> SUFFICES ASSUME NEW a, a = call[c].slot
             PROVE  RemovalsGoOn'
  OBVIOUS
<1>1. /\ a \in Agents /\ call[c].pc = "Persist" /\ call'[c].slot = a
      /\ \A d \in Callers : d # c => call'[d] = call[d]
  BY RemovePersistsCases
<1>2. UNCHANGED <<session, known>>
  BY DEF RemovePersists
<1>3. /\ \A b \in Agents : b # a => (IsRemoved(b)' => IsRemoved(b))
      /\ session # "Unborn" /\ call'[c].pc # "Join" /\ call'[c].op = 0 => unleased'[a]
  BY <1>1 DEF RemovePersists, IsRemoved, MembershipIInv, MembershipTypeOK
<1>4. \/ UNCHANGED <<entries, signal>>
      \/ /\ entries[a].state \notin {"Absent", "Removing"}
         /\ \A b \in Agents : b # a => entries'[b] = entries[b]
  <2>1. \/ UNCHANGED vars
        \/ entries[a].state \notin {"Absent", "Removing"} /\ Starts(a, "Removing", "remove")
    BY RemovePersistsCases
  <2>2. Starts(a, "Removing", "remove") => \A b \in Agents : b # a => entries'[b] = entries[b]
    BY <1>1, StartFacts DEF MembershipIInv
  <2> QED BY <2>1, <2>2 DEF vars
<1>5. ASSUME NEW d \in Callers, call'[d].pc = "Join", NEW b, b = call'[d].slot, NEW op, op = call'[d].op
      PROVE  /\ op \in OpId
             /\ Published' /\ ~unleased'[b] =>
                   entries'[b] = InFlight("Removing", op) \/ signal'[op] = "Failed" \/ Dismissed(b)'
  <2>1. CASE d # c
    <3>1. call'[d] = call[d] /\ call[d].pc = "Join" /\ b = call[d].slot /\ op = call[d].op
      BY <1>1, <1>5, <2>1
    <3>2. b \in Agents
      BY <3>1 DEF MembershipIInv, ForgottenIInv
    <3>3. entries'[b] = entries[b] \/ entries[b].state \notin {"Absent", "Removing"}
      BY <1>4, <3>2
    <3> QED BY <1>2, <3>1, <3>3, WaitersStay
  <2>2. CASE d = c
    <3>1. UNCHANGED vars /\ entries[a].state = "Removing" /\ op = entries[a].op /\ b = a
      BY <1>1, <1>5, <2>2, RemovePersistsCases
    <3>2. entries[a] \in MemberRuntimeEntry
      BY <1>1 DEF MembershipIInv, IInv, TypeOK
    <3>3. PICK st \in {"Attaching", "Failed", "Removing"}, p \in OpId : entries[a] = InFlight(st, p)
      BY <3>1, <3>2, EntryFields DEF MemberRuntimeEntry
    <3>4. entries[a] = InFlight("Removing", op) /\ op \in OpId
      BY <3>1, <3>3, EntryFields
    <3> QED BY <3>1, <3>4 DEF vars
  <2> QED BY <2>1, <2>2
<1>6. ASSUME NEW b \in Agents, Published', IsRemoved(b)', ~unleased'[b]
      PROVE  \/ Dismissed(b)'
             \/ \E d \in Callers : call'[d].slot = b /\ call'[d].pc = "Join"
             \/ \E d \in Callers : call'[d].slot = b /\ call'[d].pc = "Forget" /\ Holds(d)'
  <2>1. Published
    BY <1>2, <1>6 DEF Published
  <2>2. CASE b # a
    <3>1. entries'[b] = entries[b]
      BY <1>4, <2>2
    <3> QED BY <1>1, <1>2, <1>3, <1>6, <2>1, <2>2, <3>1, OthersGoOn
  <2>3. CASE b = a
    <3>1. call'[c].pc = "Join" \/ call'[c].pc = "Forget"
      BY <2>1, RemovePersistsCases
    <3>2. call'[c].pc # "Join" => call'[c].op # 0
      BY <1>3, <1>6, <2>1, <2>3 DEF Published
    <3> QED BY <1>1, <2>3, <3>1, <3>2 DEF Holds
  <2> QED BY <2>2, <2>3
<1> QED BY <1>5, <1>6 DEF RemovalsGoOn

\* A removal that waited for another one, which did not fail, finds the member dismissed.
LEMMA JoinGoesOn ==
  ASSUME MembershipIInv, LeasesAreHeld, SessionIsAhead, RemovalsGoOn, [MembershipNext]_allVars,
         NEW c \in Callers, RemoveJoins(c)
  PROVE  RemovalsGoOn'
<1> SUFFICES ASSUME NEW a, a = call[c].slot
             PROVE  RemovalsGoOn'
  OBVIOUS
<1>1. /\ call[c].pc = "Join" /\ a \in Agents /\ call'[c].pc = "Forget"
      /\ \A d \in Callers : d # c => call'[d] = call[d]
  BY RemoveJoinsFields
<1>2. UNCHANGED <<session, known, entries, row>>
  BY DEF RemoveJoins, vars
<1>3. signal[call[c].op] # "Pending" /\ (signal[call[c].op] = "Failed" => unleased'[a])
  BY <1>1 DEF RemoveJoins, MembershipIInv, MembershipTypeOK
<1>4. ASSUME NEW d \in Callers, call'[d].pc = "Join", NEW b, b = call'[d].slot, NEW op, op = call'[d].op
      PROVE  /\ op \in OpId
             /\ Published' /\ ~unleased'[b] =>
                   entries'[b] = InFlight("Removing", op) \/ signal'[op] = "Failed" \/ Dismissed(b)'
  <2>1. call'[d] = call[d] /\ call[d].pc = "Join" /\ b = call[d].slot /\ op = call[d].op
    BY <1>1, <1>4
  <2> QED BY <1>2, <2>1, WaitersStay
<1>5. ASSUME NEW b \in Agents, Published', IsRemoved(b)', ~unleased'[b]
      PROVE  \/ Dismissed(b)'
             \/ \E d \in Callers : call'[d].slot = b /\ call'[d].pc = "Join"
             \/ \E d \in Callers : call'[d].slot = b /\ call'[d].pc = "Forget" /\ Holds(d)'
  <2>1. Published /\ IsRemoved(b)
    BY <1>2, <1>5 DEF Published, IsRemoved
  <2>2. CASE b # a
    BY <1>1, <1>2, <1>5, <2>1, <2>2, OthersGoOn
  <2>3. CASE b = a
    <3>1. signal[call[c].op] \notin {"Pending", "Failed"}
      BY <1>3, <1>5, <2>3
    <3>2. Dismissed(b)
      BY <1>1, <1>5, <2>1, <2>3, <3>1, RemovalEntries, UnleasedStays
    <3> QED BY <1>2, <3>2 DEF Dismissed
  <2> QED BY <2>2, <2>3
<1> QED BY <1>4, <1>5 DEF RemovalsGoOn

\* The removal that holds the lease dismisses the member.
LEMMA ForgetGoesOn ==
  ASSUME MembershipIInv, LeasesAreHeld, SessionIsAhead, RemovalsGoOn, [MembershipNext]_allVars,
         NEW c \in Callers, RemoveForgets(c)
  PROVE  RemovalsGoOn'
<1> SUFFICES ASSUME NEW a, a = call[c].slot, NEW id, id = call[c].op
             PROVE  RemovalsGoOn'
  OBVIOUS
<1>1. /\ call[c].pc = "Forget" /\ a \in Agents /\ call'[c].pc = "Delete" /\ FinishRemoveOf(id)
      /\ \A d \in Callers : d # c => call'[d] = call[d]
  BY RequestSteps DEF RemoveForgets, MembershipIInv, ForgottenIInv
<1>2. /\ UNCHANGED <<session, row>>
      /\ \A b \in Agents : known'[b] <=> known[b] /\ b # a
  BY DEF RemoveForgets, MembershipIInv, MembershipTypeOK, historyVars
<1>3. ASSUME Published, id # 0
      PROVE  entries[a] = InFlight("Removing", id) /\ Dismissed(a)'
  <2>1. /\ entries[a] = InFlight("Removing", id) /\ ~stopped
        /\ [kind |-> "remove", agent |-> a, op |-> id] \in leases
    BY <1>1, <1>3, RemovalEntries DEF Holds, SessionIsAhead, Published
  <2>2. PICK l \in leases : l.op = id /\ FinishRemove(l)
    BY <1>1, <1>3 DEF FinishRemoveOf
  <2>3. l.agent = a
    <3>1. opAgent[id] = l.agent
      BY <2>2 DEF MembershipIInv, IInv, Bookkeeping
    <3>2. opAgent[id] = a
      BY <2>1 DEF MembershipIInv, IInv, Bookkeeping
    <3> QED BY <3>1, <3>2
  <2>4. Current(l, "Removing")
    BY <2>1, <2>2, <2>3 DEF Current
  <2>5. entries' = [entries EXCEPT ![a] = Absent]
    BY <2>2, <2>3, <2>4 DEF FinishRemove, Commit, Settle
  <2>6. entries'[a] = Absent
    BY <1>1, <2>5 DEF MembershipIInv, IInv, TypeOK
  <2> QED BY <1>1, <1>2, <2>1, <2>6 DEF Dismissed
<1>4. \A b \in Agents : Published /\ b # a => entries'[b] = entries[b]
  <2> SUFFICES ASSUME NEW b \in Agents, Published, b # a, entries'[b] # entries[b]
               PROVE  FALSE
    OBVIOUS
  <2>1. entries[b] = InFlight("Removing", id) /\ id # 0
    BY <1>1, LeaseEffects, LeaseFacts DEF vars
  <2>2. entries[b].op = id /\ entries[a].op = id
    BY <1>3, <2>1, EntryFields
  <2> QED BY <1>1, <2>1, <2>2 DEF MembershipIInv, IInv, Bookkeeping, Latest
<1>5. id = 0 => entries' = entries
  BY <1>1, LeaseFacts DEF vars
<1>6. ASSUME NEW d \in Callers, call'[d].pc = "Join", NEW b, b = call'[d].slot, NEW op, op = call'[d].op
      PROVE  /\ op \in OpId
             /\ Published' /\ ~unleased'[b] =>
                   entries'[b] = InFlight("Removing", op) \/ signal'[op] = "Failed" \/ Dismissed(b)'
  <2>1. call'[d] = call[d] /\ call[d].pc = "Join" /\ b = call[d].slot /\ op = call[d].op
    BY <1>1, <1>6
  <2>2. b \in Agents /\ op \in OpId
    BY <2>1 DEF MembershipIInv, ForgottenIInv, RemovalsGoOn
  <2>3. Published => entries'[b] = entries[b] \/ Dismissed(b)'
    BY <1>3, <1>4, <1>5, <2>2
  <2>4. known'[b] => known[b]
    BY <1>2, <2>2
  <2>5. CASE Published
    BY <1>2, <2>1, <2>3, <2>4, <2>5, WaitersStay
  <2> QED BY <1>2, <2>2, <2>5 DEF Published
<1>7. ASSUME NEW b \in Agents, Published', IsRemoved(b)', ~unleased'[b]
      PROVE  \/ Dismissed(b)'
             \/ \E d \in Callers : call'[d].slot = b /\ call'[d].pc = "Join"
             \/ \E d \in Callers : call'[d].slot = b /\ call'[d].pc = "Forget" /\ Holds(d)'
  <2>1. Published /\ IsRemoved(b)
    BY <1>2, <1>7 DEF Published, IsRemoved
  <2>2. CASE b # a
    BY <1>1, <1>2, <1>4, <1>7, <2>1, <2>2, OthersGoOn
  <2>3. CASE b = a /\ id # 0
    BY <1>3, <2>1, <2>3
  <2>4. CASE b = a /\ id = 0
    <3>1. ~unleased[b]
      BY <1>7, UnleasedStays
    <3>2. \/ Dismissed(b)
          \/ \E d \in Callers : d # c /\ call[d].slot = b /\ (call[d].pc = "Join" \/ (call[d].pc = "Forget" /\ Holds(d)))
      BY <1>1, <2>1, <2>4, <3>1 DEF RemovalsGoOn, Holds
    <3>3. Dismissed(b) => Dismissed(b)'
      BY <1>2, <1>5, <2>4 DEF Dismissed
    <3>4. \A d \in Callers : d # c => call'[d] = call[d] /\ Holds(d)' = Holds(d)
      BY <1>1 DEF Holds
    <3> QED BY <3>2, <3>3, <3>4
  <2> QED BY <2>2, <2>3, <2>4
<1> QED BY <1>6, <1>7 DEF RemovalsGoOn

LEMMA AttachesGoOn ==
  ASSUME MembershipIInv, NEW op \in OpId, AttachProceeds(op)
  PROVE  GoesOnQuietly
<1>1. UNCHANGED <<session, call, row, known>>
  BY AttachSteps
<1>2. ASSUME NEW a \in Agents, entries[a].state \in {"Absent", "Removing"}
      PROVE  entries'[a] = entries[a]
  <2>1. entries[a] # InFlight("Attaching", op)
    BY <1>2, EntryFields
  <2> QED BY <2>1, AttachEffects
<1>3. \A a \in Agents : Dismissed(a) => Dismissed(a)'
  BY <1>1, <1>2, EntryFields DEF Dismissed
<1>4. \A a \in Agents, p \in OpId : entries[a] = InFlight("Removing", p) => entries'[a] = entries[a]
  BY <1>2, EntryFields
<1> QED BY <1>1, <1>3, <1>4 DEF GoesOnQuietly, IsRemoved, Published

LEMMA OthersGoOnQuietly ==
  ASSUME MembershipIInv,
         \/ \E a \in Agents : Retry(a) \/ AddToRow(a) \/ AgentEnds(a)
         \/ SessionStops
         \/ UNCHANGED allVars
  PROVE  GoesOnQuietly
<1>1. ASSUME NEW a \in Agents, Retry(a)
      PROVE  GoesOnQuietly
  <2>1. UNCHANGED <<session, call, row, known>> /\ known[a] /\ Reserves(a, TRUE)
    BY <1>1 DEF Retry, memberVars, historyVars
  <2>2. ASSUME NEW b \in Agents, entries[b].state = "Removing" \/ ~known[b]
        PROVE  entries'[b] = entries[b]
    BY <2>1, <2>2, ReserveEffects
  <2>3. \A b \in Agents : Dismissed(b) => Dismissed(b)'
    BY <2>1, <2>2 DEF Dismissed
  <2>4. \A b \in Agents, p \in OpId : entries[b] = InFlight("Removing", p) => entries'[b] = entries[b]
    BY <2>2, EntryFields
  <2> QED BY <2>1, <2>3, <2>4 DEF GoesOnQuietly, IsRemoved, Published
<1>2. ASSUME NEW a \in Agents, AddToRow(a)
      PROVE  GoesOnQuietly
  <2>1. UNCHANGED <<session, call, entries, known>> /\ row' = [row EXCEPT ![a] = "Member"]
    BY <1>2 DEF AddToRow, vars, taskVars
  <2>2. \A b \in Agents : IsRemoved(b)' => IsRemoved(b)
    BY <2>1 DEF IsRemoved, MembershipIInv, MembershipTypeOK
  <2> QED BY <2>1, <2>2 DEF GoesOnQuietly, Dismissed, Published
<1>3. CASE SessionStops
  <2>1. UNCHANGED <<call, row, known>> /\ session' = "Stopped" /\ Published
    BY <1>3 DEF SessionStops, taskVars
  <2>2. \A a \in Agents : entries'[a] = Absent
    BY <1>3 DEF SessionStops, Stop
  <2> QED BY <2>1, <2>2 DEF GoesOnQuietly, IsRemoved, Dismissed, Published
<1>4. ASSUME UNCHANGED allVars \/ \E a \in Agents : AgentEnds(a)
      PROVE  GoesOnQuietly
  <2>1. UNCHANGED <<session, call, row, known, entries>>
    BY <1>4 DEF AgentEnds, allVars, memberVars, taskVars, vars, historyVars
  <2> QED BY <2>1 DEF GoesOnQuietly, IsRemoved, Dismissed, Published
<1> QED BY <1>1, <1>2, <1>3, <1>4

LEMMA NextGoesOn ==
  ASSUME MembershipIInv, LeasesAreHeld, SessionIsAhead, RemovalsGoOn, [MembershipNext]_allVars
  PROVE  RemovalsGoOn'
<1>1. MembershipIInv'
  BY NextMembershipIInv
<1>2. ASSUME NEW c \in Callers, CallBegins(c) \/ CallProceeds(c) \/ CallLocks(c)
      PROVE  RemovalsGoOn'
  <2>1. CASE EnsureStarts(c)
    BY <1>1, <2>1, StartGoesOn
  <2>2. CASE RemovePersists(c) \/ RemoveJoins(c) \/ RemoveForgets(c)
    BY <2>2, PersistGoesOn, JoinGoesOn, ForgetGoesOn
  <2>3. CASE ~(EnsureStarts(c) \/ RemovePersists(c) \/ RemoveJoins(c) \/ RemoveForgets(c))
    BY <1>2, <2>3, CallersGoOn, GoesOnStep
  <2> QED BY <2>1, <2>2, <2>3
<1>3. ASSUME NEW op \in OpId, AttachProceeds(op)
      PROVE  RemovalsGoOn'
  BY <1>3, AttachesGoOn, GoesOnStep
<1>4. CASE \/ \E a \in Agents : Retry(a) \/ AddToRow(a) \/ AgentEnds(a)
           \/ SessionStops
           \/ UNCHANGED allVars
  BY <1>4, OthersGoOnQuietly, GoesOnStep
<1> QED BY <1>2, <1>3, <1>4 DEF MembershipNext

----------------------------------------------------------------------------
(* Removed members are gone.                                                *)

\* An attach that registered the loop of a may still take it back.
Registered(a) == \E op \in OpId : opAgent[op] = a /\ attach[op].pc = "Commit" /\ attach[op].registered

\* An attach has begun since the removal of a.
Resumed(a) == Published /\ entries[a].state = "Attaching"

\* Agents and loops of removed members come only with an attach that will take them away,
\* and whoever was to take them away has done so, still is to, or the member is attached.
TakesQuietly ==
    /\ \A a \in Agents :
          /\ IsRemoved(a)' => IsRemoved(a)
          /\ agent'[a] => agent[a] \/ Kills(a)'
          /\ loops'[a] => loops[a] \/ Registered(a)'
          /\ Kills(a) => Kills(a)' \/ ~agent'[a] \/ Resumed(a)
          /\ Registered(a) => Registered(a)' \/ ~loops'[a] \/ Resumed(a)
    /\ \A c \in Callers :
          /\ call[c].pc = "Join" =>
                \/ call'[c] = call[c]
                \/ call'[c].slot = call[c].slot /\ call'[c].pc = "Forget" /\ ~loops'[call[c].slot]
          /\ call[c].pc = "Forget" => call'[c] = call[c] \/ ~agent'[call[c].slot]
          /\ call'[c].pc = "Persist" => call'[c] = call[c] \/ ~agent'[call'[c].slot]

\* A removed member is attached only while its removal waits for another one.
LEMMA ResumedAwaits ==
  ASSUME MembershipIInv, LeasesAreHeld, SessionIsAhead, RemovalsGoOn, NEW a \in Agents, Resumed(a)
  PROVE  /\ \A c \in Callers : ~(Holds(c) /\ call[c].pc \in {"Persist", "Forget"} /\ call[c].slot = a)
         /\ IsRemoved(a) /\ ~unleased[a] => \E c \in Callers : call[c].slot = a /\ call[c].pc = "Join"
<1>1. ASSUME NEW c \in Callers, Holds(c), call[c].pc \in {"Persist", "Forget"}, call[c].slot = a
      PROVE  FALSE
  <2>1. entries[a] = InFlight("Removing", call[c].op)
    BY <1>1, RemovalEntries DEF Resumed
  <2> QED BY <2>1, EntryFields DEF Resumed
<1>2. ~Dismissed(a)
  BY EntryFields DEF Resumed, Dismissed
<1> QED BY <1>1, <1>2 DEF Resumed, RemovalsGoOn

LEMMA TakesStep ==
  ASSUME MembershipIInv, LeasesAreHeld, SessionIsAhead, RemovalsGoOn, LeftoversAreTaken,
         [MembershipNext]_allVars, TakesQuietly
  PROVE  LeftoversAreTaken'
<1>1. ASSUME NEW c \in Callers, Holds(c)', call'[c].pc = "Persist", NEW a, a = call'[c].slot, agent'[a]
      PROVE  Kills(a)'
  <2>1. call'[c] = call[c]
    BY <1>1 DEF TakesQuietly
  <2>2. Holds(c) /\ call[c].pc = "Persist" /\ call[c].slot = a /\ a \in Agents
    BY <1>1, <2>1 DEF Holds, MembershipIInv, ForgottenIInv
  <2>3. agent[a] => Kills(a)
    BY <2>2 DEF LeftoversAreTaken
  <2>4. ~Resumed(a)
    BY <2>2, ResumedAwaits
  <2> QED BY <1>1, <2>2, <2>3, <2>4 DEF TakesQuietly
<1>2. ASSUME NEW a \in Agents, IsRemoved(a)', ~unleased'[a]
      PROVE  IsRemoved(a) /\ ~unleased[a]
  BY <1>2, UnleasedStays DEF TakesQuietly
<1>3. ASSUME NEW a \in Agents, IsRemoved(a)', ~unleased'[a], agent'[a]
      PROVE  Kills(a)' \/ \E c \in Callers : call'[c].slot = a /\ call'[c].pc \in {"Join", "Forget"}
  <2>1. ASSUME NEW c \in Callers, call[c].slot = a, call[c].pc \in {"Join", "Forget"}
        PROVE  call'[c].slot = a /\ call'[c].pc \in {"Join", "Forget"}
    BY <1>3, <2>1 DEF TakesQuietly
  <2>2. CASE Resumed(a)
    BY <1>2, <1>3, <2>1, <2>2, ResumedAwaits
  <2>3. CASE Kills(a) /\ ~Resumed(a)
    BY <1>3, <2>3 DEF TakesQuietly
  <2>4. CASE ~Kills(a) /\ agent[a]
    BY <1>2, <1>3, <2>1, <2>4 DEF LeftoversAreTaken
  <2> QED BY <1>3, <2>2, <2>3, <2>4 DEF TakesQuietly
<1>4. ASSUME NEW a \in Agents, IsRemoved(a)', ~unleased'[a], loops'[a]
      PROVE  Registered(a)' \/ \E c \in Callers : call'[c].slot = a /\ call'[c].pc = "Join"
  <2>1. ASSUME NEW c \in Callers, call[c].slot = a, call[c].pc = "Join"
        PROVE  call'[c].slot = a /\ call'[c].pc = "Join"
    BY <1>4, <2>1 DEF TakesQuietly
  <2>2. CASE Resumed(a)
    BY <1>2, <1>4, <2>1, <2>2, ResumedAwaits
  <2>3. CASE Registered(a) /\ ~Resumed(a)
    BY <1>4, <2>3 DEF TakesQuietly
  <2>4. CASE ~Registered(a) /\ loops[a]
    BY <1>2, <1>4, <2>1, <2>4 DEF LeftoversAreTaken, Registered
  <2> QED BY <1>4, <2>2, <2>3, <2>4 DEF TakesQuietly
<1> QED BY <1>1, <1>3, <1>4 DEF LeftoversAreTaken, Registered

\* While the attaches that have spawned go on, so do those that will kill the agent.
LEMMA AttachesRemain ==
  ASSUME MembershipIInv, LeasesAreHeld, [MembershipNext]_allVars, NEW a \in Agents,
         \A op \in OpId : attach[op].pc # "None" => attach'[op] = attach[op]
  PROVE  (Kills(a) => Kills(a)') /\ (Registered(a) => Registered(a)')
<1>1. \A op \in OpId : attach[op].pc # "None" => opAgent'[op] = opAgent[op]
  BY HeldHasBegun, BegunStays, RegistryStep DEF MembershipIInv
<1> QED BY <1>1 DEF Kills, Registered

\* Requests only take agents and loops away.
LEMMA CallersOnlyTake ==
  ASSUME MembershipIInv, NEW c \in Callers, CallBegins(c) \/ CallProceeds(c) \/ CallLocks(c), NEW a \in Agents
  PROVE  (agent'[a] => agent[a]) /\ (loops'[a] => loops[a])
<1>1. ASSUME NEW b, KillAgent(b)
      PROVE  agent'[a] => agent[a]
  BY <1>1 DEF KillAgent, MembershipIInv, MembershipTypeOK
<1>2. ASSUME NEW b, StopLoop(b)
      PROVE  loops'[a] => loops[a]
  BY <1>2 DEF StopLoop, MembershipIInv, MembershipTypeOK
<1>3. CASE CallBegins(c)
  <2>1. ASSUME NEW b \in Agents, RemoveBegins(c, b)
        PROVE  agent' = agent /\ (loops' = loops \/ StopLoop(b))
    BY <2>1 DEF RemoveBegins
  <2>2. CASE ~\E b \in Agents : RemoveBegins(c, b)
    BY <1>3, <2>2 DEF CallBegins, EnsureLoads, Send, AddMember, memberVars, historyVars, Enters, SpawnPersists
  <2> QED BY <1>2, <2>1, <2>2
<1>4. CASE CallLocks(c)
  <2>1. CASE RemovePersists(c)
    BY <1>2, <2>1 DEF RemovePersists, RemoveRejoins
  <2>2. CASE RemovePersistFails(c) \/ RemoveLoadFails(c)
    BY <2>2 DEF RemovePersistFails, RemoveLoadFails, memberVars, historyVars, Abandon
  <2> QED BY <1>4, <2>1, <2>2 DEF CallLocks
<1>5. CASE CallProceeds(c)
  <2>1. CASE RemoveKills(c) \/ RemoveForgets(c) \/ RemoveDeletes(c)
    BY <1>1, <2>1 DEF RemoveKills, RemoveForgets, RemoveDeletes
  <2>2. CASE RemoveJoins(c)
    BY <1>2, <2>2 DEF RemoveJoins
  <2>3. CASE ~(RemoveKills(c) \/ RemoveForgets(c) \/ RemoveDeletes(c) \/ RemoveJoins(c))
    BY <1>5, <2>3 DEF CallProceeds, EnsureStarts, EnsureEnds, EnsureReconciles, SendFinds, AddSpawns, AddFails,
                      UndoEnds, memberVars, historyVars, SpawnReserves, SpawnEnters, Abandon
  <2> QED BY <2>1, <2>2, <2>3
<1> QED BY <1>3, <1>4, <1>5

LEMMA CallersTake ==
  ASSUME MembershipIInv, LeasesAreHeld, [MembershipNext]_allVars, NEW c \in Callers,
         CallBegins(c) \/ CallProceeds(c) \/ CallLocks(c), ~RemovePersists(c)
  PROVE  TakesQuietly
<1>1. \A a \in Agents : (agent'[a] => agent[a]) /\ (loops'[a] => loops[a])
  BY CallersOnlyTake
<1>2. \A a \in Agents : IsRemoved(a)' => IsRemoved(a)
  <2>1. CASE EnsureStarts(c)
    BY <2>1 DEF EnsureStarts, IsRemoved
  <2>2. CASE ~EnsureStarts(c)
    BY <2>2, CallersMembers
  <2> QED BY <2>1, <2>2
<1>3. \A op \in OpId : attach[op].pc # "None" => attach'[op] = attach[op]
  BY CallersEffects
<1>4. \A a \in Agents : (Kills(a) => Kills(a)') /\ (Registered(a) => Registered(a)')
  BY <1>3, AttachesRemain
<1>5. ASSUME call[c].pc = "Join"
      PROVE  call'[c].slot = call[c].slot /\ call'[c].pc = "Forget" /\ ~loops'[call[c].slot]
  <2>1. RemoveJoins(c)
    BY <1>5, CallersPaths
  <2> QED BY <2>1, RemoveJoinsFields DEF RemoveJoins, StopLoop, MembershipIInv, MembershipTypeOK
<1>6. ASSUME call[c].pc = "Forget"
      PROVE  ~agent'[call[c].slot]
  <2>1. RemoveForgets(c)
    BY <1>6, CallersPaths
  <2> QED BY <1>6, <2>1 DEF RemoveForgets, KillAgent, MembershipIInv, MembershipTypeOK, ForgottenIInv, historyVars
<1>7. ASSUME call'[c].pc = "Persist"
      PROVE  ~agent'[call'[c].slot]
  <2>1. RemoveKills(c)
    BY <1>7, CallersPaths
  <2>2. call[c].slot \in Agents
    BY <2>1 DEF RemoveKills, MembershipIInv, ForgottenIInv
  <2>3. call'[c].slot = call[c].slot
    BY <2>1, RequestSteps DEF RemoveKills
  <2> QED BY <2>1, <2>2, <2>3 DEF RemoveKills, KillAgent, MembershipIInv, MembershipTypeOK, historyVars
<1>8. \A d \in Callers : d # c => call'[d] = call[d]
  BY CallersPaths
<1> QED BY <1>1, <1>2, <1>4, <1>5, <1>6, <1>7, <1>8 DEF TakesQuietly

\* The second critical section of a removal leaves nothing that an attach or a removal
\* does not answer for.
LEMMA PersistTakes ==
  ASSUME MembershipIInv, LeasesAreHeld, SessionIsAhead, LeftoversAreTaken, [MembershipNext]_allVars,
         NEW c \in Callers, RemovePersists(c)
  PROVE  LeftoversAreTaken'
<1> SUFFICES ASSUME NEW a, a = call[c].slot
             PROVE  LeftoversAreTaken'
  OBVIOUS
<1>1. /\ a \in Agents /\ call[c].pc = "Persist" /\ call'[c].slot = a
      /\ \A d \in Callers : d # c => call'[d] = call[d]
  BY RemovePersistsCases
<1>2. UNCHANGED <<session, known, agent, attach>>
  BY DEF RemovePersists
<1>3. /\ \A b \in Agents : b # a => (IsRemoved(b)' => IsRemoved(b))
      /\ session # "Unborn" /\ call'[c].pc # "Join" /\ call'[c].op = 0 => unleased'[a]
  BY <1>1 DEF RemovePersists, IsRemoved, MembershipIInv, MembershipTypeOK
<1>4. \A b \in Agents : (Kills(b) => Kills(b)') /\ (Registered(b) => Registered(b)')
  BY <1>2, AttachesRemain
<1>5. \A b \in Agents : loops'[b] => loops[b]
  BY CallersOnlyTake DEF CallLocks
<1>6. \/ Published /\ call'[c].pc = "Join"
      \/ Published /\ call'[c].pc = "Forget" /\ StopLoop(a)
      \/ ~Published /\ call'[c].pc = "Delete" /\ call'[c].op = call[c].op /\ loops' = loops
  BY RemovePersistsCases
<1>7. ASSUME NEW d \in Callers, Holds(d)', call'[d].pc = "Persist", NEW b, b = call'[d].slot, agent'[b]
      PROVE  Kills(b)'
  <2>1. d # c
    BY <1>6, <1>7
  <2>2. Holds(d) /\ call[d].pc = "Persist" /\ call[d].slot = b /\ b \in Agents
    BY <1>1, <1>7, <2>1 DEF Holds, MembershipIInv, ForgottenIInv
  <2> QED BY <1>2, <1>4, <1>7, <2>2 DEF LeftoversAreTaken
<1>8. ASSUME NEW b \in Agents, IsRemoved(b)', ~unleased'[b], agent'[b]
      PROVE  Kills(b)' \/ \E d \in Callers : call'[d].slot = b /\ call'[d].pc \in {"Join", "Forget"}
  <2>1. CASE b # a
    <3>1. Kills(b) \/ \E d \in Callers : call[d].slot = b /\ call[d].pc \in {"Join", "Forget"}
      BY <1>2, <1>3, <1>8, <2>1, UnleasedStays DEF LeftoversAreTaken
    <3> QED BY <1>1, <1>4, <3>1
  <2>2. CASE b = a /\ Published
    BY <1>1, <1>6, <2>2
  <2>3. CASE b = a /\ ~Published
    <3>1. session # "Unborn"
      BY <1>2, <1>8 DEF SessionIsAhead
    <3>2. Holds(c)
      BY <1>1, <1>3, <1>6, <1>8, <2>3, <3>1 DEF Holds
    <3>3. Kills(a)
      BY <1>1, <1>2, <1>8, <2>3, <3>2 DEF LeftoversAreTaken
    <3> QED BY <1>4, <2>3, <3>3
  <2> QED BY <2>1, <2>2, <2>3
<1>9. ASSUME NEW b \in Agents, IsRemoved(b)', ~unleased'[b], loops'[b]
      PROVE  Registered(b)' \/ \E d \in Callers : call'[d].slot = b /\ call'[d].pc = "Join"
  <2>1. Published
    BY <1>5, <1>6, <1>9 DEF SessionIsAhead
  <2>2. CASE b # a
    <3>1. Registered(b) \/ \E d \in Callers : call[d].slot = b /\ call[d].pc = "Join"
      BY <1>3, <1>5, <1>9, <2>2, UnleasedStays DEF LeftoversAreTaken, Registered
    <3> QED BY <1>1, <1>4, <3>1
  <2>3. CASE b = a
    <3>1. ~StopLoop(a)
      BY <1>9, <2>3 DEF StopLoop, MembershipIInv, MembershipTypeOK
    <3> QED BY <1>1, <1>6, <2>1, <2>3, <3>1
  <2> QED BY <2>2, <2>3
<1> QED BY <1>7, <1>8, <1>9 DEF LeftoversAreTaken, Registered

\* What a step of an attach does to its own member.
LEMMA AttachTakes ==
  ASSUME MembershipIInv, SessionIsAhead, NEW op \in OpId, AttachProceeds(op),
         NEW a \in Agents, opAgent[op] = a
  PROVE  LET kills(pc) == pc \in {"Register", "Commit", "Clean", "Fail"}
             was == attach[op]
             is == attach'[op]
         IN  /\ agent'[a] => agent[a] \/ kills(is.pc)
             /\ loops'[a] => loops[a] \/ (is.pc = "Commit" /\ is.registered)
             /\ kills(was.pc) => kills(is.pc) \/ ~agent'[a] \/ Resumed(a)
             /\ was.pc = "Commit" /\ was.registered => ~loops'[a] \/ Resumed(a)
<1>1. /\ Finish(op) => attach'[op] = NoAttach
      /\ KillAgent(a) => ~agent'[a]
      /\ StopLoop(a) => ~loops'[a]
      /\ NoAttach.pc = "None"
  BY DEF Finish, KillAgent, StopLoop, NoAttach, NewAttach, MembershipIInv, MembershipTypeOK
<1>2. \A pc : Goto(op, pc) => attach'[op].pc = pc
  BY DEF Goto, MembershipIInv, MembershipTypeOK
<1>3. CASE AttachResets(op)
  BY <1>1, <1>2, <1>3 DEF AttachResets, At
<1>4. CASE AttachWarms(op)
  BY <1>2, <1>4 DEF AttachWarms, At
<1>5. CASE AttachErrs(op)
  BY <1>2, <1>5 DEF AttachErrs, memberVars, historyVars
<1>6. CASE AttachRegisters(op)
  <2>1. /\ attach[op].pc = "Register" /\ agent' = agent
        /\ \/ attach'[op].pc = "Fail" /\ loops' = loops
           \/ attach'[op] = [pc |-> "Commit", registered |-> ~loops[a]]
    BY <1>2, <1>6 DEF AttachRegisters, At, MembershipIInv, MembershipTypeOK, historyVars
  <2>2. CASE attach'[op].pc = "Fail" /\ loops' = loops
    BY <2>1, <2>2
  <2>3. CASE attach'[op] = [pc |-> "Commit", registered |-> ~loops[a]]
    <3>1. attach'[op].pc = "Commit" /\ attach'[op].registered = ~loops[a]
      BY <2>3
    <3>2. loops[a] \/ attach'[op].registered
      BY <3>1, Zenon
    <3> QED BY <2>1, <3>1, <3>2
  <2> QED BY <2>1, <2>2, <2>3
<1>7. CASE AttachCommits(op) /\ Owns(op)
  <2>1. /\ attach[op].pc = "Commit" /\ UNCHANGED <<agent, loops>>
    BY <1>7 DEF AttachCommits, At
  <2>2. entries[a] = InFlight("Attaching", op) /\ ~stopped
    BY <1>7 DEF Owns, Current, MembershipIInv, IInv, Bookkeeping
  <2>3. Resumed(a)
    BY <2>1, <2>2, EntryFields DEF SessionIsAhead, Resumed, Published, MembershipIInv, MembershipTypeOK
  <2> QED BY <2>1, <2>3
<1>8. CASE AttachCommits(op) /\ ~Owns(op)
  BY <1>1, <1>2, <1>8 DEF AttachCommits, Withdraw
<1>9. CASE AttachPublishes(op)
  BY <1>1, <1>2, <1>9 DEF AttachPublishes, Withdraw, At
<1>10. CASE AttachCleans(op) \/ AttachFails(op)
  BY <1>1, <1>10 DEF AttachCleans, AttachFails, At
<1> QED BY <1>3, <1>4, <1>5, <1>6, <1>7, <1>8, <1>9, <1>10 DEF AttachProceeds

LEMMA AttachesTake ==
  ASSUME MembershipIInv, LeasesAreHeld, SessionIsAhead, [MembershipNext]_allVars,
         NEW op \in OpId, AttachProceeds(op)
  PROVE  TakesQuietly
<1>1. /\ attach[op].pc # "None" /\ UNCHANGED <<row, call>>
      /\ \A p \in OpId : p # op => attach'[p] = attach[p]
  BY AttachSteps
<1>2. \A p \in OpId : attach[p].pc # "None" => opAgent'[p] = opAgent[p] /\ opAgent[p] \in Agents
  BY HeldHasBegun, BegunStays, RegistryStep DEF MembershipIInv
<1>3. ASSUME NEW a \in Agents, a # opAgent[op]
      PROVE  agent'[a] = agent[a] /\ loops'[a] = loops[a]
  BY <1>3 DEF AttachProceeds, AttachResets, AttachWarms, AttachErrs, AttachRegisters, AttachCommits,
              AttachPublishes, AttachCleans, AttachFails, Withdraw, KillAgent, StopLoop, memberVars,
              MembershipIInv, MembershipTypeOK, historyVars
<1>4. ASSUME NEW a \in Agents
      PROVE  /\ agent'[a] => agent[a] \/ Kills(a)'
             /\ loops'[a] => loops[a] \/ Registered(a)'
             /\ Kills(a) => Kills(a)' \/ ~agent'[a] \/ Resumed(a)
             /\ Registered(a) => Registered(a)' \/ ~loops'[a] \/ Resumed(a)
  <2>1. ASSUME NEW p \in OpId, p # op, opAgent[p] = a
        PROVE  /\ attach[p].pc \in {"Register", "Commit", "Clean", "Fail"} => Kills(a)'
               /\ attach[p].pc = "Commit" /\ attach[p].registered => Registered(a)'
    BY <1>1, <1>2, <2>1 DEF Kills, Registered
  <2>2. CASE a # opAgent[op]
    BY <1>3, <2>1, <2>2 DEF Kills, Registered
  <2>3. CASE a = opAgent[op]
    <3>1. /\ attach'[op].pc \in {"Register", "Commit", "Clean", "Fail"} => Kills(a)'
          /\ attach'[op].pc = "Commit" /\ attach'[op].registered => Registered(a)'
      BY <1>1, <1>2, <2>3 DEF Kills, Registered
    <3> QED BY <2>1, <2>3, <3>1, AttachTakes DEF Kills, Registered
  <2> QED BY <2>2, <2>3
<1> QED BY <1>1, <1>4 DEF TakesQuietly, IsRemoved

LEMMA OthersTake ==
  ASSUME MembershipIInv, LeasesAreHeld, [MembershipNext]_allVars,
         \/ \E a \in Agents : Retry(a) \/ AddToRow(a) \/ AgentEnds(a)
         \/ SessionStops
         \/ UNCHANGED allVars
  PROVE  TakesQuietly
<1>1. call' = call
  BY DEF Retry, AddToRow, AgentEnds, SessionStops, taskVars, allVars, historyVars
<1>2. \A a \in Agents : /\ agent'[a] => agent[a]
                        /\ loops'[a] => loops[a]
  BY DEF Retry, AddToRow, AgentEnds, KillAgent, SessionStops, memberVars, allVars, MembershipIInv, MembershipTypeOK, historyVars
<1>3. \A a \in Agents : IsRemoved(a)' => IsRemoved(a)
  BY DEF Retry, AddToRow, AgentEnds, SessionStops, memberVars, allVars, MembershipIInv, MembershipTypeOK, IsRemoved, historyVars
<1>4. \A op \in OpId : attach[op].pc # "None" => attach'[op] = attach[op]
  <2>1. SpawnIfStarted => \A op \in OpId : attach[op].pc # "None" => attach'[op] = attach[op]
    <3>1. nextOp \in OpId => attach[nextOp].pc = "None"
      BY HeldHasBegun, MaxOpsAssumption DEF OpId
    <3> QED BY <3>1 DEF SpawnIfStarted, SpawnAttach, MembershipIInv, MembershipTypeOK
  <2> QED BY <2>1 DEF Retry, AddToRow, AgentEnds, SessionStops, taskVars, allVars, historyVars
<1>5. \A a \in Agents : (Kills(a) => Kills(a)') /\ (Registered(a) => Registered(a)')
  BY <1>4, AttachesRemain
<1> QED BY <1>1, <1>2, <1>3, <1>5 DEF TakesQuietly

LEMMA NextTakes ==
  ASSUME MembershipIInv, LeasesAreHeld, SessionIsAhead, RemovalsGoOn, LeftoversAreTaken,
         [MembershipNext]_allVars
  PROVE  LeftoversAreTaken'
<1>1. ASSUME NEW c \in Callers, CallBegins(c) \/ CallProceeds(c) \/ CallLocks(c)
      PROVE  LeftoversAreTaken'
  <2>1. CASE RemovePersists(c)
    BY <2>1, PersistTakes
  <2>2. CASE ~RemovePersists(c)
    BY <1>1, <2>2, CallersTake, TakesStep
  <2> QED BY <2>1, <2>2
<1>2. ASSUME NEW op \in OpId, AttachProceeds(op)
      PROVE  LeftoversAreTaken'
  BY <1>2, AttachesTake, TakesStep
<1>3. CASE \/ \E a \in Agents : Retry(a) \/ AddToRow(a) \/ AgentEnds(a)
           \/ SessionStops
           \/ UNCHANGED allVars
  BY <1>3, OthersTake, TakesStep
<1> QED BY <1>1, <1>2, <1>3 DEF MembershipNext

----------------------------------------------------------------------------
LEMMA InitMembersIInv == MembershipInit => MembersIInv
<1> SUFFICES ASSUME MembershipInit
             PROVE  MembersIInv
  OBVIOUS
<1>1. /\ leases = {} /\ stopped = FALSE /\ session = "Unborn"
      /\ entries = [a \in Agents |-> Absent]
      /\ \A a \in Agents : ~loops[a] /\ ~agent[a] /\ ~IsRemoved(a)
  BY DEF MembershipInit, Init, IsRemoved, historyVars
<1>2. /\ \A c \in Callers : call[c].pc = "Idle"
      /\ \A op \in OpId : attach[op].pc = "None"
  BY DEF MembershipInit, Idle, NewCall, NoAttach, NewAttach, historyVars
<1>3. LeasesAreHeld
  BY <1>1, <1>2 DEF LeasesAreHeld, LeasesAreCurrent, LeasesAreUnique, Holds
<1>4. SessionIsAhead
  BY <1>1, <1>2 DEF SessionIsAhead
<1>5. EndingIsAlone /\ ReadyHasLoop
  BY <1>1, <1>2 DEF EndingIsAlone, Ending, ReadyHasLoop, Published
<1>6. RemovalsGoOn /\ LeftoversAreTaken
  BY <1>1, <1>2 DEF RemovalsGoOn, LeftoversAreTaken, Holds, Published
<1> QED BY <1>3, <1>4, <1>5, <1>6 DEF MembersIInv

LEMMA NextMembersIInv ==
  ASSUME MembershipIInv, MembersIInv, [MembershipNext]_allVars
  PROVE  MembersIInv'
<1>1. LeasesAreHeld /\ SessionIsAhead /\ EndingIsAlone /\ ReadyHasLoop /\ RemovalsGoOn /\ LeftoversAreTaken
  BY DEF MembersIInv
<1>2. MembershipIInv' /\ LeasesAreHeld' /\ SessionIsAhead'
  BY <1>1, NextMembershipIInv, NextKeepsHeld, NextKeepsAhead
<1>3. EndingIsAlone' /\ ReadyHasLoop'
  BY <1>1, <1>2, NextKeepsEndings
<1>4. RemovalsGoOn' /\ LeftoversAreTaken'
  BY <1>1, NextGoesOn, NextTakes
<1> QED BY <1>2, <1>3, <1>4 DEF MembersIInv

\* What the tasks hold, still do and leave behind fits together (MembersIInv): every
\* lease has one holder, one attach of a member ends at a time, a removal is never
\* forgotten, and what a removed member still has somebody takes away.
THEOREM MembersInvariant == MembershipSpec => []MembersIInv
  BY InitMembersIInv, NextMembersIInv, MembershipInvariant, PTL DEF MembershipSpec

\* A member that the registry calls ready has an event loop (ReadyHasLoop), unless it
\* was removed without a lease or before spawn_agent reserved its attach.
THEOREM ReadyMembersHaveLoop == MembershipSpec => []ReadyHasLoop
  BY MembersInvariant, PTL DEF MembersIInv

\* A member whose removal and overtaken attaches are over has neither an agent nor an
\* event loop (RemovedIsGone), with the same exceptions.
THEOREM RemovedMembersAreGone == MembershipSpec => []RemovedIsGone
<1>1. ASSUME LeftoversAreTaken
      PROVE  RemovedIsGone
  <2> SUFFICES ASSUME NEW a \in Agents, IsRemoved(a), ~unleased[a], ~Removing(a), ~Attaching(a)
               PROVE  ~agent[a] /\ ~loops[a]
    BY DEF RemovedIsGone
  <2>1. \A c \in Callers : ~(call[c].slot = a /\ call[c].pc \in {"Join", "Forget"})
    BY DEF Removing
  <2>2. \A op \in OpId : opAgent[op] = a => attach[op].pc = "None"
    BY DEF Attaching, NoAttach, NewAttach
  <2> QED BY <1>1, <2>1, <2>2 DEF LeftoversAreTaken, Kills
<1> QED BY <1>1, MembersInvariant, PTL DEF MembersIInv
=============================================================================
