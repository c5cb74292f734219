--------------------------- MODULE TeamMembership ---------------------------
(***************************************************************************)
(* The members of a team while a session of it runs: who is in the team's   *)
(* row, whom the scheduler knows, whose event loop and agent process run,   *)
(* and the tasks that wake, attach, repair, add and remove members          *)
(* (crates/aionui-team/src/service.rs, session.rs).  The runtime registry   *)
(* is MemberRuntime; every task here goes through its methods.              *)
(*                                                                         *)
(* Tasks run concurrently.  An action is what a task does from one await on *)
(* the database, a process or the membership lock to the next; only the end *)
(* of an attach, which the code guards against being overtaken, is taken    *)
(* apart into its registry calls.  The module follows the teammates of one  *)
(* session from the ensure that publishes it to its stop.  The lead, which  *)
(* is never removed, and the session that may follow are left out.          *)
(***************************************************************************)
EXTENDS MemberRuntime

CONSTANTS
    Callers,   \* requests in flight at one time
    NoCaller   \* nobody holds the membership lock

ASSUME CallersAssumption == NoCaller \notin Callers

VARIABLES
    row,      \* row[a]: a is not yet in teams.agents, is in it, was taken out,
              \* or its conversation is deleted too
    known,    \* known[a]: the session's scheduler has a
    loops,    \* loops[a]: an event loop is registered for a
    agent,    \* agent[a]: the task manager has an agent for a's conversation
    session,  \* where the session is between its publication and its stop
    guard,    \* the caller that holds the membership lock (add_agent_locks)
    call,     \* what each caller is doing
    attach,   \* what the attach task of each operation is doing
    unleased, \* history: a was taken out of a published session without a lease
    late,     \* history: spawn_agent went on with a when it had been taken out
    abandoned \* history: the operations whose lease an error return dropped

memberVars == <<row, known, loops, agent>>
taskVars == <<guard, call, attach>>
historyVars == <<unleased, late, abandoned>>
allVars == <<vars, memberVars, session, taskVars, historyVars>>

\* A request about slot a; op is the operation whose lease it holds (0: none),
\* captured whether a removal found a published session, roster the members an
\* ensure has still to look at.
NewCall(pc, a, op, captured, roster) ==
    [pc |-> pc, slot |-> a, op |-> op, captured |-> captured, roster |-> roster]
Idle == NewCall("Idle", NoAgent, 0, FALSE, {})

\* An attach task; registered: it was this task that registered the event loop.
NewAttach(pc) == [pc |-> pc, registered |-> FALSE]
NoAttach == NewAttach("None")

MembershipInit ==
    /\ Init
    /\ row \in [Agents -> {"New", "Member"}]
    /\ known = [a \in Agents |-> FALSE]
    /\ loops = [a \in Agents |-> FALSE]
    /\ agent = [a \in Agents |-> FALSE]
    /\ session = "Unborn"
    /\ guard = NoCaller
    /\ call = [c \in Callers |-> Idle]
    /\ attach = [op \in OpId |-> NoAttach]
    /\ unleased = [a \in Agents |-> FALSE]
    /\ late = [a \in Agents |-> FALSE]
    /\ abandoned = {}

Published == session = "Published"
LockFree == guard = NoCaller

Continue(c, pc) == call' = [call EXCEPT ![c].pc = pc]
Return(c) == call' = [call EXCEPT ![c] = Idle]

\* The registry's answer to reserve_attach: an operation is started or joined,
\* or there is nothing to do.
Reserves(a, retryFailed) ==
    \/ ReserveAttach(a, retryFailed)
    \/ /\ stopped \/ entries[a] = Ready \/ nextOp \notin OpId
       /\ UNCHANGED vars

Started == nextOp' # nextOp

\* What is done with the lease of operation op by a caller that may have none.
DropLeaseOf(op) ==
    IF op = 0 THEN UNCHANGED vars ELSE \E l \in leases : l.op = op /\ DropLease(l)
\* An error return drops it before the operation has been settled.
Abandon(op) ==
    /\ DropLeaseOf(op)
    /\ abandoned' = abandoned \cup ({op} \ {0})

FinishRemoveOf(op) ==
    IF op = 0 THEN UNCHANGED vars ELSE \E l \in leases : l.op = op /\ FinishRemove(l)
RestoreAttachRequiredOf(op) ==
    IF op = 0 THEN UNCHANGED vars ELSE \E l \in leases : l.op = op /\ RestoreAttachRequired(l)

\* spawn_attach_agent_process_bg, for an operation that was started.  A caller
\* that joined one only waits for it.
SpawnAttach(op) == attach' = [attach EXCEPT ![op] = NewAttach("Config")]
SpawnIfStarted == IF Started THEN SpawnAttach(nextOp) ELSE UNCHANGED attach

----------------------------------------------------------------------------
(* ensure_session_inner                                                     *)

Roster == {a \in Agents : row[a] = "Member"}

\* Mutant: the membership lock is given back once the roster is read.
EnsureLoadsUnlocked(c) ==
    /\ call[c] = Idle
    /\ LockFree
    /\ session # "Stopped"
    /\ call' = [call EXCEPT ![c] = NewCall("Ensure", NoAgent, 0, FALSE, Roster)]
    /\ UNCHANGED <<vars, memberVars, session, guard, attach, historyVars>>

\* The roster is read under the membership lock, which is kept.
EnsureLoads(c) ==
    /\ call[c] = Idle
    /\ LockFree
    /\ session # "Stopped"
    /\ guard' = c
    /\ call' = [call EXCEPT ![c] = NewCall("Ensure", NoAgent, 0, FALSE, Roster)]
    /\ UNCHANGED <<vars, memberVars, session, attach, historyVars>>

\* The caller leaves the membership lock, if it has it, and is done.
Leave(c) ==
    /\ guard' = IF guard = c THEN NoCaller ELSE guard
    /\ Return(c)

\* The first ensure starts a session from the roster; teammates stay dormant.
EnsureStarts(c) ==
    /\ call[c].pc = "Ensure"
    /\ session = "Unborn"
    /\ session' = "Published"
    /\ known' = [a \in Agents |-> a \in call[c].roster]
    /\ Leave(c)
    /\ UNCHANGED <<vars, row, loops, agent, attach, historyVars>>

\* reserve_member_runtime_reconciliation for one member of the roster: an absent
\* one stays dormant, a ready one without an agent is repaired.
EnsureReconciles(c, a) ==
    /\ call[c].pc = "Ensure"
    /\ Published
    /\ a \in call[c].roster
    /\ known' = [known EXCEPT ![a] = TRUE]
    /\ \/ /\ entries[a] = Absent \/ (entries[a] = Ready /\ (agent[a] \/ nextOp \notin OpId))
          /\ UNCHANGED vars
       \/ entries[a] = Ready /\ ~agent[a] /\ ReserveRepair(a)
       \/ entries[a] \notin {Absent, Ready} /\ Reserves(a, TRUE)
    /\ SpawnIfStarted
    /\ IF call[c].roster = {a}
       THEN Leave(c)
       ELSE call' = [call EXCEPT ![c].roster = @ \ {a}] /\ UNCHANGED guard
    /\ UNCHANGED <<row, loops, agent, session, historyVars>>

\* Nobody to reconcile, or the session has stopped meanwhile.
EnsureEnds(c) ==
    /\ call[c].pc = "Ensure"
    /\ \/ Published /\ call[c].roster = {}
       \/ session = "Stopped"
    /\ Leave(c)
    /\ UNCHANGED <<vars, memberVars, session, attach, historyVars>>

----------------------------------------------------------------------------
(* Waking one member.                                                       *)

\* A message to a member without an event loop: ensure_member_runtime_lazy.
Send(c, a) ==
    /\ call[c] = Idle
    /\ Published
    /\ known[a]
    /\ ~loops[a]
    /\ Reserves(a, FALSE)
    /\ IF Started
       THEN call' = [call EXCEPT ![c] = NewCall("Send", a, nextOp, FALSE, {})]
       ELSE UNCHANGED call
    /\ UNCHANGED <<memberVars, session, guard, attach, historyVars>>

\* ... which looks the member up again; an error drops the lease.
SendFinds(c) ==
    /\ call[c].pc = "Send"
    /\ IF known[call[c].slot]
       THEN SpawnAttach(call[c].op) /\ UNCHANGED <<vars, abandoned>>
       ELSE Abandon(call[c].op) /\ UNCHANGED attach
    /\ Return(c)
    /\ UNCHANGED <<memberVars, session, guard, unleased, late>>

\* attach_agent_runtime, the directed retry.
Retry(a) ==
    /\ Published
    /\ known[a]
    /\ Reserves(a, TRUE)
    /\ SpawnIfStarted
    /\ UNCHANGED <<memberVars, session, guard, call, historyVars>>

----------------------------------------------------------------------------
(* Adding a member: add_agent keeps the membership lock to its end,          *)
(* spawn_agent only while the row is written.                               *)

\* reserve_dynamic_member_attach and the scheduler's add_agent.
Enters(c, a) ==
    /\ Reserves(a, FALSE)
    /\ known' = [known EXCEPT ![a] = TRUE]
    /\ call' = [call EXCEPT ![c] = NewCall("Add", a, IF Started THEN nextOp ELSE 0, FALSE, {})]

AddMember(c, a) ==
    /\ call[c] = Idle
    /\ LockFree
    /\ Published
    /\ row[a] = "New"
    /\ row' = [row EXCEPT ![a] = "Member"]
    /\ guard' = c
    /\ Enters(c, a)
    /\ UNCHANGED <<loops, agent, session, attach, historyVars>>

\* persist_spawned_agent
SpawnPersists(c, a) ==
    /\ call[c] = Idle
    /\ LockFree
    /\ Published
    /\ row[a] = "New"
    /\ row' = [row EXCEPT ![a] = "Member"]
    /\ call' = [call EXCEPT ![c] = NewCall("Spawn", a, 0, FALSE, {})]
    /\ UNCHANGED <<vars, known, loops, agent, session, guard, attach, historyVars>>

\* spawn_agent does not look at the row again, nor whether the session has stopped,
\* when it reserves the attach ...
SpawnReserves(c) ==
    /\ call[c].pc = "Spawn"
    /\ LET a == call[c].slot IN
       /\ Reserves(a, FALSE)
       /\ call' = [call EXCEPT ![c] = NewCall("Enter", a, IF Started THEN nextOp ELSE 0, FALSE, {})]
       /\ unleased' = [unleased EXCEPT ![a] = @ \/ row[a] # "Member"]
    /\ UNCHANGED <<memberVars, session, guard, attach, late, abandoned>>

\* ... and makes the member known.
SpawnEnters(c) ==
    /\ call[c].pc = "Enter"
    /\ LET a == call[c].slot IN
       /\ known' = [known EXCEPT ![a] = TRUE]
       /\ late' = [late EXCEPT ![a] = @ \/ row[a] # "Member"]
       /\ unleased' = [unleased EXCEPT ![a] = @ \/ row[a] # "Member"]
    /\ Continue(c, "Add")
    /\ UNCHANGED <<vars, row, loops, agent, session, guard, attach, abandoned>>

\* add_agent without a session.
AddToRow(a) ==
    /\ LockFree
    /\ ~Published
    /\ row[a] = "New"
    /\ row' = [row EXCEPT ![a] = "Member"]
    /\ UNCHANGED <<vars, known, loops, agent, session, taskVars, historyVars>>

\* The welcome messages are written and the attach begins ...
AddSpawns(c) ==
    /\ call[c].pc = "Add"
    /\ IF call[c].op = 0 THEN UNCHANGED attach ELSE SpawnAttach(call[c].op)
    /\ Leave(c)
    /\ UNCHANGED <<vars, memberVars, session, historyVars>>

\* ... or an error drops the lease; spawn_agent removes the member again if its
\* welcome message could not be written.
AddFails(c) ==
    /\ call[c].pc = "Add"
    /\ Abandon(call[c].op)
    /\ \/ Leave(c)
       \/ guard # c /\ Continue(c, "Undo") /\ UNCHANGED guard
    /\ UNCHANGED <<memberVars, session, attach, unleased, late>>

----------------------------------------------------------------------------
(* remove_agent                                                             *)

StopLoop(a) == loops' = [loops EXCEPT ![a] = FALSE]
KillAgent(a) == agent' = [agent EXCEPT ![a] = FALSE]

\* Under the membership lock begin_remove, of a published session; then, without
\* the lock, the event loop goes.  Whoever joins another removal waits for it.
RemoveBegins(c, a) ==
    /\ call[c] = Idle \/ (call[c].pc = "Undo" /\ call[c].slot = a)
    /\ LockFree
    /\ row[a] = "Member"
    /\ \/ /\ Published /\ entries[a] # Absent
          /\ BeginRemove(a)
          /\ IF Started
             THEN /\ call' = [call EXCEPT ![c] = NewCall("Kill", a, nextOp, TRUE, {})]
                  /\ StopLoop(a)
             ELSE Return(c) /\ UNCHANGED loops
       \/ /\ Published => entries[a] = Absent
          /\ call' = [call EXCEPT ![c] = NewCall("Kill", a, 0, Published, {})]
          /\ IF Published THEN StopLoop(a) ELSE UNCHANGED loops
          /\ UNCHANGED vars
    /\ UNCHANGED <<row, known, agent, session, guard, attach, historyVars>>

\* spawn_agent has nothing to undo if somebody has removed the member.
UndoEnds(c) ==
    /\ call[c].pc = "Undo"
    /\ row[call[c].slot] # "Member"
    /\ Return(c)
    /\ UNCHANGED <<vars, memberVars, session, guard, attach, historyVars>>

\* kill_and_wait
RemoveKills(c) ==
    /\ call[c].pc = "Kill"
    /\ KillAgent(call[c].slot)
    /\ Continue(c, "Persist")
    /\ UNCHANGED <<vars, row, known, loops, session, guard, attach, historyVars>>

\* The published session's part of the removal: the captured session has the
\* lease already, one that was published meanwhile begins its own removal.
RemoveRejoins(c, a) ==
    \/ /\ ~Published
       /\ Continue(c, "Delete")
       /\ UNCHANGED <<vars, loops>>
    \/ /\ Published
       /\ call[c].captured \/ entries[a] = Absent
       /\ Continue(c, "Forget")
       /\ StopLoop(a)
       /\ UNCHANGED vars
    \/ /\ Published /\ ~call[c].captured /\ entries[a] # Absent
       /\ BeginRemove(a)
       /\ IF Started
          THEN call' = [call EXCEPT ![c].pc = "Forget", ![c].op = nextOp] /\ StopLoop(a)
          ELSE call' = [call EXCEPT ![c].pc = "Join", ![c].op = entries[a].op] /\ UNCHANGED loops

\* Under the lock again the member leaves the row ...
RemovePersists(c) ==
    /\ call[c].pc = "Persist"
    /\ LockFree
    /\ row' = [row EXCEPT ![call[c].slot] = IF @ = "Member" THEN "Removed" ELSE @]
    /\ RemoveRejoins(c, call[c].slot)
    /\ unleased' = [unleased EXCEPT ![call[c].slot] =
                        @ \/ (session # "Unborn" /\ call'[c].pc # "Join" /\ call'[c].op = 0)]
    /\ UNCHANGED <<known, agent, session, guard, attach, late, abandoned>>

\* ... or the update fails and the runtime needs a restart ...
RemovePersistFails(c) ==
    /\ call[c].pc = "Persist"
    /\ LockFree
    /\ RestoreAttachRequiredOf(call[c].op)
    /\ Return(c)
    /\ UNCHANGED <<memberVars, session, guard, attach, historyVars>>

\* ... or the row cannot be read, which drops the lease.
RemoveLoadFails(c) ==
    /\ call[c].pc = "Persist"
    /\ LockFree
    /\ Abandon(call[c].op)
    /\ Return(c)
    /\ UNCHANGED <<memberVars, session, guard, attach, unleased, late>>

RemoveJoins(c) ==
    /\ call[c].pc = "Join"
    /\ signal[call[c].op] # "Pending"
    /\ call' = [call EXCEPT ![c].pc = "Forget", ![c].op = 0]
    /\ StopLoop(call[c].slot)
    /\ unleased' = [unleased EXCEPT ![call[c].slot] = @ \/ signal[call[c].op] = "Failed"]
    /\ UNCHANGED <<vars, row, known, agent, session, guard, attach, late, abandoned>>

\* The agent is killed once more, the scheduler forgets the member, finish_remove.
RemoveForgets(c) ==
    /\ call[c].pc = "Forget"
    /\ KillAgent(call[c].slot)
    /\ known' = [known EXCEPT ![call[c].slot] = FALSE]
    /\ FinishRemoveOf(call[c].op)
    /\ Continue(c, "Delete")
    /\ UNCHANGED <<row, loops, session, guard, attach, historyVars>>

\* delete_team_conversation, whose failure is only logged.
RemoveDeletes(c) ==
    /\ call[c].pc = "Delete"
    /\ LET a == call[c].slot IN
       \/ row' = [row EXCEPT ![a] = "Deleted"] /\ KillAgent(a)
       \/ UNCHANGED <<row, agent>>
    /\ Return(c)
    /\ UNCHANGED <<vars, known, loops, session, guard, attach, historyVars>>

----------------------------------------------------------------------------
(* attach_member_runtime with the lease of operation op.                    *)

At(op, pc) == attach[op].pc = pc
Goto(op, pc) == attach' = [attach EXCEPT ![op].pc = pc]
Finish(op) == attach' = [attach EXCEPT ![op] = NoAttach]
HasLease(op) == \E l \in leases : l.op = op
Owns(op) == \E l \in leases : l.op = op /\ Current(l, "Attaching")
HasConversation(a) == row[a] \in {"Member", "Removed"}

\* attach_agent_process writes the conversation's configuration and kills the
\* previous agent ...
AttachResets(op) ==
    /\ At(op, "Config")
    /\ HasConversation(opAgent[op])
    /\ KillAgent(opAgent[op])
    /\ Goto(op, "Warm")
    /\ UNCHANGED <<vars, row, known, loops, session, guard, call, historyVars>>

\* Assumption: building an agent takes longer than the end of an attach, which
\* awaits nothing, so that no attach is overtaken by a whole other one there.
NoneEnding(a) == \A op \in OpId : opAgent[op] = a => attach[op].pc \notin {"Register", "Commit"}

\* ... then the new one is built; owns_attach.
AttachWarms(op) ==
    /\ At(op, "Warm")
    /\ HasConversation(opAgent[op])
    /\ NoneEnding(opAgent[op])
    /\ agent' = [agent EXCEPT ![opAgent[op]] = TRUE]
    /\ Goto(op, IF Owns(op) THEN "Register" ELSE "Clean")
    /\ UNCHANGED <<vars, row, known, loops, session, guard, call, historyVars>>

AttachErrs(op) ==
    /\ attach[op].pc \in {"Config", "Warm"}
    /\ Goto(op, "Fail")
    /\ UNCHANGED <<vars, memberVars, session, guard, call, historyVars>>

\* register_event_loop, unless there is one; a registry shut down refuses.
AttachRegisters(op) ==
    /\ At(op, "Register")
    /\ LET a == opAgent[op] IN
       IF stopped
       THEN Goto(op, "Fail") /\ UNCHANGED loops
       ELSE /\ attach' = [attach EXCEPT ![op] = [pc |-> "Commit", registered |-> ~loops[a]]]
            /\ loops' = [loops EXCEPT ![a] = TRUE]
    /\ UNCHANGED <<vars, row, known, agent, session, guard, call, historyVars>>

\* Mutant: the loop of an attach that was overtaken stays.
WithdrawKeepingLoop(op) == Goto(op, "Clean") /\ UNCHANGED loops

\* An attach that was overtaken takes back the event loop it registered.
Withdraw(op) ==
    /\ Goto(op, "Clean")
    /\ IF attach[op].registered THEN StopLoop(opAgent[op]) ELSE UNCHANGED loops

\* commit_ready
AttachCommits(op) ==
    /\ At(op, "Commit")
    /\ \E l \in leases : l.op = op /\ CommitReady(l)
    /\ IF Owns(op) THEN Goto(op, "Publish") /\ UNCHANGED loops ELSE Withdraw(op)
    /\ UNCHANGED <<row, known, agent, session, guard, call, historyVars>>

\* publish_member_runtime_ready_if_current
AttachPublishes(op) ==
    /\ At(op, "Publish")
    /\ IF Published THEN Finish(op) /\ UNCHANGED loops ELSE Withdraw(op)
    /\ UNCHANGED <<vars, row, known, agent, session, guard, call, historyVars>>

\* cleanup_stale_member_runtime_task kills whatever agent the conversation has.
\* A task that was overtaken ends with that ...
AttachCleans(op) ==
    /\ At(op, "Clean")
    /\ KillAgent(opAgent[op])
    /\ IF HasLease(op) THEN DropLeaseOf(op) ELSE UNCHANGED vars
    /\ Finish(op)
    /\ UNCHANGED <<row, known, loops, session, guard, call, historyVars>>

\* Mutant: an attach that failed ends like one that was overtaken.
AttachFailsSilently(op) ==
    /\ At(op, "Fail")
    /\ KillAgent(opAgent[op])
    /\ DropLeaseOf(op)
    /\ Finish(op)
    /\ UNCHANGED <<row, known, loops, session, guard, call, historyVars>>

\* ... and one that failed with commit_failed.
AttachFails(op) ==
    /\ At(op, "Fail")
    /\ KillAgent(opAgent[op])
    /\ \E l \in leases : l.op = op /\ CommitFailed(l)
    /\ Finish(op)
    /\ UNCHANGED <<row, known, loops, session, guard, call, historyVars>>

----------------------------------------------------------------------------
\* stop_session_unchecked and TeamSession::stop; the agents stay.
SessionStops ==
    /\ Published
    /\ session' = "Stopped"
    /\ Stop
    /\ loops' = [a \in Agents |-> FALSE]
    /\ UNCHANGED <<row, known, agent, taskVars, historyVars>>

Attaching(a) == \E op \in OpId : opAgent[op] = a /\ attach[op] # NoAttach

\* The idle scanner takes an agent that is not just being built.
AgentEnds(a) ==
    /\ agent[a]
    /\ ~Attaching(a)
    /\ KillAgent(a)
    /\ UNCHANGED <<vars, row, known, loops, session, taskVars, historyVars>>

----------------------------------------------------------------------------
\* What a caller does once its request has begun, without the lock to take.
CallProceeds(c) ==
    \/ EnsureStarts(c) \/ EnsureEnds(c)
    \/ \E a \in Agents : EnsureReconciles(c, a)
    \/ SendFinds(c)
    \/ SpawnReserves(c) \/ SpawnEnters(c) \/ AddSpawns(c) \/ AddFails(c) \/ UndoEnds(c)
    \/ RemoveKills(c) \/ RemoveJoins(c) \/ RemoveForgets(c) \/ RemoveDeletes(c)

\* The removal's second critical section.
CallLocks(c) == RemovePersists(c) \/ RemovePersistFails(c) \/ RemoveLoadFails(c)

CallBegins(c) ==
    \/ EnsureLoads(c)
    \/ \E a \in Agents :
          \/ Send(c, a)
          \/ AddMember(c, a)
          \/ SpawnPersists(c, a)
          \/ RemoveBegins(c, a)

AttachProceeds(op) ==
    \/ AttachResets(op) \/ AttachWarms(op) \/ AttachErrs(op)
    \/ AttachRegisters(op) \/ AttachCommits(op) \/ AttachPublishes(op)
    \/ AttachCleans(op) \/ AttachFails(op)

MembershipNext ==
    \/ \E c \in Callers : CallBegins(c) \/ CallProceeds(c) \/ CallLocks(c)
    \/ \E op \in OpId : AttachProceeds(op)
    \/ \E a \in Agents : Retry(a) \/ AddToRow(a) \/ AgentEnds(a)
    \/ SessionStops

MembershipSpec == MembershipInit /\ [][MembershipNext]_allVars

\* Tasks that can run are polled; the membership lock is Tokio's fair mutex.
MembershipFairness ==
    /\ \A c \in Callers : WF_allVars(CallProceeds(c)) /\ SF_allVars(CallLocks(c))
    /\ \A op \in OpId : WF_allVars(AttachProceeds(op))

FairMembershipSpec == MembershipSpec /\ MembershipFairness

----------------------------------------------------------------------------
CallPCs ==
    {"Idle", "Ensure", "Send", "Spawn", "Enter", "Add", "Undo", "Kill", "Persist", "Join", "Forget", "Delete"}
AttachPCs == {"None", "Config", "Warm", "Register", "Commit", "Publish", "Clean", "Fail"}

MembershipTypeOK ==
    /\ TypeOK
    /\ row \in [Agents -> {"New", "Member", "Removed", "Deleted"}]
    /\ known \in [Agents -> BOOLEAN]
    /\ loops \in [Agents -> BOOLEAN]
    /\ agent \in [Agents -> BOOLEAN]
    /\ session \in {"Unborn", "Published", "Stopped"}
    /\ guard \in Callers \cup {NoCaller}
    /\ call \in [Callers -> [pc : CallPCs, slot : Agents \cup {NoAgent}, op : {0} \cup OpId,
                             captured : BOOLEAN, roster : SUBSET Agents]]
    /\ attach \in [OpId -> [pc : AttachPCs, registered : BOOLEAN]]
    /\ unleased \in [Agents -> BOOLEAN]
    /\ late \in [Agents -> BOOLEAN]
    /\ abandoned \subseteq OpId

IsRemoved(a) == row[a] \in {"Removed", "Deleted"}
Removing(a) == \E c \in Callers :
    call[c].slot = a /\ call[c].pc \in {"Kill", "Persist", "Join", "Forget", "Delete"}

\* Once a removal is over, nobody can address the member any more: its scheduler
\* has forgotten it.  An ensure whose roster still has the member would bring it
\* back; that it cannot is due to the membership lock, which an ensure holds from
\* its read of the roster to its last reservation (service.rs:1009-1050).  Excepted is
\* a member taken out before spawn_agent, which has given up the lock by then, made it
\* known (session.rs:1558-1575).
RemovedIsUnknown ==
    \A a \in Agents : Published /\ IsRemoved(a) /\ ~late[a] /\ ~Removing(a) => ~known[a]

\* What RemovedIsUnknown rests on.  Nobody is known before the session is published;
\* an ensure holds the membership lock and a roster that is up to date; a known
\* member that was taken out is about to be forgotten by its removal, which comes
\* after the row was written.
ForgottenIInv ==
    /\ \A c \in Callers : call[c].pc \notin {"Idle", "Ensure"} => call[c].slot \in Agents
    /\ session = "Unborn" => /\ \A a \in Agents : ~known[a]
                            /\ \A c \in Callers : call[c].pc \notin {"Spawn", "Enter"}
    /\ \A c \in Callers : call[c].pc = "Ensure" => guard = c /\ call[c].roster \subseteq Roster
    /\ \A c \in Callers :
          /\ call[c].pc \in {"Kill", "Persist"} => row[call[c].slot] # "New"
          /\ call[c].pc \in {"Join", "Forget", "Delete"} => IsRemoved(call[c].slot)
    /\ \A a \in Agents : Published /\ known[a] /\ IsRemoved(a) /\ ~late[a] =>
            \E c \in Callers : call[c].slot = a /\ call[c].pc \in {"Join", "Forget"}

\* Once a removal and the attaches it overtook are over, the member has neither an
\* agent nor an event loop, whatever failed on the way (service.rs:816-887,
\* session.rs:1856-1917).  Removals without a lease are excepted: a member that was
\* dormant, or whose other removal failed, may be woken in the middle of one; so is one
\* that was taken out before spawn_agent reserved its attach or made it known.
RemovedIsGone ==
    \A a \in Agents :
        IsRemoved(a) /\ ~unleased[a] /\ ~Removing(a) /\ ~Attaching(a) => ~agent[a] /\ ~loops[a]

\* A member that the registry calls ready has an event loop, so that a message to it
\* is looked at: commits that were overtaken, withdrawals of loops and failed
\* removals never leave a ready member without one.
ReadyHasLoop ==
    \A a \in Agents : Published /\ entries[a] = Ready /\ ~unleased[a] => loops[a]

\* What these two rest on.  The caller c answers for the lease of its operation.
Holds(c) == call[c].pc \in {"Send", "Enter", "Add", "Kill", "Persist", "Forget"} /\ call[c].op # 0

\* Operation op has begun and, if its lease is still there, is an attach.
IsAttach(op) == op \in 1..(nextOp - 1) /\ \A l \in leases : l.op = op => l.kind = "attach"

\* The lease of a removal is current until the session stops, and no two leases are
\* of one operation.
LeasesAreCurrent ==
    \A l \in leases : l.kind = "remove" => stopped \/ entries[l.agent] = InFlight("Removing", l.op)
LeasesAreUnique == \A l, m \in leases : l.op = m.op => l = m

\* A lease belongs to one task: a caller, or an attach that was spawned when its
\* caller was done with it.
Holding(c) ==
    IF call[c].pc \in {"Send", "Enter", "Add"}
    THEN IsAttach(call[c].op) /\ attach[call[c].op].pc = "None"
    ELSE [kind |-> "remove", agent |-> call[c].slot, op |-> call[c].op] \in leases
LeasesAreHeld ==
    /\ LeasesAreCurrent
    /\ LeasesAreUnique
    /\ \A c \in Callers : Holds(c) => Holding(c)
    /\ \A c, d \in Callers : Holds(c) /\ Holds(d) /\ call[c].op = call[d].op => c = d
    /\ \A op \in OpId : attach[op].pc # "None" => IsAttach(op)

\* Nothing runs before the session does, and no event loop after it.
SessionIsAhead ==
    /\ session = "Stopped" <=> stopped
    /\ ~Published => \A a \in Agents : ~loops[a]
    /\ session = "Unborn" =>
          /\ leases = {}
          /\ \A op \in OpId : attach[op].pc = "None"
          /\ \A c \in Callers : call[c].pc \notin {"Send", "Spawn", "Enter", "Add"}
          /\ \A a \in Agents : entries[a] = Absent /\ ~agent[a]

\* One attach of a member ends at a time; until it is over the member is not ready,
\* and while it may still commit the loop it found or registered stays.
Ending(op) == attach[op].pc \in {"Register", "Commit"}
EndingIsAlone ==
    /\ \A op, other \in OpId : Ending(op) /\ Ending(other) /\ opAgent[op] = opAgent[other] => op = other
    /\ \A op \in OpId : Ending(op) => entries[opAgent[op]] # Ready
    /\ \A op \in OpId :
          attach[op].pc = "Commit" /\ Owns(op) /\ Published /\ ~unleased[opAgent[op]] => loops[opAgent[op]]

\* The registry has no entry of a and nobody can ask for one.
Dismissed(a) == entries[a] = Absent /\ ~known[a]

\* A member that was taken out is dismissed, or a removal that holds the lease or
\* waits for the one that does is still to come to that.
RemovalsGoOn ==
    /\ \A c \in Callers : call[c].pc = "Join" =>
          LET a == call[c].slot
              op == call[c].op
          IN  /\ op \in OpId
              /\ Published /\ ~unleased[a] =>
                    entries[a] = InFlight("Removing", op) \/ signal[op] = "Failed" \/ Dismissed(a)
    /\ \A a \in Agents : Published /\ IsRemoved(a) /\ ~unleased[a] =>
          \/ Dismissed(a)
          \/ \E c \in Callers : call[c].slot = a /\ call[c].pc = "Join"
          \/ \E c \in Callers : call[c].slot = a /\ call[c].pc = "Forget" /\ Holds(c)

\* An attach of a will yet kill the agent.
Kills(a) == \E op \in OpId : opAgent[op] = a /\ attach[op].pc \in {"Register", "Commit", "Clean", "Fail"}

\* What a removed member still has, somebody is about to take away.
LeftoversAreTaken ==
    /\ \A c \in Callers : Holds(c) /\ call[c].pc = "Persist" /\ agent[call[c].slot] => Kills(call[c].slot)
    /\ \A a \in Agents : IsRemoved(a) /\ ~unleased[a] /\ agent[a] =>
          \/ Kills(a)
          \/ \E c \in Callers : call[c].slot = a /\ call[c].pc \in {"Join", "Forget"}
    /\ \A a \in Agents : IsRemoved(a) /\ ~unleased[a] /\ loops[a] =>
          \/ \E op \in OpId : opAgent[op] = a /\ attach[op].pc = "Commit" /\ attach[op].registered
          \/ \E c \in Callers : call[c].slot = a /\ call[c].pc = "Join"

MembersIInv ==
    LeasesAreHeld /\ SessionIsAhead /\ EndingIsAlone /\ ReadyHasLoop /\ RemovalsGoOn /\ LeftoversAreTaken

\* Every operation ends and releases whoever joined it: an attach that is overtaken
\* is settled by the removal that overtakes it, one that fails by its own task, both
\* by a stop.  Excepted are the operations whose lease an error return drops on the
\* way: a removal that cannot read the row again (service.rs:828), a wake-up that does
\* not find the member (session.rs:587), an addition that fails after it has reserved
\* (service.rs:730, session.rs:1593-1621).
OperationsEnd == \A op \in OpId :
    op < nextOp ~> signal[op] # "Pending" \/ op \in abandoned
=============================================================================
