--------------------------- MODULE MemberRuntime ---------------------------
(***************************************************************************)
(* The member runtime registry of one team session                         *)
(* (crates/aionui-team/src/member_runtime.rs): for every team slot, whether *)
(* its agent runtime is absent, being attached, ready, failed or being      *)
(* removed.  Every registry method is one critical section of the entries   *)
(* mutex, hence one action.  Attaches and removals are long: the caller     *)
(* gets a lease carrying an operation id, works without the lock, and       *)
(* commits later, when the registry may have moved on.  Everybody else      *)
(* joins the operation in flight by subscribing to its watch channel and    *)
(* waits until it holds an outcome (AttachWaiter::wait), which changes      *)
(* nothing here: the channel alone is modelled.                             *)
(*                                                                         *)
(* The registry belongs to one session generation; every call site uses a   *)
(* lease on the registry that issued it, so the generation test of the      *)
(* commits always passes and is not represented.                            *)
(***************************************************************************)
EXTENDS Naturals, FiniteSets

CONSTANTS
    Agents,   \* the slots of the team
    NoAgent,  \* opAgent of an operation id not handed out yet
    MaxOps    \* bound: operation ids 1..MaxOps are handed out, then no more

ASSUME NoAgentAssumption == NoAgent \notin Agents
ASSUME MaxOpsAssumption == MaxOps \in Nat

VARIABLES
    entries,  \* the map: slot -> entry (Absent: no key)
    nextOp,   \* next_operation_id
    stopped,  \* the stopped flag
    signal,   \* operation id -> value of its watch channel
    leases,   \* the leases held by attach and removal tasks
    opAgent   \* history: the slot an operation id was handed out for

vars == <<entries, nextOp, stopped, signal, leases, opAgent>>

OpId == 1..MaxOps

AttachOutcome == {"Ready", "Failed", "Removed", "SessionStopped"}
AttachSignal == {"Pending"} \cup AttachOutcome

\* An entry; Absent and Ready carry no operation (op 0).
Absent == [state |-> "Absent", op |-> 0]
Ready == [state |-> "Ready", op |-> 0]
InFlight(st, op) == [state |-> st, op |-> op]
MemberRuntimeEntry ==
    {Absent, Ready}
        \cup {InFlight(st, op) : st \in {"Attaching", "Failed", "Removing"}, op \in OpId}

Lease == [kind : {"attach", "remove"}, agent : Agents, op : OpId]

Init ==
    /\ entries = [a \in Agents |-> Absent]
    /\ nextOp = 1
    /\ stopped = FALSE
    /\ signal = [op \in OpId |-> "Pending"]
    /\ leases = {}
    /\ opAgent = [op \in OpId |-> NoAgent]

----------------------------------------------------------------------------
\* Subscribing to the operation in flight (ReserveAttach::Join / Removing,
\* BeginRemove::Join) only reads.
Join == UNCHANGED vars

\* A new operation replaces the entry of slot a and its lease goes to the caller.
StartOperation(a, st, kind) ==
    /\ nextOp \in OpId
    /\ nextOp' = nextOp + 1
    /\ opAgent' = [opAgent EXCEPT ![nextOp] = a]
    /\ entries' = [entries EXCEPT ![a] = InFlight(st, nextOp)]
    /\ leases' = leases \cup {[kind |-> kind, agent |-> a, op |-> nextOp]}

StartAttach(a) ==
    /\ StartOperation(a, "Attaching", "attach")
    /\ UNCHANGED <<stopped, signal>>

\* Mutant: an attach that failed, or is being undone, may be started again.
ReserveAttachOverRemoval(a, retryFailed) ==
    /\ ~stopped
    /\ \/ /\ entries[a].state = "Attaching" \/ (entries[a].state = "Failed" /\ ~retryFailed)
          /\ Join
       \/ /\ \/ entries[a].state = "Absent"
             \/ entries[a].state \in {"Failed", "Removing"} /\ retryFailed
          /\ StartAttach(a)

\* reserve_attach.  A Ready slot (AlreadyReady) and a stopped registry answer
\* without changing anything.
ReserveAttach(a, retryFailed) ==
    /\ ~stopped
    /\ \/ /\ \/ entries[a].state \in {"Attaching", "Removing"}
             \/ entries[a].state = "Failed" /\ ~retryFailed
          /\ Join
       \/ /\ \/ entries[a].state = "Absent"
             \/ entries[a].state = "Failed" /\ retryFailed
          /\ StartAttach(a)

\* reserve_repair: the runtime of a Ready slot is gone.
ReserveRepair(a) ==
    /\ ~stopped
    /\ \/ /\ entries[a].state \in {"Attaching", "Failed", "Removing"}
          /\ Join
       \/ /\ entries[a].state \in {"Ready", "Absent"}
          /\ StartAttach(a)

\* Mutant: the commit forgets to compare the operation id.
CurrentAnyOperation(l, st) == ~stopped /\ entries[l.agent].state = st

\* The lease is still the one the entry in state st was created with.
Current(l, st) == ~stopped /\ entries[l.agent] = InFlight(st, l.op)

\* Mutant: an absent slot is kept as an entry that still names its operation.
SettleWithEntry(l, entry, outcome) ==
    /\ entries' = [entries EXCEPT ![l.agent] = [state |-> entry.state, op |-> l.op]]
    /\ signal' = [signal EXCEPT ![l.op] = outcome]

\* A commit consumes the lease; it takes effect only while the lease is current.
Settle(l, entry, outcome) ==
    /\ entries' = [entries EXCEPT ![l.agent] = entry]
    /\ signal' = [signal EXCEPT ![l.op] = outcome]

Commit(l, st, entry, outcome) ==
    /\ leases' = leases \ {l}
    /\ IF Current(l, st) THEN Settle(l, entry, outcome)
                         ELSE UNCHANGED <<entries, signal>>
    /\ UNCHANGED <<nextOp, stopped, opAgent>>

\* Mutant: the entry changes and nobody is told.
CommitReadySilently(l) ==
    /\ l.kind = "attach"
    /\ leases' = leases \ {l}
    /\ entries' = IF Current(l, "Attaching") THEN [entries EXCEPT ![l.agent] = Ready]
                                             ELSE entries
    /\ UNCHANGED <<signal, nextOp, stopped, opAgent>>

\* commit_ready
CommitReady(l) ==
    /\ l.kind = "attach"
    /\ Commit(l, "Attaching", Ready, "Ready")

\* commit_failed
CommitFailed(l) ==
    /\ l.kind = "attach"
    /\ Commit(l, "Attaching", InFlight("Failed", l.op), "Failed")

\* Mutant: the removal also settles the channel of a failed attach again.
BeginRemoveResettles(a) ==
    /\ ~stopped
    /\ entries[a].state \in {"Attaching", "Failed", "Ready"}
    /\ StartOperation(a, "Removing", "remove")
    /\ signal' = IF entries[a].op \in OpId
                 THEN [signal EXCEPT ![entries[a].op] = "Removed"]
                 ELSE signal
    /\ UNCHANGED stopped

\* begin_remove.  An attach in flight is superseded and its waiters get Removed;
\* a failed attach has told its waiters already.  Absent: nothing to do.
BeginRemove(a) ==
    /\ ~stopped
    /\ \/ /\ entries[a].state = "Removing"
          /\ Join
       \/ /\ entries[a].state \in {"Attaching", "Failed", "Ready"}
          /\ StartOperation(a, "Removing", "remove")
          /\ signal' = IF entries[a].state = "Attaching"
                       THEN [signal EXCEPT ![entries[a].op] = "Removed"]
                       ELSE signal
          /\ UNCHANGED stopped

\* finish_remove
FinishRemove(l) ==
    /\ l.kind = "remove"
    /\ Commit(l, "Removing", Absent, "Removed")

\* Mutant: after a failed removal the runtime counts as ready again.
RestoreReady(l) ==
    /\ l.kind = "remove"
    /\ Commit(l, "Removing", Ready, "Ready")

\* restore_attach_required_after_remove_persist_error
RestoreAttachRequired(l) ==
    /\ l.kind = "remove"
    /\ Commit(l, "Removing", InFlight("Failed", l.op), "Failed")

\* stop: drains the map; operations in flight end with SessionStopped.
Stop ==
    /\ ~stopped
    /\ stopped' = TRUE
    /\ entries' = [a \in Agents |-> Absent]
    /\ signal' = [op \in OpId |->
                    IF \E a \in Agents, st \in {"Attaching", "Removing"} :
                          entries[a] = InFlight(st, op)
                    THEN "SessionStopped" ELSE signal[op]]
    /\ UNCHANGED <<nextOp, leases, opAgent>>

\* A lease that is dropped without a commit: its task found itself superseded,
\* or an error returned past the commit.
DropLease(l) ==
    /\ leases' = leases \ {l}
    /\ UNCHANGED <<entries, nextOp, stopped, signal, opAgent>>

CommitSome(l) ==
    \/ CommitReady(l)
    \/ CommitFailed(l)
    \/ FinishRemove(l)
    \/ RestoreAttachRequired(l)

Next ==
    \/ \E a \in Agents, retryFailed \in BOOLEAN : ReserveAttach(a, retryFailed)
    \/ \E a \in Agents : ReserveRepair(a) \/ BeginRemove(a)
    \/ \E l \in leases : CommitSome(l) \/ DropLease(l)
    \/ Stop

Spec == Init /\ [][Next]_vars

----------------------------------------------------------------------------
TypeOK ==
    /\ entries \in [Agents -> MemberRuntimeEntry]
    /\ nextOp \in 1..(MaxOps + 1)
    /\ stopped \in BOOLEAN
    /\ signal \in [OpId -> AttachSignal]
    /\ leases \subseteq Lease
    /\ opAgent \in [OpId -> Agents \cup {NoAgent}]

\* op is the last operation started on slot a.
Latest(a, op) ==
    /\ opAgent[op] = a
    /\ \A later \in (op + 1)..MaxOps : opAgent[later] # a

\* Operation ids, entries and leases belong together: ids at or above nextOp are
\* fresh, an entry holds the last operation of its slot, and a lease names the
\* slot its operation was handed out for.
Bookkeeping ==
    /\ \A op \in OpId : op >= nextOp => opAgent[op] = NoAgent /\ signal[op] = "Pending"
    /\ \A op \in OpId : op < nextOp => opAgent[op] \in Agents
    /\ \A a \in Agents : entries[a].op # 0 =>
            entries[a].op < nextOp /\ Latest(a, entries[a].op)
    /\ \A l \in leases : l.op < nextOp /\ opAgent[l.op] = l.agent

\* What the registry answers to a snapshot and what the waiters of a slot are
\* told never disagree: the entry of a slot always follows from the outcome of
\* the last operation started on it, however commits of earlier operations,
\* removals, repairs and stop interleave with it (member_runtime.rs, all the
\* insert / send_replace pairs).
EntryReflectsLatest ==
    \A a \in Agents, op \in OpId : Latest(a, op) =>
        IF stopped
        THEN entries[a] = Absent
        ELSE \/ signal[op] = "Pending" /\ entries[a] \in {InFlight("Attaching", op), InFlight("Removing", op)}
             \/ signal[op] = "Ready" /\ entries[a] = Ready
             \/ signal[op] = "Failed" /\ entries[a] = InFlight("Failed", op)
             \/ signal[op] = "Removed" /\ entries[a] = Absent

\* No waiter is orphaned: as long as a channel is pending, the registry is
\* running and the entry of the slot holds the sender, so that a commit, a
\* removal or stop will find it; the "sender dropped" branch of
\* AttachWaiter::wait (member_runtime.rs:48-50) is dead code.
NoOrphanWaiter ==
    \A op \in OpId : (op < nextOp /\ signal[op] = "Pending") =>
        /\ ~stopped
        /\ entries[opAgent[op]] \in {InFlight("Attaching", op), InFlight("Removing", op)}

\* The inductive invariant.
IInv == TypeOK /\ Bookkeeping /\ EntryReflectsLatest /\ NoOrphanWaiter

\* An operation ends once: an outcome a waiter may have seen is never replaced
\* by another (a removal over a failed attach, a late commit, stop).
OutcomeIsFinal ==
    [][\A op \in OpId : signal[op] # "Pending" => signal'[op] = signal[op]]_vars

\* While a removal is running no attach, repair or other removal replaces it:
\* only its own lease or stop ends it (service.rs:816-818, "concurrent ensure
\* calls observe Removing and join the same registry operation").
RemovalIsExclusive ==
    [][\A a \in Agents : entries[a].state = "Removing" =>
          \/ entries'[a] = entries[a]
          \/ stopped'
          \/ \E l \in leases \ leases' : l.kind = "remove" /\ l.op = entries[a].op]_vars

\* A superseded lease is inert: a commit with a lease that is no longer the last
\* operation of its slot changes neither the slot nor any outcome.
SupersededLeaseIsInert ==
    [][\A l \in leases \ leases' :
          ~Latest(l.agent, l.op) => entries' = entries /\ signal' = signal]_vars
=============================================================================
