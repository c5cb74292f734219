------------------------- MODULE MCWorkCoordinator -------------------------
(***************************************************************************)
(* Small instances of WorkCoordinator for TLC.                              *)
(***************************************************************************)
EXTENDS WorkCoordinator, TLC

CONSTANTS s1, s2, r1, r2

\* A message is committed once, but a recovery may have enqueued it before.
CommittedOnce ==
    \A i, j \in DOMAIN intents :
        /\ i < j
        /\ intents[i].message # NoMessage
        /\ intents[i].message = intents[j].message
        => "RecoveryDrain" \in {intents[i].source, intents[j].source}

\* Explored only while no slot is paused, removed or stopped.
Undisturbed ==
    \A s \in Slots : ~paused[s] /\ ~removed[s] /\ constraint[s] # "SessionStopped"

\* A third intent is explored only while nothing else than messages and commands
\* has come, no slot is paused, removed or stopped and no intent has ended but by a
\* cancel.
TwoUnlessUndisturbed ==
    /\ CommittedOnce
    /\ Len(intents) > 2 =>
        /\ Undisturbed
        /\ \A i \in DOMAIN intents : intents[i].state \in Live \cup {"Cancelled"}
        /\ \A s \in Slots : constraint[s] \in {"Ready", "Starting"}
        /\ \A i \in DOMAIN intents : intents[i].source \notin SignalSources
        /\ \A l \in leases : l.source \notin SignalSources

RunSymmetry == Permutations(Runs)
=============================================================================
