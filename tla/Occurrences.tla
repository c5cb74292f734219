---------------------------- MODULE Occurrences ----------------------------
(***************************************************************************)
(* What a scheduled job promises about its occurrences, whatever processes  *)
(* share the database: an occurrence is executed by one execution at a      *)
(* time, only while the job exists, and not again once an execution of it   *)
(* has ended.  An execution that is given up (a crash, a busy conversation) *)
(* leaves its occurrence to another one.                                    *)
(*                                                                         *)
(* All of it holds as long as leases are on time: no lease runs out while   *)
(* its holder executes.                                                     *)
(***************************************************************************)
CONSTANTS Occs, Executions

VARIABLES
    exists,    \* the job is there
    executing, \* occurrence -> the executions at work on it
    ended,     \* occurrences that are over
    onTime     \* no lease has run out under its holder

vars == <<exists, executing, ended, onTime>>

Init ==
    /\ exists = TRUE
    /\ executing = [o \in Occs |-> {}]
    /\ ended = {}
    /\ onTime = TRUE

\* An execution begins.
Begin(o, e) ==
    /\ exists
    /\ executing[o] = {}
    /\ o \notin ended
    /\ executing' = [executing EXCEPT ![o] = {e}]
    /\ UNCHANGED <<exists, ended, onTime>>

\* The execution of an occurrence ends.
End(o, e) ==
    /\ executing[o] = {e}
    /\ executing' = [executing EXCEPT ![o] = {}]
    /\ ended' = ended \cup {o}
    /\ UNCHANGED <<exists, onTime>>

\* Executions are given up.
GiveUp(gone) ==
    /\ executing' = [o \in Occs |-> executing[o] \ gone]
    /\ UNCHANGED <<exists, ended, onTime>>

\* An occurrence is over without having been executed (skipped).
Skip(o) ==
    /\ exists
    /\ executing[o] = {}
    /\ ended' = ended \cup {o}
    /\ UNCHANGED <<exists, executing, onTime>>

\* The job is removed.
Remove ==
    /\ exists' = FALSE
    /\ ended' = {}
    /\ UNCHANGED <<executing, onTime>>

\* The identity of a past occurrence stands for a later one.
Recycle(o) ==
    /\ executing[o] = {} \/ ~exists
    /\ ended' = ended \ {o}
    /\ UNCHANGED <<exists, executing, onTime>>

Step ==
    \/ \E o \in Occs, e \in Executions : Begin(o, e) \/ End(o, e)
    \/ \E gone \in SUBSET Executions : GiveUp(gone)
    \/ \E o \in Occs : Skip(o) \/ Recycle(o)
    \/ Remove

\* Once a lease has run out under its holder nothing is promised.
Next == Step \/ ~onTime'

Spec == Init /\ [][Next]_vars
=============================================================================
