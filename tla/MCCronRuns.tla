----------------------------- MODULE MCCronRuns -----------------------------
(***************************************************************************)
(* Small instances of CronRuns for TLC.                                     *)
(***************************************************************************)
EXTENDS CronRuns, TLC

CONSTANTS p1, p2

Plain(procs, recurring, requests, bound) ==
    [procs |-> procs, recurring |-> recurring, queue |-> FALSE, fresh |-> FALSE,
     requests |-> requests, fails |-> FALSE, bound |-> bound]
Queueing(procs, requests, bound) ==
    [procs |-> procs, recurring |-> TRUE, queue |-> TRUE, fresh |-> TRUE,
     requests |-> requests, fails |-> FALSE, bound |-> bound]
Failing(s) == [s EXCEPT !.fails = TRUE]

\* A recurring job that is enabled and disabled, a queueing one and a single
\* occurrence with all requests, in one process; a queueing job disturbed twice;
\* and a single occurrence in two processes.  The ticks of the single occurrence
\* and of the job disturbed twice may fail.
FewDisturbances ==
    {Plain({p1}, TRUE, {"enable", "disable"}, 2), Queueing({p1}, Requests, 1),
     Failing(Plain({p1}, FALSE, Requests, 1)), Failing(Queueing({p1}, {}, 2)),
     Plain({p1, p2}, FALSE, {"remove"}, 2)}
=============================================================================
