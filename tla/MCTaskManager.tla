---------------------------- MODULE MCTaskManager ----------------------------
(***************************************************************************)
(* Small instances of TaskManager for TLC: interchangeable callers.          *)
(***************************************************************************)
EXTENDS TaskManager, TLC

CallerSymmetry == Permutations(Callers)
=============================================================================
