----------------------------- MODULE MCTeamWork -----------------------------
(***************************************************************************)
(* Small instances of TeamWork for TLC.                                     *)
(***************************************************************************)
EXTENDS TeamWork, TLC

CONSTANTS s1, r1, r2, c1, c2

RunSymmetry == Permutations(Runs)
=============================================================================
