-------------------------- MODULE MCTeamMembership --------------------------
(***************************************************************************)
(* The small instance of TeamMembership, and with it of MemberRuntime, for   *)
(* TLC.  Its run checks liveness, so nothing is declared symmetric.          *)
(***************************************************************************)
EXTENDS TeamMembership
=============================================================================
