------------------------ MODULE MCConversationTurns ------------------------
(***************************************************************************)
(* Small instances of ConversationTurns for TLC.                            *)
(***************************************************************************)
EXTENDS ConversationTurns, TLC

With(agent, operations, bound) == [agent |-> agent, operations |-> operations, bound |-> bound]

\* A cancel or two, beside kills and warm-ups and for a session; deletions and
\* revoked sessions that overlap; agents without recovery and watchdog; a shutdown.
SmallSettings ==
    {With("acp", {"cancel", "kill", "warmup"}, 2), With("session", {"cancel"}, 2),
     With("acp", {"terminate", "delete"}, 2), With("session", {"cancel", "terminate"}, 1),
     With("antigravity", {"cancel"}, 1), With("aionrs", {"cancel", "delete"}, 1),
     With("acp", {"cancel", "delete", "shutdown"}, 1)}
=============================================================================
