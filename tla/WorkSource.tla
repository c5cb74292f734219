---------------------------- MODULE WorkSource ----------------------------
(***************************************************************************)
(* What produces work for a team slot, and how the coordinator treats it    *)
(* (crates/aionui-team/src/work_source.rs).                                 *)
(***************************************************************************)

UserSources == {"UserMessage", "UserCommand", "UserIntervention"}
ControlSources == {"McpShutdownRequest", "ShutdownRejected"}
SignalSources == {"TeamMembershipChanged", "IdleNotification"}
WorkSources ==
    UserSources \cup ControlSources \cup SignalSources
        \cup {"McpSendMessage", "SpawnWelcome", "SpawnAttachFailure",
              "InterruptedNotification", "RecoveryDrain"}

\* 1: Foreground, 2: Control, 3: Background
Priority(source) ==
    CASE source \in UserSources -> 1
      [] source \in ControlSources -> 2
      [] OTHER -> 3

ResumesPausedSlot(source) == source \in UserSources

RequiresMailboxMessage(source) == source \notin SignalSources
=============================================================================
