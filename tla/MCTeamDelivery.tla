---------------------------- MODULE MCTeamDelivery ----------------------------
(***************************************************************************)
(* Small instances of TeamDelivery for TLC: one slot, and two calls of the   *)
(* four that are made.                                                      *)
(***************************************************************************)
EXTENDS TeamDelivery, TLC

CONSTANTS s1, interruption, teammate, message, signal, r1, r2

CallSources ==
    [p \in Producers |->
        CASE p = interruption -> "InterruptedNotification"
          [] p = teammate -> "McpSendMessage"
          [] p = message -> "UserMessage"
          [] p = signal -> "TeamMembershipChanged"]

AllToFirst == [p \in Producers |-> s1]

Once(calls, occasions) ==
    [calls |-> calls, left |-> [o \in Occasion |-> IF o \in occasions THEN 1 ELSE 0]]

\* Which of two fresh run ids a new run gets makes no difference.
FirstRunFirst ==
    run' # NoRecord /\ run'.id = r2 /\ (run = NoRecord \/ run.id # r2) => ~Fresh(r1)

\* Two messages while the member is attached; then one message, or a signal and a
\* message, and more that comes between.
DeliverySettings ==
    {Once({interruption, teammate}, {"write_fails"}),
     Once({message}, {"stop", "mark_fails", "turn_fails", "busy"}),
     Once({interruption}, {"stop", "mark_fails", "ensure"}),
     Once({signal, message}, {"prepare_fails"})}

TwoMessages == {Once({teammate, message}, {})}

MessageAndCancel == {Once({message}, {"stop"})}
=============================================================================
