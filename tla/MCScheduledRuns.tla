-------------------------- MODULE MCScheduledRuns --------------------------
(* A small instance of ScheduledRuns: a recurring agent task and a one-shot *)
(* shell task in one chat, on the lanes of the durable runtime.             *)
EXTENDS ScheduledRuns

CONSTANTS agent, shell, web, chatLane, shellLane

ScheduledChatOf == [t \in Tasks |-> web]
ScheduledLaneOf ==
  [t \in Tasks |-> IF t = agent THEN chatLane ELSE shellLane]

=============================================================================
