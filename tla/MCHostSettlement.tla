-------------------------- MODULE MCHostSettlement --------------------------
(* A small instance of HostSettlement: one chat, two queued messages, a     *)
(* side prompt, the cancellation of the operation and one that a client     *)
(* names, and two concurrent calls.                                         *)
EXTENDS HostSettlement

CONSTANTS q1, q2, m1, x1, y1, web, o1

HostSources == {q1, q2, m1, x1, y1}
HostKind == [s \in HostSources |->
  IF s \in {x1, y1} THEN "cancellation" ELSE IF s = m1 THEN "message" ELSE "queued"]
HostChatOf == [s \in HostSources |-> web]
HostCancelSource == [o \in {o1} |-> x1]
=============================================================================
