---------------------------- MODULE MCAgentQueue ----------------------------
(* A small instance of AgentQueue: two lanes, four calls.  c1 and c3 carry *)
(* the same id in different lanes, c2 shares the lane of c1 and has an id  *)
(* of its own, c4 shares the lane of c1 and is anonymous.                  *)
EXTENDS AgentQueue

CONSTANTS c1, c2, c3, c4, web, shell, i1, i2

MCCalls == {c1, c2, c3, c4}
MCLanes == {web, shell}
MCIds == {i1, i2}
MCLaneOf == [c \in MCCalls |-> IF c = c3 THEN shell ELSE web]
MCIdOf == [c \in MCCalls |->
             IF c \in {c1, c3} THEN i1 ELSE IF c = c2 THEN i2 ELSE NoId]

\* For the temporal runs: one shared lane with a pair of equal ids.
LiveCalls == {c1, c2, c3}
LiveLaneOf == [c \in LiveCalls |-> IF c = c3 THEN shell ELSE web]
LiveIdOf == [c \in LiveCalls |-> IF c = c2 THEN NoId ELSE i1]
=============================================================================
