----------------------------- MODULE SerialLanes -----------------------------
(***************************************************************************)
(* What the queue promises to the code that enqueues work, with no lane    *)
(* records, timers or microtasks: calls of one lane exclude each other,    *)
(* unfinished calls have distinct ids, a call runs at most 1 + MaxRetries  *)
(* times, an ended call stays ended, and a closed queue accepts nothing.   *)
(***************************************************************************)
EXTENDS Naturals

CONSTANTS Calls, NoId, LaneOf, IdOf, MaxRetries

VARIABLES
  held,     \* accepted calls that are not running
  running,  \* calls whose fn is running
  ended,    \* calls that will not run again
  reruns,   \* how often each call went back from running to held
  closed    \* no further call is accepted

vars == <<held, running, ended, reruns, closed>>

Init ==
  /\ held = {} /\ running = {} /\ ended = {}
  /\ reruns = [c \in Calls |-> 0]
  /\ closed = FALSE

Accept(c) ==
  /\ ~closed
  /\ c \notin held \cup running \cup ended
  /\ IdOf[c] # NoId => \A d \in held \cup running : IdOf[d] # IdOf[c]
  /\ held' = held \cup {c}
  /\ UNCHANGED <<running, ended, reruns, closed>>

Begin(c) ==
  /\ c \in held
  /\ \A d \in running : LaneOf[d] # LaneOf[c]
  /\ held' = held \ {c}
  /\ running' = running \cup {c}
  /\ UNCHANGED <<ended, reruns, closed>>

Rerun(c) ==
  /\ c \in running
  /\ reruns[c] < MaxRetries
  /\ running' = running \ {c}
  /\ held' = held \cup {c}
  /\ reruns' = [reruns EXCEPT ![c] = @ + 1]
  /\ UNCHANGED <<ended, closed>>

End(c) ==
  /\ c \in running
  /\ running' = running \ {c}
  /\ ended' = ended \cup {c}
  /\ UNCHANGED <<held, reruns, closed>>

Close ==
  /\ closed' = TRUE
  /\ UNCHANGED <<held, running, ended, reruns>>

Next ==
  \/ \E c \in Calls : Accept(c) \/ Begin(c) \/ Rerun(c) \/ End(c)
  \/ Close

Spec == Init /\ [][Next]_vars
=============================================================================
