----------------------------- MODULE ChatLedger -----------------------------
(***************************************************************************)
(* What the durable ledger promises to the code that accepts and runs work,*)
(* with no versions, phases, queue rows or frontiers: a source is accepted *)
(* once, taken by at most one operation, and closed once; a chat has at    *)
(* most one unfinished operation; an operation ends by closing everything  *)
(* it took and freeing its chat in one step, and never comes back.         *)
(***************************************************************************)
EXTENDS Sequences, Naturals

CONSTANTS Chats, Sources, Ops, ChatOf, NoOp

VARIABLES
  log,      \* the accepted sources of each chat, in order
  owner,    \* the operation that took the source, or NoOp
  closed,   \* sources that need no further work
  active,   \* the unfinished operation of each chat, or NoOp
  retired   \* operations that have ended

vars == <<log, owner, closed, active, retired>>

IsAccepted(s) == \E i \in DOMAIN log[ChatOf[s]] : log[ChatOf[s]][i] = s

Init ==
  /\ log = [c \in Chats |-> <<>>]
  /\ owner = [s \in Sources |-> NoOp]
  /\ closed = {}
  /\ active = [c \in Chats |-> NoOp]
  /\ retired = {}

Append1(s) == log' = [log EXCEPT ![ChatOf[s]] = Append(@, s)]

Accept(s) ==
  /\ ~IsAccepted(s)
  /\ Append1(s)
  /\ UNCHANGED <<owner, closed, active, retired>>

\* Take a waiting source, or one that is accepted in the same step, for the
\* active operation of its chat or for a new one.
Take(o, s) ==
  /\ IF IsAccepted(s) THEN UNCHANGED log ELSE Append1(s)
  /\ owner[s] = NoOp
  /\ s \notin closed
  /\ o \notin retired
  /\ \/ active[ChatOf[s]] = o
     \/ active[ChatOf[s]] = NoOp /\ \A c \in Chats : active[c] # o
  /\ owner' = [owner EXCEPT ![s] = o]
  /\ active' = [active EXCEPT ![ChatOf[s]] = o]
  /\ UNCHANGED <<closed, retired>>

\* Close a source early, or withdraw one that was never taken.
Close(s) ==
  /\ IsAccepted(s)
  /\ s \notin closed
  /\ owner[s] = NoOp \/ active[ChatOf[s]] = owner[s]
  /\ closed' = closed \cup {s}
  /\ UNCHANGED <<log, owner, active, retired>>

Retire(c) ==
  /\ active[c] # NoOp
  /\ closed' = closed \cup {s \in Sources : owner[s] = active[c]}
  /\ retired' = retired \cup {active[c]}
  /\ active' = [active EXCEPT ![c] = NoOp]
  /\ UNCHANGED <<log, owner>>

Next ==
  \/ \E s \in Sources : Accept(s) \/ Close(s) \/ \E o \in Ops : Take(o, s)
  \/ \E c \in Chats : Retire(c)

Spec == Init /\ [][Next]_vars
=============================================================================
