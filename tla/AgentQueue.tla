----------------------------- MODULE AgentQueue -----------------------------
(***************************************************************************)
(* The in-memory execution queue of the runtime (runtime/src/queue.ts):    *)
(* calls are serialised per lane, deduplicated by id across lanes, retried *)
(* with back-off, and drained either by shutdown() or by the permanent     *)
(* migration seal sealAndDrain().                                          *)
(*                                                                         *)
(* A member of Calls is one QueueItem, i.e. one accepted enqueue() call.   *)
(* The fields running, current and runningPromise of a LaneState are       *)
(* always assigned together, in runItem and in the finally block of        *)
(* executeItem; current[l] # NoCall stands for the three of them.          *)
(*                                                                         *)
(* JavaScript runs one job at a time.  A macrotask (a timer callback) runs *)
(* only when no microtask is queued; the only microtask the queue leaves   *)
(* behind a finished job is the promise settlement of runItem, so joining  *)
(* must be empty before a timer of this queue fires.                       *)
(***************************************************************************)
EXTENDS Naturals, Sequences, FiniteSets, SequencesExt

CONSTANTS
  Calls,       \* the enqueue() calls made during the life of the process
  Lanes,       \* lane keys
  Ids,         \* deduplication keys
  NoId,        \* the id of a call made without one
  NoCall,      \* null
  LaneOf,      \* LaneOf[c]: the laneKey argument of the call
  IdOf,        \* IdOf[c]: its id argument, or NoId
  MaxRetries   \* DEFAULT_MAX_RETRIES

ASSUME ConstantsAssumption ==
  /\ LaneOf \in [Calls -> Lanes]
  /\ IdOf \in [Calls -> Ids \cup {NoId}]
  /\ NoId \notin Ids
  /\ NoCall \notin Calls
  /\ MaxRetries \in Nat

VARIABLES
  current,      \* lane.current (with lane.running and lane.runningPromise)
  pending,      \* lane.pending
  retryTimers,  \* the items retained in retryTimers
  retryingIds,  \* retryingIds
  retries,      \* item.retries
  startup,      \* items whose setTimeout(0) has not fired yet
  executing,    \* items whose fn has been called and has not settled
  joining,      \* finished items whose runningPromise is not resolved yet
  outcome,      \* what became of each call, for the caller
  shuttingDown, \* shuttingDown
  shutdown,     \* the memoised result of shutdown()
  retained,     \* retainedRetries of joinShutdown
  shutdownJoin, \* the running items joinShutdown still waits for
  migration,    \* the migration seal: settled, failed, released
  arrival,      \* history: accepted calls in acceptance order
  started       \* history: calls whose fn has been called

laneVars == <<current, pending>>
retryVars == <<retryTimers, retryingIds, retries>>
runVars == <<startup, executing, joining>>
stopVars == <<shuttingDown, shutdown, retained, shutdownJoin>>
history == <<arrival, started>>
vars == <<laneVars, retryVars, runVars, outcome, stopVars, migration, history>>

Outcomes == {"unseen", "accepted", "succeeded", "exhausted", "abandoned"}
ShutdownResults ==
  {"none", "joining", "resolved", "incomplete", "timeout", "migration"}
MigrationStates ==
  [sealed : BOOLEAN, settled : BOOLEAN, failed : BOOLEAN, released : BOOLEAN]

-----------------------------------------------------------------------------
(* Queries.                                                                *)

\* Faulty variant: forgets the ids that wait in back-off.
HasQueuedIdInLanes(id) ==
  \E l \in Lanes :
    \/ current[l] # NoCall /\ IdOf[current[l]] = id
    \/ \E c \in ToSet(pending[l]) : IdOf[c] = id

\* hasQueuedId: retrying, current or pending anywhere.
HasQueuedId(id) ==
  \/ id \in retryingIds
  \/ \E l \in Lanes :
       \/ current[l] # NoCall /\ IdOf[current[l]] = id
       \/ \E c \in ToSet(pending[l]) : IdOf[c] = id

\* Faulty variant: looks at the lanes only.
LanesDrained == \A l \in Lanes : current[l] = NoCall /\ pending[l] = <<>>

\* isDrained.
IsDrained ==
  /\ retryingIds = {}
  /\ retryTimers = {}
  /\ \A l \in Lanes : current[l] = NoCall /\ pending[l] = <<>>

\* Faulty variant: retries for ever.
RetryAlways(c) == ~shuttingDown

\* shouldRetry.
ShouldRetry(c) == ~shuttingDown /\ retries[c] < MaxRetries

-----------------------------------------------------------------------------
(* Shared steps.                                                           *)

\* runItem: become the current item of the lane and arm setTimeout(0).
RunItem(l, c) ==
  /\ current' = [current EXCEPT ![l] = c]
  /\ startup' = startup \cup {c}

\* Faulty variant: trusts the caller that the lane is free.
RunAtOnce(l, c) == RunItem(l, c) /\ UNCHANGED pending

\* Faulty variant: queues at the head of the lane.
DispatchFirst(l, c) ==
  IF current[l] # NoCall
  THEN /\ pending' = [pending EXCEPT ![l] = <<c>> \o @]
       /\ UNCHANGED <<current, startup>>
  ELSE RunItem(l, c) /\ UNCHANGED pending

\* enqueue and the retry timer: queue behind a busy lane or start at once.
Dispatch(l, c) ==
  IF current[l] # NoCall
  THEN /\ pending' = [pending EXCEPT ![l] = Append(@, c)]
       /\ UNCHANGED <<current, startup>>
  ELSE RunItem(l, c) /\ UNCHANGED pending

\* scheduleRetry of a failed item, or its end.
RetryOrGiveUp(c) ==
  IF ShouldRetry(c)
  THEN /\ retries' = [retries EXCEPT ![c] = @ + 1]
       /\ retryTimers' = retryTimers \cup {c}
       /\ retryingIds' = retryingIds \cup ({IdOf[c]} \ {NoId})
       /\ UNCHANGED outcome
  ELSE /\ outcome' = [outcome EXCEPT
            ![c] = IF shuttingDown THEN "abandoned" ELSE "exhausted"]
       /\ UNCHANGED retryVars

\* executeItem clears running, current and runningPromise.
FreeLane(l) ==
  /\ current' = [current EXCEPT ![l] = NoCall]
  /\ UNCHANGED <<pending, startup>>

\* The finally block of executeItem: free the lane or start its next item.
AdvanceLane(l) ==
  IF pending[l] # <<>> /\ ~shuttingDown
  THEN /\ RunItem(l, Head(pending[l]))
       /\ pending' = [pending EXCEPT ![l] = Tail(@)]
  ELSE FreeLane(l)

-----------------------------------------------------------------------------
(* Actions.                                                                *)

\* Faulty variant: a migration seal that does not refuse new calls.
EnqueueUnsealed(c) ==
  /\ outcome[c] = "unseen"
  /\ ~shuttingDown
  /\ IdOf[c] # NoId => ~HasQueuedId(IdOf[c])
  /\ outcome' = [outcome EXCEPT ![c] = "accepted"]
  /\ arrival' = Append(arrival, c)
  /\ Dispatch(LaneOf[c], c)
  /\ UNCHANGED <<retryVars, executing, joining, stopVars, migration, started>>

\* enqueue accepts the call.  A refused, dropped or deduplicated call
\* changes no state but a metric.
Enqueue(c) ==
  /\ outcome[c] = "unseen"
  /\ ~migration.sealed
  /\ ~shuttingDown
  /\ IdOf[c] # NoId => ~HasQueuedId(IdOf[c])
  /\ outcome' = [outcome EXCEPT ![c] = "accepted"]
  /\ arrival' = Append(arrival, c)
  /\ Dispatch(LaneOf[c], c)
  /\ UNCHANGED <<retryVars, executing, joining, stopVars, migration, started>>

\* The setTimeout(0) callback of runItem calls item.fn.
StartupTick(c) ==
  /\ c \in startup
  /\ joining = {}
  /\ startup' = startup \ {c}
  /\ executing' = executing \cup {c}
  /\ started' = started \cup {c}
  /\ UNCHANGED <<laneVars, retryVars, joining, outcome, stopVars, migration,
                 arrival>>

\* fn resolves; executeItem counts the success and advances the lane.
Succeed(c) ==
  /\ c \in executing
  /\ executing' = executing \ {c}
  /\ joining' = joining \cup {c}
  /\ outcome' = [outcome EXCEPT ![c] = "succeeded"]
  /\ AdvanceLane(LaneOf[c])
  /\ UNCHANGED <<retryVars, stopVars, migration, history>>

\* fn rejects; the failure taints a migration, schedules a retry or ends the
\* item, and the lane advances.
Fail(c) ==
  /\ c \in executing
  /\ executing' = executing \ {c}
  /\ joining' = joining \cup {c}
  /\ migration' = [migration EXCEPT !.failed = @ \/ migration.sealed]
  /\ RetryOrGiveUp(c)
  /\ AdvanceLane(LaneOf[c])
  /\ UNCHANGED <<stopVars, history>>

\* Faulty variant: resolves the promise without checkMigrationDrain.
SettleSilently(c) ==
  /\ c \in joining
  /\ joining' = joining \ {c}
  /\ shutdownJoin' = shutdownJoin \ {c}
  /\ UNCHANGED <<laneVars, retryVars, startup, executing, outcome, migration,
                 shuttingDown, shutdown, retained, history>>

\* The finally callback of runItem resolves runningPromise and settles a
\* drained migration (checkMigrationDrain).
SettlePromise(c) ==
  /\ c \in joining
  /\ joining' = joining \ {c}
  /\ shutdownJoin' = shutdownJoin \ {c}
  /\ migration' = [migration EXCEPT
       !.settled = @ \/ (migration.sealed /\ IsDrained)]
  /\ UNCHANGED <<laneVars, retryVars, startup, executing, outcome,
                 shuttingDown, shutdown, retained, history>>

\* The back-off timer of a retained retry fires.  joinShutdown clears the
\* timers, so none fires once shuttingDown.
RetryFire(c) ==
  /\ c \in retryTimers
  /\ ~shuttingDown
  /\ joining = {}
  /\ retryTimers' = retryTimers \ {c}
  /\ retryingIds' = retryingIds \ {IdOf[c]}
  /\ Dispatch(LaneOf[c], c)
  /\ UNCHANGED <<retries, executing, joining, outcome, stopVars, migration,
                 history>>

\* sealAndDrain, first call; later calls return the same capability.
SealAndDrain ==
  /\ ~migration.sealed
  /\ migration' = [sealed |-> TRUE, settled |-> shuttingDown \/ IsDrained,
                   failed |-> shuttingDown, released |-> FALSE]
  /\ UNCHANGED <<laneVars, retryVars, runVars, outcome, stopVars, history>>

\* release() of the migration capability.
Release ==
  /\ migration.sealed
  /\ migration' = [migration EXCEPT !.released = TRUE]
  /\ UNCHANGED <<laneVars, retryVars, runVars, outcome, stopVars, history>>

\* Faulty variant: forgets the cancelled retry records.
PendingVerdict(keptRetries) ==
  IF \E l \in Lanes : pending[l] # <<>> THEN "incomplete" ELSE "resolved"

\* The verdict of joinShutdown once every running promise has resolved.
JoinVerdict(keptRetries) ==
  IF keptRetries \/ \E l \in Lanes : pending[l] # <<>>
  THEN "incomplete" ELSE "resolved"

\* shutdown, first call: joins a migration, or seals the queue, cancels the
\* retry timers (the records stay) and waits for the running items.
Shutdown ==
  /\ shutdown = "none"
  /\ IF migration.sealed
     THEN /\ shutdown' = "migration"
          /\ UNCHANGED <<shuttingDown, retained, shutdownJoin>>
     ELSE /\ shuttingDown' = TRUE
          /\ retained' = (retryTimers # {})
          /\ shutdownJoin' = {current[l] : l \in Lanes} \ {NoCall}
          /\ shutdown' = IF shutdownJoin' = {} THEN JoinVerdict(retained')
                         ELSE "joining"
  /\ UNCHANGED <<laneVars, retryVars, runVars, outcome, migration, history>>

\* Every joined promise resolved before the deadline.
ShutdownJoined ==
  /\ shutdown = "joining"
  /\ shutdownJoin = {}
  /\ shutdown' = JoinVerdict(retained)
  /\ UNCHANGED <<laneVars, retryVars, runVars, outcome, shuttingDown, retained,
                 shutdownJoin, migration, history>>

\* Faulty variant: no deadline.
NoDeadline == FALSE /\ UNCHANGED vars

\* The deadline of joinShutdown passes first.
ShutdownTimeout ==
  /\ shutdown = "joining"
  /\ shutdownJoin # {}
  /\ joining = {}
  /\ shutdown' = "timeout"
  /\ UNCHANGED <<laneVars, retryVars, runVars, outcome, shuttingDown, retained,
                 shutdownJoin, migration, history>>

-----------------------------------------------------------------------------
Init ==
  /\ current = [l \in Lanes |-> NoCall]
  /\ pending = [l \in Lanes |-> <<>>]
  /\ retryTimers = {} /\ retryingIds = {}
  /\ retries = [c \in Calls |-> 0]
  /\ startup = {} /\ executing = {} /\ joining = {}
  /\ outcome = [c \in Calls |-> "unseen"]
  /\ shuttingDown = FALSE /\ shutdown = "none"
  /\ retained = FALSE /\ shutdownJoin = {}
  /\ migration = [sealed |-> FALSE, settled |-> FALSE,
                  failed |-> FALSE, released |-> FALSE]
  /\ arrival = <<>> /\ started = {}

Next ==
  \/ \E c \in Calls :
       \/ Enqueue(c) \/ StartupTick(c) \/ Succeed(c) \/ Fail(c)
       \/ SettlePromise(c) \/ RetryFire(c)
  \/ SealAndDrain \/ Release
  \/ Shutdown \/ ShutdownJoined \/ ShutdownTimeout

Spec == Init /\ [][Next]_vars

(***************************************************************************)
(* Fairness.  Timers fire and microtasks run (the event loop is not        *)
(* blocked).  That an item's fn settles is an obligation of the callers,   *)
(* not of the queue: it is no part of TimerSpec but the premise ItemsSettle *)
(* of the properties that need it.                                         *)
(***************************************************************************)
EventLoop ==
  \A c \in Calls : /\ WF_vars(StartupTick(c))
                   /\ WF_vars(SettlePromise(c))
                   /\ WF_vars(RetryFire(c))

TimerSpec ==
  Spec /\ EventLoop /\ WF_vars(ShutdownJoined) /\ WF_vars(ShutdownTimeout)

ItemsSettle == \A c \in Calls : WF_vars(Succeed(c) \/ Fail(c))

-----------------------------------------------------------------------------
(* Properties.                                                             *)

\* Types of the variables.
TypeOK ==
  /\ current \in [Lanes -> Calls \cup {NoCall}]
  /\ pending \in [Lanes -> Seq(Calls)]
  /\ retryTimers \subseteq Calls
  /\ retryingIds \subseteq Ids
  /\ retries \in [Calls -> 0..MaxRetries]
  /\ startup \subseteq Calls /\ executing \subseteq Calls
  /\ joining \subseteq Calls
  /\ outcome \in [Calls -> Outcomes]
  /\ shuttingDown \in BOOLEAN /\ retained \in BOOLEAN
  /\ shutdown \in ShutdownResults
  /\ shutdownJoin \subseteq Calls
  /\ migration \in MigrationStates
  /\ arrival \in Seq(Calls) /\ started \subseteq Calls

\* Two items of one lane are never in flight together, from the
\* setTimeout(0) of runItem to the settlement of fn, whatever completions,
\* retries and enqueues interleave ("tasks in the same lane are serialized").
Active == startup \cup executing

LaneSerial ==
  \A c, d \in Active : LaneOf[c] = LaneOf[d] => c = d

\* "Items with the same id are deduplicated globally": two accepted calls
\* with one id are never unfinished together, not even while one of them
\* waits for its back-off or sits in another lane.
DedupGlobal ==
  \A c, d \in Calls :
    /\ c # d /\ IdOf[c] = IdOf[d] /\ IdOf[c] # NoId
    => ~(outcome[c] = "accepted" /\ outcome[d] = "accepted")

\* An idle lane never strands pending work while the queue runs: nothing
\* but the completion of a current item restarts a lane.
NoStrandedLane ==
  \A l \in Lanes : pending[l] # <<>> /\ ~shuttingDown => current[l] # NoCall

\* A verdict is never better than the truth: a shutdown that resolved leaves
\* nothing accepted behind ("never turn a failed join into success"), and a
\* migration that settled without failure certifies for ever that nothing
\* accepted is left, although retries were in back-off when it was sealed.
HonestVerdicts ==
  /\ shutdown = "resolved" => \A c \in Calls : outcome[c] # "accepted"
  /\ migration.settled /\ ~migration.failed
       => \A c \in Calls : outcome[c] \notin {"accepted", "abandoned"}

\* First attempts start in acceptance order within a lane ("items run FIFO
\* within each lane"); only retries go to the tail.
LaneFIFO ==
  \A i, j \in DOMAIN arrival :
    /\ i < j /\ LaneOf[arrival[i]] = LaneOf[arrival[j]]
    /\ arrival[j] \in started
    => arrival[i] \in started

\* The queue implements the promise of SerialLanes: an item in flight whose
\* fn has not been called yet is still held.
Promise == INSTANCE SerialLanes WITH
  held <- {c \in Calls : outcome[c] = "accepted"} \ executing,
  running <- executing,
  ended <- {c \in Calls : outcome[c] \notin {"unseen", "accepted"}},
  reruns <- retries,
  closed <- shuttingDown \/ migration.sealed

ImplementsSerialLanes == Promise!Spec

\* Every accepted call ends, unless the queue is shut down.
AcceptedEnds ==
  ItemsSettle =>
    \A c \in Calls :
      outcome[c] = "accepted" ~> (outcome[c] # "accepted" \/ shuttingDown)

\* The join of a sealed queue always settles.
MigrationSettles ==
  ItemsSettle => (migration.sealed ~> migration.settled)

\* shutdown() answers by its deadline even when a running fn never settles.
ShutdownAnswers == shutdown = "joining" ~> shutdown # "joining"

=============================================================================
