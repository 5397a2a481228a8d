-------------------------- MODULE AgentQueueProofs --------------------------
(***************************************************************************)
(* Machine-checked facts about AgentQueue, for every set of calls, lanes   *)
(* and ids and every retry limit.                                          *)
(***************************************************************************)
EXTENDS AgentQueue, TLAPS

\* The current item of a lane is the one in flight there, a pending item
\* waits in its own lane, and an item is not both starting and executing.
InFlightIsCurrent == \A c \in Active : current[LaneOf[c]] = c
PendingAtHome == \A l \in Lanes : \A i \in DOMAIN pending[l] :
                   LaneOf[pending[l][i]] = l
StartupOnce == startup \cap executing = {}

LaneInv == TypeOK /\ InFlightIsCurrent /\ PendingAtHome /\ StartupOnce

\* Appending to one lane keeps every pending item at home.
LEMMA AppendHome ==
  ASSUME TypeOK, PendingAtHome, NEW c \in Calls,
         pending' = [pending EXCEPT ![LaneOf[c]] = Append(@, c)]
  PROVE  PendingAtHome' /\ pending' \in [Lanes -> Seq(Calls)]
<1> USE ConstantsAssumption DEF ConstantsAssumption, TypeOK
<1>1. LaneOf[c] \in Lanes
  OBVIOUS
<1>2. pending' \in [Lanes -> Seq(Calls)]
  BY <1>1
<1>3. ASSUME NEW l \in Lanes, NEW i \in DOMAIN pending'[l]
      PROVE  LaneOf[pending'[l][i]] = l
  <2>1. CASE l # LaneOf[c]
    BY <1>1, <1>3, <2>1 DEF PendingAtHome
  <2>2. CASE l = LaneOf[c]
    <3>1. pending'[l] = Append(pending[l], c) /\ pending[l] \in Seq(Calls)
      BY <1>1, <2>2
    <3>2. i \in 1..(Len(pending[l]) + 1)
      BY <1>3, <3>1
    <3>3. CASE i = Len(pending[l]) + 1
      BY <3>1, <3>3, <2>2
    <3>4. CASE i # Len(pending[l]) + 1
      <4>1. i \in DOMAIN pending[l] /\ pending'[l][i] = pending[l][i]
        BY <3>1, <3>2, <3>4
      <4>2. QED BY <4>1 DEF PendingAtHome
    <3>5. QED BY <3>3, <3>4
  <2>3. QED BY <2>1, <2>2
<1>4. QED BY <1>2, <1>3 DEF PendingAtHome

\* Dispatch starts an item only in a free lane.
LEMMA DispatchKeeps ==
  ASSUME LaneInv, NEW c \in Calls, Dispatch(LaneOf[c], c),
         executing' = executing
  PROVE  /\ InFlightIsCurrent' /\ PendingAtHome' /\ StartupOnce'
         /\ current' \in [Lanes -> Calls \cup {NoCall}]
         /\ pending' \in [Lanes -> Seq(Calls)]
         /\ startup' \subseteq Calls
<1> USE ConstantsAssumption DEF ConstantsAssumption, LaneInv, TypeOK
<1>1. LaneOf[c] \in Lanes
  OBVIOUS
<1>2. CASE current[LaneOf[c]] # NoCall
  <2>1. /\ pending' = [pending EXCEPT ![LaneOf[c]] = Append(@, c)]
        /\ UNCHANGED <<current, startup>>
    BY <1>2 DEF Dispatch
  <2>2. PendingAtHome' /\ pending' \in [Lanes -> Seq(Calls)]
    BY <2>1, AppendHome
  <2>3. QED
    BY <2>1, <2>2 DEF InFlightIsCurrent, StartupOnce, Active
<1>3. CASE current[LaneOf[c]] = NoCall
  <2>1. /\ current' = [current EXCEPT ![LaneOf[c]] = c]
        /\ startup' = startup \cup {c}
        /\ UNCHANGED pending
    BY <1>3 DEF Dispatch, RunItem
  <2>2. c \notin executing
    BY <1>3 DEF InFlightIsCurrent, Active
  <2>3. \A d \in Active : LaneOf[d] # LaneOf[c]
    BY <1>3 DEF InFlightIsCurrent, Active
  <2>4. InFlightIsCurrent'
    BY <1>1, <2>1, <2>3 DEF InFlightIsCurrent, Active
  <2>5. QED
    BY <1>1, <2>1, <2>2, <2>4 DEF PendingAtHome, StartupOnce
<1>4. QED BY <1>2, <1>3

\* When the item in flight finishes, its lane is freed or taken by the head
\* of its own pending list.
LEMMA AdvanceKeeps ==
  ASSUME LaneInv, NEW c \in executing, AdvanceLane(LaneOf[c]),
         executing' = executing \ {c}
  PROVE  /\ InFlightIsCurrent' /\ PendingAtHome' /\ StartupOnce'
         /\ current' \in [Lanes -> Calls \cup {NoCall}]
         /\ pending' \in [Lanes -> Seq(Calls)]
         /\ startup' \subseteq Calls
<1> USE ConstantsAssumption DEF ConstantsAssumption, LaneInv, TypeOK
<1> DEFINE l == LaneOf[c]
<1>1. c \in Calls /\ l \in Lanes /\ current[l] = c /\ c \notin startup
  BY DEF InFlightIsCurrent, Active, StartupOnce
<1>2. \A d \in Active : LaneOf[d] = l => d = c
  BY <1>1 DEF InFlightIsCurrent
<1>3. CASE pending[l] # <<>> /\ ~shuttingDown
  <2> DEFINE h == Head(pending[l])
  <2>1. pending[l] \in Seq(Calls) /\ 1 \in DOMAIN pending[l] /\ h = pending[l][1]
    BY <1>1, <1>3
  <2>2. h \in Calls /\ LaneOf[h] = l
    BY <1>1, <2>1 DEF PendingAtHome
  <2>3. /\ current' = [current EXCEPT ![l] = h]
        /\ startup' = startup \cup {h}
        /\ pending' = [pending EXCEPT ![l] = Tail(@)]
    BY <1>3 DEF AdvanceLane, RunItem
  <2>4. h \notin executing'
    BY <1>2, <2>2 DEF Active
  <2>5. InFlightIsCurrent'
    BY <1>1, <1>2, <2>2, <2>3 DEF InFlightIsCurrent, Active
  <2>6. pending' \in [Lanes -> Seq(Calls)]
    BY <1>1, <2>1, <2>3
  <2>7. ASSUME NEW m \in Lanes, NEW i \in DOMAIN pending'[m]
        PROVE  LaneOf[pending'[m][i]] = m
    <3>1. CASE m # l
      BY <1>1, <2>3, <2>7, <3>1 DEF PendingAtHome
    <3>2. CASE m = l
      <4>1. pending'[m] = Tail(pending[l])
        BY <1>1, <2>3, <3>2
      <4>2. /\ i \in 1..(Len(pending[l]) - 1)
            /\ pending'[m][i] = pending[l][i + 1]
        BY <1>3, <2>1, <2>7, <4>1
      <4>3. i + 1 \in DOMAIN pending[l]
        BY <2>1, <4>2
      <4>4. QED BY <1>1, <3>2, <4>2, <4>3 DEF PendingAtHome
    <3>3. QED BY <3>1, <3>2
  <2>8. QED
    BY <1>1, <2>2, <2>3, <2>4, <2>5, <2>6, <2>7 DEF PendingAtHome, StartupOnce
<1>4. CASE ~(pending[l] # <<>> /\ ~shuttingDown)
  <2>1. current' = [current EXCEPT ![l] = NoCall] /\ UNCHANGED <<pending, startup>>
    BY <1>4 DEF AdvanceLane, FreeLane
  <2>2. InFlightIsCurrent'
    BY <1>1, <1>2, <2>1 DEF InFlightIsCurrent, Active
  <2>3. QED
    BY <1>1, <2>1, <2>2 DEF PendingAtHome, StartupOnce
<1>5. QED BY <1>3, <1>4

\* The parts of the type invariant a finishing item can disturb.
LEMMA RetryTypes ==
  ASSUME TypeOK, NEW c \in Calls, RetryOrGiveUp(c)
  PROVE  /\ retryTimers' \subseteq Calls /\ retryingIds' \subseteq Ids
         /\ retries' \in [Calls -> 0..MaxRetries]
         /\ outcome' \in [Calls -> Outcomes]
<1> USE ConstantsAssumption DEF ConstantsAssumption, TypeOK
<1>1. CASE ShouldRetry(c)
  <2>1. retries[c] + 1 \in 0..MaxRetries
    BY <1>1 DEF ShouldRetry
  <2>2. /\ retries' = [retries EXCEPT ![c] = retries[c] + 1]
        /\ retryTimers' = retryTimers \cup {c}
        /\ retryingIds' = retryingIds \cup ({IdOf[c]} \ {NoId})
        /\ outcome' = outcome
    BY <1>1 DEF RetryOrGiveUp
  <2>3. retryingIds' \subseteq Ids
    BY <2>2
  <2>4. QED
    BY <2>1, <2>2, <2>3
<1>2. CASE ~ShouldRetry(c)
  BY <1>2 DEF RetryOrGiveUp, retryVars, Outcomes
<1>3. QED BY <1>1, <1>2

\* The new queue satisfies the lane invariant (the AgentQueue constructor).
LEMMA LaneInvInit == Init => LaneInv
<1> SUFFICES ASSUME Init PROVE LaneInv
  OBVIOUS
<1> USE ConstantsAssumption DEF ConstantsAssumption
<1>1. /\ migration \in MigrationStates /\ outcome \in [Calls -> Outcomes]
      /\ shutdown \in ShutdownResults
  BY DEF Init, MigrationStates, Outcomes, ShutdownResults
<1>2. pending \in [Lanes -> Seq(Calls)] /\ arrival \in Seq(Calls)
  BY DEF Init
<1>3. \A l \in Lanes : DOMAIN pending[l] = {}
  BY DEF Init
<1>4. /\ current \in [Lanes -> Calls \cup {NoCall}]
      /\ retries \in [Calls -> 0..MaxRetries]
  BY DEF Init
<1>5. TypeOK
  BY <1>1, <1>2, <1>4 DEF Init, TypeOK
<1>6. QED
  BY <1>3, <1>5 DEF Init, LaneInv, InFlightIsCurrent, PendingAtHome,
     StartupOnce, Active

\* Every call, timer and settlement of the queue keeps the lane invariant.
LEMMA LaneInvStep == LaneInv /\ [Next]_vars => LaneInv'
<1> SUFFICES ASSUME LaneInv, [Next]_vars PROVE LaneInv'
  OBVIOUS
<1> USE ConstantsAssumption DEF ConstantsAssumption
<1>1. ASSUME NEW c \in Calls, Enqueue(c) PROVE LaneInv'
  <2>1. Dispatch(LaneOf[c], c) /\ executing' = executing
    BY <1>1 DEF Enqueue
  <2>2. /\ outcome' \in [Calls -> Outcomes] /\ arrival' \in Seq(Calls)
    BY <1>1 DEF Enqueue, LaneInv, TypeOK, Outcomes
  <2>3. QED
    BY <1>1, <2>1, <2>2, DispatchKeeps
    DEF Enqueue, LaneInv, TypeOK, retryVars, stopVars
<1>2. ASSUME NEW c \in Calls, StartupTick(c) PROVE LaneInv'
  BY <1>2 DEF StartupTick, LaneInv, TypeOK, InFlightIsCurrent, PendingAtHome,
     StartupOnce, Active, laneVars, retryVars, stopVars
<1>3. ASSUME NEW c \in Calls, Succeed(c) PROVE LaneInv'
  <2>1. c \in executing /\ AdvanceLane(LaneOf[c]) /\ executing' = executing \ {c}
    BY <1>3 DEF Succeed
  <2>2. /\ outcome' \in [Calls -> Outcomes] /\ joining' \subseteq Calls
        /\ executing' \subseteq Calls
    BY <1>3 DEF Succeed, LaneInv, TypeOK, Outcomes
  <2>3. QED
    BY <1>3, <2>1, <2>2, AdvanceKeeps
    DEF Succeed, LaneInv, TypeOK, retryVars, stopVars, history
<1>4. ASSUME NEW c \in Calls, Fail(c) PROVE LaneInv'
  <2>1. c \in executing /\ AdvanceLane(LaneOf[c]) /\ executing' = executing \ {c}
    BY <1>4 DEF Fail
  <2>2. /\ joining' \subseteq Calls /\ executing' \subseteq Calls
        /\ migration' \in MigrationStates
    BY <1>4 DEF Fail, LaneInv, TypeOK, MigrationStates
  <2>3. /\ retryTimers' \subseteq Calls /\ retryingIds' \subseteq Ids
        /\ retries' \in [Calls -> 0..MaxRetries]
        /\ outcome' \in [Calls -> Outcomes]
    BY <1>4, RetryTypes DEF Fail, LaneInv
  <2>4. QED
    BY <1>4, <2>1, <2>2, <2>3, AdvanceKeeps
    DEF Fail, LaneInv, TypeOK, stopVars, history
<1>5. ASSUME NEW c \in Calls, SettlePromise(c) PROVE LaneInv'
  <2>1. migration' \in MigrationStates
    BY <1>5 DEF SettlePromise, LaneInv, TypeOK, MigrationStates, IsDrained
  <2>2. QED
    BY <1>5, <2>1 DEF SettlePromise, LaneInv, TypeOK, InFlightIsCurrent,
       PendingAtHome, StartupOnce, Active, laneVars, retryVars, history
<1>6. ASSUME NEW c \in Calls, RetryFire(c) PROVE LaneInv'
  <2>1. Dispatch(LaneOf[c], c) /\ executing' = executing
    BY <1>6 DEF RetryFire
  <2>2. QED
    BY <1>6, <2>1, DispatchKeeps
    DEF RetryFire, LaneInv, TypeOK, stopVars, history
<1>7. CASE SealAndDrain \/ Release
  <2>1. migration' \in MigrationStates
    <3>1. (shuttingDown \/ IsDrained) \in BOOLEAN /\ shuttingDown \in BOOLEAN
      BY DEF LaneInv, TypeOK
    <3>2. CASE SealAndDrain
      BY <3>1, <3>2, Zenon DEF SealAndDrain, MigrationStates
    <3>3. CASE Release
      BY <3>3 DEF Release, LaneInv, TypeOK, MigrationStates
    <3>4. QED BY <1>7, <3>2, <3>3
  <2>2. QED
    BY <1>7, <2>1 DEF SealAndDrain, Release, LaneInv, TypeOK, InFlightIsCurrent,
       PendingAtHome, StartupOnce, Active, laneVars, retryVars, runVars,
       stopVars, history
<1>8. CASE Shutdown
  <2>1. shutdownJoin' \subseteq Calls /\ shutdown' \in ShutdownResults
        /\ shuttingDown' \in BOOLEAN /\ retained' \in BOOLEAN
    <3>1. CASE migration.sealed
      BY <1>8, <3>1 DEF Shutdown, LaneInv, TypeOK, ShutdownResults
    <3>2. CASE ~migration.sealed
      <4>1. shutdownJoin' \subseteq Calls /\ shuttingDown' \in BOOLEAN
        BY <1>8, <3>2 DEF Shutdown, LaneInv, TypeOK
      <4>2. (retryTimers # {}) \in BOOLEAN
        OBVIOUS
      <4>3. retained' \in BOOLEAN
        BY <1>8, <3>2, <4>2, Zenon DEF Shutdown
      <4>4. shutdown' \in ShutdownResults
        BY <1>8, <3>2 DEF Shutdown, JoinVerdict, ShutdownResults
      <4>5. QED BY <4>1, <4>3, <4>4
    <3>3. QED BY <3>1, <3>2
  <2>2. QED
    BY <1>8, <2>1 DEF Shutdown, LaneInv, TypeOK, InFlightIsCurrent,
       PendingAtHome, StartupOnce, Active, laneVars, retryVars, runVars, history
<1>9. CASE ShutdownJoined \/ ShutdownTimeout
  <2>1. shutdown' \in ShutdownResults
    BY <1>9 DEF ShutdownJoined, ShutdownTimeout, JoinVerdict, ShutdownResults
  <2>2. QED
    BY <1>9, <2>1 DEF ShutdownJoined, ShutdownTimeout, LaneInv, TypeOK,
       InFlightIsCurrent, PendingAtHome, StartupOnce, Active, laneVars,
       retryVars, runVars, history
<1>10. CASE UNCHANGED vars
  BY <1>10 DEF vars, LaneInv, TypeOK, InFlightIsCurrent, PendingAtHome,
     StartupOnce, Active, laneVars, retryVars, runVars, stopVars, history
<1>11. QED
  BY <1>1, <1>2, <1>3, <1>4, <1>5, <1>6, <1>7, <1>8, <1>9, <1>10 DEF Next

\* The type invariant and the lane invariant hold in every behaviour.
THEOREM LaneInvariant == Spec => []LaneInv
BY LaneInvInit, LaneInvStep, PTL DEF Spec

\* Every variable keeps its type: in particular no item is retried more than
\* MaxRetries times (shouldRetry, queue/retry-policy.ts).
THEOREM TypeCorrect == Spec => []TypeOK
<1>1. LaneInv => TypeOK
  BY DEF LaneInv
<1>2. QED BY <1>1, LaneInvariant, PTL

\* Two items of one lane are never in flight together (runItem and the
\* finally block of executeItem, runtime/src/queue.ts).
THEOREM LaneSerialTheorem == Spec => []LaneSerial
<1>1. LaneInv => LaneSerial
  BY DEF LaneInv, InFlightIsCurrent, LaneSerial
<1>2. QED BY <1>1, LaneInvariant, PTL

-----------------------------------------------------------------------------
(* Where an unfinished call is.                                            *)

\* The three places of an unfinished call: waiting for its back-off timer,
\* current in its lane, or pending there.
Waits(c) == c \in retryTimers
Runs(c) == current[LaneOf[c]] = c
Queued(c) == \E i \in DOMAIN pending[LaneOf[c]] : pending[LaneOf[c]][i] = c

\* What a lane runs is its own and is in flight.
CurrentAtHome == \A l \in Lanes : current[l] # NoCall =>
                   LaneOf[current[l]] = l /\ current[l] \in Active

\* A call is unfinished exactly while it is somewhere, and it is in one place.
OpenHasPlace == \A c \in Calls :
  outcome[c] = "accepted" <=> Waits(c) \/ Runs(c) \/ Queued(c)
OnePlace ==
  /\ \A c \in Calls : ~(Waits(c) /\ Runs(c)) /\ ~(Waits(c) /\ Queued(c))
                      /\ ~(Runs(c) /\ Queued(c))
  /\ \A l \in Lanes : \A i, j \in DOMAIN pending[l] :
       pending[l][i] = pending[l][j] => i = j

\* The ids in back-off are those of the retained items.
RetryingIdsExact == retryingIds = {IdOf[c] : c \in retryTimers} \ {NoId}

PlaceInv == /\ LaneInv /\ NoStrandedLane /\ CurrentAtHome /\ OpenHasPlace
            /\ OnePlace /\ RetryingIdsExact /\ DedupGlobal


\* A finished item leaves its lane; the head of pending takes its place.
LEMMA AdvancePlaces ==
  ASSUME PlaceInv, NEW c \in executing, AdvanceLane(LaneOf[c]),
         executing' = executing \ {c}, shuttingDown' = shuttingDown
  PROVE  /\ ~Runs(c)' /\ ~Queued(c)'
         /\ \A d \in Calls \ {c} :
              /\ Runs(d)' \/ Queued(d)' <=> Runs(d) \/ Queued(d)
              /\ ~(Runs(d)' /\ Queued(d)')
         /\ \A m \in Lanes : \A i, j \in DOMAIN pending'[m] :
              pending'[m][i] = pending'[m][j] => i = j
         /\ CurrentAtHome' /\ NoStrandedLane'
<1> USE ConstantsAssumption DEF ConstantsAssumption, PlaceInv, LaneInv, TypeOK
<1> DEFINE l == LaneOf[c]
<1>1. /\ c \in Calls /\ l \in Lanes /\ Runs(c) /\ ~Queued(c)
      /\ pending[l] \in Seq(Calls)
  BY DEF InFlightIsCurrent, Active, OnePlace, Runs
<1>2. \A m \in Lanes : current[m] = c => m = l
  BY <1>1 DEF CurrentAtHome
<1>3. \A i \in DOMAIN pending[l] : pending[l][i] \in Calls /\ LaneOf[pending[l][i]] = l
  BY <1>1 DEF PendingAtHome
<1>4. CASE pending[l] # <<>> /\ ~shuttingDown
  <2>1. PICK h \in Calls : h = Head(pending[l]) /\ h = pending[l][1]
    BY <1>1, <1>4
  <2>2. 1 \in DOMAIN pending[l] /\ LaneOf[h] = l /\ h # c /\ Queued(h)
    BY <1>1, <1>3, <1>4, <2>1 DEF Queued
  <2>3. /\ current' = [current EXCEPT ![l] = h]
        /\ startup' = startup \cup {h}
        /\ pending' = [pending EXCEPT ![l] = Tail(@)]
    BY <1>4, <2>1 DEF AdvanceLane, RunItem
  <2>4. current'[l] = h /\ \A m \in Lanes \ {l} : current'[m] = current[m]
    BY <1>1, <2>3
  <2>5. pending'[l] = Tail(pending[l])
        /\ \A m \in Lanes \ {l} : pending'[m] = pending[m]
    BY <1>1, <2>3
  <2>6. /\ DOMAIN pending'[l] = 1..(Len(pending[l]) - 1)
        /\ \A i \in DOMAIN pending'[l] : pending'[l][i] = pending[l][i + 1]
        /\ DOMAIN pending[l] = 1..Len(pending[l]) /\ Len(pending[l]) \in Nat
    BY <1>1, <1>4, <2>5
  <2>7. \A i \in DOMAIN pending'[l] : i + 1 \in DOMAIN pending[l] /\ i + 1 # 1
    BY <2>6
  <2>8. \A i, j \in DOMAIN pending[l] : pending[l][i] = pending[l][j] => i = j
    BY <1>1 DEF OnePlace
  <2>9. \A i \in DOMAIN pending'[l] : pending'[l][i] # h
    BY <2>1, <2>2, <2>6, <2>7, <2>8
  <2>10. \A d \in Calls : d # h =>
           ((\E i \in DOMAIN pending'[l] : pending'[l][i] = d)
            <=> \E i \in DOMAIN pending[l] : pending[l][i] = d)
    <3>1. ASSUME NEW d \in Calls, d # h, NEW i \in DOMAIN pending[l],
                 pending[l][i] = d
          PROVE  \E j \in DOMAIN pending'[l] : pending'[l][j] = d
      <4>1. i # 1 /\ i \in 1..Len(pending[l])
        BY <2>1, <2>6, <3>1
      <4>2. i - 1 \in DOMAIN pending'[l] /\ (i - 1) + 1 = i
        BY <2>6, <4>1
      <4>3. QED BY <2>6, <3>1, <4>2
    <3>2. QED BY <2>6, <2>7, <3>1
  <2>11. ~Runs(c)' /\ ~Queued(c)'
    BY <1>1, <2>2, <2>4, <2>10 DEF Runs, Queued
  <2>12. ASSUME NEW d \in Calls \ {c}
         PROVE  /\ Runs(d)' \/ Queued(d)' <=> Runs(d) \/ Queued(d)
                /\ ~(Runs(d)' /\ Queued(d)')
    <3>1. CASE LaneOf[d] # l
      BY <2>4, <2>5, <3>1 DEF Runs, Queued, OnePlace
    <3>2. CASE d = h
      BY <2>2, <2>4, <2>9, <3>2 DEF Runs, Queued
    <3>3. CASE LaneOf[d] = l /\ d # h
      BY <1>1, <2>4, <2>10, <3>3 DEF Runs, Queued
    <3>4. QED BY <3>1, <3>2, <3>3
  <2>13. ASSUME NEW m \in Lanes, NEW i \in DOMAIN pending'[m],
                NEW j \in DOMAIN pending'[m], pending'[m][i] = pending'[m][j]
         PROVE  i = j
    <3>1. CASE m # l
      BY <2>5, <2>13, <3>1 DEF OnePlace
    <3>2. CASE m = l
      <4>1. i + 1 = j + 1
        BY <2>6, <2>7, <2>8, <2>13, <3>2
      <4>2. QED BY <2>6, <2>13, <3>2, <4>1
    <3>3. QED BY <3>1, <3>2
  <2>14. CurrentAtHome'
    BY <1>2, <2>2, <2>3, <2>4 DEF CurrentAtHome, Active
  <2>15. NoStrandedLane'
    <3>1. h # NoCall
      OBVIOUS
    <3>2. QED BY <2>4, <2>5, <3>1 DEF NoStrandedLane
  <2>16. QED
    BY <2>11, <2>12, <2>13, <2>14, <2>15
<1>5. CASE ~(pending[l] # <<>> /\ ~shuttingDown)
  <2>1. current' = [current EXCEPT ![l] = NoCall] /\ UNCHANGED <<pending, startup>>
    BY <1>5 DEF AdvanceLane, FreeLane
  <2>2. current'[l] = NoCall /\ \A m \in Lanes \ {l} : current'[m] = current[m]
    BY <1>1, <2>1
  <2>3. \A d \in Calls \ {c} : Runs(d)' <=> Runs(d)
    BY <1>1, <2>2 DEF Runs
  <2>4. \A d \in Calls : Queued(d)' <=> Queued(d)
    BY <2>1 DEF Queued
  <2>5. ~Runs(c)'
    BY <1>1, <2>2 DEF Runs
  <2>6. CurrentAtHome'
    BY <1>1, <1>2, <2>1, <2>2 DEF CurrentAtHome, Active
  <2>7. NoStrandedLane'
    BY <1>5, <2>1, <2>2 DEF NoStrandedLane
  <2>8. QED
    BY <1>1, <2>1, <2>3, <2>4, <2>5, <2>6, <2>7 DEF OnePlace
<1>6. QED BY <1>4, <1>5

\* A dispatched item starts in its lane or joins the end of pending.
LEMMA DispatchPlaces ==
  ASSUME PlaceInv, NEW c \in Calls, Dispatch(LaneOf[c], c),
         ~Runs(c), ~Queued(c),
         executing' = executing, shuttingDown' = shuttingDown
  PROVE  /\ Runs(c)' \/ Queued(c)'
         /\ ~(Runs(c)' /\ Queued(c)')
         /\ \A d \in Calls \ {c} : /\ Runs(d)' <=> Runs(d)
                                   /\ Queued(d)' <=> Queued(d)
         /\ \A m \in Lanes : \A i, j \in DOMAIN pending'[m] :
              pending'[m][i] = pending'[m][j] => i = j
         /\ CurrentAtHome' /\ NoStrandedLane'
<1> USE ConstantsAssumption DEF ConstantsAssumption, PlaceInv, LaneInv, TypeOK
<1> DEFINE l == LaneOf[c]
<1>1. l \in Lanes /\ pending[l] \in Seq(Calls) /\ c # NoCall
  OBVIOUS
<1>2. CASE current[l] # NoCall
  <2>1. /\ pending' = [pending EXCEPT ![l] = Append(@, c)]
        /\ UNCHANGED <<current, startup>>
    BY <1>2 DEF Dispatch
  <2>2. pending'[l] = Append(pending[l], c)
        /\ \A m \in Lanes \ {l} : pending'[m] = pending[m]
    BY <1>1, <2>1
  <2>3. /\ DOMAIN pending[l] = 1..Len(pending[l]) /\ Len(pending[l]) \in Nat
        /\ DOMAIN pending'[l] = 1..(Len(pending[l]) + 1)
        /\ \A i \in DOMAIN pending[l] : pending'[l][i] = pending[l][i]
        /\ pending'[l][Len(pending[l]) + 1] = c
    BY <1>1, <2>2
  <2>4. \A i \in DOMAIN pending'[l] :
          i \in DOMAIN pending[l] \/ i = Len(pending[l]) + 1
    BY <2>3
  <2>5. \A i \in DOMAIN pending[l] : i \in DOMAIN pending'[l] /\ pending[l][i] # c
    BY <2>3 DEF Queued
  <2>6. Queued(c)'
    <3>1. Len(pending[l]) + 1 \in DOMAIN pending'[l]
      BY <2>3
    <3>2. QED BY <2>3, <3>1 DEF Queued
  <2>7. \A d \in Calls : Runs(d)' <=> Runs(d)
    BY <2>1 DEF Runs
  <2>8. ASSUME NEW d \in Calls \ {c} PROVE Queued(d)' <=> Queued(d)
    <3>1. CASE LaneOf[d] # l
      BY <2>2, <3>1 DEF Queued
    <3>2. CASE LaneOf[d] = l
      BY <2>3, <2>4, <2>5, <3>2 DEF Queued
    <3>3. QED BY <3>1, <3>2
  <2>9. ASSUME NEW m \in Lanes, NEW i \in DOMAIN pending'[m],
               NEW j \in DOMAIN pending'[m], pending'[m][i] = pending'[m][j]
        PROVE  i = j
    <3>1. CASE m # l
      BY <2>2, <2>9, <3>1 DEF OnePlace
    <3>2. CASE m = l
      <4>1. \A p, q \in DOMAIN pending[l] : pending[l][p] = pending[l][q] => p = q
        BY <1>1 DEF OnePlace
      <4>2. CASE i \in DOMAIN pending[l] /\ j \in DOMAIN pending[l]
        BY <2>3, <2>9, <3>2, <4>1, <4>2
      <4>3. CASE i \notin DOMAIN pending[l] \/ j \notin DOMAIN pending[l]
        BY <2>3, <2>4, <2>5, <2>9, <3>2, <4>3
      <4>4. QED BY <4>2, <4>3
    <3>3. QED BY <3>1, <3>2
  <2>10. CurrentAtHome'
    BY <2>1 DEF CurrentAtHome, Active
  <2>11. NoStrandedLane'
    BY <1>2, <2>1, <2>2 DEF NoStrandedLane
  <2>12. QED
    BY <2>6, <2>7, <2>8, <2>9, <2>10, <2>11
<1>3. CASE current[l] = NoCall
  <2>1. /\ current' = [current EXCEPT ![l] = c]
        /\ startup' = startup \cup {c}
        /\ UNCHANGED pending
    BY <1>3 DEF Dispatch, RunItem
  <2>2. current'[l] = c /\ \A m \in Lanes \ {l} : current'[m] = current[m]
    BY <1>1, <2>1
  <2>3. Runs(c)' /\ \A d \in Calls \ {c} : Runs(d)' <=> Runs(d)
    BY <1>3, <2>2 DEF Runs
  <2>4. \A d \in Calls : Queued(d)' <=> Queued(d)
    BY <2>1 DEF Queued
  <2>5. CurrentAtHome'
    BY <2>1, <2>2 DEF CurrentAtHome, Active
  <2>6. NoStrandedLane'
    BY <1>1, <2>1, <2>2 DEF NoStrandedLane
  <2>7. QED
    BY <2>1, <2>3, <2>4, <2>5, <2>6 DEF OnePlace
<1>4. QED BY <1>2, <1>3

\* A step that moves no call keeps every call at its place.
LEMMA PlacesKept ==
  ASSUME PlaceInv, LaneInv', Active' = Active,
         UNCHANGED <<current, pending, retryTimers, retryingIds, outcome>>,
         shuttingDown => shuttingDown'
  PROVE  PlaceInv'
<1>1. NoStrandedLane' /\ CurrentAtHome' /\ DedupGlobal'
  BY DEF PlaceInv, NoStrandedLane, CurrentAtHome, DedupGlobal
<1>2. OpenHasPlace' /\ OnePlace' /\ RetryingIdsExact'
  BY DEF PlaceInv, OpenHasPlace, OnePlace, RetryingIdsExact, Waits, Runs, Queued
<1>3. QED BY <1>1, <1>2 DEF PlaceInv

\* Every call has its place in the new queue.
LEMMA PlaceInvInit == Init => PlaceInv
<1> SUFFICES ASSUME Init PROVE PlaceInv
  OBVIOUS
<1> USE ConstantsAssumption DEF ConstantsAssumption
<1>1. LaneInv
  BY LaneInvInit
<1>2. /\ \A l \in Lanes : current[l] = NoCall /\ pending[l] = <<>>
      /\ \A c \in Calls : outcome[c] = "unseen"
      /\ retryTimers = {} /\ retryingIds = {}
  BY DEF Init
<1>3. \A c \in Calls : ~Waits(c) /\ ~Runs(c) /\ ~Queued(c)
  BY <1>2 DEF Waits, Runs, Queued
<1>4. NoStrandedLane /\ CurrentAtHome /\ OpenHasPlace /\ OnePlace
  BY <1>2, <1>3 DEF NoStrandedLane, CurrentAtHome, OpenHasPlace, OnePlace
<1>5. RetryingIdsExact /\ DedupGlobal
  BY <1>2 DEF RetryingIdsExact, DedupGlobal
<1>6. QED BY <1>1, <1>4, <1>5 DEF PlaceInv

\* hasQueuedId sees an unfinished call wherever it is.
LEMMA QueuedIdSeen ==
  ASSUME PlaceInv, NEW d \in Calls, outcome[d] = "accepted", IdOf[d] # NoId
  PROVE  HasQueuedId(IdOf[d])
<1> USE ConstantsAssumption DEF ConstantsAssumption
<1>1. LaneOf[d] \in Lanes /\ d # NoCall
  OBVIOUS
<1>2. Waits(d) \/ Runs(d) \/ Queued(d)
  BY DEF PlaceInv, OpenHasPlace
<1>3. CASE Waits(d)
  BY <1>3 DEF PlaceInv, RetryingIdsExact, Waits, HasQueuedId
<1>4. CASE Runs(d)
  BY <1>1, <1>4 DEF Runs, HasQueuedId
<1>5. CASE Queued(d)
  <2>1. d \in ToSet(pending[LaneOf[d]])
    BY <1>5 DEF Queued, ToSet
  <2>2. QED BY <1>1, <2>1 DEF HasQueuedId
<1>6. QED BY <1>2, <1>3, <1>4, <1>5

\* Every call, timer and settlement of the queue keeps the place invariant.
LEMMA PlaceInvStep == PlaceInv /\ [Next]_vars => PlaceInv'
<1> SUFFICES ASSUME PlaceInv, [Next]_vars PROVE PlaceInv'
  OBVIOUS
<1> USE ConstantsAssumption DEF ConstantsAssumption
<1>0. LaneInv' /\ LaneInv
  BY LaneInvStep DEF PlaceInv
<1>1. ASSUME NEW c \in Calls, Enqueue(c) PROVE PlaceInv'
  <2>1. /\ Dispatch(LaneOf[c], c) /\ outcome[c] = "unseen"
        /\ executing' = executing /\ shuttingDown' = shuttingDown
        /\ outcome' = [outcome EXCEPT ![c] = "accepted"]
        /\ UNCHANGED <<retryTimers, retryingIds>>
    BY <1>1 DEF Enqueue, retryVars, stopVars
  <2>2. ~Waits(c) /\ ~Runs(c) /\ ~Queued(c)
    BY <2>1 DEF PlaceInv, OpenHasPlace
  <2>3. outcome'[c] = "accepted" /\ \A d \in Calls \ {c} : outcome'[d] = outcome[d]
    BY <1>0, <2>1 DEF LaneInv, TypeOK
  <2>4. \A d \in Calls : Waits(d)' <=> Waits(d)
    BY <2>1 DEF Waits
  <2>5. OpenHasPlace'
    BY <2>1, <2>2, <2>3, <2>4, DispatchPlaces DEF PlaceInv, OpenHasPlace
  <2>6. OnePlace'
    BY <2>1, <2>2, <2>4, DispatchPlaces DEF PlaceInv, OnePlace
  <2>7. CurrentAtHome' /\ NoStrandedLane'
    BY <2>1, <2>2, DispatchPlaces
  <2>8. RetryingIdsExact'
    BY <2>1 DEF PlaceInv, RetryingIdsExact
  <2>9. DedupGlobal'
    <3>1. \A d \in Calls \ {c} :
            outcome[d] = "accepted" /\ IdOf[d] # NoId => IdOf[d] # IdOf[c]
      BY <1>1, QueuedIdSeen DEF Enqueue
    <3>2. QED BY <2>3, <3>1 DEF PlaceInv, DedupGlobal
  <2>10. QED BY <1>0, <2>5, <2>6, <2>7, <2>8, <2>9 DEF PlaceInv
<1>2. ASSUME NEW c \in Calls, StartupTick(c) PROVE PlaceInv'
  BY <1>0, <1>2, PlacesKept DEF StartupTick, laneVars, retryVars, stopVars, Active
<1>3. ASSUME NEW c \in Calls, Succeed(c) \/ Fail(c) PROVE PlaceInv'
  <2>1. /\ c \in executing /\ AdvanceLane(LaneOf[c])
        /\ executing' = executing \ {c} /\ shuttingDown' = shuttingDown
    BY <1>3 DEF Succeed, Fail, stopVars
  <2>2. Runs(c) /\ ~Waits(c) /\ ~Queued(c) /\ outcome[c] = "accepted"
    BY <1>0, <2>1 DEF LaneInv, InFlightIsCurrent, Active, PlaceInv, OpenHasPlace,
       OnePlace, Runs
  <2>3. \/ /\ outcome'[c] \in Outcomes \ {"unseen", "accepted"}
           /\ UNCHANGED <<retryTimers, retryingIds>>
        \/ /\ outcome'[c] = "accepted"
           /\ retryTimers' = retryTimers \cup {c}
           /\ retryingIds' = retryingIds \cup ({IdOf[c]} \ {NoId})
    <3>1. CASE Succeed(c)
      BY <1>0, <3>1 DEF Succeed, retryVars, LaneInv, TypeOK, Outcomes
    <3>2. CASE Fail(c) /\ ShouldRetry(c)
      BY <2>2, <3>2 DEF Fail, RetryOrGiveUp
    <3>3. CASE Fail(c) /\ ~ShouldRetry(c)
      BY <1>0, <3>3 DEF Fail, RetryOrGiveUp, retryVars, LaneInv, TypeOK, Outcomes
    <3>4. QED BY <1>3, <3>1, <3>2, <3>3
  <2>4. \A d \in Calls \ {c} : outcome'[d] = outcome[d]
    BY <1>0, <1>3 DEF Succeed, Fail, RetryOrGiveUp, LaneInv, TypeOK
  <2>5. \A d \in Calls \ {c} : Waits(d)' <=> Waits(d)
    BY <2>3 DEF Waits
  <2>6. Waits(c)' <=> outcome'[c] = "accepted"
    BY <2>2, <2>3 DEF Waits
  <2>7. OpenHasPlace'
    BY <2>1, <2>4, <2>5, <2>6, AdvancePlaces DEF PlaceInv, OpenHasPlace
  <2>8. OnePlace'
    BY <2>1, <2>5, AdvancePlaces DEF PlaceInv, OnePlace
  <2>9. CurrentAtHome' /\ NoStrandedLane'
    BY <2>1, AdvancePlaces
  <2>10. RetryingIdsExact'
    BY <2>3 DEF PlaceInv, RetryingIdsExact
  <2>11. DedupGlobal'
    BY <2>2, <2>4 DEF PlaceInv, DedupGlobal
  <2>12. QED BY <1>0, <2>7, <2>8, <2>9, <2>10, <2>11 DEF PlaceInv
<1>4. ASSUME NEW c \in Calls, SettlePromise(c) PROVE PlaceInv'
  BY <1>0, <1>4, PlacesKept DEF SettlePromise, laneVars, retryVars, Active
<1>5. ASSUME NEW c \in Calls, RetryFire(c) PROVE PlaceInv'
  <2>1. /\ Dispatch(LaneOf[c], c) /\ c \in retryTimers
        /\ executing' = executing /\ shuttingDown' = shuttingDown
        /\ retryTimers' = retryTimers \ {c}
        /\ retryingIds' = retryingIds \ {IdOf[c]}
        /\ UNCHANGED outcome
    BY <1>5 DEF RetryFire, stopVars
  <2>2. Waits(c) /\ ~Runs(c) /\ ~Queued(c) /\ outcome[c] = "accepted"
    BY <2>1 DEF PlaceInv, OpenHasPlace, OnePlace, Waits
  <2>3. ~Waits(c)' /\ \A d \in Calls \ {c} : Waits(d)' <=> Waits(d)
    BY <2>1 DEF Waits
  <2>4. OpenHasPlace'
    BY <2>1, <2>2, <2>3, DispatchPlaces DEF PlaceInv, OpenHasPlace
  <2>5. OnePlace'
    BY <2>1, <2>2, <2>3, DispatchPlaces DEF PlaceInv, OnePlace
  <2>6. CurrentAtHome' /\ NoStrandedLane'
    BY <2>1, <2>2, DispatchPlaces
  <2>7. RetryingIdsExact'
    <3>1. \A d \in retryTimers : d \in Calls /\ outcome[d] = "accepted"
      BY <1>0 DEF PlaceInv, OpenHasPlace, Waits, LaneInv, TypeOK
    <3>2. \A d \in retryTimers \ {c} : IdOf[d] # NoId => IdOf[d] # IdOf[c]
      BY <2>2, <3>1 DEF PlaceInv, DedupGlobal
    <3>3. QED BY <2>1, <3>2 DEF PlaceInv, RetryingIdsExact
  <2>8. DedupGlobal'
    BY <2>1 DEF PlaceInv, DedupGlobal
  <2>9. QED BY <1>0, <2>4, <2>5, <2>6, <2>7, <2>8 DEF PlaceInv
<1>6. CASE SealAndDrain \/ Release
  BY <1>0, <1>6, PlacesKept
  DEF SealAndDrain, Release, laneVars, retryVars, runVars, stopVars, Active
<1>7. CASE Shutdown
  BY <1>0, <1>7, PlacesKept DEF Shutdown, laneVars, retryVars, runVars, Active
<1>8. CASE ShutdownJoined \/ ShutdownTimeout \/ UNCHANGED vars
  BY <1>0, <1>8, PlacesKept DEF ShutdownJoined, ShutdownTimeout, vars, laneVars,
     retryVars, runVars, stopVars, Active
<1>9. QED BY <1>1, <1>2, <1>3, <1>4, <1>5, <1>6, <1>7, <1>8 DEF Next

\* The place invariant holds in every behaviour.
THEOREM PlaceInvariant == Spec => []PlaceInv
BY PlaceInvInit, PlaceInvStep, PTL DEF Spec

\* A lane with pending work is running, until the queue is shut down (the
\* finally block of executeItem is the only one to restart it).
THEOREM NoStrandedTheorem == Spec => []NoStrandedLane
<1>1. PlaceInv => NoStrandedLane
  BY DEF PlaceInv
<1>2. QED BY <1>1, PlaceInvariant, PTL

\* Two unfinished calls never carry one id (hasQueuedId, runtime/src/queue.ts).
THEOREM DedupTheorem == Spec => []DedupGlobal
<1>1. PlaceInv => DedupGlobal
  BY DEF PlaceInv
<1>2. QED BY <1>1, PlaceInvariant, PTL
-----------------------------------------------------------------------------
(* The verdicts of shutdown() and of the migration seal.                   *)

\* A finished item whose promise is not resolved yet holds no lane.
JoiningIsDone == \A c \in joining :
                   outcome[c] # "unseen" /\ ~Runs(c) /\ ~Queued(c)

\* shutdown() seals the queue, waits for every item in flight and knows the
\* retries it cancelled.
ShutdownKnows ==
  /\ shuttingDown <=> shutdown \notin {"none", "migration"}
  /\ shuttingDown =>
       /\ \A l \in Lanes : current[l] # NoCall => current[l] \in shutdownJoin
       /\ retryTimers # {} => retained
  /\ \A c \in Calls : outcome[c] = "abandoned" => shuttingDown

\* A migration is tainted when the queue was shut down before.
MigrationKnows ==
  /\ migration.settled => migration.sealed
  /\ migration.sealed /\ shuttingDown => migration.failed

VerdictInv == PlaceInv /\ JoiningIsDone /\ ShutdownKnows /\ MigrationKnows
              /\ HonestVerdicts


\* When nothing is running, pending or in back-off, nothing is unfinished.
LEMMA NothingLeft ==
  ASSUME PlaceInv, retryTimers = {},
         \A l \in Lanes : current[l] = NoCall /\ pending[l] = <<>>
  PROVE  \A c \in Calls : outcome[c] # "accepted"
<1> USE ConstantsAssumption DEF ConstantsAssumption
<1>1. ASSUME NEW c \in Calls PROVE ~Waits(c) /\ ~Runs(c) /\ ~Queued(c)
  <2>1. current[LaneOf[c]] = NoCall /\ pending[LaneOf[c]] = <<>> /\ c # NoCall
    OBVIOUS
  <2>2. QED BY <2>1 DEF Waits, Runs, Queued
<1>2. QED BY <1>1 DEF PlaceInv, OpenHasPlace

\* What the completion of an item changes for the verdicts.
LEMMA CompletionFacts ==
  ASSUME PlaceInv, NEW c \in Calls, Succeed(c) \/ Fail(c)
  PROVE  /\ c \in executing /\ AdvanceLane(LaneOf[c])
         /\ executing' = executing \ {c} /\ joining' = joining \cup {c}
         /\ UNCHANGED stopVars
         /\ outcome'[c] # "unseen" /\ \A d \in Calls \ {c} : outcome'[d] = outcome[d]
         /\ outcome[c] = "accepted"
         /\ outcome'[c] = "abandoned" => shuttingDown
         /\ shuttingDown => retryTimers' = retryTimers
         /\ \A l \in Lanes : shuttingDown /\ current'[l] # NoCall =>
              current'[l] = current[l]
<1> USE ConstantsAssumption DEF ConstantsAssumption, PlaceInv, LaneInv, TypeOK
<1>1. /\ c \in executing /\ AdvanceLane(LaneOf[c])
      /\ executing' = executing \ {c} /\ joining' = joining \cup {c}
      /\ UNCHANGED stopVars
  BY DEF Succeed, Fail
<1>2. outcome[c] = "accepted"
  BY <1>1 DEF InFlightIsCurrent, Active, OpenHasPlace, Runs
<1>3. /\ outcome'[c] # "unseen" /\ \A d \in Calls \ {c} : outcome'[d] = outcome[d]
      /\ outcome'[c] = "abandoned" => shuttingDown
      /\ shuttingDown => retryTimers' = retryTimers
  <2>1. CASE Succeed(c)
    BY <2>1 DEF Succeed, retryVars
  <2>2. CASE Fail(c)
    BY <1>2, <2>2 DEF Fail, RetryOrGiveUp, ShouldRetry, retryVars
  <2>3. QED BY <2>1, <2>2
<1>4. \A l \in Lanes : shuttingDown /\ current'[l] # NoCall =>
        current'[l] = current[l]
  BY <1>1 DEF AdvanceLane, FreeLane
<1>5. QED BY <1>1, <1>2, <1>3, <1>4

\* The new queue has given no verdict.
LEMMA VerdictInvInit == Init => VerdictInv
<1> SUFFICES ASSUME Init PROVE VerdictInv
  OBVIOUS
<1>1. PlaceInv
  BY PlaceInvInit
<1>2. JoiningIsDone /\ ShutdownKnows /\ MigrationKnows /\ HonestVerdicts
  BY DEF Init, JoiningIsDone, ShutdownKnows, MigrationKnows, HonestVerdicts
<1>3. QED BY <1>1, <1>2 DEF VerdictInv

\* A finished item keeps out of the lanes until its promise is resolved.
LEMMA JoiningStep == VerdictInv /\ [Next]_vars => JoiningIsDone'
<1> SUFFICES ASSUME VerdictInv, [Next]_vars PROVE JoiningIsDone'
  OBVIOUS
<1>0. PlaceInv /\ TypeOK /\ JoiningIsDone
  BY DEF VerdictInv, PlaceInv, LaneInv
<1>1. ASSUME NEW c \in Calls, Enqueue(c) PROVE JoiningIsDone'
  <2>1. /\ Dispatch(LaneOf[c], c) /\ outcome[c] = "unseen"
        /\ executing' = executing /\ shuttingDown' = shuttingDown
        /\ outcome' = [outcome EXCEPT ![c] = "accepted"]
        /\ joining' = joining
    BY <1>1 DEF Enqueue, stopVars
  <2>2. ~Runs(c) /\ ~Queued(c)
    BY <1>0, <2>1 DEF PlaceInv, OpenHasPlace
  <2>3. \A d \in Calls \ {c} : (Runs(d)' <=> Runs(d)) /\ (Queued(d)' <=> Queued(d))
    BY <1>0, <2>1, <2>2, DispatchPlaces
  <2>4. QED BY <1>0, <2>1, <2>3 DEF JoiningIsDone, TypeOK
<1>2. ASSUME NEW c \in Calls, Succeed(c) \/ Fail(c) PROVE JoiningIsDone'
  <2>1. /\ c \in executing /\ AdvanceLane(LaneOf[c])
        /\ executing' = executing \ {c} /\ shuttingDown' = shuttingDown
        /\ joining' = joining \cup {c} /\ outcome'[c] # "unseen"
        /\ \A d \in Calls \ {c} : outcome'[d] = outcome[d]
    BY <1>0, <1>2, CompletionFacts DEF stopVars
  <2>2. /\ ~Runs(c)' /\ ~Queued(c)'
        /\ \A d \in Calls \ {c} : Runs(d)' \/ Queued(d)' <=> Runs(d) \/ Queued(d)
    BY <1>0, <2>1, AdvancePlaces
  <2>3. QED BY <1>0, <2>1, <2>2 DEF JoiningIsDone, TypeOK
<1>3. ASSUME NEW c \in Calls, RetryFire(c) PROVE JoiningIsDone'
  BY <1>3 DEF RetryFire, JoiningIsDone
<1>4. ASSUME NEW c \in Calls, StartupTick(c) \/ SettlePromise(c)
      PROVE  JoiningIsDone'
  BY <1>0, <1>4 DEF StartupTick, SettlePromise, JoiningIsDone, Runs, Queued,
     laneVars
<1>5. CASE SealAndDrain \/ Release \/ Shutdown \/ ShutdownJoined
           \/ ShutdownTimeout \/ UNCHANGED vars
  BY <1>0, <1>5 DEF SealAndDrain, Release, Shutdown, ShutdownJoined,
     ShutdownTimeout, vars, JoiningIsDone, Runs, Queued, laneVars, runVars
<1>6. QED BY <1>1, <1>2, <1>3, <1>4, <1>5 DEF Next

\* shutdown() keeps waiting for whatever is in flight, and a migration that
\* was sealed during a shutdown stays tainted.
LEMMA KnowsStep ==
  VerdictInv /\ [Next]_vars => ShutdownKnows' /\ MigrationKnows'
<1> SUFFICES ASSUME VerdictInv, [Next]_vars
             PROVE  ShutdownKnows' /\ MigrationKnows'
  OBVIOUS
<1> USE ConstantsAssumption DEF ConstantsAssumption
<1>0. PlaceInv /\ TypeOK /\ JoiningIsDone /\ ShutdownKnows /\ MigrationKnows
  BY DEF VerdictInv, PlaceInv, LaneInv
<1>1. ASSUME NEW c \in Calls, Enqueue(c) \/ RetryFire(c)
      PROVE  ShutdownKnows' /\ MigrationKnows'
  <2>1. /\ ~shuttingDown /\ UNCHANGED <<stopVars, migration>>
        /\ \A d \in Calls : outcome'[d] = "abandoned" => outcome[d] = "abandoned"
    BY <1>0, <1>1 DEF Enqueue, RetryFire, TypeOK
  <2>2. QED BY <1>0, <2>1 DEF ShutdownKnows, MigrationKnows, stopVars
<1>2. ASSUME NEW c \in Calls, Succeed(c) \/ Fail(c)
      PROVE  ShutdownKnows' /\ MigrationKnows'
  <2>1. /\ UNCHANGED stopVars
        /\ \A d \in Calls \ {c} : outcome'[d] = outcome[d]
        /\ outcome'[c] = "abandoned" => shuttingDown
        /\ shuttingDown => retryTimers' = retryTimers
        /\ \A l \in Lanes : shuttingDown /\ current'[l] # NoCall =>
             current'[l] = current[l]
    BY <1>0, <1>2, CompletionFacts
  <2>2. ShutdownKnows'
    BY <1>0, <2>1 DEF ShutdownKnows, stopVars
  <2>3. PICK m \in MigrationStates : m = migration'
    BY <1>0, <1>2 DEF Succeed, Fail, TypeOK, MigrationStates
  <2>4. /\ m.sealed = migration.sealed /\ m.settled = migration.settled
        /\ migration.failed => m.failed
    BY <1>0, <1>2, <2>3 DEF Succeed, Fail, TypeOK, MigrationStates
  <2>5. QED BY <1>0, <2>1, <2>2, <2>3, <2>4 DEF MigrationKnows, stopVars
<1>3. ASSUME NEW c \in Calls, SettlePromise(c)
      PROVE  ShutdownKnows' /\ MigrationKnows'
  <2>1. \A l \in Lanes : current[l] # c
    BY <1>0, <1>3 DEF SettlePromise, JoiningIsDone, PlaceInv, CurrentAtHome, Runs
  <2>2. ShutdownKnows'
    BY <1>0, <1>3, <2>1
    DEF SettlePromise, ShutdownKnows, laneVars, retryVars
  <2>3. /\ migration'.sealed = migration.sealed
        /\ migration'.failed = migration.failed
        /\ migration'.settled => migration.settled \/ migration.sealed
    BY <1>0, <1>3 DEF SettlePromise, TypeOK, MigrationStates
  <2>4. QED BY <1>0, <1>3, <2>2, <2>3 DEF SettlePromise, MigrationKnows
<1>4. ASSUME NEW c \in Calls, StartupTick(c)
      PROVE  ShutdownKnows' /\ MigrationKnows'
  BY <1>0, <1>4 DEF StartupTick, ShutdownKnows, MigrationKnows, laneVars,
     retryVars, stopVars
<1>5. CASE SealAndDrain \/ Release
  <2>1. ShutdownKnows'
    BY <1>0, <1>5 DEF SealAndDrain, Release, ShutdownKnows, laneVars, retryVars,
       stopVars
  <2>2. CASE SealAndDrain
    <3>1. /\ migration'.sealed = TRUE /\ migration'.failed = shuttingDown
          /\ shuttingDown' = shuttingDown
      BY <2>2 DEF SealAndDrain, stopVars
    <3>2. QED BY <2>1, <3>1 DEF MigrationKnows
  <2>3. CASE Release
    <3>1. /\ migration'.sealed = migration.sealed
          /\ migration'.settled = migration.settled
          /\ migration'.failed = migration.failed /\ shuttingDown' = shuttingDown
      BY <1>0, <2>3 DEF Release, stopVars, TypeOK, MigrationStates
    <3>2. QED BY <1>0, <2>1, <3>1 DEF MigrationKnows
  <2>4. QED BY <1>5, <2>2, <2>3
<1>6. CASE Shutdown
  <2>1. CASE migration.sealed
    <3>1. /\ shutdown = "none" /\ shutdown' = "migration"
          /\ UNCHANGED <<shuttingDown, retained, shutdownJoin, laneVars,
                         retryVars, outcome, migration>>
      BY <1>6, <2>1 DEF Shutdown
    <3>2. QED
      BY <1>0, <3>1 DEF ShutdownKnows, MigrationKnows, laneVars, retryVars
  <2>2. CASE ~migration.sealed
    <3>1. /\ shuttingDown' = TRUE /\ retained' = (retryTimers # {})
          /\ shutdownJoin' = {current[l] : l \in Lanes} \ {NoCall}
          /\ shutdown' \in {"joining", "resolved", "incomplete"}
          /\ UNCHANGED <<laneVars, retryVars, outcome, migration>>
      BY <1>6, <2>2 DEF Shutdown, JoinVerdict
    <3>2. QED
      BY <1>0, <2>2, <3>1 DEF ShutdownKnows, MigrationKnows, laneVars, retryVars
  <2>3. QED BY <2>1, <2>2
<1>7. CASE ShutdownJoined \/ ShutdownTimeout
  BY <1>0, <1>7 DEF ShutdownJoined, ShutdownTimeout, JoinVerdict, ShutdownKnows,
     MigrationKnows, laneVars, retryVars
<1>8. CASE UNCHANGED vars
  BY <1>0, <1>8 DEF vars, ShutdownKnows, MigrationKnows, laneVars, retryVars,
     stopVars
<1>9. QED BY <1>1, <1>2, <1>3, <1>4, <1>5, <1>6, <1>7, <1>8 DEF Next

\* A step other than a new call brings nothing back into the queue.
LEMMA NothingComesBack ==
  ASSUME PlaceInv, [Next]_vars, NEW c \in Calls, ~Enqueue(c),
         outcome[c] # "accepted"
  PROVE  outcome'[c] = outcome[c]
<1> USE ConstantsAssumption DEF ConstantsAssumption
<1>0. TypeOK
  BY DEF PlaceInv, LaneInv
<1>1. ASSUME NEW d \in Calls, Enqueue(d) PROVE outcome'[c] = outcome[c]
  BY <1>0, <1>1 DEF Enqueue, TypeOK
<1>2. ASSUME NEW d \in Calls, Succeed(d) \/ Fail(d) PROVE outcome'[c] = outcome[c]
  BY <1>2, CompletionFacts
<1>3. ASSUME NEW d \in Calls, StartupTick(d) \/ SettlePromise(d) \/ RetryFire(d)
      PROVE  outcome'[c] = outcome[c]
  BY <1>3 DEF StartupTick, SettlePromise, RetryFire
<1>4. CASE SealAndDrain \/ Release \/ Shutdown \/ ShutdownJoined
           \/ ShutdownTimeout \/ UNCHANGED vars
  BY <1>4 DEF SealAndDrain, Release, Shutdown, ShutdownJoined, ShutdownTimeout,
     vars
<1>5. QED BY <1>1, <1>2, <1>3, <1>4 DEF Next

\* A shutdown resolves, and a migration settles untainted, only when nothing
\* is left.
LEMMA VerdictsStep == VerdictInv /\ [Next]_vars => HonestVerdicts'
<1> SUFFICES ASSUME VerdictInv, [Next]_vars PROVE HonestVerdicts'
  OBVIOUS
<1> USE ConstantsAssumption DEF ConstantsAssumption
<1>0. /\ PlaceInv /\ TypeOK /\ ShutdownKnows /\ MigrationKnows /\ HonestVerdicts
      /\ PlaceInv' /\ ShutdownKnows' /\ MigrationKnows'
  BY PlaceInvStep, KnowsStep DEF VerdictInv, PlaceInv, LaneInv
<1>1. ASSUME shutdown' = "resolved" PROVE \A c \in Calls : outcome'[c] # "accepted"
  <2>1. CASE shutdown = "resolved"
    <3>1. shuttingDown /\ \A c \in Calls : ~Enqueue(c)
      BY <1>0, <2>1 DEF ShutdownKnows, Enqueue
    <3>2. QED
      BY <1>0, <2>1, <3>1, NothingComesBack DEF HonestVerdicts
  <2>2. CASE shutdown # "resolved"
    <3>1. (Shutdown /\ ~migration.sealed) \/ ShutdownJoined
      BY <1>1, <2>2 DEF Next, vars, stopVars, Enqueue, StartupTick, Succeed, Fail,
         SettlePromise, RetryFire, SealAndDrain, Release, Shutdown,
         ShutdownTimeout
    <3>2. /\ UNCHANGED <<laneVars, retryVars, outcome>> /\ shuttingDown'
          /\ shutdownJoin' = {} /\ ~retained'
          /\ \A l \in Lanes : pending[l] = <<>>
      <4>1. CASE Shutdown /\ ~migration.sealed
        BY <1>1, <4>1 DEF Shutdown, JoinVerdict
      <4>2. CASE ShutdownJoined
        BY <1>0, <1>1, <4>2 DEF ShutdownJoined, JoinVerdict, ShutdownKnows
      <4>3. QED BY <3>1, <4>1, <4>2
    <3>3. /\ retryTimers = {}
          /\ \A l \in Lanes : current[l] = NoCall /\ pending[l] = <<>>
      BY <1>0, <3>2 DEF ShutdownKnows, laneVars, retryVars
    <3>4. QED BY <1>0, <3>2, <3>3, NothingLeft
  <2>3. QED BY <2>1, <2>2
<1>2. ASSUME migration'.settled, ~migration'.failed
      PROVE  \A c \in Calls : outcome'[c] \notin {"accepted", "abandoned"}
  <2>0. \A c \in Calls : outcome'[c] # "abandoned"
    BY <1>0, <1>2 DEF ShutdownKnows, MigrationKnows
  <2>1. CASE migration.settled /\ ~migration.failed
    <3>1. \A c \in Calls : ~Enqueue(c)
      BY <1>0, <2>1 DEF MigrationKnows, Enqueue
    <3>2. QED
      BY <1>0, <2>0, <2>1, <3>1, NothingComesBack DEF HonestVerdicts
  <2>2. CASE ~(migration.settled /\ ~migration.failed)
    <3>1. SealAndDrain \/ \E c \in Calls : SettlePromise(c)
      <4>1. ASSUME NEW c \in Calls, Fail(c)
            PROVE  FALSE
        <5>1. /\ migration'.settled = migration.settled
              /\ migration'.failed = (migration.failed \/ migration.sealed)
          BY <1>0, <4>1 DEF Fail, TypeOK, MigrationStates
        <5>2. QED BY <1>2, <2>2, <5>1
      <4>2. ASSUME Release
            PROVE  FALSE
        <5>1. /\ migration'.settled = migration.settled
              /\ migration'.failed = migration.failed
          BY <1>0, <4>2 DEF Release, TypeOK, MigrationStates
        <5>2. QED BY <1>2, <2>2, <5>1
      <4>3. migration' # migration
        BY <1>2, <2>2
      <4>4. QED
        BY <4>1, <4>2, <4>3 DEF Next, vars, Enqueue, StartupTick, Succeed,
           RetryFire, Shutdown, ShutdownJoined, ShutdownTimeout
    <3>2. UNCHANGED <<laneVars, retryVars, outcome>> /\ IsDrained
      <4>1. CASE SealAndDrain
        <5>1. /\ migration'.settled = (shuttingDown \/ IsDrained)
              /\ migration'.failed = shuttingDown
          BY <4>1 DEF SealAndDrain
        <5>2. QED BY <1>2, <4>1, <5>1 DEF SealAndDrain
      <4>2. ASSUME NEW c \in Calls, SettlePromise(c)
            PROVE  UNCHANGED <<laneVars, retryVars, outcome>> /\ IsDrained
        <5>1. /\ migration'.settled =
                   (migration.settled \/ (migration.sealed /\ IsDrained))
              /\ migration'.failed = migration.failed
          BY <1>0, <4>2 DEF SettlePromise, TypeOK, MigrationStates
        <5>2. QED BY <1>2, <2>2, <4>2, <5>1 DEF SettlePromise
      <4>3. QED BY <3>1, <4>1, <4>2
    <3>3. \A c \in Calls : outcome[c] # "accepted"
      BY <1>0, <3>2, NothingLeft DEF IsDrained
    <3>4. QED BY <2>0, <3>2, <3>3
  <2>3. QED BY <2>1, <2>2
<1>3. QED BY <1>1, <1>2 DEF HonestVerdicts

\* The verdict invariant holds in every behaviour.
THEOREM VerdictInvariant == Spec => []VerdictInv
<1>1. VerdictInv /\ [Next]_vars => VerdictInv'
  BY PlaceInvStep, JoiningStep, KnowsStep, VerdictsStep DEF VerdictInv
<1>2. QED BY <1>1, VerdictInvInit, PTL DEF Spec

\* A shutdown that resolved and a migration that settled untainted leave
\* nothing accepted behind (joinShutdown and sealAndDrain).
THEOREM HonestTheorem == Spec => []HonestVerdicts
<1>1. VerdictInv => HonestVerdicts
  BY DEF VerdictInv
<1>2. QED BY <1>1, VerdictInvariant, PTL
-----------------------------------------------------------------------------
(* Acceptance order.                                                       *)

\* A call is accepted once.
ArrivedOnce ==
  /\ \A i \in DOMAIN arrival : outcome[arrival[i]] # "unseen"
  /\ \A i, j \in DOMAIN arrival : arrival[i] = arrival[j] => i = j

\* A call that was never started is not executing and not in back-off, and it
\* did not end.
FreshIsOpen ==
  /\ \A c \in started : outcome[c] # "unseen"
  /\ executing \subseteq started
  /\ retryTimers \subseteq started
  /\ \A c \in Calls : outcome[c] \notin {"unseen", "accepted"} => c \in started

\* Call d has not started and will not start before c.
Behind(c, d) ==
  /\ d \notin started
  /\ ~Runs(d)
  /\ \A p, q \in DOMAIN pending[LaneOf[d]] :
       pending[LaneOf[d]][p] = d /\ pending[LaneOf[d]][q] = c => q < p

\* Behind a call that was never started wait all later ones of its lane.
FreshInOrder ==
  \A i, j \in DOMAIN arrival :
    /\ i < j /\ LaneOf[arrival[i]] = LaneOf[arrival[j]]
    /\ arrival[i] \notin started
    => Behind(arrival[i], arrival[j])

ArrivalInv == PlaceInv /\ ArrivedOnce /\ FreshIsOpen /\ FreshInOrder

\* A call that was never started holds its lane or is pending in it.
LEMMA FreshPlaces ==
  ASSUME PlaceInv, FreshIsOpen, NEW a \in Calls, a \notin started,
         outcome[a] # "unseen"
  PROVE  /\ outcome[a] = "accepted" /\ a \notin executing
         /\ Runs(a) \/ Queued(a)
BY DEF FreshIsOpen, PlaceInv, OpenHasPlace, Waits

\* Dispatching another item keeps the order of two calls.
LEMMA DispatchOrder ==
  ASSUME PlaceInv, NEW c \in Calls, Dispatch(LaneOf[c], c),
         ~Runs(c), ~Queued(c),
         executing' = executing, shuttingDown' = shuttingDown,
         started' = started,
         NEW a \in Calls \ {c}, NEW b \in Calls \ {c}, LaneOf[a] = LaneOf[b],
         Behind(a, b)
  PROVE  Behind(a, b)'
<1> USE ConstantsAssumption DEF ConstantsAssumption, PlaceInv, LaneInv, TypeOK
<1>1. ~Runs(b)'
  BY DispatchPlaces DEF Behind
<1>2. ASSUME NEW p \in DOMAIN pending'[LaneOf[b]],
             NEW q \in DOMAIN pending'[LaneOf[b]],
             pending'[LaneOf[b]][p] = b, pending'[LaneOf[b]][q] = a
      PROVE  q < p
  <2>1. pending[LaneOf[b]] \in Seq(Calls) /\ LaneOf[b] \in Lanes
    OBVIOUS
  <2>2. \/ pending'[LaneOf[b]] = pending[LaneOf[b]]
        \/ pending'[LaneOf[b]] = Append(pending[LaneOf[b]], c)
    BY <2>1 DEF Dispatch
  <2>3. /\ p \in DOMAIN pending[LaneOf[b]] /\ q \in DOMAIN pending[LaneOf[b]]
        /\ pending[LaneOf[b]][p] = b /\ pending[LaneOf[b]][q] = a
    <3>1. CASE pending'[LaneOf[b]] = pending[LaneOf[b]]
      BY <1>2, <3>1
    <3>2. CASE pending'[LaneOf[b]] = Append(pending[LaneOf[b]], c)
      <4>1. \A k \in DOMAIN pending'[LaneOf[b]] :
              \/ k \in DOMAIN pending[LaneOf[b]]
                 /\ pending'[LaneOf[b]][k] = pending[LaneOf[b]][k]
              \/ pending'[LaneOf[b]][k] = c
        BY <2>1, <3>2
      <4>2. QED BY <1>2, <4>1
    <3>3. QED BY <2>2, <3>1, <3>2
  <2>4. QED BY <2>3 DEF Behind
<1>3. QED BY <1>1, <1>2 DEF Behind

\* The finishing item makes room for the head of pending, so it keeps the
\* order of two calls.
LEMMA AdvanceOrder ==
  ASSUME PlaceInv, FreshIsOpen, NEW c \in executing, AdvanceLane(LaneOf[c]),
         executing' = executing \ {c}, shuttingDown' = shuttingDown,
         started' = started,
         NEW a \in Calls, NEW b \in Calls, LaneOf[a] = LaneOf[b],
         a \notin started, outcome[a] # "unseen", Behind(a, b)
  PROVE  Behind(a, b)'
<1> USE ConstantsAssumption DEF ConstantsAssumption, PlaceInv, LaneInv, TypeOK
<1> DEFINE l == LaneOf[b]
<1>1. /\ l \in Lanes /\ pending[l] \in Seq(Calls) /\ LaneOf[c] \in Lanes
      /\ current[LaneOf[c]] = c /\ c # a /\ c # b
  BY DEF InFlightIsCurrent, Active, FreshIsOpen, Behind
<1>2. Runs(a) \/ Queued(a)
  BY FreshPlaces
<1>3. CASE LaneOf[c] = l /\ pending[l] # <<>> /\ ~shuttingDown
  <2>1. current'[l] = Head(pending[l]) /\ pending'[l] = Tail(pending[l])
    BY <1>1, <1>3 DEF AdvanceLane, RunItem
  <2>2. /\ 1 \in DOMAIN pending[l] /\ Head(pending[l]) = pending[l][1]
        /\ DOMAIN pending'[l] = 1..(Len(pending[l]) - 1)
        /\ \A i \in DOMAIN pending'[l] : pending'[l][i] = pending[l][i + 1]
        /\ DOMAIN pending[l] = 1..Len(pending[l]) /\ Len(pending[l]) \in Nat
    BY <1>1, <1>3, <2>1
  <2>3. PICK q \in DOMAIN pending[l] : pending[l][q] = a
    BY <1>1, <1>2, <1>3 DEF Runs, Queued
  <2>4. ~Runs(b)'
    <3>1. SUFFICES ASSUME pending[l][1] = b PROVE FALSE
      BY <2>1, <2>2 DEF Runs
    <3>2. q < 1
      BY <2>2, <2>3, <3>1 DEF Behind
    <3>3. QED BY <2>2, <2>3, <3>2
  <2>5. ASSUME NEW p \in DOMAIN pending'[l], NEW r \in DOMAIN pending'[l],
               pending'[l][p] = b, pending'[l][r] = a
        PROVE  r < p
    <3>0. PICK n \in Nat : n = Len(pending[l])
      BY <2>2
    <3>1. /\ p \in Nat /\ r \in Nat
          /\ p + 1 \in DOMAIN pending[l] /\ r + 1 \in DOMAIN pending[l]
      <4>1. DOMAIN pending[l] = 1..n /\ DOMAIN pending'[l] = 1..(n - 1)
        BY <2>2, <3>0
      <4>2. p \in 1..(n - 1) /\ r \in 1..(n - 1)
        BY <4>1
      <4>3. p + 1 \in 1..n /\ r + 1 \in 1..n
        BY <4>2
      <4>4. QED BY <4>1, <4>2, <4>3
    <3>2. pending[l][p + 1] = b /\ pending[l][r + 1] = a
      BY <2>2, <2>5
    <3>3. r + 1 < p + 1
      BY <3>1, <3>2 DEF Behind
    <3>4. QED BY <3>1, <3>3
  <2>6. QED BY <2>4, <2>5 DEF Behind
<1>4. CASE ~(LaneOf[c] = l /\ pending[l] # <<>> /\ ~shuttingDown)
  <2>1. pending'[l] = pending[l] /\ current'[l] \in {current[l], NoCall}
    BY <1>1, <1>4 DEF AdvanceLane, RunItem, FreeLane
  <2>2. QED BY <2>1 DEF Behind, Runs
<1>5. QED BY <1>3, <1>4

\* A new call starts at once only in a lane where nothing waits.
LEMMA NewestBehind ==
  ASSUME PlaceInv, FreshIsOpen, NEW c \in Calls, Dispatch(LaneOf[c], c),
         ~Runs(c), ~Queued(c), outcome[c] = "unseen",
         ~shuttingDown, started' = started,
         NEW a \in Calls, LaneOf[a] = LaneOf[c], a \notin started,
         outcome[a] # "unseen"
  PROVE  Behind(a, c)'
<1> USE ConstantsAssumption DEF ConstantsAssumption, PlaceInv, LaneInv, TypeOK
<1> DEFINE l == LaneOf[c]
<1>1. l \in Lanes /\ pending[l] \in Seq(Calls) /\ a # c /\ a # NoCall
  OBVIOUS
<1>2. Runs(a) \/ Queued(a)
  BY FreshPlaces
<1>3. current[l] # NoCall
  BY <1>1, <1>2 DEF Runs, Queued, NoStrandedLane
<1>4. current'[l] = current[l] /\ pending'[l] = Append(pending[l], c)
  BY <1>1, <1>3 DEF Dispatch
<1>5. ~Runs(c)'
  BY <1>4 DEF Runs
<1>6. /\ Len(pending[l]) \in Nat /\ DOMAIN pending[l] = 1..Len(pending[l])
      /\ DOMAIN pending'[l] = 1..(Len(pending[l]) + 1)
      /\ \A i \in DOMAIN pending[l] : pending'[l][i] = pending[l][i]
      /\ pending'[l][Len(pending[l]) + 1] = c
  BY <1>1, <1>4
<1>7. \A p \in DOMAIN pending'[l] :
        p \in DOMAIN pending[l] \/ p = Len(pending[l]) + 1
  BY <1>6
<1>8. ASSUME NEW p \in DOMAIN pending'[l], NEW q \in DOMAIN pending'[l],
             pending'[l][p] = c, pending'[l][q] = a
      PROVE  q < p
  <2>1. p = Len(pending[l]) + 1
    BY <1>6, <1>7, <1>8 DEF Queued
  <2>2. q \in DOMAIN pending[l]
    BY <1>1, <1>6, <1>7, <1>8
  <2>3. QED BY <1>6, <2>1, <2>2
<1>9. c \notin started'
  BY DEF FreshIsOpen
<1>10. QED BY <1>5, <1>8, <1>9 DEF Behind

\* Only a new call enters the history of acceptance, and only a first start
\* the history of starts.
LEMMA HistoryStep ==
  ASSUME PlaceInv, [Next]_vars
  PROVE  /\ \/ UNCHANGED arrival
            \/ \E c \in Calls : Enqueue(c)
         /\ \/ UNCHANGED started
            \/ \E c \in Calls : StartupTick(c)
BY DEF Next, vars, history, Enqueue, StartupTick, Succeed, Fail, SettlePromise,
   RetryFire, SealAndDrain, Release, Shutdown, ShutdownJoined, ShutdownTimeout

\* No call becomes unseen again.
LEMMA SeenStays ==
  ASSUME PlaceInv, [Next]_vars, NEW c \in Calls, outcome[c] # "unseen"
  PROVE  outcome'[c] # "unseen"
<1>1. CASE outcome[c] # "accepted"
  BY <1>1, NothingComesBack DEF Enqueue
<1>2. ASSUME outcome[c] = "accepted" PROVE outcome'[c] # "unseen"
  <2>0. TypeOK
    BY DEF PlaceInv, LaneInv
  <2>1. ASSUME NEW d \in Calls, Succeed(d) \/ Fail(d) PROVE outcome'[c] # "unseen"
    BY <1>2, <2>1, CompletionFacts
  <2>2. ASSUME NEW d \in Calls, Enqueue(d) PROVE outcome'[c] # "unseen"
    BY <1>2, <2>0, <2>2 DEF Enqueue, TypeOK
  <2>3. QED
    BY <1>2, <2>1, <2>2 DEF Next, vars, StartupTick, SettlePromise, RetryFire,
       SealAndDrain, Release, Shutdown, ShutdownJoined, ShutdownTimeout
<1>3. QED BY <1>1, <1>2

\* A call that was never started does not leave its place unstarted.
LEMMA FreshStep == ArrivalInv /\ [Next]_vars => FreshIsOpen'
<1> SUFFICES ASSUME ArrivalInv, [Next]_vars PROVE FreshIsOpen'
  OBVIOUS
<1>0. PlaceInv /\ TypeOK /\ FreshIsOpen
  BY DEF ArrivalInv, PlaceInv, LaneInv
<1>1. ASSUME NEW c \in Calls, Enqueue(c) PROVE FreshIsOpen'
  <2>1. /\ UNCHANGED <<executing, retryTimers, started>>
        /\ outcome'[c] = "accepted"
        /\ \A d \in Calls \ {c} : outcome'[d] = outcome[d]
    BY <1>0, <1>1 DEF Enqueue, TypeOK, retryVars
  <2>2. QED BY <1>0, <2>1 DEF FreshIsOpen, TypeOK
<1>2. ASSUME NEW c \in Calls, StartupTick(c) PROVE FreshIsOpen'
  <2>1. c \in startup /\ UNCHANGED <<retryTimers, outcome>>
        /\ executing' = executing \cup {c} /\ started' = started \cup {c}
    BY <1>2 DEF StartupTick, retryVars
  <2>2. outcome[c] # "unseen"
    BY <1>0, <2>1 DEF PlaceInv, LaneInv, InFlightIsCurrent, Active, OpenHasPlace,
       Runs
  <2>3. QED BY <1>0, <2>1, <2>2 DEF FreshIsOpen
<1>3. ASSUME NEW c \in Calls, Succeed(c) \/ Fail(c) PROVE FreshIsOpen'
  <2>1. /\ c \in executing /\ executing' = executing \ {c}
        /\ outcome'[c] # "unseen"
        /\ \A d \in Calls \ {c} : outcome'[d] = outcome[d]
    BY <1>0, <1>3, CompletionFacts
  <2>2. started' = started /\ retryTimers' \subseteq retryTimers \cup {c}
    BY <1>3 DEF Succeed, Fail, RetryOrGiveUp, retryVars, history
  <2>3. QED BY <1>0, <2>1, <2>2 DEF FreshIsOpen, TypeOK
<1>4. ASSUME NEW c \in Calls, SettlePromise(c) \/ RetryFire(c) PROVE FreshIsOpen'
  BY <1>0, <1>4 DEF SettlePromise, RetryFire, FreshIsOpen, retryVars, history
<1>5. CASE SealAndDrain \/ Release \/ Shutdown \/ ShutdownJoined
           \/ ShutdownTimeout \/ UNCHANGED vars
  BY <1>0, <1>5 DEF SealAndDrain, Release, Shutdown, ShutdownJoined,
     ShutdownTimeout, vars, FreshIsOpen, retryVars, runVars, history
<1>6. QED BY <1>1, <1>2, <1>3, <1>4, <1>5 DEF Next

\* The order of two accepted calls of a lane survives every step.
LEMMA BehindStep ==
  ASSUME ArrivalInv, [Next]_vars,
         NEW a \in Calls, NEW b \in Calls, LaneOf[a] = LaneOf[b],
         outcome[a] # "unseen", outcome[b] # "unseen",
         a \notin started', Behind(a, b)
  PROVE  Behind(a, b)'
<1>0. PlaceInv /\ FreshIsOpen /\ b \notin started
  BY DEF ArrivalInv, Behind
<1>1. ASSUME NEW c \in Calls, Enqueue(c) PROVE Behind(a, b)'
  <2>1. /\ Dispatch(LaneOf[c], c) /\ outcome[c] = "unseen"
        /\ executing' = executing /\ shuttingDown' = shuttingDown
        /\ started' = started
    BY <1>1 DEF Enqueue, stopVars
  <2>2. ~Runs(c) /\ ~Queued(c)
    BY <1>0, <2>1 DEF PlaceInv, OpenHasPlace
  <2>3. QED BY <1>0, <2>1, <2>2, DispatchOrder
<1>2. ASSUME NEW c \in Calls, RetryFire(c) PROVE Behind(a, b)'
  <2>1. /\ Dispatch(LaneOf[c], c) /\ c \in retryTimers
        /\ executing' = executing /\ shuttingDown' = shuttingDown
        /\ started' = started
    BY <1>2 DEF RetryFire, stopVars, history
  <2>2. c # a /\ c # b
    BY <1>0, <2>1 DEF FreshIsOpen
  <2>3. ~Runs(c) /\ ~Queued(c)
    BY <1>0, <2>1 DEF PlaceInv, OnePlace, Waits
  <2>4. QED BY <1>0, <2>1, <2>2, <2>3, DispatchOrder
<1>3. ASSUME NEW c \in Calls, Succeed(c) \/ Fail(c) PROVE Behind(a, b)'
  <2>1. /\ c \in executing /\ AdvanceLane(LaneOf[c])
        /\ executing' = executing \ {c} /\ shuttingDown' = shuttingDown
        /\ started' = started
    BY <1>0, <1>3, CompletionFacts DEF Succeed, Fail, stopVars, history
  <2>2. QED BY <1>0, <2>1, AdvanceOrder
<1>4. ASSUME NEW c \in Calls, StartupTick(c) PROVE Behind(a, b)'
  <2>1. /\ c \in startup /\ started' = started \cup {c}
        /\ UNCHANGED <<current, pending>>
    BY <1>4 DEF StartupTick, laneVars
  <2>2. c # b
    BY <1>0, <2>1 DEF PlaceInv, LaneInv, InFlightIsCurrent, Active, Behind, Runs
  <2>3. QED BY <2>1, <2>2 DEF Behind, Runs
<1>5. ASSUME NEW c \in Calls, SettlePromise(c) PROVE Behind(a, b)'
  BY <1>5 DEF SettlePromise, Behind, Runs, laneVars, history
<1>6. CASE SealAndDrain \/ Release \/ Shutdown \/ ShutdownJoined
           \/ ShutdownTimeout \/ UNCHANGED vars
  BY <1>6 DEF SealAndDrain, Release, Shutdown, ShutdownJoined, ShutdownTimeout,
     vars, Behind, Runs, laneVars, history
<1>7. QED BY <1>1, <1>2, <1>3, <1>4, <1>5, <1>6 DEF Next

\* Calls, timers and settlements keep the acceptance order of what waits.
LEMMA ArrivalInvStep == ArrivalInv /\ [Next]_vars => ArrivalInv'
<1> SUFFICES ASSUME ArrivalInv, [Next]_vars PROVE ArrivalInv'
  OBVIOUS
<1>0. PlaceInv /\ TypeOK /\ ArrivedOnce /\ FreshIsOpen /\ FreshInOrder
  BY DEF ArrivalInv, PlaceInv, LaneInv
<1>1. PlaceInv' /\ FreshIsOpen'
  BY <1>0, PlaceInvStep, FreshStep
<1>2. started \subseteq started'
  BY <1>0, HistoryStep DEF StartupTick
<1>3. ArrivedOnce' /\ FreshInOrder'
  <2>1. CASE UNCHANGED arrival
    <3>1. \A i \in DOMAIN arrival : arrival[i] \in Calls
      BY <1>0 DEF TypeOK
    <3>2. ArrivedOnce'
      BY <1>0, <2>1, <3>1, SeenStays DEF ArrivedOnce
    <3>3. FreshInOrder'
      <4>1. SUFFICES ASSUME NEW i \in DOMAIN arrival, NEW j \in DOMAIN arrival,
                            i < j, LaneOf[arrival[i]] = LaneOf[arrival[j]],
                            arrival[i] \notin started'
                     PROVE  Behind(arrival[i], arrival[j])'
        BY <2>1 DEF FreshInOrder
      <4>2. PICK a \in Calls : a = arrival[i] /\ a = arrival'[i]
        BY <2>1, <3>1
      <4>3. PICK b \in Calls : b = arrival[j] /\ b = arrival'[j]
        BY <2>1, <3>1
      <4>4. Behind(a, b)
        BY <1>0, <1>2, <4>1, <4>2, <4>3 DEF FreshInOrder
      <4>5. Behind(a, b)'
        BY <1>0, <4>1, <4>2, <4>3, <4>4, BehindStep DEF ArrivedOnce
      <4>6. QED BY <4>2, <4>3, <4>5 DEF Behind, Runs
    <3>4. QED BY <3>2, <3>3
  <2>2. ASSUME NEW c \in Calls, Enqueue(c) PROVE ArrivedOnce' /\ FreshInOrder'
    <3>1. /\ Dispatch(LaneOf[c], c) /\ outcome[c] = "unseen" /\ ~shuttingDown
          /\ executing' = executing /\ shuttingDown' = shuttingDown
          /\ started' = started /\ arrival' = Append(arrival, c)
          /\ outcome'[c] = "accepted"
      BY <1>0, <2>2 DEF Enqueue, stopVars, TypeOK
    <3>2. /\ Len(arrival) \in Nat /\ DOMAIN arrival = 1..Len(arrival)
          /\ DOMAIN arrival' = 1..(Len(arrival) + 1)
          /\ \A i \in DOMAIN arrival :
               /\ arrival'[i] = arrival[i] /\ arrival[i] \in Calls
               /\ outcome[arrival[i]] # "unseen"
          /\ arrival'[Len(arrival) + 1] = c
      BY <1>0, <3>1 DEF TypeOK, ArrivedOnce
    <3>3. \A i \in DOMAIN arrival' : i \in DOMAIN arrival \/ i = Len(arrival) + 1
      BY <3>2
    <3>4. \A i \in DOMAIN arrival : arrival[i] # c
      BY <3>1, <3>2
    <3>5. ArrivedOnce'
      <4>1. \A i \in DOMAIN arrival' : outcome'[arrival'[i]] # "unseen"
        BY <1>0, <3>1, <3>2, <3>3, SeenStays
      <4>2. ASSUME NEW i \in DOMAIN arrival', NEW j \in DOMAIN arrival',
                   arrival'[i] = arrival'[j]
            PROVE  i = j
        <5>1. CASE i \in DOMAIN arrival /\ j \in DOMAIN arrival
          BY <1>0, <3>2, <4>2, <5>1 DEF ArrivedOnce
        <5>2. CASE i \notin DOMAIN arrival \/ j \notin DOMAIN arrival
          BY <3>2, <3>3, <3>4, <4>2, <5>2
        <5>3. QED BY <5>1, <5>2
      <4>3. QED BY <4>1, <4>2 DEF ArrivedOnce
    <3>6. ~Runs(c) /\ ~Queued(c)
      BY <1>0, <3>1 DEF PlaceInv, OpenHasPlace
    <3>7. FreshInOrder'
      <4>1. SUFFICES ASSUME NEW i \in DOMAIN arrival', NEW j \in DOMAIN arrival',
                            i < j, LaneOf[arrival'[i]] = LaneOf[arrival'[j]],
                            arrival'[i] \notin started'
                     PROVE  Behind(arrival[i], arrival[j])'
        BY DEF FreshInOrder
      <4>2. i \in DOMAIN arrival
        BY <3>2, <4>1
      <4>3. PICK a \in Calls : a = arrival[i] /\ a = arrival'[i]
        BY <3>2, <4>2
      <4>4. outcome[a] # "unseen" /\ a \notin started
        BY <1>2, <3>2, <4>1, <4>2, <4>3
      <4>5. PICK b \in Calls : b = arrival'[j]
        BY <3>2, <3>3
      <4>6. CASE j \in DOMAIN arrival
        <5>1. b = arrival[j] /\ outcome[b] # "unseen"
          BY <3>2, <4>5, <4>6
        <5>2. Behind(a, b)
          BY <1>0, <4>1, <4>2, <4>3, <4>4, <4>5, <4>6, <5>1 DEF FreshInOrder
        <5>3. Behind(a, b)'
          BY <4>1, <4>3, <4>4, <4>5, <5>1, <5>2, BehindStep
        <5>4. QED BY <4>3, <4>5, <5>3 DEF Behind, Runs
      <4>7. CASE j \notin DOMAIN arrival
        <5>1. b = c
          BY <3>2, <3>3, <4>5, <4>7
        <5>2. Behind(a, c)'
          BY <1>0, <3>1, <3>6, <4>1, <4>3, <4>4, <4>5, <5>1, NewestBehind
        <5>3. QED BY <4>3, <4>5, <5>1, <5>2 DEF Behind, Runs
      <4>8. QED BY <4>6, <4>7
    <3>8. QED BY <3>5, <3>7
  <2>3. QED BY <1>0, <2>1, <2>2, HistoryStep
<1>4. QED BY <1>1, <1>3 DEF ArrivalInv

\* The acceptance order holds in the new queue, and in every behaviour.
THEOREM ArrivalInvariant == Spec => []ArrivalInv
<1>1. Init => ArrivalInv
  <2> SUFFICES ASSUME Init PROVE ArrivalInv
    OBVIOUS
  <2>1. PlaceInv
    BY PlaceInvInit
  <2>2. DOMAIN arrival = {} /\ started = {} /\ executing = {} /\ retryTimers = {}
        /\ \A c \in Calls : outcome[c] = "unseen"
    BY DEF Init
  <2>3. QED BY <2>1, <2>2 DEF ArrivalInv, ArrivedOnce, FreshIsOpen, FreshInOrder
<1>2. QED BY <1>1, ArrivalInvStep, PTL DEF Spec

\* First attempts of one lane start in the order in which the calls were
\* accepted, whatever retries come between (enqueue and executeItem).
THEOREM LaneFIFOTheorem == Spec => []LaneFIFO
<1>1. ArrivalInv => LaneFIFO
  BY DEF ArrivalInv, FreshInOrder, Behind, LaneFIFO
<1>2. QED BY <1>1, ArrivalInvariant, PTL

-----------------------------------------------------------------------------
(* The queue implements the promise of SerialLanes.                        *)

\* The sets the promise speaks of.
Held == {c \in Calls : outcome[c] = "accepted"} \ executing
Ended == {c \in Calls : outcome[c] \notin {"unseen", "accepted"}}

\* Whatever is executing is unfinished.
LEMMA ExecutingIsOpen ==
  ASSUME PlaceInv, NEW c \in executing
  PROVE  c \in Calls /\ outcome[c] = "accepted"
BY DEF PlaceInv, LaneInv, TypeOK, InFlightIsCurrent, Active, OpenHasPlace, Runs

\* A step that leaves the promised state alone is a stutter of the promise.
LEMMA PromiseStutter ==
  ASSUME UNCHANGED <<outcome, executing, retries>>,
         (shuttingDown \/ migration.sealed)' = (shuttingDown \/ migration.sealed)
  PROVE  UNCHANGED Promise!vars
BY DEF Promise!vars

\* Every step of the queue is a step of the promise or a stutter.
LEMMA PromiseStep ==
  ASSUME PlaceInv, [Next]_vars
  PROVE  [Promise!Next]_(Promise!vars)
<1> USE ConstantsAssumption DEF ConstantsAssumption
<1>0. TypeOK /\ LaneInv /\ LaneSerial
  BY DEF PlaceInv, LaneInv, InFlightIsCurrent, LaneSerial
<1>1. ASSUME NEW c \in Calls, Enqueue(c) PROVE Promise!Accept(c)
  <2>1. /\ outcome[c] = "unseen" /\ ~migration.sealed /\ ~shuttingDown
        /\ outcome'[c] = "accepted"
        /\ \A d \in Calls \ {c} : outcome'[d] = outcome[d]
        /\ UNCHANGED <<executing, retries, shuttingDown, migration>>
    BY <1>0, <1>1 DEF Enqueue, TypeOK, retryVars, stopVars
  <2>2. \A d \in executing : d \in Calls /\ outcome[d] = "accepted"
    BY ExecutingIsOpen
  <2>3. IdOf[c] # NoId =>
          \A d \in Held \cup executing : IdOf[d] # IdOf[c]
    BY <1>1, <2>2, QueuedIdSeen DEF Enqueue, Held
  <2>4. Held' = Held \cup {c} /\ Ended' = Ended
    BY <2>1, <2>2 DEF Held, Ended
  <2>5. c \notin Held \cup executing \cup Ended
    BY <2>1, <2>2 DEF Held, Ended
  <2>6. QED BY <2>1, <2>3, <2>4, <2>5 DEF Promise!Accept, Held, Ended
<1>2. ASSUME NEW c \in Calls, StartupTick(c) PROVE Promise!Begin(c)
  <2>1. /\ c \in startup /\ executing' = executing \cup {c}
        /\ UNCHANGED <<outcome, retries, shuttingDown, migration>>
    BY <1>2 DEF StartupTick, retryVars, stopVars
  <2>2. outcome[c] = "accepted" /\ c \notin executing
    BY <1>0, <2>1 DEF PlaceInv, LaneInv, InFlightIsCurrent, Active, OpenHasPlace,
       Runs, StartupOnce
  <2>3. \A d \in executing : LaneOf[d] # LaneOf[c]
    BY <1>0, <2>1, <2>2 DEF LaneSerial, Active
  <2>4. c \in Held /\ Held' = Held \ {c} /\ Ended' = Ended
    BY <2>1, <2>2 DEF Held, Ended
  <2>5. QED BY <2>1, <2>3, <2>4 DEF Promise!Begin, Held, Ended
<1>3. ASSUME NEW c \in Calls, Succeed(c) \/ Fail(c)
      PROVE  Promise!End(c) \/ Promise!Rerun(c)
  <2>1. /\ c \in executing /\ executing' = executing \ {c}
        /\ outcome[c] = "accepted" /\ outcome'[c] # "unseen"
        /\ \A d \in Calls \ {c} : outcome'[d] = outcome[d]
        /\ shuttingDown' = shuttingDown
    BY <1>3, CompletionFacts DEF stopVars
  <2>2. migration'.sealed = migration.sealed
    BY <1>0, <1>3 DEF Succeed, Fail, TypeOK, MigrationStates
  <2>3. CASE Fail(c) /\ ShouldRetry(c)
    <3>1. /\ retries[c] < MaxRetries /\ outcome' = outcome
          /\ retries' = [retries EXCEPT ![c] = @ + 1]
      BY <2>3 DEF Fail, RetryOrGiveUp, ShouldRetry
    <3>2. Held' = Held \cup {c} /\ Ended' = Ended
      BY <2>1, <3>1 DEF Held, Ended
    <3>3. QED BY <2>1, <2>2, <3>1, <3>2 DEF Promise!Rerun, Held, Ended
  <2>4. CASE ~(Fail(c) /\ ShouldRetry(c))
    <3>1. outcome'[c] # "accepted" /\ retries' = retries
      BY <1>0, <1>3, <2>4
      DEF Succeed, Fail, RetryOrGiveUp, retryVars, TypeOK
    <3>2. Held' = Held /\ Ended' = Ended \cup {c}
      BY <2>1, <3>1 DEF Held, Ended
    <3>3. QED BY <2>1, <2>2, <3>1, <3>2 DEF Promise!End, Held, Ended
  <2>5. QED BY <2>3, <2>4
<1>4. ASSUME NEW c \in Calls, SettlePromise(c) \/ RetryFire(c)
      PROVE  UNCHANGED Promise!vars
  <2>1. /\ UNCHANGED <<outcome, executing, retries, shuttingDown>>
        /\ migration'.sealed = migration.sealed
    BY <1>0, <1>4 DEF SettlePromise, RetryFire, TypeOK, MigrationStates,
       retryVars, stopVars
  <2>2. QED BY <2>1, PromiseStutter
<1>5. CASE SealAndDrain
  <2>1. /\ migration'.sealed
        /\ UNCHANGED <<outcome, executing, retries>>
    BY <1>5 DEF SealAndDrain, retryVars, runVars
  <2>2. QED BY <2>1 DEF Promise!Next, Promise!Close
<1>6. CASE Release
  <2>1. /\ migration'.sealed = migration.sealed
        /\ UNCHANGED <<outcome, executing, retries, shuttingDown>>
    BY <1>0, <1>6 DEF Release, retryVars, runVars, stopVars, TypeOK,
       MigrationStates
  <2>2. QED BY <2>1, PromiseStutter
<1>7. CASE Shutdown
  <2>1. /\ shuttingDown' \/ migration'.sealed
        /\ UNCHANGED <<outcome, executing, retries>>
    BY <1>7 DEF Shutdown, retryVars, runVars
  <2>2. QED BY <2>1 DEF Promise!Next, Promise!Close
<1>8. CASE ShutdownJoined \/ ShutdownTimeout \/ UNCHANGED vars
  <2>1. UNCHANGED <<outcome, executing, retries, shuttingDown, migration>>
    BY <1>8 DEF ShutdownJoined, ShutdownTimeout, vars, retryVars, runVars,
       stopVars
  <2>2. QED BY <2>1, PromiseStutter
<1>9. QED
  BY <1>1, <1>2, <1>3, <1>4, <1>5, <1>6, <1>7, <1>8 DEF Next, Promise!Next

\* The queue keeps the promise it makes to its callers: lanes exclude, ids
\* are unique among unfinished calls, reruns are bounded, ended calls stay
\* ended and a closed queue accepts nothing.
THEOREM QueueImplementsPromise == Spec => ImplementsSerialLanes
<1>1. Init => Promise!Init
  BY DEF Init, Promise!Init
<1>2. PlaceInv /\ [Next]_vars => [Promise!Next]_(Promise!vars)
  BY PromiseStep
<1>3. QED
  BY <1>1, <1>2, PlaceInvariant, PTL
  DEF Spec, ImplementsSerialLanes, Promise!Spec
=============================================================================
