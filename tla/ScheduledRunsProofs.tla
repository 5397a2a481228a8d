------------------------- MODULE ScheduledRunsProofs -------------------------
(***************************************************************************)
(* Machine-checked facts about ScheduledRuns, for every set of tasks and    *)
(* chats, every assignment to lanes and every bound on slots, revisions,    *)
(* attempts and faults.                                                     *)
(***************************************************************************)
EXTENDS ScheduledRuns, TLAPS

\* The conjuncts of TypeOK by the table or part of the process they are about.
HeadRecords ==
  [status : TaskStates, revision : Revisions, next : Nat \cup {None}]
HeadTyped == head \in [Tasks -> HeadRecords]
RunRecords ==
  [state : RunStates, attempt : 0..MaxAttempts, live : BOOLEAN,
   result : Results, disposition : Dispositions, next : Nat \cup {None}]
RunTyped == run \in [Occurrences -> RunRecords]
SourceRecords ==
  [state : SourceStates, op : OpPhases, outcome : Outcomes, harness : BOOLEAN]
SourceTyped == source \in [Occurrences -> SourceRecords]
OwnerTyped == owner \in [Chats -> {Free, Foreign} \cup Occurrences]
ExecRecords ==
  [pc : Pcs, valid : BOOLEAN, fresh : BOOLEAN, sourced : BOOLEAN,
   result : Results]
ExecTyped == exec \in [Claims -> ExecRecords]
LaneTyped == lane \in [Lanes -> Seq(Claims)]

\* An authority names an attempt that another may follow.
AuthorityTyped == \A c \in authority : c \in Claims /\ AttemptOf(c) < MaxAttempts

\* The inductive invariant.
RunsInv == TypeOK /\ AuthorityTyped

\* TypeOK is the conjunction of its parts.
LEMMA Parts ==
  TypeOK <=> /\ HeadTyped /\ RunTyped /\ SourceTyped /\ OwnerTyped
             /\ ExecTyped /\ LaneTyped
             /\ authority \in SUBSET Claims /\ faults \in 0..MaxFaults
BY DEF TypeOK, HeadTyped, RunTyped, SourceTyped, OwnerTyped, ExecTyped, LaneTyped,
       HeadRecords, RunRecords, SourceRecords, ExecRecords

\* The same of the next state.
LEMMA PartsPrime ==
  TypeOK' <=> /\ HeadTyped' /\ RunTyped' /\ SourceTyped' /\ OwnerTyped'
              /\ ExecTyped' /\ LaneTyped'
              /\ authority' \in SUBSET Claims /\ faults' \in 0..MaxFaults
BY DEF TypeOK, HeadTyped, RunTyped, SourceTyped, OwnerTyped, ExecTyped, LaneTyped,
       HeadRecords, RunRecords, SourceRecords, ExecRecords

\* The parts of an occurrence and of a claim.
LEMMA OccurrenceParts ==
  ASSUME NEW o \in Occurrences
  PROVE  /\ TaskOf(o) \in Tasks /\ RevisionOf(o) \in Revisions
         /\ SlotOf(o) \in Slots /\ SlotOf(o) \in Nat
         /\ o = <<TaskOf(o), RevisionOf(o), SlotOf(o)>>
         /\ Chat(o) \in Chats
BY SchedulerAssumption
   DEF SchedulerAssumption, Occurrences, TaskOf, RevisionOf, SlotOf, Slots, Chat

\* A claim is an attempt of an occurrence and has a lane.
LEMMA ClaimParts ==
  ASSUME NEW c \in Claims
  PROVE  /\ OccurrenceOf(c) \in Occurrences
         /\ AttemptOf(c) \in 1..MaxAttempts
         /\ LaneFor(c) \in Lanes
         /\ c = <<OccurrenceOf(c), AttemptOf(c)>>
<1>1. OccurrenceOf(c) \in Occurrences /\ AttemptOf(c) \in 1..MaxAttempts
      /\ c = <<OccurrenceOf(c), AttemptOf(c)>>
  BY DEF Claims, OccurrenceOf, AttemptOf
<1>2. TaskOf(c[1]) \in Tasks
  BY <1>1, OccurrenceParts DEF OccurrenceOf
<1> QED BY <1>1, <1>2, SchedulerAssumption DEF SchedulerAssumption, LaneFor

\* An occurrence and an attempt make a claim.
LEMMA ClaimMade ==
  ASSUME NEW o \in Occurrences, NEW n \in 1..MaxAttempts
  PROVE  /\ <<o, n>> \in Claims
         /\ OccurrenceOf(<<o, n>>) = o /\ AttemptOf(<<o, n>>) = n
BY DEF Claims, OccurrenceOf, AttemptOf

\* Slots that a head may show.
LEMMA SuccessorTyped ==
  ASSUME NEW o \in Occurrences
  PROVE  Successor(o) \in Nat \cup {None}
BY OccurrenceParts DEF Successor

\* What the user sees as the next run is a slot or nothing.
LEMMA VisibleTyped ==
  ASSUME TypeOK, NEW t \in Tasks
  PROVE  VisibleNext(t) \in Nat \cup {None} /\ PausedNext(t) \in Nat \cup {None}
<1>1. head[t].next \in Nat \cup {None} /\ head[t].revision \in Revisions
  BY DEF TypeOK
<1>2. CASE head[t].next \in Slots
  <2>1. <<t, head[t].revision, head[t].next>> \in Occurrences
    BY <1>1, <1>2 DEF Occurrences
  <2>2. run[<<t, head[t].revision, head[t].next>>].next \in Nat \cup {None}
    BY <2>1 DEF TypeOK
  <2> QED BY <1>1, <2>2 DEF VisibleNext, PausedNext
<1>3. CASE head[t].next \notin Slots
  BY <1>1, <1>3 DEF VisibleNext, PausedNext
<1> QED BY <1>2, <1>3

\* Settling a run.
LEMMA SettleTyped ==
  ASSUME TypeOK, NEW o \in Occurrences, NEW s \in Settled, NEW r \in Results,
         SettleRun(o, s, r)
  PROVE  HeadTyped' /\ RunTyped'
<1>1. Successor(o) \in Nat \cup {None} /\ TaskOf(o) \in Tasks
  BY SuccessorTyped, OccurrenceParts
<1>2. Disposition(o) \in Dispositions
  BY DEF Disposition, Dispositions
<1>3. HeadTyped'
  <2>1. CASE Disposition(o) # "advanced"
    BY <2>1, Parts DEF SettleRun, AdvancedHead, HeadTyped
  <2>2. CASE Disposition(o) = "advanced"
    <3> DEFINE h == head[TaskOf(o)]
               new == [h EXCEPT !.next = Successor(o),
                         !.status = IF Successor(o) = None THEN "completed" ELSE @]
    <3>1. h \in [status : TaskStates, revision : Revisions, next : Nat \cup {None}]
      BY <1>1 DEF TypeOK
    <3>2. new \in [status : TaskStates, revision : Revisions, next : Nat \cup {None}]
      BY <1>1, <3>1 DEF TaskStates
    <3>3. head' = [head EXCEPT ![TaskOf(o)] = new]
      BY <2>2 DEF SettleRun, AdvancedHead
    <3> HIDE DEF new
    <3> QED BY <3>2, <3>3 DEF HeadTyped, HeadRecords, TypeOK
  <2> QED BY <2>1, <2>2
<1>4. RunTyped'
  <2>1. (IF Disposition(o) \in {"advanced", "paused"} THEN Successor(o) ELSE None)
          \in Nat \cup {None}
    BY <1>1
  <2>2. s \in RunStates
    BY DEF RunStates
  <2>3. run[o] \in RunRecords
    BY DEF TypeOK, RunRecords
  <2>4. SettledRun(o, s, r) \in RunRecords
    BY <1>2, <2>1, <2>2, <2>3 DEF SettledRun, RunRecords
  <2> QED BY <2>4 DEF SettleRun, RunTyped, TypeOK, RunRecords
<1> QED BY <1>3, <1>4

\* Returning from the queued function, and the other moves of an executor.
LEMMA EndsTyped ==
  ASSUME TypeOK, NEW c \in Claims, Running(c), Ends(c)
  PROVE  ExecTyped' /\ LaneTyped'
<1>1. LaneFor(c) \in Lanes
  BY ClaimParts
<1>2. lane[LaneFor(c)] \in Seq(Claims) /\ lane[LaneFor(c)] # <<>>
  BY <1>1 DEF TypeOK, Running
<1>3. Tail(lane[LaneFor(c)]) \in Seq(Claims)
  BY <1>2
<1>4. LaneTyped'
  BY <1>1, <1>3 DEF Ends, LaneTyped, TypeOK
<1>5. ExecTyped'
  BY DEF Ends, ExecTyped, ExecRecords, TypeOK, NoExec, Pcs, Results
<1> QED BY <1>4, <1>5

\* An executor goes on.
LEMMA StepTyped ==
  ASSUME TypeOK, NEW c \in Claims, NEW pc \in Pcs, Step(c, pc)
  PROVE  ExecTyped' /\ LaneTyped'
BY DEF Step, ExecTyped, ExecRecords, LaneTyped, TypeOK

\* Whether the lease is held is a truth value.
LEMMA HoldsBoolean == ASSUME TypeOK, NEW c \in Claims PROVE Holds(c) \in BOOLEAN
BY ClaimParts DEF Holds, TypeOK

\* An executor gives up.
LEMMA GivesUpTyped ==
  ASSUME TypeOK, NEW c \in Claims, Running(c), GivesUp(c)
  PROVE  ExecTyped' /\ LaneTyped'
<1>1. CASE exec[c].valid
  BY <1>1, HoldsBoolean DEF GivesUp, ExecTyped, ExecRecords, LaneTyped, TypeOK, Pcs
<1>2. CASE ~exec[c].valid
  BY <1>2, EndsTyped DEF GivesUp
<1> QED BY <1>1, <1>2

\* An executor goes on with a result.
LEMMA SealedTyped ==
  ASSUME TypeOK, NEW c \in Claims, NEW pc \in Pcs, NEW r \in Results,
         exec' = [exec EXCEPT ![c].pc = pc, ![c].result = r], UNCHANGED lane
  PROVE  ExecTyped' /\ LaneTyped'
BY DEF ExecTyped, ExecRecords, LaneTyped, TypeOK

\* A claim is queued or dropped.
LEMMA EnqueueTyped ==
  ASSUME TypeOK, NEW c \in Claims, Enqueue(c)
  PROVE  ExecTyped' /\ LaneTyped'
<1>1. LaneFor(c) \in Lanes
  BY ClaimParts
<1>2. Append(lane[LaneFor(c)], c) \in Seq(Claims)
  BY <1>1 DEF TypeOK
<1>3. ExecTyped'
  <2>1. \A pc \in {"dropped", "waiting"} :
          [[NoExec EXCEPT !.valid = TRUE] EXCEPT !.pc = pc] \in ExecRecords
    BY DEF NoExec, ExecRecords, Pcs, Results
  <2>2. \E pc \in {"dropped", "waiting"} :
          exec' = [exec EXCEPT ![c] = [[NoExec EXCEPT !.valid = TRUE]
                                         EXCEPT !.pc = pc]]
    BY DEF Enqueue
  <2>3. exec \in [Claims -> ExecRecords]
    BY DEF TypeOK, ExecRecords
  <2>4. ASSUME NEW x \in ExecRecords, exec' = [exec EXCEPT ![c] = x]
        PROVE  ExecTyped'
    BY <2>3, <2>4 DEF ExecTyped
  <2> QED BY <2>1, <2>2, <2>4
<1>4. LaneTyped'
  BY <1>1, <1>2 DEF Enqueue, LaneTyped, TypeOK
<1> QED BY <1>3, <1>4

\* Closing a source and its operation.
LEMMA SourceTypedAfter ==
  ASSUME TypeOK, NEW o \in Occurrences, NEW ok \in BOOLEAN,
         source' = SourceSettled(o, ok), owner' = FreedOwner(o)
  PROVE  SourceTyped' /\ OwnerTyped'
<1>1. SourceTyped'
  <2> DEFINE outcome == IF source[o].op \notin OpenPhases THEN source[o].outcome
                        ELSE IF ok THEN "completed" ELSE "failed"
             state == IF ok THEN "consumed" ELSE "disposed"
             new == [source[o] EXCEPT !.state = state, !.outcome = outcome,
                                      !.op = "terminal"]
  <2>1. source[o] \in SourceRecords
    BY DEF TypeOK, SourceRecords
  <2>2. state \in SourceStates /\ outcome \in Outcomes /\ "terminal" \in OpPhases
    BY <2>1 DEF SourceRecords, SourceStates, Outcomes, OpPhases
  <2> HIDE DEF state, outcome
  <2>3. new \in SourceRecords
    BY <2>1, <2>2 DEF SourceRecords
  <2>4. source' = [source EXCEPT ![o] = new]
    BY DEF SourceSettled, state, outcome
  <2> HIDE DEF new
  <2> QED BY <2>3, <2>4 DEF SourceTyped, TypeOK, SourceRecords
<1>2. OwnerTyped'
  BY OccurrenceParts DEF FreedOwner, OwnerTyped, TypeOK
<1> QED BY <1>1, <1>2

\* Faults stay within their budget.
LEMMA FaultTyped ==
  ASSUME TypeOK, Fault \/ UNCHANGED faults
  PROVE  faults' \in 0..MaxFaults
BY SchedulerAssumption DEF SchedulerAssumption, Fault, TypeOK

\* The inductive invariant holds at the start.
LEMMA RunsInit == Init => RunsInv
<1> SUFFICES ASSUME Init PROVE RunsInv
  OBVIOUS
<1>1. TypeOK
  BY SchedulerAssumption
     DEF SchedulerAssumption, Init, TypeOK, NoRun, NoSource, NoExec, TaskStates,
         Revisions, RunStates, Results, Dispositions, SourceStates, OpPhases,
         Outcomes, Pcs
<1> QED BY <1>1 DEF Init, RunsInv, AuthorityTyped

\* What a restart settles: scheduled inputs that the native host still has
\* authority over.
RestartSettles(done) ==
  \E outcome \in [done -> {"completed", "failed"}] :
    /\ source' = [o \in Occurrences |->
         IF o \in done THEN Recovered(o, outcome[o]) ELSE source[o]]
    /\ owner' = [ch \in Chats |->
         IF owner[ch] \in done THEN Free ELSE owner[ch]]

LEMMA CrashSettles ==
  ASSUME Crash
  PROVE  \E done \in SUBSET Occurrences :
           /\ \A o \in done : NativeAuthority(o) /\ source[o].harness
           /\ RestartSettles(done)
BY DEF Crash, RestartSettles

\* The user edits one task and touches nothing but its head.
Edits(t) ==
  \/ \E next \in Slots \cup {VisibleNext(t)}, status \in {head[t].status, "active"} :
       Revise(t, next, status)
  \/ Pause(t) \/ Resume(t) \/ Reactivate(t) \/ Delete(t)

LEMMA UserEdits == User => (\E t \in Tasks : Edits(t)) /\ UserIdle
BY DEF User, Edits, Revise, Pause, Resume, Reactivate, Delete

\* The user.
LEMMA UserKeeps == ASSUME TypeOK, User PROVE TypeOK'
<1>1. PICK t \in Tasks : Edits(t)
  BY UserEdits
<1>2. UNCHANGED <<run, source, owner, exec, lane, authority, faults>>
  BY UserEdits DEF UserIdle, process
<1>3. HeadTyped'
  <2>1. head[t] \in HeadRecords
    BY <1>1, Parts DEF HeadTyped
  <2>2. ASSUME NEW h \in HeadRecords, head' = [head EXCEPT ![t] = h]
        PROVE  HeadTyped'
    BY <2>2, Parts DEF HeadTyped
  <2>3. ASSUME NEW s \in TaskStates, NEW r \in Revisions, NEW n \in Nat \cup {None}
        PROVE  [head[t] EXCEPT !.status = s, !.revision = r, !.next = n]
                 \in HeadRecords
    BY <2>1, <2>3 DEF HeadRecords
  <2>4. /\ head[t].status \in TaskStates /\ head[t].revision \in Revisions
        /\ head[t].next \in Nat \cup {None}
    BY <2>1 DEF HeadRecords
  <2>5. ASSUME NEW next \in Slots \cup {VisibleNext(t)},
               NEW status \in {head[t].status, "active"}, Revise(t, next, status)
        PROVE  HeadTyped'
    <3>1. head[t].revision + 1 \in Revisions
      BY <2>4, <2>5, SchedulerAssumption DEF Revise, Revisions, SchedulerAssumption
    <3>2. next \in Nat \cup {None} /\ status \in TaskStates
      BY <2>4, VisibleTyped DEF Slots, TaskStates
    <3> DEFINE n == IF status = "completed" THEN None ELSE next
    <3>3. n \in Nat \cup {None}
      BY <3>2
    <3>4. head' = [head EXCEPT ![t] = [head[t] EXCEPT
            !.status = status, !.revision = head[t].revision + 1, !.next = n]]
      BY <2>1, <2>5 DEF Revise, HeadRecords
    <3> HIDE DEF n
    <3> QED BY <2>2, <2>3, <3>1, <3>2, <3>3, <3>4
  <2>6. CASE Pause(t) \/ Reactivate(t)
    BY <1>1, <2>6, Parts DEF Pause, Reactivate, TaskStates, HeadTyped, HeadRecords
  <2>7. CASE Resume(t)
    <3> DEFINE s == IF PausedNext(t) = None THEN "completed" ELSE "active"
    <3>1. s \in TaskStates
      BY DEF TaskStates
    <3>2. head' = [head EXCEPT ![t] = [head[t] EXCEPT
            !.status = s, !.revision = head[t].revision, !.next = PausedNext(t)]]
      BY <2>1, <2>7 DEF Resume, HeadRecords
    <3> HIDE DEF s
    <3> QED BY <2>2, <2>3, <2>4, <3>1, <3>2, VisibleTyped
  <2>8. CASE Delete(t)
    <3>1. "deleted" \in TaskStates
      BY DEF TaskStates
    <3>2. head' = [head EXCEPT ![t] = [head[t] EXCEPT
            !.status = "deleted", !.revision = head[t].revision, !.next = None]]
      BY <2>1, <2>8 DEF Delete, HeadRecords
    <3> QED BY <2>2, <2>3, <2>4, <3>1, <3>2
  <2> QED BY <1>1, <2>5, <2>6, <2>7, <2>8 DEF Edits
<1> QED BY <1>2, <1>3 DEF TypeOK, HeadTyped, HeadRecords

\* The repairs of a poll, retention and lapses.
LEMMA RepairKeeps ==
  ASSUME TypeOK, NEW o \in Occurrences,
         \/ RepairCompleted(o) \/ ExpireSource(o) \/ ReconcileInterrupted(o)
         \/ Retire(o)
  PROVE  TypeOK'
<1>1. CASE RepairCompleted(o)
  <2>1. SourceTyped' /\ OwnerTyped'
    BY <1>1, SourceTypedAfter DEF RepairCompleted
  <2> QED BY <1>1, <2>1, Parts, PartsPrime
    DEF RepairCompleted, PollIdle, HeadTyped, RunTyped, ExecTyped, LaneTyped
<1>2. CASE ExpireSource(o)
  <2>1. source[o] \in SourceRecords
    BY Parts DEF SourceTyped
  <2>2. [source[o] EXCEPT !.op = "terminal", !.outcome = "interrupted",
           !.state = IF source[o].state = "claimed" THEN "interrupted"
                     ELSE source[o].state] \in SourceRecords
    BY <2>1 DEF SourceRecords, SourceStates, OpPhases, Outcomes
  <2>3. SourceTyped'
    BY <1>2, <2>2, Parts DEF ExpireSource, SourceTyped
  <2>4. OwnerTyped'
    BY <1>2, OccurrenceParts, Parts DEF ExpireSource, FreedOwner, OwnerTyped
  <2> QED BY <1>2, <2>3, <2>4, Parts, PartsPrime
    DEF ExpireSource, PollIdle, HeadTyped, RunTyped, ExecTyped, LaneTyped
<1>3. CASE ReconcileInterrupted(o)
  <2>1. HeadTyped' /\ RunTyped'
    BY <1>3, SettleTyped DEF ReconcileInterrupted, Settled, Results
  <2> QED BY <1>3, <2>1, Parts, PartsPrime
    DEF ReconcileInterrupted, PollIdle, SourceTyped, OwnerTyped, ExecTyped, LaneTyped
<1>4. CASE Retire(o)
  <2>1. RunTyped'
    BY <1>4, Parts DEF Retire, RunTyped, RunRecords, RunStates
  <2> QED BY <1>4, <2>1, Parts, PartsPrime
    DEF Retire, PollIdle, HeadTyped, SourceTyped, OwnerTyped, ExecTyped, LaneTyped
<1> QED BY <1>1, <1>2, <1>3, <1>4

\* A lease lapses.
LEMMA LapseKeeps ==
  ASSUME TypeOK, NEW o \in Occurrences, Lapse(o) PROVE TypeOK'
<1>1. RunTyped'
  BY Parts DEF Lapse, RunTyped, RunRecords
<1>2. Fault \/ UNCHANGED faults
  BY DEF Lapse
<1> QED BY <1>1, <1>2, FaultTyped, Parts, PartsPrime
  DEF Lapse, process, HeadTyped, SourceTyped, OwnerTyped, ExecTyped, LaneTyped

\* Claims and reclaims.
LEMMA ClaimKeeps ==
  ASSUME RunsInv, NEW o \in Occurrences, Claim(o) PROVE TypeOK'
<1>1. <<o, 1>> \in Claims
  BY ClaimMade, SchedulerAssumption DEF SchedulerAssumption
<1>2. ExecTyped' /\ LaneTyped'
  BY <1>1, EnqueueTyped DEF Claim, RunsInv
<1>3. 1 \in 0..MaxAttempts /\ "claimed" \in RunStates
  BY SchedulerAssumption DEF SchedulerAssumption, RunStates, Open
<1>4. RunTyped'
  BY <1>3, Parts DEF Claim, RunTyped, RunRecords, RunsInv
<1> QED BY <1>2, <1>4, Parts, PartsPrime
  DEF Claim, RunsInv, HeadTyped, SourceTyped, OwnerTyped

\* A lapsed run is claimed again, within the bound on attempts.
LEMMA ReclaimKeeps ==
  ASSUME RunsInv, NEW c \in Claims, Reclaim(c) PROVE TypeOK'
<1> DEFINE o == OccurrenceOf(c)
           n == AttemptOf(c)
<1>1. o \in Occurrences /\ n \in 1..MaxAttempts
  BY ClaimParts
<1>2. n < MaxAttempts
  BY DEF Reclaim, RunsInv, AuthorityTyped
<1>3. n + 1 \in 1..MaxAttempts /\ n + 1 \in 0..MaxAttempts
  BY <1>1, <1>2, SchedulerAssumption DEF SchedulerAssumption
<1>4. RunTyped' /\ ExecTyped' /\ LaneTyped'
  <2>1. CASE /\ run' = [run EXCEPT ![o].attempt = @ + 1, ![o].live = TRUE]
             /\ run[o].attempt = n /\ Enqueue(<<o, n + 1>>)
    <3>1. <<o, n + 1>> \in Claims
      BY <1>1, <1>3, ClaimMade
    <3>2. ExecTyped' /\ LaneTyped'
      BY <2>1, <3>1, EnqueueTyped DEF RunsInv
    <3>3. RunTyped'
      BY <1>1, <1>3, <2>1, Parts DEF RunTyped, RunRecords, RunsInv
    <3> QED BY <3>2, <3>3
  <2>2. CASE UNCHANGED <<run, exec, lane>>
    BY <2>2, Parts DEF RunsInv, RunTyped, ExecTyped, LaneTyped
  <2> QED BY <2>1, <2>2 DEF Reclaim
<1>5. authority' \in SUBSET Claims
  BY Parts DEF Reclaim, RunsInv
<1> QED BY <1>4, <1>5, Parts, PartsPrime
  DEF Reclaim, RunsInv, HeadTyped, SourceTyped, OwnerTyped

\* An executor that writes to no ledger.
LEMMA MovesKeep ==
  ASSUME TypeOK, NEW c \in Claims,
         \/ StartWork(c) \/ StartRefused(c) \/ BindRefused(c)
         \/ DispatchSkipped(c) \/ WorkFails(c) \/ ShellWorks(c) \/ Seal(c)
         \/ CompleteRefused(c) \/ SettleSourceFails(c) \/ AbandonRefused(c)
  PROVE  TypeOK'
<1>1. UNCHANGED <<head, run, source, owner, authority>>
  BY DEF StartWork, StartRefused, BindRefused, DispatchSkipped, WorkFails,
     ShellWorks, Seal, CompleteRefused, SettleSourceFails, AbandonRefused, ledgers
<1>2. faults' \in 0..MaxFaults
  <2>1. Fault \/ UNCHANGED faults
    BY DEF StartWork, StartRefused, BindRefused, DispatchSkipped, WorkFails,
       ShellWorks, Seal, CompleteRefused, SettleSourceFails, AbandonRefused
  <2> QED BY <2>1, FaultTyped
<1>3. ExecTyped' /\ LaneTyped'
  <2>1. CASE StartWork(c)
    BY <2>1, StepTyped DEF StartWork, Pcs
  <2>2. CASE StartRefused(c)
    BY <2>2, GivesUpTyped DEF StartRefused, At
  <2>3. CASE BindRefused(c)
    BY <2>3, GivesUpTyped DEF BindRefused, At
  <2>4. CASE DispatchSkipped(c)
    BY <2>4, GivesUpTyped DEF DispatchSkipped, At
  <2>5. CASE WorkFails(c)
    BY <2>5, SealedTyped DEF WorkFails, Answer, Pcs, Results
  <2>6. CASE ShellWorks(c)
    BY <2>6, SealedTyped DEF ShellWorks, Answer, Pcs, Results
  <2>7. CASE Seal(c)
    <3>1. CASE exec[c].valid
      BY <2>7, <3>1, HoldsBoolean, Parts
         DEF Seal, ExecTyped, ExecRecords, LaneTyped, Pcs
    <3>2. CASE ~exec[c].valid
      BY <2>7, <3>2, EndsTyped DEF Seal, At
    <3> QED BY <3>1, <3>2
  <2>8. CASE CompleteRefused(c)
    <3>1. CASE exec[c].sourced
      BY <2>8, <3>1, SealedTyped DEF CompleteRefused, Pcs, Results
    <3>2. CASE ~exec[c].sourced
      BY <2>8, <3>2, EndsTyped DEF CompleteRefused, At
    <3> QED BY <3>1, <3>2
  <2>9. CASE SettleSourceFails(c)
    BY <2>9, EndsTyped DEF SettleSourceFails, At
  <2>10. CASE AbandonRefused(c)
    BY <2>10, EndsTyped DEF AbandonRefused, At
  <2> QED BY <2>1, <2>2, <2>3, <2>4, <2>5, <2>6, <2>7, <2>8, <2>9, <2>10
<1> QED BY <1>1, <1>2, <1>3, Parts, PartsPrime
  DEF HeadTyped, RunTyped, SourceTyped, OwnerTyped

\* An executor that accepts, binds, hands over or settles.
LEMMA AcceptKeeps == ASSUME TypeOK, NEW c \in Claims, Accept(c) PROVE TypeOK'
<1> DEFINE o == OccurrenceOf(c)
<1>1. o \in Occurrences /\ Chat(o) \in Chats
  BY ClaimParts, OccurrenceParts
<1>2. SourceTyped' /\ OwnerTyped'
  <2>1. CASE UNCHANGED <<source, owner>>
    BY <2>1, Parts DEF SourceTyped, OwnerTyped
  <2>2. CASE /\ source' = [source EXCEPT ![o].state = "claimed", ![o].op = "claimed"]
             /\ owner' = [owner EXCEPT ![Chat(o)] = o]
    BY <1>1, <2>2, Parts
       DEF SourceTyped, SourceRecords, OwnerTyped, SourceStates, OpPhases, OpenPhases
  <2> QED BY <2>1, <2>2 DEF Accept
<1>3. ExecTyped' /\ LaneTyped'
  <2>1. exec[c] \in ExecRecords /\ Holds(c) \in BOOLEAN
    BY HoldsBoolean, Parts DEF ExecTyped
  <2>2. [exec[c] EXCEPT !.pc = "accepted", !.sourced = TRUE, !.fresh = Holds(c)]
          \in ExecRecords
    BY <2>1 DEF ExecRecords, Pcs
  <2>3. exec' = [exec EXCEPT ![c] =
          [exec[c] EXCEPT !.pc = "accepted", !.sourced = TRUE, !.fresh = Holds(c)]]
    BY DEF Accept
  <2> QED BY <2>2, <2>3, Parts DEF Accept, ExecTyped, LaneTyped
<1> QED BY <1>2, <1>3, Parts, PartsPrime DEF Accept, HeadTyped, RunTyped

\* The accepted source is bound.
LEMMA BindKeeps == ASSUME TypeOK, NEW c \in Claims, Bind(c) PROVE TypeOK'
<1>1. OccurrenceOf(c) \in Occurrences
  BY ClaimParts
<1>2. RunTyped'
  BY <1>1, Parts DEF Bind, RunTyped, RunRecords, RunStates, Open
<1>3. ExecTyped' /\ LaneTyped'
  <2>1. CASE Step(c, "bound")
    BY <2>1, StepTyped DEF Pcs
  <2>2. CASE Ends(c)
    BY <2>2, EndsTyped DEF Bind, At
  <2> QED BY <2>1, <2>2 DEF Bind
<1> QED BY <1>2, <1>3, Parts, PartsPrime DEF Bind, HeadTyped, SourceTyped, OwnerTyped

\* The input is handed to the harness, and the harness is finished.
LEMMA DispatchKeeps ==
  ASSUME TypeOK, NEW c \in Claims, Dispatch(c) \/ FinishHarness(c)
  PROVE  TypeOK'
<1>1. OccurrenceOf(c) \in Occurrences
  BY ClaimParts
<1>2. SourceTyped'
  BY <1>1, Parts
     DEF Dispatch, FinishHarness, SourceTyped, SourceRecords, OpPhases, OpenPhases
<1>3. ExecTyped' /\ LaneTyped'
  BY StepTyped DEF Dispatch, FinishHarness, Pcs
<1> QED BY <1>2, <1>3, Parts, PartsPrime
  DEF Dispatch, FinishHarness, HeadTyped, RunTyped, OwnerTyped

\* The native host settles.
LEMMA NativeSettleKeeps ==
  ASSUME TypeOK, NEW c \in Claims, NEW r \in {"success", "error"}, NativeSettle(c, r)
  PROVE  TypeOK'
<1>1. SourceTyped' /\ OwnerTyped'
  BY ClaimParts, SourceTypedAfter DEF NativeSettle
<1>2. ExecTyped' /\ LaneTyped'
  BY SealedTyped DEF NativeSettle, Answer, Pcs, Results
<1> QED BY <1>1, <1>2, Parts, PartsPrime DEF NativeSettle, HeadTyped, RunTyped

\* The run is completed or abandoned, the source settled.
LEMMA SettlementKeeps ==
  ASSUME TypeOK, NEW c \in Claims,
         Complete(c) \/ CompleteUncertain(c) \/ SettleSource(c) \/ Abandon(c)
  PROVE  TypeOK'
<1>1. OccurrenceOf(c) \in Occurrences /\ exec[c].result \in Results
  BY ClaimParts, Parts DEF ExecTyped, ExecRecords
<1>2. {"completed", "abandoned"} \subseteq Settled /\ {"none", "error"} \subseteq Results
      /\ "settling" \in Pcs
  BY DEF Settled, Results, Pcs
<1>3. CASE Complete(c)
  <2>1. HeadTyped' /\ RunTyped'
    BY <1>1, <1>2, <1>3, SettleTyped DEF Complete
  <2>2. ExecTyped' /\ LaneTyped'
    BY <1>2, <1>3, StepTyped, EndsTyped DEF Complete, At
  <2> QED BY <1>3, <2>1, <2>2, Parts, PartsPrime DEF Complete, SourceTyped, OwnerTyped
<1>4. CASE CompleteUncertain(c)
  <2>1. HeadTyped' /\ RunTyped'
    <3>1. CASE SettleRun(OccurrenceOf(c), "completed", exec[c].result)
      BY <1>1, <1>2, <3>1, SettleTyped
    <3>2. CASE UNCHANGED <<run, head>>
      BY <3>2, Parts DEF HeadTyped, RunTyped
    <3> QED BY <1>4, <3>1, <3>2 DEF CompleteUncertain
  <2>2. ExecTyped' /\ LaneTyped' /\ faults' \in 0..MaxFaults
    BY <1>4, EndsTyped, FaultTyped DEF CompleteUncertain, At
  <2> QED BY <1>4, <2>1, <2>2, Parts, PartsPrime
    DEF CompleteUncertain, SourceTyped, OwnerTyped
<1>5. CASE SettleSource(c)
  <2>1. SourceTyped' /\ OwnerTyped'
    BY <1>1, <1>5, SourceTypedAfter DEF SettleSource
  <2>2. ExecTyped' /\ LaneTyped'
    BY <1>5, EndsTyped DEF SettleSource, At
  <2> QED BY <1>5, <2>1, <2>2, Parts, PartsPrime DEF SettleSource, HeadTyped, RunTyped
<1>6. CASE Abandon(c)
  <2>1. HeadTyped' /\ RunTyped'
    BY <1>1, <1>2, <1>6, SettleTyped DEF Abandon
  <2>2. ExecTyped' /\ LaneTyped'
    BY <1>2, <1>6, SealedTyped, EndsTyped DEF Abandon, At
  <2> QED BY <1>6, <2>1, <2>2, Parts, PartsPrime DEF Abandon, SourceTyped, OwnerTyped
<1> QED BY <1>3, <1>4, <1>5, <1>6

\* The rest of the system.
LEMMA RestKeeps ==
  ASSUME RunsInv,
         \/ ReadAuthorities \/ Crash
         \/ \E c \in Claims : RenewFails(c)
         \/ \E ch \in Chats : ForeignClaims(ch) \/ ForeignEnds(ch)
  PROVE  TypeOK'
<1>1. CASE ReadAuthorities
  BY <1>1, Parts, PartsPrime
     DEF RunsInv, ReadAuthorities, Authorities, ledgers, HeadTyped, RunTyped,
         SourceTyped, OwnerTyped, ExecTyped, LaneTyped
<1>2. CASE Crash
  <2>1. faults' \in 0..MaxFaults
    BY <1>2, FaultTyped DEF Crash, RunsInv
  <2>2. ExecTyped' /\ LaneTyped'
    BY <1>2 DEF Crash, ExecTyped, ExecRecords, LaneTyped, NoExec, Pcs, Results
  <2>3. PICK done \in SUBSET Occurrences : RestartSettles(done)
    BY <1>2, CrashSettles
  <2>3a. PICK outcome \in [done -> {"completed", "failed"}] :
          /\ source' = [o \in Occurrences |->
               IF o \in done THEN Recovered(o, outcome[o]) ELSE source[o]]
          /\ owner' = [ch \in Chats |->
               IF owner[ch] \in done THEN Free ELSE owner[ch]]
    BY <2>3 DEF RestartSettles
  <2>4. ASSUME NEW o \in Occurrences, NEW x \in {"completed", "failed"}
        PROVE  Recovered(o, x) \in SourceRecords
    <3>1. source[o] \in SourceRecords
      BY Parts DEF RunsInv, SourceTyped
    <3> QED BY <3>1 DEF Recovered, SourceRecords, SourceStates, OpPhases, Outcomes
  <2>5. SourceTyped' /\ OwnerTyped'
    BY <2>3a, <2>4, Parts DEF RunsInv, SourceTyped, OwnerTyped
  <2> QED BY <1>2, <2>1, <2>2, <2>5, Parts, PartsPrime
    DEF RunsInv, Crash, HeadTyped, RunTyped
<1>3. ASSUME NEW c \in Claims, RenewFails(c) PROVE TypeOK'
  <2>1. faults' \in 0..MaxFaults
    BY <1>3, FaultTyped DEF RenewFails, RunsInv
  <2>2. ExecTyped'
    BY <1>3, Parts DEF RunsInv, RenewFails, ExecTyped, ExecRecords
  <2> QED BY <1>3, <2>1, <2>2, Parts, PartsPrime
    DEF RunsInv, RenewFails, ledgers, HeadTyped, RunTyped, SourceTyped, OwnerTyped,
        LaneTyped
<1>4. ASSUME NEW ch \in Chats, ForeignClaims(ch) \/ ForeignEnds(ch) PROVE TypeOK'
  <2>1. OwnerTyped'
    BY <1>4, Parts DEF RunsInv, ForeignClaims, ForeignEnds, OwnerTyped
  <2> QED BY <1>4, <2>1, Parts, PartsPrime
    DEF RunsInv, ForeignClaims, ForeignEnds, process, HeadTyped, RunTyped,
        SourceTyped, ExecTyped, LaneTyped
<1> QED BY <1>1, <1>2, <1>3, <1>4

\* A poll uses up the authorities it has read; nobody else makes one.
LEMMA AuthorityKept ==
  ASSUME RunsInv, Next PROVE AuthorityTyped'
<1>1. authority' \subseteq authority \/ authority' = Authorities \/ authority' = {}
  BY UserEdits DEF Next, Poll, Repair, Execute, UserIdle, FinishHarness,
     process, RepairCompleted, ExpireSource, ReconcileInterrupted, ReadAuthorities,
     Claim, Reclaim, Retire, Lapse, RenewFails, Crash, ForeignClaims, ForeignEnds,
     Accept, StartWork, StartRefused, Bind, BindRefused, Dispatch, DispatchSkipped,
     WorkFails, ShellWorks, NativeSettle, Seal, Complete, CompleteRefused,
     CompleteUncertain, SettleSource, SettleSourceFails, Abandon, AbandonRefused
<1> QED BY <1>1 DEF RunsInv, AuthorityTyped, Authorities, AttemptOf

\* Every step keeps the inductive invariant.
LEMMA RunsStep == RunsInv /\ [Next]_vars => RunsInv'
<1> SUFFICES ASSUME RunsInv, [Next]_vars PROVE RunsInv'
  OBVIOUS
<1>1. CASE UNCHANGED vars
  BY <1>1 DEF vars, RunsInv, TypeOK, AuthorityTyped
<1>2. CASE Next
  <2> USE DEF RunsInv
  <2>1. ASSUME User PROVE TypeOK'
    BY <2>1, UserKeeps
  <2>2. ASSUME Poll PROVE TypeOK'
    <3>1. ASSUME NEW o \in Occurrences,
                 \/ RepairCompleted(o) \/ ExpireSource(o) \/ ReconcileInterrupted(o)
          PROVE  TypeOK'
      BY <3>1, RepairKeeps
    <3>2. ASSUME NEW o \in Occurrences, Claim(o) PROVE TypeOK'
      BY <3>2, ClaimKeeps
    <3>3. ASSUME NEW c \in Claims, Reclaim(c) PROVE TypeOK'
      BY <3>3, ReclaimKeeps
    <3>4. ASSUME ReadAuthorities PROVE TypeOK'
      BY <3>4, RestKeeps
    <3> QED BY <2>2, <3>1, <3>2, <3>3, <3>4 DEF Poll, Repair
  <2>3. ASSUME NEW o \in Occurrences, Lapse(o) \/ Retire(o) PROVE TypeOK'
    BY <2>3, LapseKeeps, RepairKeeps
  <2>4. ASSUME NEW c \in Claims, Execute(c) PROVE TypeOK'
    BY <2>4, MovesKeep, AcceptKeeps, BindKeeps, DispatchKeeps, NativeSettleKeeps,
       SettlementKeeps DEF Execute
  <2>5. TypeOK'
    BY <1>2, <2>1, <2>2, <2>3, <2>4, RestKeeps DEF Next
  <2> QED BY <1>2, <2>5, AuthorityKept
<1> QED BY <1>1, <1>2

\* The inductive invariant holds in every reachable state.
LEMMA RunsInvariant == Spec => []RunsInv
BY RunsInit, RunsStep, PTL DEF Spec

\* Every table and every part of the process keeps its type, and no
\* occurrence is claimed more than MaxAttempts times.
THEOREM RunsTyped == Spec => []TypeOK
BY RunsInvariant, PTL DEF RunsInv

-----------------------------------------------------------------------------
(* Decisions.                                                              *)

Decided == Settled \cup {"retired"}

\* The moves of a run: as it is, changed while it is not decided, or retired.
RunMove ==
  \/ UNCHANGED run
  \/ \E o \in Occurrences :
       run[o].state \notin Decided /\ \E x : run' = [run EXCEPT ![o] = x]
  \/ \E o \in Occurrences : run' = [run EXCEPT ![o].state = "retired"]

\* A run in progress, or none, is undecided.
LEMMA OpenIsUndecided ==
  ASSUME NEW s, s \in Open \cup {"absent"} PROVE s \notin Decided
BY DEF Open, Decided, Settled

\* The fence of a request admits only a run in progress.
LEMMA FencedIsUndecided ==
  ASSUME NEW c \in Claims, Fenced(c)
  PROVE  OccurrenceOf(c) \in Occurrences /\ run[OccurrenceOf(c)].state \notin Decided
BY ClaimParts, OpenIsUndecided DEF Fenced

\* A settlement of an undecided run is such a move.
LEMMA SettleMoves ==
  ASSUME NEW o \in Occurrences, run[o].state \notin Decided, NEW s, NEW r,
         SettleRun(o, s, r)
  PROVE  RunMove
BY DEF SettleRun, RunMove

\* Every step moves at most one run, and a decided one only by retiring it.
LEMMA RunMoves ==
  ASSUME TypeOK, Next
  PROVE  RunMove
<1>1. CASE User
  BY <1>1, UserEdits DEF UserIdle, RunMove
<1>2. ASSUME NEW o \in Occurrences,
             RepairCompleted(o) \/ ExpireSource(o) \/ ReconcileInterrupted(o)
      PROVE  RunMove
  <2>1. CASE RepairCompleted(o) \/ ExpireSource(o)
    BY <2>1 DEF RepairCompleted, ExpireSource, RunMove
  <2>2. CASE ReconcileInterrupted(o)
    BY <2>2, SettleMoves, OpenIsUndecided DEF ReconcileInterrupted, Open
  <2> QED BY <1>2, <2>1, <2>2
<1>3. ASSUME NEW o \in Occurrences, Claim(o) PROVE RunMove
  <2>1. run' = [run EXCEPT ![o] = [run[o] EXCEPT !.state = "claimed", !.attempt = 1,
                                                 !.live = TRUE]]
    BY <1>3, Parts DEF Claim, RunTyped, RunRecords
  <2>2. run[o].state \notin Decided
    BY <1>3, OpenIsUndecided DEF Claim
  <2> QED BY <2>1, <2>2 DEF RunMove
<1>4. ASSUME NEW c \in Claims, Reclaim(c) PROVE RunMove
  <2> DEFINE o == OccurrenceOf(c)
  <2>1. o \in Occurrences
    BY ClaimParts
  <2>2. CASE /\ run[o].state \in Open
             /\ run' = [run EXCEPT ![o].attempt = @ + 1, ![o].live = TRUE]
    <3>1. run' = [run EXCEPT ![o] = [run[o] EXCEPT !.attempt = run[o].attempt + 1,
                                                   !.live = TRUE]]
      BY <2>1, <2>2, Parts DEF RunTyped, RunRecords
    <3> QED BY <2>1, <2>2, <3>1, OpenIsUndecided DEF RunMove
  <2>3. CASE UNCHANGED run
    BY <2>3 DEF RunMove
  <2> QED BY <1>4, <2>2, <2>3 DEF Reclaim
<1>5. ASSUME NEW o \in Occurrences, Retire(o) PROVE RunMove
  BY <1>5 DEF Retire, RunMove
<1>6. ASSUME NEW o \in Occurrences, Lapse(o) PROVE RunMove
  <2>1. run' = [run EXCEPT ![o] = [run[o] EXCEPT !.live = FALSE]]
    BY <1>6 DEF Lapse
  <2> QED BY <1>6, <2>1, OpenIsUndecided DEF Lapse, RunMove
<1>7. ASSUME NEW c \in Claims, Execute(c) PROVE RunMove
  <2>1. CASE Bind(c)
    <3>1. run' = [run EXCEPT ![OccurrenceOf(c)] =
                    [run[OccurrenceOf(c)] EXCEPT !.state = "source_bound"]]
      BY <2>1 DEF Bind
    <3> QED BY <2>1, <3>1, FencedIsUndecided DEF Bind, RunMove
  <2>2. CASE Complete(c) \/ Abandon(c)
    BY <2>2, FencedIsUndecided, SettleMoves DEF Complete, Completes, Abandon
  <2>3. CASE CompleteUncertain(c)
    <3>1. CASE Completes(c) /\ SettleRun(OccurrenceOf(c), "completed", exec[c].result)
      BY <3>1, FencedIsUndecided, SettleMoves DEF Completes
    <3>2. CASE UNCHANGED run
      BY <3>2 DEF RunMove
    <3> QED BY <2>3, <3>1, <3>2 DEF CompleteUncertain
  <2>4. CASE UNCHANGED run
    BY <2>4 DEF RunMove
  <2>5. Bind(c) \/ Complete(c) \/ Abandon(c) \/ CompleteUncertain(c) \/ UNCHANGED run
    BY <1>7 DEF Execute, Accept, StartWork, StartRefused, BindRefused, Dispatch,
       DispatchSkipped, WorkFails, ShellWorks, FinishHarness, NativeSettle, Seal,
       CompleteRefused, SettleSource, SettleSourceFails, AbandonRefused, ledgers
  <2> QED BY <2>1, <2>2, <2>3, <2>4, <2>5
<1>8. CASE \/ ReadAuthorities \/ Crash
           \/ \E c \in Claims : RenewFails(c)
           \/ \E ch \in Chats : ForeignClaims(ch) \/ ForeignEnds(ch)
  BY <1>8 DEF ReadAuthorities, Crash, RenewFails, ForeignClaims, ForeignEnds, ledgers,
     RunMove
<1> QED BY <1>1, <1>2, <1>3, <1>4, <1>5, <1>6, <1>7, <1>8 DEF Next, Poll, Repair

\* What the ledger of occurrences has decided stays, whichever executors,
\* polls and edits race: finishCompletion, abandonRun and
\* reconcileInterruptedRun write once, and claim leaves tombstones alone.
THEOREM DecidedOnceTheorem == Spec => DecidedOnce
<1> DEFINE Kept ==
      \A o \in Occurrences :
        run[o].state \in Settled \cup {"retired"} =>
          run'[o] = run[o] \/ run'[o] = [run[o] EXCEPT !.state = "retired"]
<1>1. ASSUME RunsInv, [Next]_vars PROVE [Kept]_vars
  <2>1. CASE UNCHANGED vars
    BY <2>1
  <2>2. CASE Next
    <3>1. RunMove
      BY <1>1, <2>2, RunMoves DEF RunsInv
    <3>2. run \in [Occurrences -> RunRecords]
      BY <1>1, Parts DEF RunsInv, RunTyped
    <3> QED BY <3>1, <3>2 DEF RunMove, Decided
  <2> QED BY <1>1, <2>1, <2>2
<1> QED BY <1>1, RunsInvariant, PTL DEF Spec, DecidedOnce

-----------------------------------------------------------------------------
(* Slots.                                                                  *)

\* The head of a task leaves a slot whose occurrence is settled.
Leaves(t) ==
  /\ head'[t].revision = head[t].revision
  /\ head'[t].next # head[t].next
  /\ head'[t].status # "deleted"
SettledBehind(t) == run'[<<t, head[t].revision, head[t].next>>].state \in Settled

\* A settlement moves the head only from its own occurrence.
LEMMA SettleAdvances ==
  ASSUME TypeOK, NEW t \in Tasks, NEW o \in Occurrences, NEW s \in Settled, NEW r,
         SettleRun(o, s, r), Leaves(t)
  PROVE  SettledBehind(t)
<1>1. Disposition(o) = "advanced" /\ t = TaskOf(o)
  BY Parts DEF SettleRun, AdvancedHead, Leaves, HeadTyped, HeadRecords
<1>2. IsHead(o)
  BY <1>1 DEF Disposition
<1>3. <<t, head[t].revision, head[t].next>> = o
  BY <1>1, <1>2, OccurrenceParts DEF IsHead
<1>4. run'[o].state = s
  BY Parts DEF SettleRun, SettledRun, RunTyped, RunRecords
<1> QED BY <1>3, <1>4 DEF SettledBehind

\* An edit leaves a slot within a revision only by a resume.
LEMMA EditsLeave ==
  ASSUME TypeOK, NEW t \in Tasks, User, Leaves(t)
  PROVE  SettledBehind(t)
<1>1. PICK u \in Tasks : Edits(u)
  BY UserEdits
<1>2. head[t] \in HeadRecords /\ head \in [Tasks -> HeadRecords]
  BY Parts DEF HeadTyped
<1>3. ~Pause(u) /\ ~Reactivate(u) /\ ~Delete(u)
  <2>1. ~Pause(u) /\ ~Reactivate(u)
    BY <1>2 DEF Pause, Reactivate, Leaves, HeadRecords
  <2>2. ASSUME Delete(u) PROVE FALSE
    <3>1. head'[u].status = "deleted"
      BY <1>2, <2>2 DEF Delete, HeadRecords
    <3>2. u # t => head'[t] = head[t]
      BY <1>2, <2>2 DEF Delete
    <3> QED BY <3>1, <3>2 DEF Leaves
  <2> QED BY <2>1, <2>2
<1>3a. ASSUME NEW next, NEW status, Revise(u, next, status) PROVE FALSE
  <2>1. head'[u].revision = head[u].revision + 1 /\ head[u].revision \in Nat
    BY <1>2, <1>3a, SchedulerAssumption
       DEF Revise, HeadRecords, Revisions, SchedulerAssumption
  <2>2. u # t => head'[t] = head[t]
    BY <1>2, <1>3a DEF Revise
  <2> QED BY <2>1, <2>2 DEF Leaves
<1>4. Resume(u)
  BY <1>1, <1>3, <1>3a DEF Edits
<1>5. u = t /\ head'[t].next = PausedNext(t)
  <2>1. u # t => head'[t] = head[t]
    BY <1>2, <1>4 DEF Resume
  <2>2. head'[u].next = PausedNext(u)
    BY <1>2, <1>4 DEF Resume, HeadRecords
  <2> QED BY <2>1, <2>2 DEF Leaves
<1>6. run[<<t, head[t].revision, head[t].next>>].state \in Settled
  BY <1>5 DEF Leaves, PausedNext
<1> QED BY <1>4, <1>6 DEF Resume, UserIdle, SettledBehind

\* The head moves with a settlement or by an edit, and nowhere else.
LEMMA HeadMoves ==
  ASSUME TypeOK, Next
  PROVE  \/ UNCHANGED head
         \/ User
         \/ \E o \in Occurrences, s \in Settled : \E r : SettleRun(o, s, r)
<1>1. "completed" \in Settled /\ "abandoned" \in Settled
  BY DEF Settled
<1>2. ASSUME NEW o \in Occurrences, ReconcileInterrupted(o)
      PROVE  SettleRun(o, "completed", "interrupted")
  BY <1>2 DEF ReconcileInterrupted
<1>3. ASSUME NEW c \in Claims, Execute(c)
      PROVE  \/ UNCHANGED head
             \/ SettleRun(OccurrenceOf(c), "completed", exec[c].result)
             \/ SettleRun(OccurrenceOf(c), "abandoned", "none")
  BY <1>3 DEF Execute, Accept, StartWork, StartRefused, Bind, BindRefused, Dispatch,
     DispatchSkipped, WorkFails, ShellWorks, FinishHarness, NativeSettle, Seal,
     Complete, CompleteRefused, CompleteUncertain, SettleSource, SettleSourceFails,
     Abandon, AbandonRefused, ledgers
<1>4. CASE \E o \in Occurrences : ReconcileInterrupted(o)
  BY <1>1, <1>2, <1>4
<1>5. CASE \E c \in Claims : Execute(c)
  BY <1>1, <1>3, <1>5, ClaimParts
<1>6. \/ UNCHANGED head \/ User
      \/ \E o \in Occurrences : ReconcileInterrupted(o)
      \/ \E c \in Claims : Execute(c)
  BY DEF Next, Poll, Repair, RepairCompleted, ExpireSource, ReadAuthorities, Claim,
     Reclaim, Retire, Lapse, RenewFails, Crash, ForeignClaims, ForeignEnds, ledgers
<1> QED BY <1>4, <1>5, <1>6

\* No due slot is passed over, whatever the user edits while runs complete
\* late, are abandoned or are found interrupted (decideHead,
\* applyHeadDecision, visibleScheduledNextRun).
THEOREM NoSlotSkippedTheorem == Spec => NoSlotSkipped
<1> DEFINE Kept ==
      \A t \in Tasks :
        /\ head'[t].revision = head[t].revision
        /\ head'[t].next # head[t].next
        /\ head'[t].status # "deleted"
        => run'[<<t, head[t].revision, head[t].next>>].state \in Settled
<1>1. ASSUME RunsInv, [Next]_vars PROVE [Kept]_vars
  <2>1. CASE UNCHANGED vars
    BY <2>1
  <2>2. CASE Next
    <3>1. ASSUME NEW t \in Tasks, Leaves(t) PROVE SettledBehind(t)
      <4>1. CASE UNCHANGED head
        BY <3>1, <4>1 DEF Leaves
      <4>2. CASE User
        BY <1>1, <3>1, <4>2, EditsLeave DEF RunsInv
      <4>3. CASE \E o \in Occurrences, s \in Settled : \E r : SettleRun(o, s, r)
        BY <1>1, <3>1, <4>3, SettleAdvances DEF RunsInv
      <4> QED BY <1>1, <2>2, <4>1, <4>2, <4>3, HeadMoves DEF RunsInv
    <3> QED BY <3>1 DEF Leaves, SettledBehind
  <2> QED BY <1>1, <2>1, <2>2
<1> QED BY <1>1, RunsInvariant, PTL DEF Spec, NoSlotSkipped

-----------------------------------------------------------------------------
(* The chat.                                                               *)

\* The ways in which sources and the owners of chats move together.
Opens(o) ==
  /\ owner[Chat(o)] = Free
  /\ owner' = [owner EXCEPT ![Chat(o)] = o]
  /\ source'[o].op \in OpenPhases
  /\ \A p \in Occurrences : p # o => source'[p] = source[p]
Closes(o) ==
  /\ owner' = FreedOwner(o)
  /\ source'[o].op = "terminal"
  /\ \A p \in Occurrences : p # o => source'[p] = source[p]
ClosesAtRestart ==
  \E done \in SUBSET Occurrences :
    /\ \A o \in done : NativeAuthority(o) /\ source[o].harness
    /\ RestartSettles(done)
Continues ==
  /\ UNCHANGED owner
  /\ \A p \in Occurrences : source'[p].op \in OpenPhases <=> source[p].op \in OpenPhases
ForeignMoves ==
  \E ch \in Chats, x \in {Free, Foreign} :
    /\ owner[ch] \in {Free, Foreign}
    /\ owner' = [owner EXCEPT ![ch] = x]
    /\ UNCHANGED <<source, run, exec>>
ChatMove ==
  \/ Continues \/ ForeignMoves \/ ClosesAtRestart
  \/ \E o \in Occurrences : Opens(o) \/ Closes(o)

\* Settling a source closes its operation and frees the chat.
LEMMA SettledCloses ==
  ASSUME TypeOK, NEW o \in Occurrences, NEW ok,
         source' = SourceSettled(o, ok), owner' = FreedOwner(o)
  PROVE  Closes(o)
<1>1. source \in [Occurrences -> SourceRecords]
  BY Parts DEF SourceTyped
<1>2. source'[o].op = "terminal"
  BY <1>1 DEF SourceSettled, SourceRecords
<1>3. \A p \in Occurrences : p # o => source'[p] = source[p]
  BY <1>1 DEF SourceSettled
<1> QED BY <1>2, <1>3 DEF Closes

\* Every step moves sources and owners in one of these ways.
LEMMA ChatMoves ==
  ASSUME TypeOK, Next
  PROVE  ChatMove
<1>0. source \in [Occurrences -> SourceRecords]
  BY Parts DEF SourceTyped
<1>1. CASE UNCHANGED <<source, owner>>
  BY <1>1 DEF ChatMove, Continues
<1>2. ASSUME NEW o \in Occurrences, RepairCompleted(o) PROVE ChatMove
  BY <1>2, SettledCloses DEF RepairCompleted, ChatMove
<1>3. ASSUME NEW o \in Occurrences, ExpireSource(o) PROVE ChatMove
  <2>1. source'[o].op = "terminal"
    BY <1>0, <1>3 DEF ExpireSource, SourceRecords
  <2>2. \A p \in Occurrences : p # o => source'[p] = source[p]
    BY <1>0, <1>3 DEF ExpireSource
  <2> QED BY <1>3, <2>1, <2>2 DEF ExpireSource, Closes, ChatMove
<1>4. ASSUME NEW c \in Claims, Accept(c) PROVE ChatMove
  <2> DEFINE o == OccurrenceOf(c)
  <2>1. o \in Occurrences
    BY ClaimParts
  <2>2. CASE /\ owner[Chat(o)] = Free
             /\ source' = [source EXCEPT ![o].state = "claimed", ![o].op = "claimed"]
             /\ owner' = [owner EXCEPT ![Chat(o)] = o]
    <3>1. source'[o].op \in OpenPhases
      BY <1>0, <2>1, <2>2 DEF SourceRecords, OpenPhases
    <3>2. \A p \in Occurrences : p # o => source'[p] = source[p]
      BY <1>0, <2>2
    <3> QED BY <2>1, <2>2, <3>1, <3>2 DEF Opens, ChatMove
  <2> QED BY <1>1, <1>4, <2>2 DEF Accept
<1>5. ASSUME NEW c \in Claims, Dispatch(c) \/ FinishHarness(c) PROVE ChatMove
  <2> DEFINE o == OccurrenceOf(c)
  <2>1. o \in Occurrences
    BY ClaimParts
  <2>2. source[o].op \in OpenPhases /\ source'[o].op \in OpenPhases
    BY <1>0, <1>5, <2>1
       DEF Dispatch, FinishHarness, NativeAuthority, SourceRecords, OpenPhases
  <2>3. \A p \in Occurrences : p # o => source'[p] = source[p]
    BY <1>0, <1>5 DEF Dispatch, FinishHarness
  <2> QED BY <1>5, <2>2, <2>3 DEF Dispatch, FinishHarness, Continues, ChatMove
<1>6. ASSUME NEW c \in Claims,
             \/ SettleSource(c)
             \/ \E r \in {"success", "error"} : NativeSettle(c, r)
      PROVE  ChatMove
  <2>1. source' = SourceSettled(OccurrenceOf(c), TRUE)
        \/ source' = SourceSettled(OccurrenceOf(c), exec[c].result = "success")
    BY <1>6 DEF SettleSource, NativeSettle
  <2>2. owner' = FreedOwner(OccurrenceOf(c))
    BY <1>6 DEF SettleSource, NativeSettle
  <2> QED BY <2>1, <2>2, ClaimParts, SettledCloses DEF ChatMove
<1>7. ASSUME NEW ch \in Chats, ForeignClaims(ch) \/ ForeignEnds(ch) PROVE ChatMove
  BY <1>7 DEF ForeignClaims, ForeignEnds, ForeignMoves, ChatMove, process
<1>8. ASSUME NEW c \in Claims, Execute(c)
      PROVE  \/ UNCHANGED <<source, owner>> \/ Accept(c) \/ Dispatch(c)
             \/ FinishHarness(c) \/ SettleSource(c)
             \/ \E r \in {"success", "error"} : NativeSettle(c, r)
  BY <1>8 DEF Execute, StartWork, StartRefused, Bind, BindRefused, DispatchSkipped,
     WorkFails, ShellWorks, Seal, Complete, CompleteRefused, CompleteUncertain,
     SettleSourceFails, Abandon, AbandonRefused, ledgers
<1>9. CASE \E c \in Claims : Execute(c)
  BY <1>1, <1>4, <1>5, <1>6, <1>8, <1>9
<1>10. \/ UNCHANGED <<source, owner>>
       \/ \E o \in Occurrences : RepairCompleted(o) \/ ExpireSource(o)
       \/ \E c \in Claims : Execute(c)
       \/ \E ch \in Chats : ForeignClaims(ch) \/ ForeignEnds(ch)
       \/ Crash
  BY UserEdits DEF Next, UserIdle, Poll, Repair, ReconcileInterrupted,
     ReadAuthorities, Claim, Reclaim, Retire, Lapse, RenewFails, ledgers
<1>11. CASE Crash
  BY <1>11, CrashSettles DEF ClosesAtRestart, ChatMove
<1> QED BY <1>1, <1>2, <1>3, <1>7, <1>9, <1>10, <1>11

\* Each of these moves keeps the chats with their open operations.
LEMMA OwnershipKept ==
  ASSUME TypeOK, OpenOperationOwnsChat, ChatMove
  PROVE  OpenOperationOwnsChat'
<1> SUFFICES ASSUME NEW p \in Occurrences
             PROVE  source'[p].op \in OpenPhases <=> owner'[Chat(p)] = p
  BY DEF OpenOperationOwnsChat, Chat, TaskOf
<1>1. source[p].op \in OpenPhases <=> owner[Chat(p)] = p
  BY DEF OpenOperationOwnsChat
<1>2. owner \in [Chats -> {Free, Foreign} \cup Occurrences] /\ Chat(p) \in Chats
  BY Parts, OccurrenceParts DEF OwnerTyped
<1>3. p # Free /\ p # Foreign
  BY OwnerAssumption DEF OwnerAssumption
<1>4. CASE Continues
  BY <1>1, <1>4 DEF Continues
<1>5. CASE ForeignMoves
  BY <1>1, <1>2, <1>3, <1>5 DEF ForeignMoves
<1>6. ASSUME NEW o \in Occurrences, Opens(o)
      PROVE  source'[p].op \in OpenPhases <=> owner'[Chat(p)] = p
  BY <1>1, <1>2, <1>3, <1>6 DEF Opens
<1>7. ASSUME NEW o \in Occurrences, Closes(o)
      PROVE  source'[p].op \in OpenPhases <=> owner'[Chat(p)] = p
  <2>1. CASE p = o
    <3>1. owner'[Chat(p)] # p
      BY <1>2, <1>3, <1>7, <2>1 DEF Closes, FreedOwner
    <3>2. "terminal" \notin OpenPhases
      BY DEF OpenPhases
    <3> QED BY <1>7, <2>1, <3>1, <3>2 DEF Closes
  <2>2. CASE p # o
    BY <1>1, <1>2, <1>3, <1>7, <2>2 DEF Closes, FreedOwner
  <2> QED BY <2>1, <2>2
<1>8. CASE ClosesAtRestart
  <2>1. PICK done \in SUBSET Occurrences :
          (\A o \in done : owner[Chat(o)] = o) /\ RestartSettles(done)
    BY <1>8 DEF ClosesAtRestart, NativeAuthority
  <2>2. owner'[Chat(p)] = IF owner[Chat(p)] \in done THEN Free ELSE owner[Chat(p)]
    BY <1>2, <2>1 DEF RestartSettles
  <2>3. PICK outcome : source' = [o \in Occurrences |->
               IF o \in done THEN Recovered(o, outcome[o]) ELSE source[o]]
    BY <2>1 DEF RestartSettles
  <2>4. CASE p \in done
    <3>1. source'[p] = Recovered(p, outcome[p])
      BY <2>3, <2>4
    <3>2. source[p] \in SourceRecords
      BY Parts DEF SourceTyped
    <3>3. source'[p].op = "terminal"
      BY <3>1, <3>2 DEF Recovered, SourceRecords
    <3>4. owner'[Chat(p)] # p
      BY <1>3, <2>1, <2>2, <2>4
    <3> QED BY <3>3, <3>4 DEF OpenPhases
  <2>5. CASE p \notin done
    <3>1. source'[p] = source[p]
      BY <2>3, <2>5
    <3>2. owner'[Chat(p)] = p <=> owner[Chat(p)] = p
      BY <1>3, <2>2, <2>5
    <3> QED BY <1>1, <3>1, <3>2
  <2> QED BY <2>4, <2>5
<1> QED BY <1>4, <1>5, <1>6, <1>7, <1>8 DEF ChatMove

\* A chat is owned exactly by its open scheduled operation, and a settlement
\* that comes after a poll has closed the operation leaves the chat to its new
\* owner (acceptScheduledAgentSource, settleScheduledAgentSource,
\* reconcileExpiredScheduledAgentSources).
THEOREM ChatOwnershipTheorem == Spec => ChatOwnership
<1> DEFINE Kept ==
      \A ch \in Chats :
        owner[ch] = Foreign /\ owner'[ch] # Foreign => UNCHANGED <<source, run, exec>>
<1>1. Init => OpenOperationOwnsChat
  <2> SUFFICES ASSUME Init, NEW o \in Occurrences
               PROVE  source[o].op \notin OpenPhases /\ owner[Chat(o)] # o
    BY DEF OpenOperationOwnsChat
  <2>1. "none" \notin OpenPhases /\ Free # o
    BY OwnerAssumption DEF OpenPhases, OwnerAssumption
  <2> QED BY <2>1, OccurrenceParts DEF Init, NoSource
<1>2. RunsInv /\ OpenOperationOwnsChat /\ [Next]_vars => OpenOperationOwnsChat'
  <2> SUFFICES ASSUME RunsInv, OpenOperationOwnsChat, [Next]_vars
               PROVE  OpenOperationOwnsChat'
    OBVIOUS
  <2>1. CASE Next
    BY <2>1, ChatMoves, OwnershipKept DEF RunsInv
  <2>2. CASE UNCHANGED vars
    BY <2>2 DEF vars, OpenOperationOwnsChat, Chat, TaskOf
  <2> QED BY <2>1, <2>2
<1>3. ASSUME RunsInv, [Next]_vars PROVE [Kept]_vars
  <2>1. CASE UNCHANGED vars
    BY <2>1
  <2>2. CASE Next
    <3>1. owner \in [Chats -> {Free, Foreign} \cup Occurrences]
      BY <1>3, Parts DEF RunsInv, OwnerTyped
    <3>2. ChatMove
      BY <1>3, <2>2, ChatMoves DEF RunsInv
    <3>3. \A o \in Occurrences : o # Foreign /\ Free # Foreign
      BY OwnerAssumption DEF OwnerAssumption
    <3>4. ASSUME NEW ch \in Chats, owner[ch] = Foreign, owner'[ch] # Foreign
          PROVE  UNCHANGED <<source, run, exec>>
      <4>1. CASE Continues
        BY <3>4, <4>1 DEF Continues
      <4>2. ASSUME NEW o \in Occurrences, Opens(o) PROVE FALSE
        BY <3>1, <3>3, <3>4, <4>2 DEF Opens
      <4>3. ASSUME NEW o \in Occurrences, Closes(o) PROVE FALSE
        BY <3>1, <3>3, <3>4, <4>3 DEF Closes, FreedOwner
      <4>4. CASE ForeignMoves
        BY <4>4 DEF ForeignMoves
      <4>5. ASSUME ClosesAtRestart PROVE FALSE
        BY <3>1, <3>3, <3>4, <4>5 DEF ClosesAtRestart, RestartSettles
      <4> QED BY <3>2, <4>1, <4>2, <4>3, <4>4, <4>5 DEF ChatMove
    <3> QED BY <3>4
  <2> QED BY <1>3, <2>1, <2>2
<1> QED BY <1>1, <1>2, <1>3, RunsInvariant, PTL DEF Spec, ChatOwnership

-----------------------------------------------------------------------------
(* No task rests on an occurrence that is over.                             *)

\* An occurrence the head of its task has not reached yet.
Ahead(o) ==
  LET h == head[TaskOf(o)]
  IN  \/ RevisionOf(o) > h.revision
      \/ RevisionOf(o) = h.revision /\ h.next \in Nat /\ SlotOf(o) > h.next

\* The head is the first to reach an occurrence, and a run that ended under a
\* paused head recorded its successor.
FutureAbsent == \A o \in Occurrences : Ahead(o) => run[o].state = "absent"
PausedKnows == \A o \in Occurrences :
  run[o].state \in Settled /\ run[o].disposition = "paused"
    => run[o].next = Successor(o)

\* A completed task has no next run, so neither pausing it nor setting it to
\* active again brings an old slot back.
CompletedRests == \A t \in Tasks :
  head[t].status = "completed" => head[t].next = None

FrozenInv ==
  RunsInv /\ NotFrozen /\ FutureAbsent /\ PausedKnows /\ CompletedRests

\* The slot a head shows, when there is one.
HeadRun(t) == <<t, head[t].revision, head[t].next>>

\* What NotFrozen asks of a head.
Awake(t) ==
  head[t].next \in Slots =>
    /\ head[t].status = "active" => run[HeadRun(t)].state \in {"absent"} \cup Open
    /\ head[t].status = "paused" =>
         \/ run[HeadRun(t)].state \in {"absent"} \cup Open
         \/ /\ run[HeadRun(t)].state \in Settled
            /\ run[HeadRun(t)].disposition = "paused"

\* NotFrozen says it of every head.
LEMMA FrozenParts == NotFrozen <=> \A t \in Tasks : Awake(t)
BY DEF NotFrozen, Awake, HeadRun

\* The slot of a head is an occurrence of that task.
LEMMA HeadRunParts ==
  ASSUME TypeOK, NEW t \in Tasks, head[t].next \in Slots
  PROVE  /\ HeadRun(t) \in Occurrences /\ TaskOf(HeadRun(t)) = t
         /\ RevisionOf(HeadRun(t)) = head[t].revision
         /\ SlotOf(HeadRun(t)) = head[t].next
<1>1. head[t] \in HeadRecords
  BY Parts DEF HeadTyped
<1>2. head[t].revision \in Revisions
  BY <1>1 DEF HeadRecords
<1> QED BY <1>2 DEF HeadRun, Occurrences, TaskOf, RevisionOf, SlotOf

\* The numbers and names in a head.
LEMMA HeadNumbers ==
  ASSUME TypeOK, NEW t \in Tasks
  PROVE  /\ head[t].revision \in Nat /\ head[t].next \in Nat \cup {None}
         /\ head[t] \in HeadRecords /\ head \in [Tasks -> HeadRecords]
BY Parts DEF HeadTyped, HeadRecords, Revisions

\* An edit leaves what is ahead absent and the head awake.
LEMMA EditStaysAwake ==
  ASSUME FrozenInv, TypeOK', User
  PROVE  NotFrozen' /\ FutureAbsent' /\ PausedKnows' /\ CompletedRests'
<1>0. TypeOK /\ NotFrozen /\ FutureAbsent /\ PausedKnows /\ CompletedRests
  BY DEF FrozenInv, RunsInv
<1>1. PICK u \in Tasks : Edits(u)
  BY UserEdits
<1>2. run' = run
  BY UserEdits DEF UserIdle
<1>3. PICK h \in HeadRecords : h = head[u]
  BY <1>0, HeadNumbers
<1>4. PICK g \in HeadRecords : g = head'[u]
  BY <1>1, PartsPrime DEF HeadTyped
<1>5. \A t \in Tasks : t # u => head'[t] = head[t]
  BY <1>0, <1>1, HeadNumbers
     DEF Edits, Revise, Pause, Resume, Reactivate, Delete
<1>6. h.revision \in Nat /\ h.next \in Nat \cup {None}
  BY <1>3 DEF HeadRecords, Revisions
<1>7. \/ g.revision = h.revision + 1
      \/ /\ g.revision = h.revision /\ g.next = h.next
         /\ h.status = "active" /\ g.status = "paused"
      \/ /\ g.revision = h.revision /\ g.next = h.next
         /\ h.status = "completed" /\ g.status \in {"paused", "active"}
      \/ /\ g.revision = h.revision /\ g.next = PausedNext(u)
         /\ h.status = "paused" /\ g.status \in {"active", "completed"}
      \/ g.revision = h.revision /\ g.status = "deleted" /\ g.next = None
  BY <1>0, <1>1, <1>3, <1>4, HeadNumbers
     DEF Edits, Revise, Pause, Resume, Reactivate, Delete, HeadRecords
<1>8. ASSUME h.status = "paused"
      PROVE  \/ /\ PausedNext(u) = h.next
                /\ h.next \in Slots => run[HeadRun(u)].state \in {"absent"} \cup Open
             \/ PausedNext(u) = None
             \/ h.next \in Nat /\ PausedNext(u) = h.next + 1
  <2>1. CASE h.next \notin Slots
    BY <1>3, <2>1 DEF PausedNext
  <2>2. CASE h.next \in Slots
    <3>1. /\ HeadRun(u) \in Occurrences
          /\ SlotOf(HeadRun(u)) = h.next /\ h.next \in Nat
      BY <1>0, <1>3, <2>2, HeadRunParts DEF Slots
    <3>2. CASE run[HeadRun(u)].state \in Settled
               /\ run[HeadRun(u)].disposition = "paused"
      <4>1. PausedNext(u) = run[HeadRun(u)].next
        BY <1>3, <2>2, <3>2 DEF PausedNext, HeadRun
      <4>2. PausedNext(u) = Successor(HeadRun(u))
        BY <1>0, <3>1, <3>2, <4>1 DEF PausedKnows
      <4> QED BY <3>1, <4>2 DEF Successor
    <3>3. CASE ~(run[HeadRun(u)].state \in Settled
                 /\ run[HeadRun(u)].disposition = "paused")
      <4>1. PausedNext(u) = h.next
        BY <1>3, <2>2, <3>3 DEF PausedNext, HeadRun
      <4>2. Awake(u)
        BY <1>0, FrozenParts
      <4> QED BY <1>3, <1>8, <2>2, <3>3, <4>1, <4>2 DEF Awake
    <3> QED BY <3>2, <3>3
  <2> QED BY <2>1, <2>2
<1>9. ASSUME NEW o \in Occurrences, Ahead(o)' PROVE Ahead(o)
  <2>1. TaskOf(o) \in Tasks /\ RevisionOf(o) \in Nat /\ SlotOf(o) \in Nat
    BY OccurrenceParts DEF Revisions
  <2>2. CASE TaskOf(o) # u
    BY <1>5, <1>9, <2>1, <2>2 DEF Ahead
  <2>3. CASE TaskOf(o) = u
    <3>1. \/ RevisionOf(o) > g.revision
          \/ RevisionOf(o) = g.revision /\ g.next \in Nat /\ SlotOf(o) > g.next
      BY <1>4, <1>9, <2>3 DEF Ahead
    <3>2. None \notin Nat
      BY SchedulerAssumption DEF SchedulerAssumption
    <3>3. \/ RevisionOf(o) > h.revision
          \/ RevisionOf(o) = h.revision /\ h.next \in Nat /\ SlotOf(o) > h.next
      <4>1. CASE g.revision = h.revision + 1
        BY <1>6, <2>1, <3>1, <4>1
      <4>2. CASE g.revision = h.revision /\ g.next \in {h.next, None}
        BY <1>6, <2>1, <3>1, <3>2, <4>2
      <4>3. CASE g.revision = h.revision /\ h.next \in Nat /\ g.next = h.next + 1
        BY <1>6, <2>1, <3>1, <4>3
      <4> QED BY <1>7, <1>8, <4>1, <4>2, <4>3
    <3> QED BY <1>3, <2>3, <3>3 DEF Ahead
  <2> QED BY <2>2, <2>3
<1>10. FutureAbsent' /\ PausedKnows'
  BY <1>0, <1>2, <1>9 DEF FutureAbsent, PausedKnows, Successor, TaskOf, SlotOf
<1>11. ASSUME NEW t \in Tasks PROVE Awake(t)'
  <2>1. CASE t # u
    <3>1. Awake(t)
      BY <1>0, FrozenParts
    <3> QED BY <1>2, <1>5, <2>1, <3>1 DEF Awake, HeadRun
  <2>2. CASE t = u
    <3>1. SUFFICES ASSUME g.next \in Slots, g.status \in {"active", "paused"}
                   PROVE  \/ run[<<u, g.revision, g.next>>].state
                               \in {"absent"} \cup Open
                          \/ /\ g.status = "paused"
                             /\ run[<<u, g.revision, g.next>>].state \in Settled
                             /\ run[<<u, g.revision, g.next>>].disposition = "paused"
      BY <1>2, <1>4, <2>2 DEF Awake, HeadRun
    <3>2. Awake(u) /\ HeadRun(u) = <<u, h.revision, h.next>>
      BY <1>0, <1>3, FrozenParts DEF HeadRun
    <3>3. CASE g.revision = h.revision + 1
      <4>1. PICK o \in Occurrences : o = <<u, g.revision, g.next>>
        BY <1>4, <3>1 DEF Occurrences, HeadRecords
      <4>2. TaskOf(o) = u /\ RevisionOf(o) > h.revision
        BY <1>6, <3>3, <4>1 DEF TaskOf, RevisionOf
      <4>3. run[o].state = "absent"
        BY <1>0, <1>3, <4>2 DEF FutureAbsent, Ahead
      <4> QED BY <4>1, <4>3
    <3>4. CASE /\ g.revision = h.revision /\ g.next = h.next
               /\ h.status = "active" /\ g.status = "paused"
      BY <1>3, <3>1, <3>2, <3>4 DEF Awake
    <3>6. CASE g.next = h.next /\ h.status = "completed"
      BY <1>0, <1>3, <3>1, <3>6, SchedulerAssumption
         DEF CompletedRests, SchedulerAssumption, Slots
    <3>5. CASE /\ g.revision = h.revision /\ g.next = PausedNext(u)
               /\ h.status = "paused" /\ g.status \in {"active", "completed"}
      <4>1. CASE /\ PausedNext(u) = h.next
                 /\ h.next \in Slots => run[HeadRun(u)].state \in {"absent"} \cup Open
        BY <3>1, <3>2, <3>5, <4>1
      <4>2. CASE PausedNext(u) = None
        BY <3>1, <3>5, <4>2, SchedulerAssumption DEF SchedulerAssumption, Slots
      <4>3. CASE h.next \in Nat /\ PausedNext(u) = h.next + 1
        <5>1. PICK o \in Occurrences : o = <<u, g.revision, g.next>>
          BY <1>4, <3>1 DEF Occurrences, HeadRecords
        <5>2. TaskOf(o) = u /\ RevisionOf(o) = h.revision /\ SlotOf(o) > h.next
          BY <3>5, <4>3, <5>1 DEF TaskOf, RevisionOf, SlotOf
        <5>3. run[o].state = "absent"
          BY <1>0, <1>3, <4>3, <5>2 DEF FutureAbsent, Ahead
        <5> QED BY <5>1, <5>3
      <4> QED BY <1>8, <3>5, <4>1, <4>2, <4>3
    <3> QED BY <1>7, <3>1, <3>3, <3>4, <3>5, <3>6
  <2> QED BY <2>1, <2>2
<1>12. NotFrozen'
  BY <1>11 DEF NotFrozen, Awake, HeadRun
<1>13. CompletedRests'
  <2>1. g.status = "completed" => g.next = None
    BY <1>0, <1>1, <1>3, <1>4, HeadNumbers
       DEF Edits, Revise, Pause, Resume, Reactivate, Delete, HeadRecords
  <2> QED BY <1>0, <1>4, <1>5, <2>1 DEF CompletedRests
<1> QED BY <1>10, <1>12, <1>13

\* The end of a run moves its head on, or leaves the head paused with the
\* successor recorded.
LEMMA SettleStaysAwake ==
  ASSUME FrozenInv, TypeOK', NEW o \in Occurrences, run[o].state \in Open,
         NEW s \in Settled, NEW r, SettleRun(o, s, r)
  PROVE  NotFrozen' /\ FutureAbsent' /\ PausedKnows' /\ CompletedRests'
<1> DEFINE u == TaskOf(o)
<1>0. TypeOK /\ NotFrozen /\ FutureAbsent /\ PausedKnows /\ CompletedRests
  BY DEF FrozenInv, RunsInv
<1>1. u \in Tasks /\ o = <<u, RevisionOf(o), SlotOf(o)>> /\ SlotOf(o) \in Nat
  BY OccurrenceParts
<1>2. ~Ahead(o)
  BY <1>0 DEF FutureAbsent, Open
<1>3. /\ run'[o].state = s /\ run'[o].disposition = Disposition(o)
      /\ Disposition(o) = "paused" => run'[o].next = Successor(o)
      /\ \A p \in Occurrences : p # o => run'[p] = run[p]
  BY <1>0, Parts DEF SettleRun, SettledRun, RunTyped, RunRecords
<1>4. PausedKnows'
  BY <1>0, <1>3 DEF PausedKnows, Successor, TaskOf, SlotOf
<1>5. CASE Disposition(o) # "advanced"
  <2>1. head' = head
    BY <1>5 DEF SettleRun, AdvancedHead
  <2>2. FutureAbsent'
    BY <1>0, <1>2, <1>3, <2>1 DEF FutureAbsent, Ahead, TaskOf, RevisionOf, SlotOf
  <2>3. ASSUME NEW t \in Tasks PROVE Awake(t)'
    <3>1. SUFFICES ASSUME head[t].next \in Slots PROVE Awake(t)'
      BY <2>1 DEF Awake
    <3>2. HeadRun(t) \in Occurrences /\ TaskOf(HeadRun(t)) = t
          /\ RevisionOf(HeadRun(t)) = head[t].revision
          /\ SlotOf(HeadRun(t)) = head[t].next
      BY <1>0, <3>1, HeadRunParts
    <3>3. CASE HeadRun(t) # o
      <4>1. Awake(t) /\ run'[HeadRun(t)] = run[HeadRun(t)]
        BY <1>0, <1>3, <3>2, <3>3, FrozenParts
      <4> QED BY <2>1, <4>1 DEF Awake, HeadRun
    <3>4. CASE HeadRun(t) = o
      <4>1. IsHead(o) /\ t = u
        BY <3>2, <3>4 DEF IsHead
      <4>2. head[t].status # "active" /\ (head[t].status = "paused"
              => Disposition(o) = "paused")
        BY <1>5, <4>1 DEF Disposition
      <4> QED BY <1>3, <2>1, <3>4, <4>2 DEF Awake, HeadRun
    <3> QED BY <3>3, <3>4
  <2>4. NotFrozen'
    BY <2>3 DEF NotFrozen, Awake, HeadRun
  <2>5. CompletedRests'
    BY <1>0, <2>1 DEF CompletedRests
  <2> QED BY <1>4, <2>2, <2>4, <2>5
<1>6. CASE Disposition(o) = "advanced"
  <2>1. IsHead(o) /\ head[u].status # "paused"
    BY <1>6 DEF Disposition
  <2>2. PICK h \in HeadRecords : h = head[u]
    BY <1>0, <1>1, HeadNumbers
  <2>3. PICK g \in HeadRecords : g = head'[u]
    BY <1>1, PartsPrime DEF HeadTyped
  <2>4. /\ g.next = Successor(o) /\ g.revision = h.revision
        /\ g.status \in {h.status, "completed"}
        /\ \A t \in Tasks : t # u => head'[t] = head[t]
    BY <1>0, <1>1, <1>6, <2>2, <2>3, HeadNumbers
       DEF SettleRun, AdvancedHead, HeadRecords
  <2>5. h.revision = RevisionOf(o) /\ h.next = SlotOf(o) /\ h.status # "paused"
    BY <2>1, <2>2 DEF IsHead
  <2>6. g.next = None \/ g.next = h.next + 1
    BY <2>4, <2>5 DEF Successor
  <2>7. None \notin Nat
    BY SchedulerAssumption DEF SchedulerAssumption
  <2>8. ASSUME NEW p \in Occurrences, Ahead(p)' PROVE Ahead(p)
    <3>1. SlotOf(p) \in Nat /\ TaskOf(p) \in Tasks
      BY OccurrenceParts
    <3>2. CASE TaskOf(p) # u
      BY <2>4, <2>8, <3>1, <3>2 DEF Ahead
    <3>3. CASE TaskOf(p) = u
      <4>1. \/ RevisionOf(p) > g.revision
            \/ RevisionOf(p) = g.revision /\ g.next \in Nat /\ SlotOf(p) > g.next
        BY <2>3, <2>8, <3>3 DEF Ahead
      <4>2. h.next \in Nat /\ (g.next \in Nat => g.next = h.next + 1)
        BY <1>1, <2>5, <2>6, <2>7
      <4>3. \/ RevisionOf(p) > h.revision
            \/ RevisionOf(p) = h.revision /\ SlotOf(p) > h.next
        BY <2>4, <3>1, <4>1, <4>2
      <4> QED BY <2>2, <3>3, <4>2, <4>3 DEF Ahead
    <3> QED BY <3>2, <3>3
  <2>9. FutureAbsent'
    BY <1>0, <1>2, <1>3, <2>8 DEF FutureAbsent
  <2>10. ASSUME NEW t \in Tasks PROVE Awake(t)'
    <3>1. CASE t # u
      <4>1. Awake(t)
        BY <1>0, FrozenParts
      <4>2. SUFFICES ASSUME head[t].next \in Slots PROVE Awake(t)'
        BY <2>4, <3>1 DEF Awake
      <4>3. HeadRun(t) \in Occurrences /\ HeadRun(t) # o
        BY <1>0, <3>1, <4>2, HeadRunParts
      <4>4. run'[HeadRun(t)] = run[HeadRun(t)]
        BY <1>3, <4>3
      <4> QED BY <2>4, <3>1, <4>1, <4>4 DEF Awake, HeadRun
    <3>2. CASE t = u
      <4>1. SUFFICES ASSUME g.next \in Slots
                     PROVE  run'[<<u, g.revision, g.next>>].state = "absent"
        BY <2>3, <2>4, <2>5, <3>2 DEF Awake, HeadRun
      <4>2. PICK p \in Occurrences : p = <<u, g.revision, g.next>>
        BY <1>1, <2>3, <4>1 DEF Occurrences, HeadRecords
      <4>3. g.next = h.next + 1 /\ h.next \in Nat
        BY <1>1, <2>5, <2>6, <2>7, <4>1 DEF Slots
      <4>4. TaskOf(p) = u /\ RevisionOf(p) = h.revision /\ SlotOf(p) > h.next
        BY <2>4, <4>2, <4>3 DEF TaskOf, RevisionOf, SlotOf
      <4>5. Ahead(p)
        BY <2>2, <4>3, <4>4 DEF Ahead
      <4>6. run[p].state = "absent" /\ p # o
        BY <1>0, <1>2, <4>5 DEF FutureAbsent
      <4> QED BY <1>3, <4>2, <4>6
    <3> QED BY <3>1, <3>2
  <2>11. NotFrozen'
    BY <2>10 DEF NotFrozen, Awake, HeadRun
  <2>12. CompletedRests'
    <3>1. h.status # "completed"
      BY <1>0, <1>1, <2>2, <2>5, <2>7 DEF CompletedRests
    <3>2. g.status = "completed" => Successor(o) = None
      BY <1>0, <1>1, <1>6, <2>2, <2>3, <3>1, HeadNumbers
         DEF SettleRun, AdvancedHead, HeadRecords
    <3> QED BY <1>0, <2>3, <2>4, <3>2 DEF CompletedRests
  <2> QED BY <1>4, <2>9, <2>11, <2>12
<1> QED BY <1>5, <1>6

\* A step that neither edits nor ends a run: it keeps absent runs, except a
\* claimed head, keeps open runs open, and retires only what no head needs.
LEMMA QuietStaysAwake ==
  ASSUME FrozenInv, TypeOK', UNCHANGED head,
         \A o \in Occurrences :
           \/ /\ run'[o].state = run[o].state
              /\ run'[o].disposition = run[o].disposition
              /\ run'[o].next = run[o].next
           \/ run[o].state \in Open /\ run'[o].state \in Open
           \/ HeadMatches(o) /\ run[o].state = "absent" /\ run'[o].state \in Open
           \/ /\ ~(IsHead(o) /\ head[TaskOf(o)].status = "paused")
              /\ run[o].state \in Settled /\ run'[o].state = "retired"
  PROVE  NotFrozen' /\ FutureAbsent' /\ PausedKnows' /\ CompletedRests'
<1>0. TypeOK /\ NotFrozen /\ FutureAbsent /\ PausedKnows /\ CompletedRests
  BY DEF FrozenInv, RunsInv
<1>1. /\ "absent" \notin Open /\ "absent" \notin Settled
      /\ "retired" \notin Settled /\ Open \cap Settled = {}
  BY DEF Open, Settled
<1>2. ASSUME NEW o \in Occurrences, Ahead(o)' PROVE run'[o].state = "absent"
  <2>1. Ahead(o)
    BY <1>2 DEF Ahead, TaskOf, RevisionOf, SlotOf
  <2>2. run[o].state = "absent"
    BY <1>0, <2>1 DEF FutureAbsent
  <2>3. ~HeadMatches(o)
    <3>1. head[TaskOf(o)].revision \in Nat /\ SlotOf(o) \in Nat
      BY <1>0, OccurrenceParts, HeadNumbers
    <3> QED BY <2>1, <3>1 DEF HeadMatches, IsHead, Ahead
  <2> QED BY <1>1, <2>2, <2>3
<1>3. FutureAbsent'
  BY <1>2 DEF FutureAbsent
<1>4. PausedKnows'
  BY <1>0, <1>1 DEF PausedKnows, Successor, TaskOf, SlotOf
<1>5. ASSUME NEW t \in Tasks PROVE Awake(t)'
  <2>1. SUFFICES ASSUME head[t].next \in Slots PROVE Awake(t)'
    BY DEF Awake
  <2>2. PICK o \in Occurrences : o = HeadRun(t)
    BY <1>0, <2>1, HeadRunParts
  <2>3. IsHead(o) /\ TaskOf(o) = t
    BY <1>0, <2>1, <2>2, HeadRunParts DEF IsHead
  <2>4. Awake(t) /\ HeadRun(t)' = HeadRun(t)
    BY <1>0, FrozenParts DEF HeadRun
  <2>5. head[t].status = "active" => run'[o].state \in {"absent"} \cup Open
    BY <1>1, <2>1, <2>2, <2>4 DEF Awake
  <2>6. head[t].status = "paused" =>
          \/ run'[o].state \in {"absent"} \cup Open
          \/ run'[o].state \in Settled /\ run'[o].disposition = "paused"
    BY <1>1, <2>1, <2>2, <2>3, <2>4 DEF Awake
  <2> QED BY <2>2, <2>4, <2>5, <2>6 DEF Awake
<1>6. CompletedRests'
  BY <1>0 DEF CompletedRests
<1> QED BY <1>3, <1>4, <1>5, <1>6 DEF NotFrozen, Awake, HeadRun

\* Each step of an executor ends a run in progress, binds it or leaves it.
LEMMA ExecutorRuns ==
  ASSUME TypeOK, NEW c \in Claims, Execute(c)
  PROVE  \/ UNCHANGED <<run, head>>
         \/ Bind(c)
         \/ /\ run[OccurrenceOf(c)].state \in Open
            /\ \E s \in Settled : \E r : SettleRun(OccurrenceOf(c), s, r)
<1>1. "completed" \in Settled /\ "abandoned" \in Settled
  BY DEF Settled
<1>2. CASE Complete(c) \/ CompleteUncertain(c) \/ Abandon(c)
  BY <1>1, <1>2 DEF Complete, CompleteUncertain, Abandon, Completes, Fenced
<1>3. CASE ~(Complete(c) \/ CompleteUncertain(c) \/ Abandon(c))
  BY <1>3 DEF Execute, Accept, StartWork, StartRefused, BindRefused, Dispatch,
     DispatchSkipped, WorkFails, ShellWorks, FinishHarness, NativeSettle, Seal,
     CompleteRefused, SettleSource, SettleSourceFails, AbandonRefused, ledgers
<1> QED BY <1>2, <1>3

\* The frozen-head invariant survives every step.
LEMMA FrozenStep == FrozenInv /\ [Next]_vars => FrozenInv'
<1> SUFFICES ASSUME FrozenInv, [Next]_vars PROVE FrozenInv'
  OBVIOUS
<1>0. RunsInv /\ TypeOK /\ RunsInv' /\ TypeOK'
  BY RunsStep DEF FrozenInv, RunsInv
<1>1. SUFFICES NotFrozen' /\ FutureAbsent' /\ PausedKnows' /\ CompletedRests'
  BY <1>0 DEF FrozenInv
<1>2. run \in [Occurrences -> RunRecords]
  BY <1>0, Parts DEF RunTyped
<1>3. "claimed" \in Open /\ "source_bound" \in Open /\ "completed" \in Settled
  BY DEF Open, Settled
<1>4. CASE UNCHANGED <<run, head>>
  BY <1>0, <1>4, QuietStaysAwake
<1>5. CASE User
  BY <1>0, <1>5, EditStaysAwake
<1>6. ASSUME NEW o \in Occurrences, ReconcileInterrupted(o)
      PROVE  NotFrozen' /\ FutureAbsent' /\ PausedKnows' /\ CompletedRests'
  BY <1>0, <1>3, <1>6, SettleStaysAwake DEF ReconcileInterrupted
<1>7. ASSUME NEW o \in Occurrences, Claim(o)
      PROVE  NotFrozen' /\ FutureAbsent' /\ PausedKnows' /\ CompletedRests'
  <2>1. /\ HeadMatches(o) /\ run[o].state = "absent" /\ run'[o].state = "claimed"
        /\ head' = head /\ \A p \in Occurrences : p # o => run'[p] = run[p]
    BY <1>2, <1>7 DEF Claim, RunRecords
  <2> QED BY <1>0, <1>3, <2>1, QuietStaysAwake
<1>8. ASSUME NEW c \in Claims, Reclaim(c)
      PROVE  NotFrozen' /\ FutureAbsent' /\ PausedKnows' /\ CompletedRests'
  <2>1. head' = head /\ \A p \in Occurrences :
          /\ run'[p].state = run[p].state /\ run'[p].next = run[p].next
          /\ run'[p].disposition = run[p].disposition
    BY <1>2, <1>8 DEF Reclaim, RunRecords
  <2> QED BY <1>0, <2>1, QuietStaysAwake
<1>9. ASSUME NEW o \in Occurrences, Lapse(o)
      PROVE  NotFrozen' /\ FutureAbsent' /\ PausedKnows' /\ CompletedRests'
  <2>1. head' = head /\ \A p \in Occurrences :
          /\ run'[p].state = run[p].state /\ run'[p].next = run[p].next
          /\ run'[p].disposition = run[p].disposition
    BY <1>2, <1>9 DEF Lapse, RunRecords
  <2> QED BY <1>0, <2>1, QuietStaysAwake
<1>10. ASSUME NEW o \in Occurrences, Retire(o)
       PROVE  NotFrozen' /\ FutureAbsent' /\ PausedKnows' /\ CompletedRests'
  <2>1. /\ ~(IsHead(o) /\ head[TaskOf(o)].status = "paused")
        /\ run[o].state \in Settled /\ run'[o].state = "retired" /\ head' = head
        /\ \A p \in Occurrences : p # o => run'[p] = run[p]
    BY <1>2, <1>10 DEF Retire, RunRecords
  <2> QED BY <1>0, <2>1, QuietStaysAwake
<1>11. ASSUME NEW c \in Claims, Execute(c)
       PROVE  NotFrozen' /\ FutureAbsent' /\ PausedKnows' /\ CompletedRests'
  <2>1. OccurrenceOf(c) \in Occurrences
    BY ClaimParts
  <2>2. CASE Bind(c)
    <3>1. /\ run[OccurrenceOf(c)].state \in Open /\ head' = head
          /\ run'[OccurrenceOf(c)].state = "source_bound"
          /\ \A p \in Occurrences : p # OccurrenceOf(c) => run'[p] = run[p]
      BY <1>2, <2>1, <2>2 DEF Bind, Fenced, RunRecords
    <3> QED BY <1>0, <1>3, <3>1, QuietStaysAwake
  <2>3. CASE /\ run[OccurrenceOf(c)].state \in Open
             /\ \E s \in Settled : \E r : SettleRun(OccurrenceOf(c), s, r)
    BY <1>0, <2>1, <2>3, SettleStaysAwake
  <2> QED BY <1>0, <1>4, <1>11, <2>2, <2>3, ExecutorRuns
<1>12. \/ UNCHANGED <<run, head>> \/ User
       \/ \E o \in Occurrences :
            ReconcileInterrupted(o) \/ Claim(o) \/ Lapse(o) \/ Retire(o)
       \/ \E c \in Claims : Reclaim(c) \/ Execute(c)
  BY DEF Next, vars, Poll, Repair, RepairCompleted, ExpireSource, ReadAuthorities,
     RenewFails, Crash, ForeignClaims, ForeignEnds, ledgers
<1> QED BY <1>4, <1>5, <1>6, <1>7, <1>8, <1>9, <1>10, <1>11, <1>12

\* At the start every head shows its first slot and nothing has run.
LEMMA FrozenInit == Init => FrozenInv
<1> SUFFICES ASSUME Init PROVE FrozenInv
  OBVIOUS
<1>1. \A o \in Occurrences : run[o].state = "absent"
  BY DEF Init, NoRun
<1>2. "absent" \notin Settled
  BY DEF Settled
<1>3. RunsInv /\ TypeOK
  BY RunsInit DEF RunsInv
<1>4. NotFrozen
  <2>1. \A t \in Tasks : head[t].next \in Slots => HeadRun(t) \in Occurrences
    BY <1>3, HeadRunParts
  <2> QED BY <1>1, <2>1 DEF NotFrozen, HeadRun
<1>5. CompletedRests
  BY DEF Init, CompletedRests
<1> QED BY <1>1, <1>2, <1>3, <1>4, <1>5 DEF FrozenInv, FutureAbsent, PausedKnows

\* No active task rests on an occurrence that is over, and a paused one only
\* with its decision at hand, however edits, completions, resumes and
\* retention interleave (decideHead, visibleScheduledNextRun, planRetention).
THEOREM NotFrozenTheorem == Spec => []NotFrozen
<1>1. FrozenInv => NotFrozen
  BY DEF FrozenInv
<1> QED BY <1>1, FrozenInit, FrozenStep, PTL DEF Spec

-----------------------------------------------------------------------------
(* A recorded success is a committed one.                                   *)

\* The queue holds or runs this claim.
Executes(c) == exec[c].pc \notin {"none", "dropped"}
InLane(c) == \E i \in 1..Len(lane[LaneFor(c)]) : lane[LaneFor(c)][i] = c

\* The queue deduplicates by run: one executor per occurrence, which stays in
\* its lane until it returns.
OneExecutor ==
  /\ \A c \in Claims : IF Executes(c) THEN InLane(c) ELSE exec[c].result = "none"
  /\ \A c, d \in Claims :
       Executes(c) /\ Executes(d) /\ OccurrenceOf(c) = OccurrenceOf(d) => c = d

\* The operation of the run has ended in a completed, consumed source.
Committed(o) ==
  /\ source[o].op = "terminal" /\ source[o].outcome = "completed"
  /\ source[o].state = "consumed"

\* An agent run's answer is a success only behind the native settlement, the
\* run records no other success, and then only the settlement of its source
\* is left to do.
AnswerCommitted == \A c \in Claims :
  IsAgent(OccurrenceOf(c)) /\ exec[c].result = "success"
    => Committed(OccurrenceOf(c))
RunCommitted == \A o \in Occurrences :
  IsAgent(o) /\ run[o].result = "success" => Committed(o)
SettlesSuccess == \A c \in Claims :
  Executes(c) /\ run[OccurrenceOf(c)].result = "success"
    => exec[c].pc = "settling" /\ exec[c].result = "success"
OpenHasNoResult == \A o \in Occurrences :
  run[o].state \in Open \cup {"absent"} => run[o].result = "none"

CommitInv == RunsInv /\ OneExecutor /\ AnswerCommitted /\ RunCommitted
             /\ SettlesSuccess /\ OpenHasNoResult

\* What a step does to the executors: it leaves their places and results, one
\* goes on, one returns to the queue, a claim is queued, or all are lost.
Renews == lane' = lane /\ \A d \in Claims :
            exec'[d].pc = exec[d].pc /\ exec'[d].result = exec[d].result
Moves(c) == /\ Executes(c) /\ Executes(c)' /\ lane' = lane
            /\ \A d \in Claims \ {c} : exec'[d] = exec[d]
Finishes(c) == Running(c) /\ Ends(c)
Restarts == \A d \in Claims : exec'[d] = NoExec

\* A place in a lane is a place in its next state.
LEMMA LaneKept ==
  ASSUME lane' = lane, NEW c \in Claims, InLane(c)
  PROVE  InLane(c)'
BY DEF InLane, LaneFor, TaskOf

\* Only the head of a lane leaves it when its function returns.
LEMMA LaneAdvances ==
  ASSUME TypeOK, NEW c \in Claims, Finishes(c), NEW d \in Claims \ {c}, InLane(d)
  PROVE  InLane(d)'
<1> DEFINE l == LaneFor(c)
<1>1. l \in Lanes /\ LaneFor(d) \in Lanes
  BY ClaimParts
<1>2. /\ lane[l] \in Seq(Claims) /\ lane[l] # <<>> /\ Head(lane[l]) = c
      /\ lane \in [Lanes -> Seq(Claims)]
      /\ lane' = [lane EXCEPT ![l] = Tail(@)]
  BY <1>1 DEF Finishes, Running, Ends, TypeOK
<1>3. PICK i \in 1..Len(lane[LaneFor(d)]) : lane[LaneFor(d)][i] = d
  BY DEF InLane
<1>4. CASE LaneFor(d) # l
  <2>1. lane'[LaneFor(d)] = lane[LaneFor(d)]
    BY <1>1, <1>2, <1>4
  <2> QED BY <1>3, <2>1 DEF InLane, LaneFor, TaskOf
<1>5. CASE LaneFor(d) = l
  <2>1. i # 1 /\ i \in 1..Len(lane[l]) /\ Len(lane[l]) \in Nat
    BY <1>2, <1>3, <1>5
  <2>2. lane'[l] = Tail(lane[l])
    BY <1>1, <1>2
  <2>3. i - 1 \in 1..Len(Tail(lane[l])) /\ Tail(lane[l])[i - 1] = lane[l][i]
    BY <1>2, <2>1
  <2> QED BY <1>3, <1>5, <2>2, <2>3 DEF InLane, LaneFor, TaskOf
<1> QED BY <1>4, <1>5

\* Queueing a claim moves no other.
LEMMA LaneGrows ==
  ASSUME TypeOK, NEW c \in Claims, Enqueue(c), ~Queued(OccurrenceOf(c))
  PROVE  InLane(c)' /\ \A d \in Claims : InLane(d) => InLane(d)'
<1> DEFINE l == LaneFor(c)
<1>1. l \in Lanes /\ \A d \in Claims : LaneFor(d) \in Lanes
  BY ClaimParts
<1>2. /\ lane \in [Lanes -> Seq(Claims)] /\ lane[l] \in Seq(Claims)
      /\ lane' = [lane EXCEPT ![l] = Append(@, c)]
  BY <1>1 DEF Enqueue, TypeOK
<1>3. lane'[l] = Append(lane[l], c) /\ \A m \in Lanes \ {l} : lane'[m] = lane[m]
  BY <1>1, <1>2
<1>4. /\ Len(lane[l]) \in Nat /\ Len(lane'[l]) = Len(lane[l]) + 1
      /\ lane'[l][Len(lane[l]) + 1] = c
      /\ \A i \in 1..Len(lane[l]) : lane'[l][i] = lane[l][i]
  BY <1>2, <1>3
<1>5. Len(lane[l]) + 1 \in 1..Len(lane'[l])
      /\ \A i \in 1..Len(lane[l]) : i \in 1..Len(lane'[l])
  BY <1>4
<1>6. InLane(c)'
  BY <1>4, <1>5 DEF InLane, LaneFor, TaskOf
<1>7. ASSUME NEW d \in Claims, InLane(d) PROVE InLane(d)'
  <2>1. CASE LaneFor(d) = l
    BY <1>4, <1>5, <1>7, <2>1 DEF InLane, LaneFor, TaskOf
  <2>2. CASE LaneFor(d) # l
    BY <1>1, <1>3, <1>7, <2>2 DEF InLane, LaneFor, TaskOf
  <2> QED BY <2>1, <2>2
<1> QED BY <1>6, <1>7

\* What an executor leaves behind when it returns.
LEMMA FinishedIsBlank ==
  ASSUME TypeOK, NEW c \in Claims, Finishes(c)
  PROVE  /\ ~Executes(c)' /\ exec'[c].result = "none"
         /\ \A d \in Claims \ {c} : exec'[d] = exec[d]
BY Parts DEF ExecTyped, Finishes, Ends, Executes, NoExec

\* What a queued claim starts with.
LEMMA QueuedIsFresh ==
  ASSUME TypeOK, NEW c \in Claims, Enqueue(c)
  PROVE  /\ exec'[c].result = "none"
         /\ \A d \in Claims \ {c} : exec'[d] = exec[d]
         /\ \/ Queued(OccurrenceOf(c)) /\ ~Executes(c)' /\ lane' = lane
            \/ /\ ~Queued(OccurrenceOf(c)) /\ Executes(c)'
               /\ exec'[c].pc = "waiting"
BY Parts DEF ExecTyped, Enqueue, Executes, NoExec

\* Each of these steps keeps one executor per occurrence.
LEMMA OneExecutorStep ==
  ASSUME TypeOK, OneExecutor,
         \/ Renews \/ Restarts
         \/ \E c \in Claims : Moves(c) \/ Finishes(c) \/ Enqueue(c)
  PROVE  OneExecutor'
<1>1. CASE Renews
  BY <1>1, LaneKept DEF Renews, OneExecutor, Executes
<1>2. CASE Restarts
  BY <1>2 DEF Restarts, OneExecutor, Executes, NoExec
<1>3. ASSUME NEW c \in Claims, Moves(c) PROVE OneExecutor'
  BY <1>3, LaneKept DEF Moves, OneExecutor, Executes
<1>4. ASSUME NEW c \in Claims, Finishes(c) PROVE OneExecutor'
  BY <1>4, LaneAdvances, FinishedIsBlank DEF OneExecutor, Executes
<1>5. ASSUME NEW c \in Claims, Enqueue(c) PROVE OneExecutor'
  <2>1. CASE Queued(OccurrenceOf(c))
    BY <1>5, <2>1, LaneKept, QueuedIsFresh DEF OneExecutor, Executes
  <2>2. CASE ~Queued(OccurrenceOf(c))
    <3>1. \A d \in Claims : OccurrenceOf(d) = OccurrenceOf(c) => ~Executes(d)
      BY <2>2 DEF OneExecutor, InLane, Queued, OccurrenceOf
    <3> QED BY <1>5, <2>2, <3>1, LaneGrows, QueuedIsFresh DEF OneExecutor, Executes
  <2> QED BY <2>1, <2>2
<1> QED BY <1>1, <1>2, <1>3, <1>4, <1>5

\* The parts of the commit invariant that relate executors, runs and sources.
CommitParts ==
  AnswerCommitted /\ RunCommitted /\ SettlesSuccess /\ OpenHasNoResult

\* Runs keep their results, and a run in progress was in progress.
ResultsKept == \A o \in Occurrences :
  /\ run'[o].result = run[o].result
  /\ run'[o].state \in Open \cup {"absent"} => run[o].state \in Open \cup {"absent"}
CommitsKept == \A o \in Occurrences : Committed(o) => Committed(o)'

\* A step that neither answers nor settles keeps them.
LEMMA CommitQuiet ==
  ASSUME CommitParts, ResultsKept, CommitsKept,
         \/ Renews \/ Restarts
         \/ \E c \in Claims : TypeOK /\ Finishes(c)
  PROVE  CommitParts'
<1>1. \A d \in Claims :
        \/ exec'[d].pc = exec[d].pc /\ exec'[d].result = exec[d].result
        \/ ~Executes(d)' /\ exec'[d].result = "none"
  <2>1. CASE Renews
    BY <2>1 DEF Renews
  <2>2. CASE Restarts
    BY <2>2 DEF Restarts, Executes, NoExec
  <2>3. CASE \E c \in Claims : TypeOK /\ Finishes(c)
    BY <2>3, FinishedIsBlank
  <2> QED BY <2>1, <2>2, <2>3
<1>2. AnswerCommitted' /\ SettlesSuccess'
  BY <1>1, ClaimParts
     DEF CommitParts, AnswerCommitted, SettlesSuccess, ResultsKept, CommitsKept,
         Executes, IsAgent, OccurrenceOf
<1>3. RunCommitted' /\ OpenHasNoResult'
  BY DEF CommitParts, RunCommitted, OpenHasNoResult, ResultsKept, CommitsKept, IsAgent
<1> QED BY <1>2, <1>3 DEF CommitParts

\* Nor does an executor that goes on towards its settlement, when a success it
\* reports is committed.
LEMMA CommitMoves ==
  ASSUME CommitParts, ResultsKept, CommitsKept, NEW c \in Claims, Moves(c),
         exec[c].pc # "settling",
         \/ exec'[c].result \in {exec[c].result, "none", "error", "interrupted"}
         \/ IsAgent(OccurrenceOf(c)) => Committed(OccurrenceOf(c))'
  PROVE  CommitParts'
<1>1. AnswerCommitted'
  <2>1. ASSUME NEW d \in Claims \ {c}, IsAgent(OccurrenceOf(d)),
               exec'[d].result = "success"
        PROVE  Committed(OccurrenceOf(d))'
    BY <2>1, ClaimParts DEF Moves, CommitParts, AnswerCommitted, CommitsKept
  <2>2. ASSUME IsAgent(OccurrenceOf(c)), exec'[c].result = "success"
        PROVE  Committed(OccurrenceOf(c))'
    BY <2>2, ClaimParts DEF CommitParts, AnswerCommitted, CommitsKept
  <2> QED BY <2>1, <2>2 DEF AnswerCommitted, IsAgent, OccurrenceOf, Committed
<1>2. SettlesSuccess'
  BY ClaimParts DEF Moves, CommitParts, SettlesSuccess, ResultsKept, Executes,
     OccurrenceOf
<1>3. RunCommitted' /\ OpenHasNoResult'
  BY DEF CommitParts, RunCommitted, OpenHasNoResult, ResultsKept, CommitsKept, IsAgent
<1> QED BY <1>1, <1>2, <1>3 DEF CommitParts

\* A run in progress is queued: it has no result yet.
LEMMA CommitQueued ==
  ASSUME TypeOK, CommitParts, ResultsKept, CommitsKept, NEW c \in Claims, Enqueue(c),
         run[OccurrenceOf(c)].state \in Open \cup {"absent"}
  PROVE  CommitParts'
<1>1. OccurrenceOf(c) \in Occurrences /\ run'[OccurrenceOf(c)].result = "none"
  BY ClaimParts DEF CommitParts, OpenHasNoResult, ResultsKept
<1>2. exec'[c].result = "none" /\ \A d \in Claims \ {c} : exec'[d] = exec[d]
  BY QueuedIsFresh
<1>3. AnswerCommitted' /\ SettlesSuccess'
  BY <1>1, <1>2, ClaimParts
     DEF CommitParts, AnswerCommitted, SettlesSuccess, ResultsKept, CommitsKept,
         Executes, IsAgent, OccurrenceOf
<1>4. RunCommitted' /\ OpenHasNoResult'
  BY DEF CommitParts, RunCommitted, OpenHasNoResult, ResultsKept, CommitsKept, IsAgent
<1> QED BY <1>3, <1>4 DEF CommitParts

\* A settlement that records no success, of a run in progress.
LEMMA CommitSettled ==
  ASSUME TypeOK, OneExecutor, CommitParts, NEW o \in Occurrences, NEW s \in Settled,
         NEW r, SettleRun(o, s, r), UNCHANGED source,
         r = "success" => \E c \in Claims :
           /\ OccurrenceOf(c) = o /\ Executes(c) /\ exec[c].result = "success"
           /\ \/ Finishes(c)
              \/ Moves(c) /\ exec'[c].pc = "settling"
                   /\ exec'[c].result = exec[c].result,
         \/ Renews
         \/ \E c \in Claims : Finishes(c) /\ OccurrenceOf(c) = o
         \/ \E c \in Claims : /\ OccurrenceOf(c) = o /\ Moves(c)
                              /\ exec'[c].result \in {exec[c].result, "error"}
  PROVE  CommitParts'
<1>1. /\ run'[o].state = s /\ run'[o].result = r
      /\ \A p \in Occurrences : p # o => run'[p] = run[p]
  BY Parts DEF SettleRun, SettledRun, RunTyped, RunRecords
<1>2. s \notin Open \cup {"absent"}
  BY DEF Open, Settled
<1>3. OpenHasNoResult'
  BY <1>1, <1>2 DEF CommitParts, OpenHasNoResult
<1>4. \A p \in Occurrences : Committed(p)' <=> Committed(p)
  BY DEF Committed
<1>5. ASSUME NEW d \in Claims, exec'[d].result = "success"
      PROVE  exec[d].result = "success"
  BY <1>5, FinishedIsBlank DEF Renews, Moves
<1>6. AnswerCommitted'
  BY <1>4, <1>5, ClaimParts DEF CommitParts, AnswerCommitted, IsAgent, OccurrenceOf
<1>7. RunCommitted'
  <2>1. ASSUME r = "success", IsAgent(o) PROVE Committed(o)
    BY <2>1 DEF CommitParts, AnswerCommitted
  <2> QED BY <1>1, <1>4, <2>1 DEF CommitParts, RunCommitted, IsAgent
<1>8. SettlesSuccess'
  <2>1. SUFFICES ASSUME NEW d \in Claims, Executes(d)',
                        run'[OccurrenceOf(d)].result = "success"
                 PROVE  exec'[d].pc = "settling" /\ exec'[d].result = "success"
    BY DEF SettlesSuccess, OccurrenceOf
  <2>2. Executes(d)
    BY <2>1, FinishedIsBlank DEF Renews, Moves, Executes
  <2>3. CASE OccurrenceOf(d) # o
    <3>1. run[OccurrenceOf(d)].result = "success"
      BY <1>1, <2>1, <2>3, ClaimParts
    <3>2. exec[d].pc = "settling" /\ exec[d].result = "success"
      BY <2>2, <3>1 DEF CommitParts, SettlesSuccess
    <3> QED BY <2>3, <3>2, FinishedIsBlank DEF Renews, Moves
  <2>4. CASE OccurrenceOf(d) = o
    <3>1. PICK c \in Claims :
            /\ OccurrenceOf(c) = o /\ Executes(c) /\ exec[c].result = "success"
            /\ \/ Finishes(c)
               \/ Moves(c) /\ exec'[c].pc = "settling"
                    /\ exec'[c].result = exec[c].result
      BY <1>1, <2>1, <2>4
    <3>2. d = c
      BY <2>2, <2>4, <3>1 DEF OneExecutor
    <3> QED BY <2>1, <3>1, <3>2, FinishedIsBlank
  <2> QED BY <2>3, <2>4
<1> QED BY <1>3, <1>6, <1>7, <1>8 DEF CommitParts

\* A committed source is terminal, so only its own late settlement rewrites it.
LEMMA OnlyOpenChange ==
  ASSUME \A p \in Occurrences :
           \/ source'[p] = source[p] \/ source[p].op \in OpenPhases
           \/ source[p].state = "none" \/ Committed(p)'
  PROVE  CommitsKept
BY DEF CommitsKept, Committed, OpenPhases

\* It goes on to the next point.
LEMMA GoesOn ==
  ASSUME TypeOK, NEW c \in Claims, NEW pc \in Pcs \ {"none", "dropped"},
         Executes(c), Step(c, pc)
  PROVE  Moves(c) /\ exec'[c].pc = pc /\ exec'[c].result = exec[c].result
BY Parts DEF ExecTyped, ExecRecords, Step, Moves, Executes

\* It goes on with a result.
LEMMA GoesOnWith ==
  ASSUME TypeOK, NEW c \in Claims, NEW pc \in Pcs \ {"none", "dropped"}, NEW r,
         Executes(c), exec' = [exec EXCEPT ![c].pc = pc, ![c].result = r],
         UNCHANGED lane
  PROVE  Moves(c) /\ exec'[c].pc = pc /\ exec'[c].result = r
<1> DEFINE new == [[exec[c] EXCEPT !.pc = pc] EXCEPT !.result = r]
<1>1. exec \in [Claims -> ExecRecords]
  BY Parts DEF ExecTyped
<1>2. exec' = [exec EXCEPT ![c] = new]
  BY <1>1 DEF ExecRecords
<1>3. new.pc = pc /\ new.result = r
  BY <1>1 DEF ExecRecords
<1> HIDE DEF new
<1> QED BY <1>1, <1>2, <1>3 DEF Moves, Executes

\* It gives up or seals its request.
LEMMA GoesOnUnclaimed ==
  ASSUME TypeOK, NEW c \in Claims, Executes(c), Running(c), GivesUp(c)
  PROVE  Finishes(c) \/ (Moves(c) /\ exec'[c].result = exec[c].result)
<1>1. CASE exec[c].valid
  BY <1>1, Parts DEF ExecTyped, ExecRecords, GivesUp, Moves, Executes
<1>2. CASE ~exec[c].valid
  BY <1>2 DEF GivesUp, Finishes
<1> QED BY <1>1, <1>2

\* The executors that write to no ledger.
LEMMA MovesCommit ==
  ASSUME RunsInv, OneExecutor, CommitParts, NEW c \in Claims,
         \/ StartWork(c) \/ StartRefused(c) \/ BindRefused(c)
         \/ DispatchSkipped(c) \/ WorkFails(c) \/ ShellWorks(c) \/ Seal(c)
         \/ CompleteRefused(c) \/ SettleSourceFails(c) \/ AbandonRefused(c)
  PROVE  OneExecutor' /\ CommitParts'
<1>0. TypeOK
  BY DEF RunsInv
<1>1. UNCHANGED <<run, source>>
  BY DEF StartWork, StartRefused, BindRefused, DispatchSkipped, WorkFails,
     ShellWorks, Seal, CompleteRefused, SettleSourceFails, AbandonRefused, ledgers
<1>2. ResultsKept /\ CommitsKept
  BY <1>1 DEF ResultsKept, CommitsKept, Committed
<1>3. Running(c) /\ Executes(c)
  BY DEF StartWork, StartRefused, BindRefused, DispatchSkipped, WorkFails,
     ShellWorks, Seal, CompleteRefused, SettleSourceFails, AbandonRefused, At,
     Executes
<1>4. \/ Finishes(c)
      \/ /\ Moves(c) /\ exec[c].pc # "settling"
         /\ \/ exec'[c].result \in {exec[c].result, "error"}
            \/ ~IsAgent(OccurrenceOf(c))
  <2>1. CASE StartWork(c)
    BY <1>0, <1>3, <2>1, GoesOn DEF StartWork, At, Pcs
  <2>2. CASE StartRefused(c) \/ BindRefused(c) \/ DispatchSkipped(c)
    BY <1>0, <1>3, <2>2, GoesOnUnclaimed
       DEF StartRefused, BindRefused, DispatchSkipped, At
  <2>3. CASE WorkFails(c) \/ ShellWorks(c)
    BY <1>0, <1>3, <2>3, GoesOnWith DEF WorkFails, ShellWorks, Answer, At, Pcs
  <2>4. CASE Seal(c)
    <3>1. CASE exec[c].valid
      BY <1>0, <1>3, <2>4, <3>1, Parts
         DEF Seal, At, ExecTyped, ExecRecords, Moves, Executes
    <3>2. CASE ~exec[c].valid
      BY <1>3, <2>4, <3>2 DEF Seal, Finishes
    <3> QED BY <3>1, <3>2
  <2>5. CASE CompleteRefused(c)
    <3>1. CASE exec[c].sourced
      BY <1>0, <1>3, <2>5, <3>1, GoesOnWith DEF CompleteRefused, At, Pcs
    <3>2. CASE ~exec[c].sourced
      BY <1>3, <2>5, <3>2 DEF CompleteRefused, Finishes
    <3> QED BY <3>1, <3>2
  <2>6. CASE SettleSourceFails(c) \/ AbandonRefused(c)
    BY <1>3, <2>6 DEF SettleSourceFails, AbandonRefused, Finishes
  <2> QED BY <2>1, <2>2, <2>3, <2>4, <2>5, <2>6
<1>5. OneExecutor'
  BY <1>0, <1>4, OneExecutorStep
<1>6. CommitParts'
  BY <1>0, <1>2, <1>4, CommitQuiet, CommitMoves
<1> QED BY <1>5, <1>6

\* The executors that accept, bind and hand over, and the native settlement.
LEMMA SourcesCommit ==
  ASSUME RunsInv, OneExecutor, CommitParts, NEW c \in Claims,
         \/ Accept(c) \/ Bind(c) \/ Dispatch(c) \/ FinishHarness(c)
         \/ \E r \in {"success", "error"} : NativeSettle(c, r)
  PROVE  OneExecutor' /\ CommitParts'
<1> DEFINE o == OccurrenceOf(c)
<1>0. TypeOK /\ o \in Occurrences
  BY ClaimParts DEF RunsInv
<1>1. source \in [Occurrences -> SourceRecords] /\ run \in [Occurrences -> RunRecords]
  BY <1>0, Parts DEF SourceTyped, RunTyped
<1>2. Running(c) /\ Executes(c) /\ exec[c].pc # "settling"
  BY DEF Accept, Bind, Dispatch, FinishHarness, NativeSettle, At, Executes
<1>3. ResultsKept
  <2>1. CASE Bind(c)
    BY <1>0, <1>1, <2>1 DEF Bind, Fenced, ResultsKept, RunRecords
  <2>2. CASE ~Bind(c)
    BY <2>2 DEF Accept, Dispatch, FinishHarness, NativeSettle, ResultsKept
  <2> QED BY <2>1, <2>2
<1>4. ASSUME NEW r \in {"success", "error"}, NativeSettle(c, r)
      PROVE  /\ Committed(o)' /\ Moves(c)
             /\ \A p \in Occurrences : p # o => source'[p] = source[p]
  <2>1. /\ source' = SourceSettled(o, TRUE) /\ source[o].op = "settling"
        /\ exec' = [exec EXCEPT ![c].pc = "answered", ![c].result = r]
        /\ lane' = lane
    BY <1>4 DEF NativeSettle, Answer
  <2>2. source'[o].op = "terminal" /\ source'[o].outcome = "completed"
        /\ source'[o].state = "consumed"
    BY <1>0, <1>1, <2>1 DEF SourceSettled, SourceRecords, OpenPhases
  <2>3. \A p \in Occurrences : p # o => source'[p] = source[p]
    BY <1>1, <2>1 DEF SourceSettled
  <2>4. Moves(c)
    BY <1>0, <1>2, <2>1, GoesOnWith DEF Pcs
  <2> QED BY <2>2, <2>3, <2>4 DEF Committed, OccurrenceOf
<1>5. CommitsKept
  <2>1. CASE Accept(c)
    BY <1>1, <2>1, OnlyOpenChange DEF Accept
  <2>2. CASE Bind(c)
    BY <2>2, OnlyOpenChange DEF Bind
  <2>3. CASE Dispatch(c)
    BY <1>1, <2>3, OnlyOpenChange DEF Dispatch, NativeAuthority
  <2>4. ASSUME NEW r \in {"success", "error"}, NativeSettle(c, r)
        PROVE  CommitsKept
    BY <1>4, <2>4, OnlyOpenChange
  <2>5. CASE FinishHarness(c)
    BY <1>1, <2>5, OnlyOpenChange DEF FinishHarness, NativeAuthority
  <2> QED BY <2>1, <2>2, <2>3, <2>4, <2>5
<1>6. \/ Finishes(c)
      \/ Moves(c) /\ (exec'[c].result = exec[c].result \/ Committed(o)')
  <2>1. CASE Accept(c)
    BY <1>0, <1>2, <2>1, Parts
       DEF Accept, ExecTyped, ExecRecords, Moves, Executes
  <2>2. CASE Bind(c)
    BY <1>0, <1>2, <2>2, GoesOn DEF Bind, Finishes, Pcs
  <2>3. CASE Dispatch(c)
    BY <1>0, <1>2, <2>3, GoesOn DEF Dispatch, Pcs
  <2>4. CASE FinishHarness(c)
    BY <1>0, <1>2, <2>4, GoesOn DEF FinishHarness, Pcs
  <2> QED BY <1>4, <2>1, <2>2, <2>3, <2>4
<1>7. OneExecutor'
  BY <1>0, <1>6, OneExecutorStep
<1>8. CommitParts'
  BY <1>0, <1>2, <1>3, <1>5, <1>6, CommitQuiet, CommitMoves
<1> QED BY <1>7, <1>8

\* The executors that complete or abandon the run.
LEMMA SettlementsCommit ==
  ASSUME RunsInv, OneExecutor, CommitParts, NEW c \in Claims,
         Complete(c) \/ CompleteUncertain(c) \/ Abandon(c)
  PROVE  OneExecutor' /\ CommitParts'
<1> DEFINE o == OccurrenceOf(c)
<1>0. TypeOK /\ o \in Occurrences /\ "completed" \in Settled /\ "abandoned" \in Settled
  BY ClaimParts DEF RunsInv, Settled
<1>1. Running(c) /\ Executes(c) /\ source' = source /\ exec[c].pc # "settling"
  BY DEF Complete, CompleteUncertain, Abandon, At, Executes
<1>2. CASE Complete(c)
  <2>1. \/ Finishes(c)
        \/ Moves(c) /\ exec'[c].pc = "settling" /\ exec'[c].result = exec[c].result
    BY <1>0, <1>1, <1>2, GoesOn DEF Complete, Finishes, Pcs
  <2>2. OneExecutor'
    BY <1>0, <2>1, OneExecutorStep
  <2>3. CommitParts'
    BY <1>0, <1>1, <1>2, <2>1, CommitSettled DEF Complete
  <2> QED BY <2>2, <2>3
<1>3. CASE CompleteUncertain(c)
  <2>1. Finishes(c)
    BY <1>1, <1>3 DEF CompleteUncertain, Finishes
  <2>2. OneExecutor'
    BY <1>0, <2>1, OneExecutorStep
  <2>3. CASE SettleRun(o, "completed", exec[c].result)
    BY <1>0, <1>1, <2>1, <2>2, <2>3, CommitSettled
  <2>4. CASE UNCHANGED <<run, head>>
    BY <1>0, <1>1, <2>1, <2>2, <2>4, CommitQuiet
       DEF ResultsKept, CommitsKept, Committed
  <2> QED BY <1>3, <2>3, <2>4 DEF CompleteUncertain
<1>4. CASE Abandon(c)
  <2>1. \/ Finishes(c)
        \/ Moves(c) /\ exec'[c].result = "error"
    BY <1>0, <1>1, <1>4, GoesOnWith DEF Abandon, Finishes, Pcs
  <2>2. OneExecutor'
    BY <1>0, <2>1, OneExecutorStep
  <2>3. CommitParts'
    BY <1>0, <1>1, <1>4, <2>1, CommitSettled DEF Abandon
  <2> QED BY <2>2, <2>3
<1> QED BY <1>2, <1>3, <1>4

\* The late settlement of a source by its executor: no success that is
\* recorded or reported is behind a failure it writes.
LEMMA SettleSourceCommit ==
  ASSUME RunsInv, OneExecutor, CommitParts, NEW c \in Claims, SettleSource(c)
  PROVE  OneExecutor' /\ CommitParts'
<1> DEFINE o == OccurrenceOf(c)
<1>0. TypeOK /\ o \in Occurrences
  BY ClaimParts DEF RunsInv
<1>1. Executes(c) /\ Finishes(c) /\ run' = run
      /\ source' = SourceSettled(o, exec[c].result = "success")
  BY DEF SettleSource, At, Executes, Finishes
<1>2. OneExecutor'
  BY <1>0, <1>1, OneExecutorStep
<1>3. /\ ~Executes(c)' /\ exec'[c].result = "none"
      /\ \A d \in Claims \ {c} : exec'[d] = exec[d]
  BY <1>0, <1>1, FinishedIsBlank
<1>4. source \in [Occurrences -> SourceRecords]
  BY <1>0, Parts DEF SourceTyped
<1>5. \A p \in Occurrences : p # o => source'[p] = source[p]
  BY <1>1, <1>4 DEF SourceSettled
<1>6. exec[c].result = "success" /\ Committed(o) => Committed(o)'
  BY <1>0, <1>1, <1>4 DEF SourceSettled, Committed, SourceRecords, OpenPhases,
     OccurrenceOf
<1>7. AnswerCommitted'
  <2>1. ASSUME NEW d \in Claims \ {c}, IsAgent(OccurrenceOf(d)),
               exec'[d].result = "success"
        PROVE  Committed(OccurrenceOf(d))'
    <3>1. exec[d].result = "success" /\ Executes(d)
      BY <1>3, <2>1 DEF OneExecutor
    <3>2. OccurrenceOf(d) # o /\ OccurrenceOf(d) \in Occurrences
      BY <1>1, <2>1, <3>1, ClaimParts DEF OneExecutor
    <3>3. Committed(OccurrenceOf(d))
      BY <2>1, <3>1 DEF CommitParts, AnswerCommitted
    <3> QED BY <1>5, <3>2, <3>3 DEF Committed, OccurrenceOf
  <2> QED BY <1>3, <2>1 DEF AnswerCommitted, IsAgent, OccurrenceOf, Committed
<1>8. RunCommitted'
  <2>1. IsAgent(o) /\ run[o].result = "success" => exec[c].result = "success"
    BY <1>1 DEF CommitParts, SettlesSuccess
  <2> QED BY <1>1, <1>5, <1>6, <2>1 DEF CommitParts, RunCommitted, Committed, IsAgent
<1>9. SettlesSuccess' /\ OpenHasNoResult'
  BY <1>1, <1>3 DEF CommitParts, SettlesSuccess, OpenHasNoResult, Executes,
     OccurrenceOf
<1> QED BY <1>2, <1>7, <1>8, <1>9 DEF CommitParts

\* Steps of the user, the leases, retention, other operations, a crash, and the
\* repairs that end a source without settling its run.
LEMMA QuietCommit ==
  ASSUME RunsInv, OneExecutor, CommitParts,
         \/ UNCHANGED vars
         \/ User \/ ReadAuthorities \/ Crash
         \/ \E o \in Occurrences : Lapse(o) \/ Retire(o)
         \/ \E o \in Occurrences : RepairCompleted(o) \/ ExpireSource(o)
         \/ \E c \in Claims : RenewFails(c)
         \/ \E ch \in Chats : ForeignClaims(ch) \/ ForeignEnds(ch)
  PROVE  OneExecutor' /\ CommitParts'
<1>0. TypeOK
  BY DEF RunsInv
<1>1. /\ run \in [Occurrences -> RunRecords]
      /\ source \in [Occurrences -> SourceRecords] /\ exec \in [Claims -> ExecRecords]
  BY <1>0, Parts DEF RunTyped, SourceTyped, ExecTyped
<1>2. "retired" \notin Open \cup {"absent"}
  BY DEF Open
<1>3. ResultsKept
  <2>1. ASSUME NEW o \in Occurrences, Lapse(o) PROVE ResultsKept
    BY <1>1, <2>1 DEF Lapse, ResultsKept, RunRecords
  <2>2. ASSUME NEW o \in Occurrences, Retire(o) PROVE ResultsKept
    BY <1>1, <1>2, <2>2 DEF Retire, ResultsKept, RunRecords
  <2>3. CASE UNCHANGED run
    BY <2>3 DEF ResultsKept
  <2> QED BY <2>1, <2>2, <2>3, UserEdits
    DEF vars, UserIdle, ReadAuthorities, Crash, RepairCompleted, ExpireSource,
        RenewFails, ForeignClaims, ForeignEnds, ledgers
<1>4. CommitsKept
  <2>1. ASSUME NEW o \in Occurrences, RepairCompleted(o) PROVE CommitsKept
    <3>1. \A p \in Occurrences : p # o => source'[p] = source[p]
      BY <1>1, <2>1 DEF RepairCompleted, SourceSettled
    <3> QED BY <2>1, <3>1, OnlyOpenChange DEF RepairCompleted, OpenPhases
  <2>2. ASSUME NEW o \in Occurrences, ExpireSource(o) PROVE CommitsKept
    <3>1. \A p \in Occurrences : p # o => source'[p] = source[p]
      BY <1>1, <2>2 DEF ExpireSource
    <3> QED BY <2>2, <3>1, OnlyOpenChange DEF ExpireSource, Expires
  <2>3. CASE UNCHANGED source
    BY <2>3, OnlyOpenChange
  <2>4. CASE Crash
    <3>1. PICK done \in SUBSET Occurrences :
            (\A o \in done : NativeAuthority(o)) /\ RestartSettles(done)
      BY <2>4, CrashSettles
    <3>2. \A p \in Occurrences : source'[p] = source[p] \/ p \in done
      BY <3>1 DEF RestartSettles
    <3>3. \A p \in done : source[p].op \in OpenPhases
      BY <3>1 DEF NativeAuthority
    <3> QED BY <3>2, <3>3, OnlyOpenChange
  <2> QED BY <2>1, <2>2, <2>3, <2>4, UserEdits
    DEF vars, UserIdle, ReadAuthorities, Lapse, Retire, RenewFails, ForeignClaims,
        ForeignEnds, ledgers
<1>5. Renews \/ Restarts
  <2>1. CASE Crash
    BY <2>1 DEF Crash, Restarts
  <2>2. ASSUME NEW c \in Claims, RenewFails(c) PROVE Renews
    BY <1>1, <2>2 DEF RenewFails, Renews, ExecRecords
  <2>3. CASE UNCHANGED <<exec, lane>>
    BY <2>3 DEF Renews
  <2> QED BY <2>1, <2>2, <2>3, UserEdits
    DEF vars, UserIdle, ReadAuthorities, Lapse, Retire, RepairCompleted, ExpireSource,
        PollIdle, ForeignClaims, ForeignEnds, process
<1>6. OneExecutor'
  BY <1>0, <1>5, OneExecutorStep
<1>7. CommitParts'
  BY <1>3, <1>4, <1>5, CommitQuiet
<1> QED BY <1>6, <1>7

\* A poll that settles the run of an interrupted source records no success.
LEMMA InterruptedCommit ==
  ASSUME RunsInv, OneExecutor, CommitParts, NEW o \in Occurrences,
         ReconcileInterrupted(o)
  PROVE  OneExecutor' /\ CommitParts'
<1>1. TypeOK /\ Renews /\ "completed" \in Settled
  BY DEF RunsInv, ReconcileInterrupted, PollIdle, Renews, Settled
<1>2. OneExecutor'
  BY <1>1, OneExecutorStep
<1>3. SettleRun(o, "completed", "interrupted") /\ UNCHANGED source
  BY DEF ReconcileInterrupted
<1>4. CommitParts'
  BY <1>1, <1>3, CommitSettled
<1> QED BY <1>2, <1>4

\* A claim or a reclaim queues a run that has no result.
LEMMA ClaimCommit ==
  ASSUME RunsInv, OneExecutor, CommitParts,
         \/ \E o \in Occurrences : Claim(o)
         \/ \E c \in Claims : Reclaim(c)
  PROVE  OneExecutor' /\ CommitParts'
<1>0. TypeOK
  BY DEF RunsInv
<1>1. run \in [Occurrences -> RunRecords]
  BY <1>0, Parts DEF RunTyped
<1>2. CommitsKept
  BY DEF Claim, Reclaim, CommitsKept, Committed
<1>3. \/ UNCHANGED <<run, exec, lane>>
      \/ ResultsKept /\ \E d \in Claims :
           Enqueue(d) /\ run[OccurrenceOf(d)].state \in Open \cup {"absent"}
  <2>1. ASSUME NEW o \in Occurrences, Claim(o)
        PROVE  ResultsKept /\ \E d \in Claims :
                 Enqueue(d) /\ run[OccurrenceOf(d)].state \in Open \cup {"absent"}
    <3>1. <<o, 1>> \in Claims /\ OccurrenceOf(<<o, 1>>) = o
      BY ClaimMade, SchedulerAssumption DEF SchedulerAssumption
    <3>2. ResultsKept
      BY <1>1, <2>1 DEF Claim, ResultsKept, RunRecords
    <3> QED BY <2>1, <3>1, <3>2 DEF Claim
  <2>2. ASSUME NEW c \in Claims, Reclaim(c), ~UNCHANGED <<run, exec, lane>>
        PROVE  ResultsKept /\ \E d \in Claims :
                 Enqueue(d) /\ run[OccurrenceOf(d)].state \in Open \cup {"absent"}
    <3>1. OccurrenceOf(c) \in Occurrences /\ AttemptOf(c) \in 1..MaxAttempts
          /\ AttemptOf(c) < MaxAttempts
      BY <2>2, ClaimParts DEF Reclaim, RunsInv, AuthorityTyped
    <3>2. AttemptOf(c) + 1 \in 1..MaxAttempts
      BY <3>1, SchedulerAssumption DEF SchedulerAssumption
    <3>3. PICK d \in Claims : d = <<OccurrenceOf(c), AttemptOf(c) + 1>>
      BY <3>1, <3>2, ClaimMade
    <3>4. OccurrenceOf(d) = OccurrenceOf(c)
      BY <3>3 DEF OccurrenceOf
    <3>5. /\ run[OccurrenceOf(c)].state \in Open /\ Enqueue(d)
          /\ run' = [run EXCEPT ![OccurrenceOf(c)].attempt = @ + 1,
                                ![OccurrenceOf(c)].live = TRUE]
      BY <2>2, <3>3 DEF Reclaim
    <3>6. ResultsKept
      BY <1>1, <3>1, <3>5 DEF ResultsKept, RunRecords
    <3> QED BY <3>4, <3>5, <3>6
  <2> QED BY <2>1, <2>2
<1>4. CASE UNCHANGED <<run, exec, lane>>
  <2>1. Renews /\ ResultsKept
    BY <1>4 DEF Renews, ResultsKept
  <2> QED BY <1>0, <1>2, <2>1, OneExecutorStep, CommitQuiet
<1>5. ASSUME ResultsKept, NEW d \in Claims, Enqueue(d),
             run[OccurrenceOf(d)].state \in Open \cup {"absent"}
      PROVE  OneExecutor' /\ CommitParts'
  <2>1. OneExecutor'
    BY <1>0, <1>5, OneExecutorStep
  <2>2. CommitParts'
    BY <1>0, <1>2, <1>5, CommitQueued
  <2> QED BY <2>1, <2>2
<1> QED BY <1>3, <1>4, <1>5

\* At the start nothing runs and nothing has a result.
LEMMA CommitInit == Init => CommitInv
<1> SUFFICES ASSUME Init PROVE CommitInv
  OBVIOUS
<1>1. \A c \in Claims : ~Executes(c) /\ exec[c].result = "none"
  BY DEF Init, NoExec, Executes
<1>2. \A o \in Occurrences : run[o].result = "none"
  BY DEF Init, NoRun
<1>3. OneExecutor
  BY <1>1 DEF OneExecutor
<1> QED BY <1>1, <1>2, <1>3, RunsInit
  DEF CommitInv, AnswerCommitted, RunCommitted, SettlesSuccess, OpenHasNoResult

\* The commit invariant survives every step.
LEMMA CommitStep == CommitInv /\ [Next]_vars => CommitInv'
<1> SUFFICES ASSUME CommitInv, [Next]_vars PROVE CommitInv'
  OBVIOUS
<1>0. RunsInv /\ OneExecutor /\ CommitParts /\ RunsInv'
  BY RunsStep DEF CommitInv, CommitParts
<1>1. ASSUME NEW c \in Claims, Execute(c) PROVE OneExecutor' /\ CommitParts'
  BY <1>0, <1>1, MovesCommit, SourcesCommit, SettlementsCommit, SettleSourceCommit
     DEF Execute
<1>2. ASSUME NEW o \in Occurrences, ReconcileInterrupted(o)
      PROVE  OneExecutor' /\ CommitParts'
  BY <1>0, <1>2, InterruptedCommit
<1>3. OneExecutor' /\ CommitParts'
  BY <1>0, <1>1, <1>2, QuietCommit, ClaimCommit DEF Next, Poll, Repair
<1> QED BY <1>0, <1>3 DEF CommitInv, CommitParts

\* A run recorded as a success has a completed operation and a consumed source
\* behind it: neither the repairs of a poll nor a settlement that comes late
\* (settleScheduledAgentSource after a completion that was refused) rewrites
\* what runtime.settle committed, whatever claims of the run there were.
THEOREM SuccessTheorem == Spec => []SuccessIsCommitted
<1>1. CommitInv => SuccessIsCommitted
  BY DEF CommitInv, RunCommitted, Committed, SuccessIsCommitted
<1> QED BY <1>1, CommitInit, CommitStep, PTL DEF Spec
=============================================================================
