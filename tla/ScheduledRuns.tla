---------------------------- MODULE ScheduledRuns ----------------------------
(***************************************************************************)
(* Scheduled tasks: the occurrence ledger EF-S07                            *)
(* (service-effects/current-piclaw/scheduled-run-store.ts), the task heads  *)
(* (db/scheduled-task-*.ts) and the polling scheduler that executes claimed *)
(* occurrences on the lanes of the AgentQueue (task-scheduler.ts).          *)
(*                                                                         *)
(* Every store method and every scheduledSourceWrite is one SQL transaction *)
(* and one action; the awaits of runClaimedScheduledTask and of a poll lie  *)
(* between the actions.  A crash forgets the executors, the queue and the   *)
(* poll, and keeps the ledgers.                                             *)
(*                                                                         *)
(* Time is relative.  A lease is live or lapsed: a lapsed lease is never    *)
(* renewed (renewLease reads the live clock), so a request whose `now` was  *)
(* taken while the lease was live passes the fence for as long as the       *)
(* attempt is current, and a later one never does.  The lease token is      *)
(* derived from the attempt, which stands for it.  Slots are counted as     *)
(* they are decided: slot n + 1 is the next run that the decision of slot n *)
(* computes, wherever it lies in the calendar, and the instants that an     *)
(* interval or an interruption leaves out are no slots.  That a slot is due *)
(* is a choice.                                                             *)
(***************************************************************************)
EXTENDS Naturals, Sequences, FiniteSets

CONSTANTS
  Tasks,
  AgentTasks,    \* tasks of kind agent (agent_source); the others repeatable
  OnceTasks,     \* scheduleType once; the others recur
  Chats,         \* chats
  ChatOf,        \* ChatOf[t]: chat_jid of the task
  Lanes,         \* lane keys of the queue
  LaneOf,        \* LaneOf[t]: the lane its runs are queued on
  Free,          \* active_operation_id NULL
  Foreign,       \* active_operation_id of an operation of somebody else
  None,          \* next_run_at NULL
  MaxSlot,       \* bound: slots beyond the horizon are never due
  MaxRevision,   \* bound on edits of a task
  MaxAttempts,   \* bound on claims of an occurrence
  MaxFaults      \* bound on crashes, stalls and failed transactions

ASSUME SchedulerAssumption ==
  /\ AgentTasks \subseteq Tasks /\ OnceTasks \subseteq Tasks
  /\ ChatOf \in [Tasks -> Chats] /\ LaneOf \in [Tasks -> Lanes]
  /\ MaxSlot \in Nat /\ MaxRevision \in Nat \ {0} /\ MaxAttempts \in Nat \ {0}
  /\ MaxFaults \in Nat
  /\ None \notin Nat

Revisions == 1..MaxRevision
Slots == 1..MaxSlot
Occurrences == Tasks \X Revisions \X Slots  \* identity of a scheduled run
Claims == Occurrences \X (1..MaxAttempts)   \* one leased attempt

ASSUME OwnerAssumption ==
  /\ Free # Foreign
  /\ Free \notin Occurrences /\ Foreign \notin Occurrences

VARIABLES
  head,       \* service_effect_s07_tasks
  run,        \* service_effect_s07_occurrences and tombstones
  source,     \* the scheduled_agent source of a run and its operation (EF-S01)
  owner,      \* service_effect_s01_chats.active_operation_id
  exec,       \* runClaimedScheduledTask and the lease controller of a claim
  lane,       \* queue items, the current one first
  authority,  \* reclaim authorities the poll has read and not used yet
  faults      \* faults so far

ledgers == <<head, run, source, owner>>
process == <<exec, lane, authority>>
vars == <<head, run, source, owner, exec, lane, authority, faults>>

TaskStates == {"active", "paused", "completed", "deleted"}
Open == {"claimed", "source_bound"}
Settled == {"completed", "abandoned"}
RunStates == {"absent", "retired"} \cup Open \cup Settled
Results == {"none", "success", "error", "interrupted"}
Dispositions == {"pending", "advanced", "paused", "superseded", "deleted"}
SourceStates == {"none", "claimed", "consumed", "disposed", "interrupted"}
OpenPhases == {"claimed", "executing", "settling"}
OpPhases == {"none", "terminal"} \cup OpenPhases
Outcomes == {"none", "completed", "failed", "interrupted"}
Pcs == {"none", "dropped", "waiting", "accepted", "bound", "working",
        "publishing", "answered", "sealed", "settling", "abandoning"}

NoRun == [state |-> "absent", attempt |-> 0, live |-> FALSE,
          result |-> "none", disposition |-> "pending", next |-> None]
NoSource == [state |-> "none", op |-> "none", outcome |-> "none",
             harness |-> FALSE]
NoExec == [pc |-> "none", valid |-> FALSE, fresh |-> FALSE,
           sourced |-> FALSE, result |-> "none"]

TaskOf(o) == o[1]
RevisionOf(o) == o[2]
SlotOf(o) == o[3]
Chat(o) == ChatOf[TaskOf(o)]
OccurrenceOf(c) == c[1]
AttemptOf(c) == c[2]
LaneFor(c) == LaneOf[TaskOf(c[1])]
IsAgent(o) == TaskOf(o) \in AgentTasks

-----------------------------------------------------------------------------
(* Task heads and next decisions.                                          *)

\* computeScheduledSuccessor, in slots: the next cron instant, the interval
\* counted from the settlement, or nothing for once.  No caller of abandonRun
\* gives the retry instant that would take its place.
Successor(o) == IF TaskOf(o) \in OnceTasks THEN None ELSE SlotOf(o) + 1

\* The head still asks for exactly this occurrence.
IsHead(o) ==
  /\ head[TaskOf(o)].revision = RevisionOf(o)
  /\ head[TaskOf(o)].next = SlotOf(o)

HeadMatches(o) == IsHead(o) /\ head[TaskOf(o)].status = "active"

\* Faulty variant: the status of the head is recorded as the decision.
StatusDisposition(o) == head[TaskOf(o)].status

\* decideHead.
Disposition(o) ==
  CASE head[TaskOf(o)].status = "deleted" -> "deleted"
    [] ~IsHead(o) -> "superseded"
    [] head[TaskOf(o)].status = "paused" -> "paused"
    [] OTHER -> "advanced"

\* applyHeadDecision: only an advanced head moves; without a successor it is
\* completed.
AdvancedHead(o) ==
  IF Disposition(o) # "advanced" THEN head
  ELSE [head EXCEPT
          ![TaskOf(o)].next = Successor(o),
          ![TaskOf(o)].status = IF Successor(o) = None THEN "completed" ELSE @]

\* The terminal row of a run, with its next decision.
SettledRun(o, state, result) ==
  [run[o] EXCEPT !.state = state, !.live = FALSE, !.result = result,
     !.disposition = Disposition(o),
     !.next = IF Disposition(o) \in {"advanced", "paused"}
              THEN Successor(o) ELSE None]

\* finishCompletion and abandonRun: the run, its decision and the head commit
\* together.
SettleRun(o, state, result) ==
  /\ run' = [run EXCEPT ![o] = SettledRun(o, state, result)]
  /\ head' = AdvancedHead(o)

\* Faulty variant: a paused head shows the slot it holds.
HeldNext(t) == head[t].next

\* Faulty variant: whether the run has ended and why is not looked at.
RecordedNext(t) ==
  IF head[t].next \in Slots
  THEN run[<<t, head[t].revision, head[t].next>>].next
  ELSE head[t].next

\* visibleScheduledNextRun of a paused head: the successor its run recorded.
PausedNext(t) ==
  IF head[t].next \in Slots
  THEN LET r == run[<<t, head[t].revision, head[t].next>>]
       IN  IF r.state \in Settled /\ r.disposition = "paused"
           THEN r.next ELSE head[t].next
  ELSE head[t].next

VisibleNext(t) ==
  IF head[t].status = "paused" THEN PausedNext(t) ELSE head[t].next

-----------------------------------------------------------------------------
(* The user edits tasks (updateTask, deleteTask).                          *)

UserIdle == UNCHANGED <<run, source, owner, process, faults>>

\* A changed definition: a new revision with the next run that the caller
\* gives, or else the one the task shows, and with the status of the task,
\* which ensureDreamTask alone sets to active.
Revise(t, next, status) ==
  /\ head[t].status # "deleted"
  /\ head[t].revision < MaxRevision
  /\ head' = [head EXCEPT ![t] =
       [status |-> status, revision |-> @.revision + 1,
        next |-> IF status = "completed" THEN None ELSE next]]
  /\ UserIdle

Pause(t) ==
  /\ head[t].status \in {"active", "completed"}
  /\ head' = [head EXCEPT ![t].status = "paused"]
  /\ UserIdle

\* Resume takes up the successor a run recorded meanwhile.
Resume(t) ==
  /\ head[t].status = "paused"
  /\ head' = [head EXCEPT ![t].next = PausedNext(t),
                ![t].status = IF PausedNext(t) = None
                              THEN "completed" ELSE "active"]
  /\ UserIdle

\* A completed task that is set to active again has no next run.
Reactivate(t) ==
  /\ head[t].status = "completed"
  /\ head' = [head EXCEPT ![t].status = "active"]
  /\ UserIdle

Delete(t) ==
  /\ head[t].status # "deleted"
  /\ head' = [head EXCEPT ![t].status = "deleted", ![t].next = None]
  /\ UserIdle

-----------------------------------------------------------------------------
(* Operators on the occurrence, its executor and its source.               *)

Running(c) == lane[LaneFor(c)] # <<>> /\ Head(lane[LaneFor(c)]) = c

At(c, pc) == Running(c) /\ exec[c].pc = pc

Step(c, pc) == exec' = [exec EXCEPT ![c].pc = pc] /\ UNCHANGED lane

\* The queued function returns: its lane goes on with the next item.
Ends(c) ==
  /\ exec' = [exec EXCEPT ![c] = NoExec]
  /\ lane' = [lane EXCEPT ![LaneFor(c)] = Tail(@)]

\* The lease of this attempt, as the live clock sees it.
Holds(c) ==
  /\ run[OccurrenceOf(c)].state \in Open
  /\ run[OccurrenceOf(c)].attempt = AttemptOf(c)
  /\ run[OccurrenceOf(c)].live

\* Faulty variant: the state of the run is not compared.
AnyState(c) == exec[c].fresh /\ run[OccurrenceOf(c)].attempt = AttemptOf(c)

\* requireFencedRun, for a request whose `now` was taken earlier.
Fenced(c) ==
  /\ exec[c].fresh
  /\ run[OccurrenceOf(c)].state \in Open
  /\ run[OccurrenceOf(c)].attempt = AttemptOf(c)

\* A transaction fails for a reason of its own, within the budget.
Fault == faults < MaxFaults /\ faults' = faults + 1

\* abandonClaimedRun up to its store call: without a valid claim nothing.
GivesUp(c) ==
  IF exec[c].valid
  THEN /\ exec' = [exec EXCEPT ![c].pc = "abandoning", ![c].valid = FALSE,
                     ![c].fresh = Holds(c)]
       /\ UNCHANGED lane
  ELSE Ends(c)

\* Faulty variant: the chat is freed whoever owns it.
ClearedOwner(o) == [owner EXCEPT ![Chat(o)] = Free]

\* The chat, if this operation owns it, is free again.
FreedOwner(o) == [owner EXCEPT ![Chat(o)] = IF @ = o THEN Free ELSE @]

\* Faulty variant: the outcome of the operation is not written.
SourceClosed(o, success) ==
  [source EXCEPT ![o].state = IF success THEN "consumed" ELSE "disposed",
                 ![o].op = "terminal"]

\* settleScheduledAgentSource: the operation only if it is still open, its
\* source in any case.
SourceSettled(o, success) ==
  [source EXCEPT ![o].state = IF success THEN "consumed" ELSE "disposed",
     ![o].outcome = IF source[o].op \notin OpenPhases THEN @
                    ELSE IF success THEN "completed" ELSE "failed",
     ![o].op = "terminal"]

-----------------------------------------------------------------------------
(* The poll: repairs first, then authorities, then claims.                 *)

PollIdle == UNCHANGED <<exec, lane, faults>>

\* reconcileCompletedScheduledAgentSources: the run's completion is the
\* receipt for a source the executor left open.
RepairCompleted(o) ==
  /\ authority = {}
  /\ run[o].state = "completed"
  /\ source[o].op \in {"claimed", "executing"} /\ ~source[o].harness
  /\ source[o].state = "claimed"
  /\ source' = SourceSettled(o, run[o].result = "success")
  /\ owner' = FreedOwner(o)
  /\ UNCHANGED <<head, run, authority>> /\ PollIdle

\* Faulty variant: only runs in progress are looked at.
ExpiresInProgress(o) ==
  source[o].op \in OpenPhases /\ run[o].state \in Open /\ ~run[o].live

\* The candidates of reconcileExpiredScheduledAgentSources.
Expires(o) ==
  /\ source[o].op \in OpenPhases
  /\ run[o].state = "abandoned" \/ (run[o].state \in Open /\ ~run[o].live)

\* One row of that transaction.
ExpireSource(o) ==
  /\ authority = {}
  /\ Expires(o)
  /\ source' = [source EXCEPT ![o].op = "terminal",
                  ![o].outcome = "interrupted",
                  ![o].state = IF @ = "claimed" THEN "interrupted" ELSE @]
  /\ owner' = FreedOwner(o)
  /\ UNCHANGED <<head, run, authority>> /\ PollIdle

\* reconcileInterruptedRun: only a source that provably never reached the
\* harness settles its run.
ReconcileInterrupted(o) ==
  /\ authority = {}
  /\ run[o].state = "source_bound" /\ ~run[o].live
  /\ source[o].op = "terminal" /\ source[o].outcome = "interrupted"
  /\ source[o].state = "interrupted" /\ ~source[o].harness
  /\ owner[Chat(o)] # o
  /\ SettleRun(o, "completed", "interrupted")
  /\ UNCHANGED <<source, owner, authority>> /\ PollIdle

\* Faulty variant: only runs with a bound source are looked at.
BoundClaims ==
  {c \in Claims : /\ run[c[1]].state = "source_bound" /\ ~run[c[1]].live
                  /\ run[c[1]].attempt = c[2] /\ c[2] < MaxAttempts
                  /\ IsAgent(c[1]) => source[c[1]].state = "none"}

\* scheduledReclaimAuthorities, for the attempts within the bound.
Authorities ==
  {c \in Claims : /\ run[c[1]].state \in Open /\ ~run[c[1]].live
                  /\ run[c[1]].attempt = c[2] /\ c[2] < MaxAttempts
                  /\ IsAgent(c[1]) => source[c[1]].state = "none"}

ReadAuthorities ==
  /\ authority = {} /\ Authorities # {}
  /\ authority' = Authorities
  /\ UNCHANGED <<ledgers, exec, lane, faults>>

\* startLeaseController and enqueueTask: the queue drops an item whose task
\* id it holds already, while the lease controller of the claim runs.
Queued(o) ==
  \E c \in Claims :
    c[1] = o /\ \E i \in 1..Len(lane[LaneFor(c)]) : lane[LaneFor(c)][i] = c

Enqueue(c) ==
  LET claim == [NoExec EXCEPT !.valid = TRUE]
  IN  IF Queued(OccurrenceOf(c))
      THEN /\ exec' = [exec EXCEPT ![c] = [claim EXCEPT !.pc = "dropped"]]
           /\ UNCHANGED lane
      ELSE /\ exec' = [exec EXCEPT ![c] = [claim EXCEPT !.pc = "waiting"]]
           /\ lane' = [lane EXCEPT ![LaneFor(c)] = Append(@, c)]

\* claim, a due head whose occurrence has neither a run nor a tombstone.
Claim(o) ==
  /\ HeadMatches(o) /\ run[o].state = "absent"
  /\ run' = [run EXCEPT ![o].state = "claimed", ![o].attempt = 1,
               ![o].live = TRUE]
  /\ Enqueue(<<o, 1>>)
  /\ UNCHANGED <<head, source, owner, authority, faults>>

\* claim, an expired run: the authority must still name its attempt.
Reclaim(c) ==
  /\ c \in authority
  /\ authority' = authority \ {c}
  /\ IF /\ run[OccurrenceOf(c)].state \in Open
        /\ run[OccurrenceOf(c)].attempt = AttemptOf(c)
        /\ ~run[OccurrenceOf(c)].live
     THEN /\ run' = [run EXCEPT ![OccurrenceOf(c)].attempt = @ + 1,
                       ![OccurrenceOf(c)].live = TRUE]
          /\ Enqueue(<<OccurrenceOf(c), AttemptOf(c) + 1>>)
     ELSE UNCHANGED <<run, exec, lane>>
  /\ UNCHANGED <<head, source, owner, faults>>

\* planRetention and retireRun: a tombstone keeps the identity, the decision
\* goes; agent runs, results and held successors stay.
Retire(o) ==
  /\ run[o].state \in Settled
  /\ ~IsAgent(o) /\ run[o].result # "success"
  /\ ~(IsHead(o) /\ head[TaskOf(o)].status = "paused")
  /\ run' = [run EXCEPT ![o].state = "retired"]
  /\ UNCHANGED <<head, source, owner, authority>> /\ PollIdle

-----------------------------------------------------------------------------
(* Leases.                                                                 *)

\* A lease lapses when nobody renews it, or when the process stalls for its
\* length.
Lapse(o) ==
  /\ run[o].state \in Open /\ run[o].live
  /\ run' = [run EXCEPT ![o].live = FALSE]
  /\ \/ ~exec[<<o, run[o].attempt>>].valid /\ UNCHANGED faults
     \/ exec[<<o, run[o].attempt>>].valid /\ Fault
  /\ UNCHANGED <<head, source, owner, process>>

\* The renewal timer finds the lease lost, or its transaction fails; a
\* renewal that succeeds changes nothing here.
RenewFails(c) ==
  /\ exec[c].valid
  /\ \/ ~Holds(c) /\ UNCHANGED faults
     \/ Holds(c) /\ Fault
  /\ exec' = [exec EXCEPT ![c].valid = FALSE]
  /\ UNCHANGED <<ledgers, lane, authority>>

-----------------------------------------------------------------------------
(* runClaimedScheduledTask.                                                *)

\* acceptScheduledAgentSource: source, operation and chat in one write, under
\* the same head and with a valid claim; a source accepted before is reused.
Accept(c) ==
  LET o == OccurrenceOf(c)
  IN  /\ At(c, "waiting") /\ exec[c].valid
      /\ IsAgent(o) /\ HeadMatches(o)
      /\ \/ source[o].state # "none" /\ UNCHANGED <<source, owner>>
         \/ /\ source[o].state = "none" /\ owner[Chat(o)] = Free
            /\ source' = [source EXCEPT ![o].state = "claimed",
                            ![o].op = "claimed"]
            /\ owner' = [owner EXCEPT ![Chat(o)] = o]
      /\ exec' = [exec EXCEPT ![c].pc = "accepted", ![c].sourced = TRUE,
                    ![c].fresh = Holds(c)]
      /\ UNCHANGED <<head, run, lane, authority, faults>>

\* Shell and internal work starts in the turn that checks the head.
StartWork(c) ==
  /\ At(c, "waiting") /\ exec[c].valid
  /\ ~IsAgent(OccurrenceOf(c)) /\ HeadMatches(OccurrenceOf(c))
  /\ Step(c, "working")
  /\ UNCHANGED <<ledgers, authority, faults>>

\* A stale head, a busy chat or a failed write abandons the run.
StartRefused(c) ==
  LET o == OccurrenceOf(c)
  IN  /\ At(c, "waiting")
      /\ \/ /\ \/ ~exec[c].valid
               \/ ~HeadMatches(o)
               \/ IsAgent(o) /\ source[o].state = "none"
                             /\ owner[Chat(o)] # Free
            /\ UNCHANGED faults
         \/ exec[c].valid /\ IsAgent(o) /\ HeadMatches(o) /\ Fault
      /\ GivesUp(c)
      /\ UNCHANGED <<ledgers, authority>>

\* bindAcceptedSource; the claim is looked at once more behind it.
Bind(c) ==
  LET o == OccurrenceOf(c)
  IN  /\ At(c, "accepted")
      /\ Fenced(c) /\ run[o].state = "claimed"
      /\ run' = [run EXCEPT ![o].state = "source_bound"]
      /\ IF exec[c].valid THEN Step(c, "bound") ELSE Ends(c)
      /\ UNCHANGED <<head, source, owner, authority, faults>>

BindRefused(c) ==
  /\ At(c, "accepted")
  /\ \/ ~Fenced(c) /\ UNCHANGED faults
     \/ Fenced(c) /\ Fault
  /\ GivesUp(c)
  /\ UNCHANGED <<ledgers, authority>>

\* What the native host asks of the run and its source, before the hand-over
\* and again before the settlement (allocateScheduledConversation,
\* resolveConversation).
NativeAuthority(o) ==
  /\ run[o].state = "source_bound" /\ run[o].live
  /\ HeadMatches(o)
  /\ source[o].state = "claimed" /\ source[o].op \in OpenPhases
  /\ owner[Chat(o)] = o

SameTask(o) ==
  /\ head[TaskOf(o)].status = "active"
  /\ head[TaskOf(o)].revision = RevisionOf(o)

\* dispatchScheduledAgent hands the input to the harness; only here the
\* attempt is compared.
Dispatch(c) ==
  LET o == OccurrenceOf(c)
  IN  /\ At(c, "bound") /\ exec[c].valid
      /\ SameTask(o) /\ NativeAuthority(o) /\ run[o].attempt = AttemptOf(c)
      /\ source' = [source EXCEPT ![o].op = "executing", ![o].harness = TRUE]
      /\ Step(c, "working")
      /\ UNCHANGED <<head, run, owner, authority, faults>>

\* executeScheduledTask skips a task that was edited or stopped meanwhile.
DispatchSkipped(c) ==
  /\ At(c, "bound")
  /\ ~exec[c].valid \/ ~SameTask(OccurrenceOf(c))
  /\ GivesUp(c)
  /\ UNCHANGED <<ledgers, authority, faults>>

Answer(c, result) ==
  /\ exec' = [exec EXCEPT ![c].pc = "answered", ![c].result = result]
  /\ UNCHANGED lane

\* The dispatcher throws, before or after the hand-over or in the middle of
\* the settlement; a shell command fails.
WorkFails(c) ==
  /\ \/ At(c, "working") \/ At(c, "publishing")
     \/ At(c, "bound") /\ exec[c].valid /\ SameTask(OccurrenceOf(c))
  /\ Answer(c, "error")
  /\ UNCHANGED <<ledgers, authority, faults>>

\* runtime.settle up to finishHarness: the authority is looked at, then the
\* operation is under the version fence of that look until it is settling.
FinishHarness(c) ==
  LET o == OccurrenceOf(c)
  IN  /\ At(c, "working") /\ IsAgent(o)
      /\ NativeAuthority(o) /\ source[o].op = "executing"
      /\ source' = [source EXCEPT ![o].op = "settling"]
      /\ Step(c, "publishing")
      /\ UNCHANGED <<head, run, owner, authority, faults>>

\* commitTerminal (EF-S02): answer, operation, source and chat commit
\* together, unless the operation was ended meanwhile; sending the answer out
\* may then fail.
NativeSettle(c, result) ==
  LET o == OccurrenceOf(c)
  IN  /\ At(c, "publishing")
      /\ source[o].op = "settling" /\ source[o].state = "claimed"
      /\ owner[Chat(o)] = o
      /\ source' = SourceSettled(o, TRUE)
      /\ owner' = FreedOwner(o)
      /\ Answer(c, result)
      /\ UNCHANGED <<head, run, authority, faults>>

ShellWorks(c) ==
  /\ At(c, "working") /\ ~IsAgent(OccurrenceOf(c))
  /\ Answer(c, "success")
  /\ UNCHANGED <<ledgers, authority, faults>>

\* The last look at the claim; the completion request is sealed.
Seal(c) ==
  /\ At(c, "answered")
  /\ IF exec[c].valid
     THEN /\ exec' = [exec EXCEPT ![c].pc = "sealed", ![c].valid = FALSE,
                        ![c].fresh = Holds(c)]
          /\ UNCHANGED lane
     ELSE Ends(c)
  /\ UNCHANGED <<ledgers, authority, faults>>

\* requireFencedRun and validateCompletionShape.
Completes(c) ==
  /\ Fenced(c)
  /\ run[OccurrenceOf(c)].state =
       IF IsAgent(OccurrenceOf(c)) THEN "source_bound" ELSE "claimed"

Complete(c) ==
  /\ At(c, "sealed") /\ Completes(c)
  /\ SettleRun(OccurrenceOf(c), "completed", exec[c].result)
  /\ IF exec[c].sourced THEN Step(c, "settling") ELSE Ends(c)
  /\ UNCHANGED <<source, owner, authority, faults>>

\* Both attempts are answered not_applied: the source is settled as failed.
CompleteRefused(c) ==
  /\ At(c, "sealed")
  /\ \/ ~Completes(c) /\ UNCHANGED faults
     \/ Completes(c) /\ Fault
  /\ IF exec[c].sourced
     THEN /\ exec' = [exec EXCEPT ![c].pc = "settling", ![c].result = "error"]
          /\ UNCHANGED lane
     ELSE Ends(c)
  /\ UNCHANGED <<ledgers, authority>>

\* An answer is lost and the readback settles nothing: the source stays as it
\* is, whether the completion was committed or not.
CompleteUncertain(c) ==
  /\ At(c, "sealed") /\ Fault
  /\ \/ Completes(c) /\ SettleRun(OccurrenceOf(c), "completed", exec[c].result)
     \/ UNCHANGED <<run, head>>
  /\ Ends(c)
  /\ UNCHANGED <<source, owner, authority>>

SettleSource(c) ==
  LET o == OccurrenceOf(c)
  IN  /\ At(c, "settling")
      /\ source' = SourceSettled(o, exec[c].result = "success")
      /\ owner' = FreedOwner(o)
      /\ Ends(c)
      /\ UNCHANGED <<head, run, authority, faults>>

SettleSourceFails(c) ==
  /\ At(c, "settling") /\ Fault
  /\ Ends(c)
  /\ UNCHANGED <<ledgers, authority>>

\* abandonRun, then the source the executor accepted.
Abandon(c) ==
  /\ At(c, "abandoning") /\ Fenced(c)
  /\ SettleRun(OccurrenceOf(c), "abandoned", "none")
  /\ IF exec[c].sourced
     THEN /\ exec' = [exec EXCEPT ![c].pc = "settling", ![c].result = "error"]
          /\ UNCHANGED lane
     ELSE Ends(c)
  /\ UNCHANGED <<source, owner, authority, faults>>

AbandonRefused(c) ==
  /\ At(c, "abandoning")
  /\ \/ ~Fenced(c) /\ UNCHANGED faults
     \/ Fenced(c) /\ Fault
  /\ Ends(c)
  /\ UNCHANGED <<ledgers, authority>>

-----------------------------------------------------------------------------
(* The rest of the system.                                                 *)

\* Somebody else's operation takes and leaves the chat.
ForeignClaims(ch) ==
  /\ owner[ch] = Free
  /\ owner' = [owner EXCEPT ![ch] = Foreign]
  /\ UNCHANGED <<head, run, source, process, faults>>

ForeignEnds(ch) ==
  /\ owner[ch] = Foreign
  /\ owner' = [owner EXCEPT ![ch] = Free]
  /\ UNCHANGED <<head, run, source, process, faults>>

\* The native host settles the source of run o without an executor: its
\* answer was committed before the crash, or its model has failed.
Recovered(o, outcome) ==
  [source[o] EXCEPT !.state = "consumed", !.op = "terminal",
                    !.outcome = outcome]

\* The process dies and is started again.  Before the scheduler runs, the host
\* settles scheduled inputs that its authority still covers.
Crash ==
  /\ Fault
  /\ exec' = [c \in Claims |-> NoExec]
  /\ lane' = [l \in Lanes |-> <<>>]
  /\ authority' = {}
  /\ \E done \in SUBSET {o \in Occurrences : NativeAuthority(o) /\ source[o].harness} :
       \E outcome \in [done -> {"completed", "failed"}] :
         /\ source' = [o \in Occurrences |->
              IF o \in done THEN Recovered(o, outcome[o]) ELSE source[o]]
         /\ owner' = [ch \in Chats |->
              IF owner[ch] \in done THEN Free ELSE owner[ch]]
  /\ UNCHANGED <<head, run>>

-----------------------------------------------------------------------------
Init ==
  /\ head = [t \in Tasks |-> [status |-> "active", revision |-> 1, next |-> 1]]
  /\ run = [o \in Occurrences |-> NoRun]
  /\ source = [o \in Occurrences |-> NoSource]
  /\ owner = [ch \in Chats |-> Free]
  /\ exec = [c \in Claims |-> NoExec]
  /\ lane = [l \in Lanes |-> <<>>]
  /\ authority = {}
  /\ faults = 0

User == \E t \in Tasks :
  \/ \E next \in Slots \cup {VisibleNext(t)}, status \in {head[t].status, "active"} :
       Revise(t, next, status)
  \/ Pause(t) \/ Resume(t) \/ Reactivate(t) \/ Delete(t)

Repair == \E o \in Occurrences :
  RepairCompleted(o) \/ ExpireSource(o) \/ ReconcileInterrupted(o)

Poll == Repair \/ ReadAuthorities \/ (\E c \in Claims : Reclaim(c))
          \/ (\E o \in Occurrences : Claim(o))

Execute(c) ==
  \/ Accept(c) \/ StartWork(c) \/ StartRefused(c)
  \/ Bind(c) \/ BindRefused(c)
  \/ Dispatch(c) \/ DispatchSkipped(c) \/ WorkFails(c) \/ ShellWorks(c)
  \/ FinishHarness(c) \/ (\E r \in {"success", "error"} : NativeSettle(c, r))
  \/ Seal(c) \/ Complete(c) \/ CompleteRefused(c) \/ CompleteUncertain(c)
  \/ SettleSource(c) \/ SettleSourceFails(c)
  \/ Abandon(c) \/ AbandonRefused(c)

Next ==
  \/ User \/ Poll \/ Crash
  \/ \E o \in Occurrences : Lapse(o) \/ Retire(o)
  \/ \E c \in Claims : Execute(c) \/ RenewFails(c)
  \/ \E ch \in Chats : ForeignClaims(ch) \/ ForeignEnds(ch)

Spec == Init /\ [][Next]_vars

\* The queue runs its items, timers fire, and the poll comes round.
FairSpec ==
  /\ Spec
  /\ \A c \in Claims :
       /\ WF_vars(Execute(c)) /\ WF_vars(RenewFails(c)) /\ WF_vars(Reclaim(c))
  /\ \A o \in Occurrences :
       /\ WF_vars(RepairCompleted(o)) /\ WF_vars(ExpireSource(o))
       /\ WF_vars(ReconcileInterrupted(o)) /\ WF_vars(Lapse(o))
  /\ WF_vars(ReadAuthorities)

-----------------------------------------------------------------------------
(* Properties.                                                             *)

\* Every variable has its type; the type invariant of the module.
TypeOK ==
  /\ head \in [Tasks -> [status : TaskStates, revision : Revisions,
                         next : Nat \cup {None}]]
  /\ run \in [Occurrences ->
       [state : RunStates, attempt : 0..MaxAttempts, live : BOOLEAN,
        result : Results, disposition : Dispositions,
        next : Nat \cup {None}]]
  /\ source \in [Occurrences ->
       [state : SourceStates, op : OpPhases, outcome : Outcomes,
        harness : BOOLEAN]]
  /\ owner \in [Chats -> {Free, Foreign} \cup Occurrences]
  /\ exec \in [Claims -> [pc : Pcs, valid : BOOLEAN, fresh : BOOLEAN,
                          sourced : BOOLEAN, result : Results]]
  /\ lane \in [Lanes -> Seq(Claims)]
  /\ authority \in SUBSET Claims
  /\ faults \in 0..MaxFaults

\* No active task rests on an occurrence that is over, which no poll would
\* ever claim again: not after a completion that raced an edit, a pause or a
\* resume, and not after retention took the decision a paused head needs.
NotFrozen ==
  \A t \in Tasks :
    head[t].next \in Slots =>
      LET r == run[<<t, head[t].revision, head[t].next>>]
      IN  /\ head[t].status = "active" => r.state \in {"absent"} \cup Open
          /\ head[t].status = "paused" =>
               r.state \in {"absent"} \cup Open
                 \/ (r.state \in Settled /\ r.disposition = "paused")

OpenOperationOwnsChat ==
  \A o \in Occurrences : source[o].op \in OpenPhases <=> owner[Chat(o)] = o

\* An open scheduled operation owns its chat, and nothing else does in its
\* name; a settlement that comes late, after a poll has ended the operation,
\* never frees a chat that somebody else has taken meanwhile.
ChatOwnership ==
  /\ []OpenOperationOwnsChat
  /\ [][\A ch \in Chats :
          owner[ch] = Foreign /\ owner'[ch] # Foreign
            => UNCHANGED <<source, run, exec>>]_vars

\* A run that is recorded as a success has a completed operation and a
\* consumed source behind it, whatever repairs have touched them since.
SuccessIsCommitted ==
  \A o \in Occurrences :
    IsAgent(o) /\ run[o].result = "success"
      => source[o].outcome = "completed" /\ source[o].state = "consumed"

\* What a run has decided stays: its result, its disposition and its successor
\* are written once, by the attempt that held the lease, and a tombstone is
\* never claimed again.
DecidedOnce ==
  [][\A o \in Occurrences :
       run[o].state \in Settled \cup {"retired"} =>
         run'[o] = run[o] \/ run'[o] = [run[o] EXCEPT !.state = "retired"]
    ]_vars

\* No due slot is passed over: within a revision the head of a task leaves a
\* slot only when the occurrence of that slot has been settled.
NoSlotSkipped ==
  [][\A t \in Tasks :
       /\ head'[t].revision = head[t].revision
       /\ head'[t].next # head[t].next
       /\ head'[t].status # "deleted"
       => run'[<<t, head[t].revision, head[t].next>>].state \in Settled
    ]_vars

\* Of a claim the queue dropped, the lease controller still renews.
Unowned(o) == \E c \in Claims : OccurrenceOf(c) = o /\ exec[c].pc = "dropped"

\* The chat of a scheduled operation is freed by its executor or by a poll,
\* after crashes and failed writes too.  Left to the native host is a handed
\* over input whose run was completed without it.
ChatFreed ==
  \A o \in Occurrences :
    source[o].op \in OpenPhases ~>
      \/ source[o].op = "terminal"
      \/ run[o].state = "completed" /\ source[o].harness
      \/ Unowned(o)

\* An accepted source whose fate proves nothing: its run is held.
Held(o) ==
  /\ IsAgent(o) /\ source[o].state # "none"
  /\ \/ run[o].state = "claimed" \/ source[o].harness
     \/ source[o].state # "interrupted"

\* A claimed occurrence is settled, or held because its source was accepted
\* and nothing proves what became of it.
OccurrenceSettles ==
  \A o \in Occurrences :
    run[o].state \in Open ~>
      \/ run[o].state \notin Open
      \/ Held(o) \/ Unowned(o)
      \/ run[o].attempt = MaxAttempts

\* The EF-S07 specification: "A later pause does not revoke started work".
PauseKeepsStartedWork ==
  \A c \in Claims :
    LET o == OccurrenceOf(c)
    IN  /\ At(c, "working") /\ IsAgent(o) /\ Holds(c) /\ IsHead(o)
        /\ head[TaskOf(o)].status = "paused"
        => NativeAuthority(o)
=============================================================================
