----------------------------- MODULE ServiceWork -----------------------------
(***************************************************************************)
(* The durable work ledger of a chat: accepted sources, the operations     *)
(* that own them and the terminal settlement that closes them              *)
(* (service-work-store.ts, EF-S01, and terminal-settlement-store.ts,       *)
(* EF-S02, under runtime/src/service-effects/current-piclaw/), and the two *)
(* writers that reach the same tables with SQL of their own: the           *)
(* acknowledgement of native messages (application-bootstrap.ts) and the   *)
(* scheduler (task-scheduler.ts).                                          *)
(*                                                                         *)
(* Each method runs in one BEGIN IMMEDIATE transaction, so each is one     *)
(* action; a crash or a fault before the commit leaves the state as it     *)
(* was.  A rejected call, a call refused by process admission or by an     *)
(* ownership guard, and the replay of a recorded decision write nothing:   *)
(* they are stuttering steps.  A call with a stale expectedVersion is one  *)
(* of the rejected ones.                                                   *)
(*                                                                         *)
(* A member of Sources is a source id; its source_seq is its position in   *)
(* the log of its chat.  Kind "queued" is a message whose payload is its   *)
(* own queued-source reference; kind "scheduled" is scheduled_agent, which *)
(* only the scheduler accepts.  The phases accepted, starting_harness and *)
(* suspended only occur in rows of earlier releases and are left out.      *)
(***************************************************************************)
EXTENDS Naturals, Sequences, FiniteSets

CONSTANTS
  Chats,     \* chat_jid values
  Sources,   \* source ids
  Ops,       \* operation ids
  Intents,   \* ids of the intents appended by appendIntent
  ChatOf,    \* ChatOf[s]: the chat that source s is sent to
  KindOf,    \* KindOf[s]: "message", "queued", "cancellation" or "scheduled"
  NoOp,      \* a null operation id
  NoSource   \* a null source_seq

ASSUME LedgerConstants ==
  /\ ChatOf \in [Sources -> Chats]
  /\ KindOf \in [Sources -> {"message", "queued", "cancellation", "scheduled"}]
  /\ NoOp \notin Ops
  /\ NoSource \notin Sources
  /\ Intents \cap Sources = {}

VARIABLES
  log,           \* chats.next_source_seq: the sources of a chat by sequence
  state,         \* sources.state
  target,        \* sources.target_operation_id
  queueRow,      \* queued_inputs.state of the source, or "none"
  phase,         \* operations.phase, or "unused"
  version,       \* operations.version
  primary,       \* operations.primary_source_seq
  members,       \* operation_sources
  harness,       \* whether the harness binding is set
  cancellation,  \* operations.cancellation_source_seq
  intents,       \* intents of the operation
  commit,        \* the terminal columns and the EF-S02 commit row
  active,        \* chats.active_operation_id
  frontier       \* chats.consumed_through_source_seq

sourceVars == <<log, state, target, queueRow>>
opVars == <<phase, version, primary, members, harness, cancellation, intents,
            commit>>
chatVars == <<active, frontier>>
vars == <<sourceVars, opVars, chatVars>>

SourceStates == {"unseen", "pending", "claimed", "queued", "consumed",
                 "disposed"}
QueueStates == {"accepted", "queued", "consumed", "disposed"}
Phases == {"unused", "claimed", "executing", "cancelling", "settling",
           "terminal"}
Dispositions == {"completed", "cancelled", "failed", "skipped", "superseded"}
Verdicts == {"consumed", "disposed"}
Commits == [disposition : Dispositions, version : Nat, frontier : Nat]
NoCommit == [disposition |-> "none", version |-> 0, frontier |-> 0]

-----------------------------------------------------------------------------
(* Queries.                                                                *)

Seqs(c) == 1..Len(log[c])
Position(lg, s) == CHOOSE i \in DOMAIN lg : lg[i] = s
Scheduled(s) == KindOf[s] = "scheduled"
Closed(st) == st \in Verdicts

\* Faulty variant: a terminal operation is still written to.
OnceOpened(o) == phase[o] # "unused"

Open(o) == phase[o] \notin {"unused", "terminal"}

ChatOfOp(o) == ChatOf[primary[o]]
Unowned(s) == \A o \in Ops : s \notin members[o]
Pending(c) == {i \in Seqs(c) : state[log[c][i]] = "pending"}

\* Faulty variant: the compare-and-set is lost.
NoVersionFence(o, v) == TRUE

\* The version compare-and-set of every operation write.
VersionFence(o, v) == version[o] = v

\* A queued message that no operation was named for.
PlainQueued(s) == KindOf[s] = "queued" /\ target[s] = NoOp

\* Faulty variant: the priority batch does not end at an ordinary input.
PriorityAnywhere(c, i) == PlainQueued(log[c][i])

\* i belongs to the batch of queued messages at the head of the pending work.
InPriorityBatch(c, i) ==
  \A j \in Pending(c) : j <= i => PlainQueued(log[c][j])

\* nextPendingSource: the first pending source, or the one that the user's
\* queue order (pendingQueuedSourceOrder) prefers within the leading batch.
Claimable(c, i) ==
  /\ i \in Pending(c)
  /\ (\A j \in Pending(c) : i <= j) \/ InPriorityBatch(c, i)

\* Faulty variant: steps over pending and claimed work.
FrontierAtLastClosed(c, st, n) ==
  /\ n \in frontier[c]..Len(log[c])
  /\ n > frontier[c] => Closed(st[log[c][n]])
  /\ \A i \in n + 1..Len(log[c]) : ~Closed(st[log[c][i]])

\* computeClosedSourceFrontier: n is where the frontier of chat c stops when
\* the sources have the states st.
ClosedFrontier(c, st, n) ==
  /\ n \in frontier[c]..Len(log[c])
  /\ \A i \in frontier[c] + 1..n : Closed(st[log[c][i]])
  /\ n < Len(log[c]) => ~Closed(st[log[c][n + 1]])

\* queueTransition, with a faulty variant that lets a consumed row back in.
RequeueTransition(from, to) ==
  \/ from = "accepted" /\ to \in {"queued", "disposed"}
  \/ from = "queued" /\ to \in Verdicts
  \/ from = "consumed" /\ to = "queued"

QueueTransition(from, to) ==
  \/ from = "accepted" /\ to \in {"queued", "disposed"}
  \/ from = "queued" /\ to \in Verdicts

\* Faulty variant: copies the queue state.
QueueStateAsIs(q) == q

\* sourceStateForQueue.
SourceStateForQueue(q) == IF q = "accepted" THEN "claimed" ELSE q

\* Faulty variant: a settling operation completes whatever was cancelled.
CompletesAnyway(o, d) ==
  \/ d = "completed" /\ phase[o] = "settling"
  \/ d = "cancelled" /\ cancellation[o] # NoSource

\* dispositionAllowed.  The error code of failed and the authority of skipped
\* and superseded are data of the request.
DispositionAllowed(o, d) ==
  IF cancellation[o] # NoSource
  THEN d = "cancelled" /\ phase[o] \in {"cancelling", "settling"}
  ELSE \/ d = "completed" /\ phase[o] = "settling"
       \/ d = "failed" /\ phase[o] \in {"executing", "cancelling", "settling"}
       \/ d = "skipped" /\ phase[o] = "claimed" /\ ~harness[o]
       \/ d = "superseded" /\ phase[o] = "claimed"

\* validateSources and settleSources: every member is still open and its
\* queue row, if any, agrees.
Settleable(o) ==
  \A s \in members[o] :
    \/ state[s] = "claimed" /\ queueRow[s] \in {"none", "accepted"}
    \/ state[s] = "queued" /\ queueRow[s] = "queued"

-----------------------------------------------------------------------------
(* Shared writes.                                                          *)

\* Faulty variant: only the source that started the operation is settled.
SettlePrimaryOnly(o, verdict) ==
  [s \in Sources |-> IF s = primary[o] THEN verdict[s] ELSE state[s]]

\* The source states that settlement writes.
Settled(o, verdict) ==
  [s \in Sources |-> IF s \in members[o] THEN verdict[s] ELSE state[s]]

\* Faulty variant: any chat accepts another operation.
AlwaysIdle(c) == TRUE

ChatIsIdle(c) == active[c] = NoOp

NewOperationId(o) == phase[o] = "unused"

\* Source s becomes the primary source of the new operation o.
OpenOperation(s, o) ==
  /\ phase' = [phase EXCEPT ![o] = "claimed"]
  /\ version' = [version EXCEPT ![o] = 1]
  /\ primary' = [primary EXCEPT ![o] = s]
  /\ members' = [members EXCEPT ![o] = {s}]
  /\ active' = [active EXCEPT ![ChatOf[s]] = o]
  /\ UNCHANGED <<harness, cancellation, intents, commit, frontier>>

\* acceptCancellation: record the cancellation and stop the operation.
RecordCancellation(o, s) ==
  /\ cancellation' = [cancellation EXCEPT ![o] = s]
  /\ phase' = [phase EXCEPT ![o] = "cancelling"]
  /\ version' = [version EXCEPT ![o] = @ + 1]

-----------------------------------------------------------------------------
(* EF-S01: sources and operations.                                         *)

\* acceptSource, with an optional target operation.
AcceptSource(s, o) ==
  /\ state[s] = "unseen"
  /\ o # NoOp => Open(o) /\ ChatOfOp(o) = ChatOf[s]
  /\ log' = [log EXCEPT ![ChatOf[s]] = Append(@, s)]
  /\ state' = [state EXCEPT ![s] = "pending"]
  /\ target' = [target EXCEPT ![s] = o]
  /\ UNCHANGED <<queueRow, opVars, chatVars>>

\* claimNext: open operation o for the next pending source of chat c.
ClaimNext(c, o) ==
  /\ ChatIsIdle(c)
  /\ NewOperationId(o)
  /\ \E i \in Seqs(c) :
       /\ Claimable(c, i)
       /\ state' = [state EXCEPT ![log[c][i]] = "claimed"]
       /\ OpenOperation(log[c][i], o)
  /\ UNCHANGED <<log, target, queueRow>>

\* acceptAndClaimSourceInTransaction: nothing happens unless the accepted
\* source is the one that claimNext picks.
AcceptAndClaim(s, o) ==
  /\ state[s] = "unseen"
  /\ ChatIsIdle(ChatOf[s])
  /\ NewOperationId(o)
  /\ \A i \in Pending(ChatOf[s]) :
       KindOf[s] = "queued" /\ PlainQueued(log[ChatOf[s]][i])
  /\ log' = [log EXCEPT ![ChatOf[s]] = Append(@, s)]
  /\ state' = [state EXCEPT ![s] = "claimed"]
  /\ OpenOperation(s, o)
  /\ UNCHANGED <<target, queueRow>>

\* bindHarness: the harness run of the operation is known.
BindHarness(o, v) ==
  /\ Open(o)
  /\ ~harness[o]
  /\ VersionFence(o, v)
  /\ harness' = [harness EXCEPT ![o] = TRUE]
  /\ phase' = [phase EXCEPT ![o] = IF cancellation[o] = NoSource
                                   THEN "executing" ELSE "cancelling"]
  /\ version' = [version EXCEPT ![o] = @ + 1]
  /\ UNCHANGED <<sourceVars, primary, members, cancellation, intents, commit,
                 chatVars>>

\* appendIntent.
AppendIntent(o, i, v) ==
  /\ Open(o)
  /\ i \notin intents[o]
  /\ VersionFence(o, v)
  /\ intents' = [intents EXCEPT ![o] = @ \cup {i}]
  /\ version' = [version EXCEPT ![o] = @ + 1]
  /\ UNCHANGED <<sourceVars, phase, primary, members, harness, cancellation,
                 commit, chatVars>>

\* What attachQueuedSourceInTransaction and withdrawUnclaimedSource-
\* InTransaction ask of the source.
Unclaimed(s) ==
  /\ state[s] = "pending"
  /\ PlainQueued(s)
  /\ Unowned(s)
  /\ \A o \in Ops : cancellation[o] # s /\ primary[o] # s
  /\ queueRow[s] = "none"

\* attachQueuedSourceInTransaction: a queued message steers the running
\* operation of its chat.
AttachQueued(o, s, v) ==
  /\ active[ChatOf[s]] = o
  /\ phase[o] = "executing"
  /\ cancellation[o] = NoSource
  /\ VersionFence(o, v)
  /\ harness[o]
  /\ Unclaimed(s)
  /\ s \notin intents[o]
  /\ state' = [state EXCEPT ![s] = "claimed"]
  /\ target' = [target EXCEPT ![s] = o]
  /\ members' = [members EXCEPT ![o] = @ \cup {s}]
  /\ intents' = [intents EXCEPT ![o] = @ \cup {s}]
  /\ version' = [version EXCEPT ![o] = @ + 1]
  /\ UNCHANGED <<log, queueRow, phase, primary, harness, cancellation, commit,
                 chatVars>>

\* Faulty variant: the membership row is not written.
RecordFirstUnowned(o, s) ==
  /\ queueRow[s] = "none"
  /\ state[s] = "pending"
  /\ queueRow' = [queueRow EXCEPT ![s] = "accepted"]
  /\ state' = [state EXCEPT ![s] = SourceStateForQueue("accepted")]
  /\ UNCHANGED members

\* recordQueuedInput, first record: the source joins the operation.
RecordFirst(o, s) ==
  /\ queueRow[s] = "none"
  /\ state[s] = "pending"
  /\ \A p \in Ops \ {o} : s \notin members[p]
  /\ members' = [members EXCEPT ![o] = @ \cup {s}]
  /\ queueRow' = [queueRow EXCEPT ![s] = "accepted"]
  /\ state' = [state EXCEPT ![s] = SourceStateForQueue("accepted")]

\* recordQueuedInput, a later record of the same input.
RecordNext(o, s, q) ==
  /\ s \in members[o]
  /\ QueueTransition(queueRow[s], q)
  /\ state[s] = SourceStateForQueue(queueRow[s])
  /\ queueRow' = [queueRow EXCEPT ![s] = q]
  /\ state' = [state EXCEPT ![s] = SourceStateForQueue(q)]
  /\ UNCHANGED members

\* recordQueuedInput.
RecordQueuedInput(o, s, q, v) ==
  /\ Open(o)
  /\ VersionFence(o, v)
  /\ ChatOf[s] = ChatOfOp(o)
  /\ target[s] = o \/ primary[o] = s
  /\ (q = "accepted" /\ RecordFirst(o, s)) \/ RecordNext(o, s, q)
  /\ version' = [version EXCEPT ![o] = @ + 1]
  /\ UNCHANGED <<log, target, phase, primary, harness, cancellation, intents,
                 commit, chatVars>>

\* acceptCancellation of an operation by a source that targets it.
AcceptCancellation(o, s, v) ==
  /\ Open(o)
  /\ cancellation[o] = NoSource
  /\ VersionFence(o, v)
  /\ state[s] # "unseen"
  /\ ChatOf[s] = ChatOfOp(o)
  /\ target[s] = o
  /\ RecordCancellation(o, s)
  /\ UNCHANGED <<sourceVars, primary, members, harness, intents, commit,
                 chatVars>>

\* acceptAndCancelSourceInTransaction: accept the cancellation source if it
\* is new, make it a member and cancel.  For a source that is a member
\* already the effect is that of AcceptCancellation.
AcceptAndCancel(o, s, v) ==
  /\ KindOf[s] = "cancellation"
  /\ Open(o)
  /\ ChatOf[s] = ChatOfOp(o)
  /\ cancellation[o] = NoSource
  /\ VersionFence(o, v)
  /\ \/ /\ state[s] = "unseen"
        /\ log' = [log EXCEPT ![ChatOf[s]] = Append(@, s)]
     \/ /\ state[s] = "pending"
        /\ target[s] = o
        /\ UNCHANGED log
  /\ state' = [state EXCEPT ![s] = "claimed"]
  /\ target' = [target EXCEPT ![s] = o]
  /\ members' = [members EXCEPT ![o] = @ \cup {s}]
  /\ RecordCancellation(o, s)
  /\ UNCHANGED <<queueRow, primary, harness, intents, commit, chatVars>>

\* What finishHarness asks of the operation.
Finishable(o, v) ==
  /\ phase[o] \in {"executing", "cancelling"}
  /\ VersionFence(o, v)
  /\ active[ChatOfOp(o)] = o
  /\ harness[o]

\* finishHarness: the host saw the committed outcomes of the operation.
FinishHarness(o, v) ==
  /\ Finishable(o, v)
  /\ phase' = [phase EXCEPT ![o] = "settling"]
  /\ version' = [version EXCEPT ![o] = @ + 1]
  /\ UNCHANGED <<sourceVars, primary, members, harness, cancellation, intents,
                 commit, chatVars>>

\* withdrawUnclaimedSourceInTransaction.  The frontier of a busy chat is left
\* to the settlement of its operation.
Withdraw(s) ==
  /\ Unclaimed(s)
  /\ state' = [state EXCEPT ![s] = "disposed"]
  /\ IF ChatIsIdle(ChatOf[s])
     THEN \E n \in 0..Len(log[ChatOf[s]]) :
            /\ ClosedFrontier(ChatOf[s], state', n)
            /\ frontier' = [frontier EXCEPT ![ChatOf[s]] = n]
     ELSE UNCHANGED frontier
  /\ UNCHANGED <<log, target, queueRow, opVars, active>>

\* The frontier that the native host computes: n is the last sequence before
\* the first open one.
BeforeFirstOpen(c, st, n) ==
  /\ \A i \in 1..n : Closed(st[log[c][i]])
  /\ n < Len(log[c]) => ~Closed(st[log[c][n + 1]])

\* dispatchAcceptedInput, the acknowledgement: the SDK has taken the message
\* over, so the host closes its source.  This transaction of the application
\* writes the tables of the ledger without going through the store, also
\* while an operation of the chat runs.
AckNative(s) ==
  /\ KindOf[s] \in {"message", "queued"}
  /\ state[s] \in {"pending", "consumed"}
  /\ state' = [state EXCEPT ![s] = "consumed"]
  /\ \E n \in 0..Len(log[ChatOf[s]]) :
       /\ BeforeFirstOpen(ChatOf[s], state', n)
       /\ frontier' = [frontier EXCEPT ![ChatOf[s]] = n]
  /\ UNCHANGED <<log, target, queueRow, opVars, active>>

-----------------------------------------------------------------------------
(* EF-S02: terminal settlement.                                            *)

\* What authoriseOperation and validateSources ask of the operation.
Committable(o, v, d) ==
  /\ Open(o)
  /\ VersionFence(o, v)
  /\ active[ChatOfOp(o)] = o
  /\ DispositionAllowed(o, d)
  /\ Settleable(o)

\* Faulty variant: the chat keeps its finished operation.
KeepChat(c) == UNCHANGED active

\* commitTerminal gives the chat back.
ReleaseChat(c) == active' = [active EXCEPT ![c] = NoOp]

\* commitTerminal, the transaction: close every source of the operation,
\* advance the frontier, release the chat and record the immutable commit.
\* The harness binding never changes once it is set, so the version fence
\* covers expectedHarness.  Timeline, media and outbox rows are written by
\* the same transaction and are not modelled here.
CommitTerminal(o, v, d, verdict) ==
  /\ Committable(o, v, d)
  /\ state' = Settled(o, verdict)
  /\ queueRow' = [s \in Sources |->
                    IF s \in members[o] /\ queueRow[s] # "none"
                    THEN verdict[s] ELSE queueRow[s]]
  /\ \E n \in 0..Len(log[ChatOfOp(o)]) :
       /\ ClosedFrontier(ChatOfOp(o), state', n)
       /\ frontier' = [frontier EXCEPT ![ChatOfOp(o)] = n]
       /\ commit' = [commit EXCEPT ![o] =
            [disposition |-> d, version |-> version[o] + 1, frontier |-> n]]
  /\ ReleaseChat(ChatOfOp(o))
  /\ phase' = [phase EXCEPT ![o] = "terminal"]
  /\ version' = [version EXCEPT ![o] = @ + 1]
  /\ UNCHANGED <<log, target, primary, members, harness, cancellation, intents>>

-----------------------------------------------------------------------------
(* The scheduler's writes.  They go around the stores: no claim order, no   *)
(* version fence, no commit row, and the frontier is not computed.         *)

\* acceptScheduledAgentSource: the source of a run is accepted and claimed at
\* once in an idle chat, whatever waits there.  A source that is there
\* already is answered as it is.
AcceptScheduled(s, o) ==
  /\ state[s] = "unseen"
  /\ ChatIsIdle(ChatOf[s])
  /\ NewOperationId(o)
  /\ log' = [log EXCEPT ![ChatOf[s]] = Append(@, s)]
  /\ state' = [state EXCEPT ![s] = "claimed"]
  /\ OpenOperation(s, o)
  /\ UNCHANGED <<target, queueRow>>

\* The end that the scheduler gives an operation, unless it has one: the
\* terminal columns are written, a row of EF-S02 is not.
EndScheduled(o, d) ==
  /\ active' = [active EXCEPT ![ChatOfOp(o)] = IF @ = o THEN NoOp ELSE @]
  /\ IF Open(o)
     THEN /\ phase' = [phase EXCEPT ![o] = "terminal"]
          /\ version' = [version EXCEPT ![o] = @ + 1]
          /\ commit' = [commit EXCEPT ![o] =
               [disposition |-> d, version |-> 0, frontier |-> 0]]
     ELSE UNCHANGED <<phase, version, commit>>
  /\ UNCHANGED <<log, target, queueRow, primary, members, harness, cancellation,
                 intents>>

\* consumed_through_source_seq=MAX(consumed_through_source_seq, source_seq).
ThroughSource(f, i) == IF f < i THEN i ELSE f

\* settleScheduledAgentSource, with a result: the source is written whatever
\* its state, and a success moves the frontier up to it over everything that
\* still waits in between.
SettleScheduled(s, o, success) ==
  /\ primary[o] = s
  /\ EndScheduled(o, IF success THEN "completed" ELSE "failed")
  /\ state' = [state EXCEPT ![s] = IF success THEN "consumed" ELSE "disposed"]
  /\ IF success
     THEN frontier' = [frontier EXCEPT ![ChatOf[s]] =
            ThroughSource(@, Position(log[ChatOf[s]], s))]
     ELSE UNCHANGED frontier

\* reconcileExpiredScheduledAgentSources, for one operation that is not
\* finished: the chat is given back and the frontier is left where it is.
ExpireScheduled(s, o) ==
  /\ primary[o] = s
  /\ Open(o)
  /\ EndScheduled(o, "failed")
  /\ state' = [state EXCEPT ![s] = IF Closed(@) THEN @ ELSE "disposed"]
  /\ UNCHANGED frontier

-----------------------------------------------------------------------------
(* The specification: every call of the two stores, the host's             *)
(* acknowledgement of native messages and the writes of the scheduler.     *)
(* Only the scheduler accepts a scheduled source, and no caller cancels    *)
(* the operation of one or lets another source join it: the host aborts    *)
(* operations of its own conversations only, and attachQueuedSource and    *)
(* recordQueuedInput have no caller yet.                                   *)

Init ==
  /\ log = [c \in Chats |-> <<>>]
  /\ state = [s \in Sources |-> "unseen"]
  /\ target = [s \in Sources |-> NoOp]
  /\ queueRow = [s \in Sources |-> "none"]
  /\ phase = [o \in Ops |-> "unused"]
  /\ version = [o \in Ops |-> 0]
  /\ primary = [o \in Ops |-> NoSource]
  /\ members = [o \in Ops |-> {}]
  /\ harness = [o \in Ops |-> FALSE]
  /\ cancellation = [o \in Ops |-> NoSource]
  /\ intents = [o \in Ops |-> {}]
  /\ commit = [o \in Ops |-> NoCommit]
  /\ active = [c \in Chats |-> NoOp]
  /\ frontier = [c \in Chats |-> 0]

SourceStep(s) ==
  /\ ~Scheduled(s)
  /\ \/ \E o \in Ops \cup {NoOp} : AcceptSource(s, o)
     \/ \E o \in Ops : AcceptAndClaim(s, o)
     \/ Withdraw(s)
     \/ AckNative(s)

SchedulerStep(s) ==
  /\ Scheduled(s)
  /\ \E o \in Ops :
       \/ AcceptScheduled(s, o)
       \/ \E success \in BOOLEAN : SettleScheduled(s, o, success)
       \/ ExpireScheduled(s, o)

\* Other sources may name, join and cancel operation o.
Joinable(o) == primary[o] \notin {s \in Sources : Scheduled(s)}

OperationStep(o, v) ==
  \/ BindHarness(o, v)
  \/ \E i \in Intents : AppendIntent(o, i, v)
  \/ FinishHarness(o, v)
  \/ \E s \in Sources :
       /\ Joinable(o)
       /\ \/ AttachQueued(o, s, v)
          \/ AcceptCancellation(o, s, v)
          \/ AcceptAndCancel(o, s, v)
          \/ \E q \in QueueStates : RecordQueuedInput(o, s, q, v)

SettleStep(o, v) ==
  \E d \in Dispositions, verdict \in [members[o] -> Verdicts] :
    CommitTerminal(o, v, d, verdict)

Next ==
  \/ \E s \in Sources : SourceStep(s) \/ SchedulerStep(s)
  \/ \E c \in Chats, o \in Ops : ClaimNext(c, o)
  \/ \E o \in Ops : OperationStep(o, version[o]) \/ SettleStep(o, version[o])

Spec == Init /\ [][Next]_vars

-----------------------------------------------------------------------------
(* Properties.                                                             *)

\* Types of the tables of the ledger.
TypeOK ==
  /\ log \in [Chats -> Seq(Sources)]
  /\ state \in [Sources -> SourceStates]
  /\ target \in [Sources -> Ops \cup {NoOp}]
  /\ queueRow \in [Sources -> QueueStates \cup {"none"}]
  /\ phase \in [Ops -> Phases]
  /\ version \in [Ops -> Nat]
  /\ primary \in [Ops -> Sources \cup {NoSource}]
  /\ members \in [Ops -> SUBSET Sources]
  /\ harness \in [Ops -> BOOLEAN]
  /\ cancellation \in [Ops -> Sources \cup {NoSource}]
  /\ intents \in [Ops -> SUBSET (Intents \cup Sources)]
  /\ commit \in [Ops -> Commits \cup {NoCommit}]
  /\ active \in [Chats -> Ops \cup {NoOp}]
  /\ frontier \in [Chats -> Nat]

\* The unfinished operations of a chat are exactly its active operation: no
\* interleaving of claims, cancellations and settlements leaves two owners,
\* or an unfinished operation that no chat points to and nobody resumes.
OneOwner ==
  \A c \in Chats :
    {o \in Ops : Open(o) /\ ChatOfOp(o) = c} = {active[c]} \ {NoOp}

\* A source has one owner for life and its state says where it is: waiting
\* sources belong to no operation, work in progress to one unfinished
\* operation, and a finished operation has closed everything it owned.
SourceOwnership ==
  \A s \in Sources :
    /\ state[s] \in {"unseen", "pending"} => Unowned(s)
    /\ state[s] \in {"claimed", "queued"} =>
         \E o \in Ops : Open(o) /\ s \in members[o]
    /\ \A o \in Ops : s \in members[o] =>
         /\ phase[o] = "terminal" => Closed(state[s])
         /\ \A p \in Ops \ {o} : s \notin members[p]

\* The sequences of chat c that hold the source of a scheduled run that ended.
EndedRuns(c) == {j \in Seqs(c) : Scheduled(log[c][j]) /\ Closed(state[log[c][j]])}

\* Nothing but a scheduled run disturbs the frontier.  It lies beyond an open
\* source only when a run that was accepted after that source has ended below
\* it; and in an idle chat it is behind (the next sequence is closed) only
\* when a run has ended at it or beyond it.
FrontierExplained ==
  \A c \in Chats :
    /\ \A i \in Seqs(c) : i <= frontier[c] =>
         \/ Closed(state[log[c][i]])
         \/ \E j \in EndedRuns(c) : i < j /\ j <= frontier[c]
    /\ active[c] = NoOp /\ frontier[c] < Len(log[c]) =>
         \/ ~Closed(state[log[c][frontier[c] + 1]])
         \/ \E j \in EndedRuns(c) : frontier[c] <= j

\* A source id has one sequence in one chat however often it is sent.
AcceptedOnce ==
  \A c, d \in Chats : \A i \in Seqs(c), j \in Seqs(d) :
    log[c][i] = log[d][j] => c = d /\ i = j

\* An operation whose cancellation was accepted ends as cancelled and no
\* other one does, whatever raced between the cancellation and the end.
CancellationDecides ==
  \A o \in Ops : phase[o] = "terminal" =>
    (commit[o].disposition = "cancelled") = (cancellation[o] # NoSource)

\* While the operation that a source names is unfinished, no other operation
\* works on the source.
TargetRespected ==
  \A s \in Sources, o \in Ops :
    target[s] = o /\ Open(o) => \A p \in Ops \ {o} : s \notin members[p]

Opens(o, s) == phase[o] = "unused" /\ phase'[o] # "unused" /\ primary'[o] = s

\* The user's queue order never overtakes an ordinary input: when an operation
\* starts with a source while an older one waits, both are queued messages.
\* The scheduler alone starts its runs over older work.
QueueBarrier ==
  [][ \A o \in Ops, s \in Sources : Opens(o, s) /\ ~Scheduled(s) =>
        \A i \in Pending(ChatOf[s]) : i < Position(log'[ChatOf[s]], s) =>
          KindOf[s] = "queued" /\ PlainQueued(log[ChatOf[s]][i]) ]_vars

-----------------------------------------------------------------------------
(* The ledger implements the abstract ChatLedger.                          *)

Owner(s) == IF Unowned(s) THEN NoOp ELSE CHOOSE o \in Ops : s \in members[o]

Ledger == INSTANCE ChatLedger WITH
  owner <- [s \in Sources |-> Owner(s)],
  closed <- {s \in Sources : Closed(state[s])},
  retired <- {o \in Ops : phase[o] = "terminal"}

\* Every call of the two stores, every acknowledgement and every write of the
\* scheduler is one abstract step or none: a source is accepted once, owned
\* once, closed once, and an operation ends by closing all of its sources and
\* freeing its chat in one step.
ImplementsChatLedger == Ledger!Spec
=============================================================================
