--------------------------- MODULE HostSettlement ---------------------------
(***************************************************************************)
(* The native host above the work ledger: how an operation is settled,     *)
(* cancelled and recovered by calls that read the ledger, await, and write *)
(* later (settleInput, cancelInput, abortOperation and abortSidePrompt in  *)
(* durable-engine/src/host-runtime.ts, the cancellations they commit in    *)
(* application-bootstrap.ts, and reconcileRecovered in                     *)
(* host-controller.ts).                                                    *)
(*                                                                         *)
(* Every step between two awaits is one action; between two steps of one   *)
(* call any other call may run.  A process crash forgets every call; the   *)
(* ledger, the outcomes that the SDK has committed and the submissions it  *)
(* was told to stop are durable.                                           *)
(*                                                                         *)
(* An operation is a side prompt, in a conversation of its own, or an      *)
(* ordinary one.  Scheduled operations are out of scope here.  The host    *)
(* uses the part of the ledger's interface in LedgerCall.                  *)
(***************************************************************************)
EXTENDS ServiceWork

CONSTANTS
  Callers,      \* concurrent calls of the host
  SideSources,  \* sources of side prompts
  CancelSource, \* CancelSource[o]: operator-abort:<o>, or side-cancel:<source>
  MaxCrashes    \* bound on process crashes

ASSUME HostConstants ==
  /\ \A s \in Sources : KindOf[s] # "scheduled"
  /\ SideSources \subseteq {s \in Sources : KindOf[s] = "message"}
  /\ CancelSource \in [Ops -> {s \in Sources : KindOf[s] = "cancellation"}]
  /\ \A o, p \in Ops : CancelSource[o] = CancelSource[p] => o = p
  /\ MaxCrashes \in Nat

VARIABLES
  done,      \* sources whose outcome the SDK has committed
  stopped,   \* sources whose submissions the SDK was told to stop
  call,      \* the call in flight of each caller
  toCancel,  \* cancelled operations that the start of the process completes
  refused,   \* the start of the process has failed on one of them
  crashes

hostVars == <<done, stopped, call, toCancel, refused, crashes>>
allVars == <<vars, hostVars>>

Idle == [pc |-> "idle", op |-> NoOp, version |-> 0, inputs |-> {},
         failed |-> FALSE, cancelled |-> FALSE, recovering |-> FALSE]
CallPcs == {"idle", "reading", "inspected", "finished", "ready", "unsettled",
            "aborting", "stopping", "withdrawing", "sideCancelled"}

\* Faulty variant: the cancellation counts as an input, even if there is none.
InputsAndCancellation(o) == members[o] \cup {cancellation[o]}

\* The inputs of an operation that the SDK executes.
Inputs(o) == members[o] \ {cancellation[o]}

SideOp(o) == primary[o] \in SideSources
Bound(o) == Open(o) /\ harness[o]

\* Cancellations that a client of cancel() names.
Requests ==
  {s \in Sources : KindOf[s] = "cancellation" /\ \A o \in Ops : CancelSource[o] # s}

Goto(p, rec) == call' = [call EXCEPT ![p] = rec]
End(p) == Goto(p, Idle)

\* The process serves calls once its start has completed the cancellations.
Serving == toCancel = {} /\ ~refused /\ \A p \in Callers : ~call[p].recovering

\* readState, the first read of a call on operation o.
Captured(o) ==
  [Idle EXCEPT !.op = o, !.version = version[o], !.inputs = Inputs(o)]

-----------------------------------------------------------------------------
(* The SDK.                                                                *)

\* A submission gets its answer or its failure.
SdkCommit(s) ==
  /\ s \notin done
  /\ \E o \in Ops : Bound(o) /\ s \in Inputs(o)
  /\ done' = done \cup {s}
  /\ UNCHANGED <<vars, stopped, call, toCancel, refused, crashes>>

-----------------------------------------------------------------------------
(* settleInput.                                                            *)

\* A dispatcher, or the start of the process for an answer that lost its
\* dispatcher, asks for settlement.
BeginSettle(p, o) ==
  /\ Serving
  /\ call[p].pc = "idle"
  /\ Bound(o)
  /\ Goto(p, [Captured(o) EXCEPT !.pc = "reading"])
  /\ UNCHANGED <<vars, done, stopped, toCancel, refused, crashes>>

\* Faulty variant: any committed outcome is enough.
SomeCommitted(inputs) == inputs \cap done # {}

\* readOperationInputs: every claimed input has a committed outcome.
AllCommitted(inputs) == inputs \subseteq done

\* A call that finds the harness finished, by another call or before a crash,
\* goes on to publish.
ResumeAt(o) == IF phase[o] = "settling" THEN "finished" ELSE "inspected"

\* The inputs are read and the operation is read again: settleInput goes on
\* only if nothing changed since the first read and all outcomes are there.
\* The start of the process then goes on to abort the operation.
Inspect(p) ==
  LET r == call[p] IN
  /\ r.pc = "reading"
  /\ IF VersionFence(r.op, r.version) /\ AllCommitted(r.inputs)
     THEN \E failed \in (IF cancellation[r.op] = NoSource THEN BOOLEAN
                                                          ELSE {FALSE}) :
            Goto(p, [r EXCEPT !.failed = failed, !.pc = ResumeAt(r.op),
                              !.cancelled = cancellation[r.op] # NoSource])
     ELSE IF r.recovering THEN Goto(p, [r EXCEPT !.pc = "unsettled"])
                          ELSE End(p)
  /\ UNCHANGED <<vars, done, stopped, toCancel, refused, crashes>>

\* finishHarness under the version of the inspection, and its answer.
Finish(p) ==
  LET r == call[p] IN
  /\ r.pc = "inspected"
  /\ \/ /\ FinishHarness(r.op, r.version)
        /\ Goto(p, [r EXCEPT !.pc = "finished", !.version = version'[r.op],
                             !.cancelled = cancellation[r.op] # NoSource])
     \/ /\ ~Finishable(r.op, r.version)
        /\ End(p)
        /\ UNCHANGED vars
  /\ UNCHANGED <<done, stopped, toCancel, refused, crashes>>

\* Put the answer, then read the operation again; an uncancelled operation
\* that changed meanwhile ends the call with an error.
Materialise(p) ==
  LET r == call[p] IN
  /\ r.pc = "finished"
  /\ IF r.cancelled \/ (VersionFence(r.op, r.version) /\ phase[r.op] # "terminal"
                        /\ cancellation[r.op] = NoSource)
     THEN Goto(p, [r EXCEPT !.pc = "ready"])
     ELSE End(p)
  /\ UNCHANGED <<vars, done, stopped, toCancel, refused, crashes>>

\* The disposition that settleInput asks for.
Asked(r) == IF r.cancelled THEN "cancelled"
            ELSE IF r.failed THEN "failed" ELSE "completed"

\* commitTerminal with the captured version; every claimed source is
\* consumed.  Whatever it answers, or if the answer is lost, the call ends.
Commit(p) ==
  LET r == call[p]
      verdict == [s \in members[r.op] |-> "consumed"] IN
  /\ r.pc = "ready"
  /\ \/ CommitTerminal(r.op, r.version, Asked(r), verdict)
     \/ /\ ~Committable(r.op, r.version, Asked(r))
        /\ UNCHANGED vars
  /\ End(p)
  /\ UNCHANGED <<done, stopped, toCancel, refused, crashes>>

-----------------------------------------------------------------------------
(* abortOperation.                                                         *)

\* readState and the intent bindings: the inputs that will be aborted.
BeginAbort(p, o) ==
  /\ Serving
  /\ call[p].pc = "idle"
  /\ Bound(o)
  /\ ~SideOp(o)
  /\ Goto(p, [Captured(o) EXCEPT !.pc = "aborting"])
  /\ UNCHANGED <<vars, done, stopped, toCancel, refused, crashes>>

\* Faulty variant: the version is read anew, as cancelSideSource does.
CurrentVersion(r) == version[r.op]

\* cancelOperationSource is given the version of the first read.
AbortVersion(r) == r.version

\* cancelOperationSource: cancel, or find the operation cancelled already.  If
\* it changed since the first read the call ends and nothing is stopped.
RecordAbort(p) ==
  LET r == call[p]
      v == AbortVersion(r) IN
  /\ r.pc = "aborting"
  /\ \/ /\ AcceptAndCancel(r.op, CancelSource[r.op], v)
        /\ Goto(p, [r EXCEPT !.pc = "stopping"])
     \/ /\ VersionFence(r.op, v) /\ Open(r.op) /\ cancellation[r.op] # NoSource
        /\ Goto(p, [r EXCEPT !.pc = "stopping"])
        /\ UNCHANGED vars
     \/ /\ ~(VersionFence(r.op, v) /\ Open(r.op))
        /\ End(p)
        /\ UNCHANGED vars
  /\ UNCHANGED <<done, stopped, toCancel, refused, crashes>>

\* abortSubmission, once for each input of the first read.
StopSubmission(p) ==
  LET r == call[p] IN
  /\ r.pc = "stopping"
  /\ \E s \in r.inputs :
       /\ stopped' = stopped \cup {s}
       /\ Goto(p, [r EXCEPT !.inputs = @ \ {s}])
  /\ UNCHANGED <<vars, done, toCancel, refused, crashes>>

\* abortTask and waitForTask until no run of the operation is left, which is
\* when the SDK has committed an outcome for every input; then settleInput
\* with a first read of its own.
SettleAborted(p) ==
  LET r == call[p] IN
  /\ r.pc = "stopping"
  /\ r.inputs = {}
  /\ IF Open(r.op)
     THEN Inputs(r.op) \subseteq done
          /\ Goto(p, [Captured(r.op) EXCEPT !.pc = "reading"])
     ELSE End(p)
  /\ UNCHANGED <<vars, done, stopped, toCancel, refused, crashes>>

-----------------------------------------------------------------------------
(* The other cancellations.                                                *)

\* cancelInput, acceptCancellation of the named request or its replay.
CancelInput(p, o, c, s) ==
  /\ Serving
  /\ call[p].pc = "idle"
  /\ Bound(o)
  /\ s \in Inputs(o)
  /\ \/ AcceptCancellation(o, c, version[o])
     \/ cancellation[o] = c /\ UNCHANGED vars
  /\ Goto(p, [Idle EXCEPT !.pc = "withdrawing", !.op = o, !.inputs = {s}])
  /\ UNCHANGED <<done, stopped, toCancel, refused, crashes>>

\* cancelInput, abortSubmission of the one submission; the call ends.
WithdrawSubmission(p) ==
  /\ call[p].pc = "withdrawing"
  /\ stopped' = stopped \cup call[p].inputs
  /\ End(p)
  /\ UNCHANGED <<vars, done, toCancel, refused, crashes>>

\* abortSidePrompt, cancelSideSource with the version of its own read.
CancelSide(p, o) ==
  /\ Serving
  /\ call[p].pc = "idle"
  /\ Bound(o)
  /\ SideOp(o)
  /\ \/ AcceptAndCancel(o, CancelSource[o], version[o])
     \/ cancellation[o] # NoSource /\ UNCHANGED vars
  /\ Goto(p, [Idle EXCEPT !.pc = "sideCancelled", !.op = o])
  /\ UNCHANGED <<done, stopped, toCancel, refused, crashes>>

\* abortSidePrompt, the abort of the whole side conversation; the call ends.
AbortSideConversation(p) ==
  /\ call[p].pc = "sideCancelled"
  /\ stopped' = stopped \cup Inputs(call[p].op)
  /\ End(p)
  /\ UNCHANGED <<vars, done, toCancel, refused, crashes>>

-----------------------------------------------------------------------------
(* The process.                                                            *)


\* What the scan of a start finds cancelled and not finished.
CancelledAtStart == {o \in Ops : Bound(o) /\ cancellation[o] # NoSource}

\* A crash forgets the calls in flight; the next start scans the ledger.
Crash ==
  /\ crashes < MaxCrashes
  /\ crashes' = crashes + 1
  /\ call' = [p \in Callers |-> Idle]
  /\ toCancel' = CancelledAtStart
  /\ refused' = FALSE
  /\ UNCHANGED <<vars, done, stopped>>

\* reconcileRecovered goes through the cancelled operations one at a time and
\* first tries to settle each.
BeginRecovery(p, o) ==
  /\ o \in toCancel
  /\ \A q \in Callers : call[q].pc = "idle"
  /\ toCancel' = toCancel \ {o}
  /\ Goto(p, [Captured(o) EXCEPT !.pc = "reading", !.recovering = TRUE])
  /\ UNCHANGED <<vars, done, stopped, refused, crashes>>

\* What the start may find that abortOperation throws for: a side prompt, and
\* an input that was attached and had not reached the SDK when the process
\* died.  An abort that was recorded had found every submission.
Unabortable(o) ==
  SideOp(o) \/ (cancellation[o] # CancelSource[o] /\ Inputs(o) # {primary[o]})

\* Then it aborts what it could not settle, or the start of the process fails.
RecoverByAbort(p) ==
  LET r == call[p] IN
  /\ r.pc = "unsettled"
  /\ \/ /\ Unabortable(r.op)
        /\ refused' = TRUE
        /\ toCancel' = {}
        /\ End(p)
     \/ /\ ~SideOp(r.op)
        /\ Goto(p, [Captured(r.op) EXCEPT !.pc = "aborting",
                                          !.recovering = TRUE])
        /\ UNCHANGED <<toCancel, refused>>
  /\ UNCHANGED <<vars, done, stopped, crashes>>

\* The other ledger calls of the host.  A side prompt is accepted and claimed
\* inline; queued messages are attached to ordinary operations only.
LedgerCall ==
  /\ ~refused
  /\ \/ \E s \in Sources \ SideSources :
          /\ KindOf[s] # "cancellation"
          /\ \/ AcceptSource(s, NoOp)
             \/ Withdraw(s)
             \/ AckNative(s)
             \/ \E o \in Ops : ~SideOp(o) /\ AttachQueued(o, s, version[o])
     \/ \E s \in SideSources, o \in Ops : AcceptAndClaim(s, o)
     \/ \E s \in Requests, o \in Ops : AcceptSource(s, o)
     \/ \E o \in Ops : BindHarness(o, version[o])
     \/ \E c \in Chats, o \in Ops : ClaimNext(c, o)
  /\ UNCHANGED hostVars

HostInit ==
  /\ Init
  /\ done = {}
  /\ stopped = {}
  /\ call = [p \in Callers |-> Idle]
  /\ toCancel = {}
  /\ refused = FALSE
  /\ crashes = 0

\* A call that was begun goes on.
Continue(p) ==
  \/ Inspect(p) \/ Finish(p) \/ Materialise(p) \/ Commit(p)
  \/ RecordAbort(p) \/ StopSubmission(p) \/ SettleAborted(p)
  \/ WithdrawSubmission(p) \/ AbortSideConversation(p)
  \/ RecoverByAbort(p)

Begin(p, o) ==
  \/ BeginSettle(p, o) \/ BeginAbort(p, o) \/ CancelSide(p, o)
  \/ \E c \in Requests, s \in Sources : CancelInput(p, o, c, s)
  \/ BeginRecovery(p, o)

HostNext ==
  \/ LedgerCall
  \/ \E s \in Sources : SdkCommit(s)
  \/ \E p \in Callers : Continue(p) \/ \E o \in Ops : Begin(p, o)
  \/ Crash

HostSpec == HostInit /\ [][HostNext]_allVars

\* A call that was begun goes on unless the process crashes, the start of the
\* process goes through its cancelled operations, and the SDK ends what it was
\* told to stop.  Nothing says that a running turn ends, that a settlement is
\* asked for, or that a failed one is asked for again.
HostFairSpec ==
  /\ HostSpec
  /\ \A s \in Sources : WF_allVars(s \in stopped /\ SdkCommit(s))
  /\ \A p \in Callers : WF_allVars(Continue(p))
  /\ WF_allVars(\E p \in Callers, o \in Ops : BeginRecovery(p, o))

-----------------------------------------------------------------------------
(* Properties.                                                             *)

\* Types of the calls in flight.
HostTypeOK ==
  /\ done \subseteq Sources
  /\ stopped \subseteq Sources
  /\ call \in [Callers -> [pc : CallPcs, op : Ops \cup {NoOp}, version : Nat,
       inputs : SUBSET Sources, failed : BOOLEAN, cancelled : BOOLEAN,
       recovering : BOOLEAN]]
  /\ toCancel \subseteq Ops
  /\ refused \in BOOLEAN
  /\ crashes \in 0..MaxCrashes

\* settleInput awaits between verifying the inputs and publishing: a message
\* attached in any of these gaps is never consumed before its own outcome is
\* committed.
OnlyCommittedOutcomes ==
  \A o \in Ops : phase[o] \in {"settling", "terminal"} => Inputs(o) \subseteq done

\* abortOperation collects the submissions before it cancels: once its
\* cancellation stands, every input of the operation has been stopped or is
\* among those that the call still stops, whatever was attached while it read.
AbortCoversOperation ==
  \A p \in Callers : call[p].pc = "stopping" =>
    Inputs(call[p].op) \subseteq stopped \cup call[p].inputs


\* A start completes every cancellation that was accepted before the crash.
StartCompletesCancellations == ~refused
=============================================================================
