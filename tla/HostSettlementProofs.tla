------------------------ MODULE HostSettlementProofs ------------------------
(***************************************************************************)
(* Machine-checked facts about HostSettlement, for every set of callers,   *)
(* sources, operations and crashes.                                        *)
(*                                                                         *)
(* Every step of the host is a call of the ledger or leaves the ledger     *)
(* alone, so what is proved of the ledger holds under the host.  The rest  *)
(* of HostInv says what a call that awaits may rely on when it goes on: if *)
(* the version it captured is still the current one, so are the inputs it  *)
(* captured with it; and a cancelled operation gets no further input.      *)
(***************************************************************************)
EXTENDS HostSettlement, ServiceWorkProofs

CallRecords == [pc : CallPcs, op : Ops \cup {NoOp}, version : Nat,
                inputs : SUBSET Sources, failed : BOOLEAN,
                cancelled : BOOLEAN, recovering : BOOLEAN]

\* What a captured version and input set are worth now.
CaptureHolds(r) ==
  /\ r.version <= version[r.op]
  /\ version[r.op] = r.version => Inputs(r.op) = r.inputs

\* What a call that awaits may rely on.
Sound(r) ==
  /\ r.pc # "idle" => r.op \in Ops /\ phase[r.op] # "unused"
  /\ r.pc \in {"reading", "inspected", "finished", "ready", "aborting"} =>
       CaptureHolds(r)
  /\ r.pc \in {"inspected", "finished", "ready"} => r.inputs \subseteq done
  /\ r.pc = "stopping" =>
       /\ cancellation[r.op] # NoSource
       /\ Inputs(r.op) \subseteq stopped \cup r.inputs

CallsOK == \A p \in Callers : Sound(call[p])

\* The start of the process completes operations that were opened.
StartOK == \A o \in toCancel : phase[o] # "unused"

HostInv ==
  /\ LedgerInv /\ HostTypeOK
  /\ CallsOK /\ StartOK /\ OnlyCommittedOutcomes

-----------------------------------------------------------------------------
(* The ledger under the host.                                              *)

\* How a step of the host writes to operations.
Opening == \E s \in Sources, o \in Ops : NewOperationId(o) /\ OpenOperation(s, o)
Binding == \E o \in Ops : BindHarness(o, version[o])
Attaching == \E s \in Sources, o \in Ops : AttachQueued(o, s, version[o])
Cancelling == \E s \in Sources, o \in Ops : \/ AcceptCancellation(o, s, version[o])
                                            \/ AcceptAndCancel(o, s, version[o])
Finishing == \E p \in Callers : /\ call[p].pc = "inspected"
                                /\ FinishHarness(call[p].op, call[p].version)
Committing == \E p \in Callers :
  /\ call[p].pc = "ready"
  /\ CommitTerminal(call[p].op, call[p].version, Asked(call[p]),
                    [s \in members[call[p].op] |-> "consumed"])

\* No source of the host is a scheduled one, so its operations may be joined.
LEMMA NothingScheduled ==
  /\ \A s \in Sources : ~Scheduled(s)
  /\ \A o \in Ops : Joinable(o)
BY HostConstants DEF HostConstants, Scheduled, Joinable

\* The cancellation source of an operation is a source.
LEMMA CancelSourceTyped == \A o \in Ops : CancelSource[o] \in Sources
BY HostConstants DEF HostConstants

\* Every step of the host is a step of the ledger, or no step of the ledger:
\* the fenced version is the one that the ledger's own call would name.
LEMMA HostIsLedger ==
  ASSUME HostInv, [HostNext]_allVars
  PROVE  [Next]_vars
<1> USE DEF HostInv
<1>1. CASE LedgerCall
  <2>1. ASSUME NEW s \in Sources,
               \/ \E o \in Ops \cup {NoOp} : AcceptSource(s, o)
               \/ Withdraw(s) \/ AckNative(s)
               \/ \E o \in Ops : AcceptAndClaim(s, o)
        PROVE  Next
    BY <2>1, NothingScheduled DEF SourceStep, Next
  <2>2. ASSUME NEW s \in Sources, NEW o \in Ops, AttachQueued(o, s, version[o])
        PROVE  Next
    BY <2>2, NothingScheduled DEF OperationStep, Next
  <2>3. ASSUME NEW o \in Ops, BindHarness(o, version[o]) PROVE Next
    BY <2>3 DEF OperationStep, Next
  <2>4. SideSources \subseteq Sources
    BY HostConstants DEF HostConstants
  <2>5. QED BY <1>1, <2>1, <2>2, <2>3, <2>4 DEF LedgerCall, Next, Requests
<1>2. ASSUME NEW s \in Sources, NEW o \in Ops, NEW v,
             AcceptCancellation(o, s, v) \/ AcceptAndCancel(o, s, v)
      PROVE  Next
  <2>1. v = version[o]
    BY <1>2 DEF AcceptCancellation, AcceptAndCancel, VersionFence
  <2>2. QED BY <1>2, <2>1, NothingScheduled DEF OperationStep, Next
<1>3. ASSUME NEW p \in Callers, Finish(p) PROVE [Next]_vars
  <2>1. call[p].op \in Ops
    BY <1>3 DEF Finish, CallsOK, Sound
  <2>2. CASE FinishHarness(call[p].op, call[p].version)
    <3>1. call[p].version = version[call[p].op]
      BY <2>2 DEF FinishHarness, Finishable, VersionFence
    <3>2. OperationStep(call[p].op, version[call[p].op])
      BY <2>2, <3>1 DEF OperationStep
    <3>3. QED BY <2>1, <3>2 DEF Next
  <2>3. QED BY <1>3, <2>2 DEF Finish
<1>4. ASSUME NEW p \in Callers, Commit(p) PROVE [Next]_vars
  <2> DEFINE r == call[p]
             verdict == [s \in members[r.op] |-> "consumed"]
  <2>1. r.op \in Ops
    BY <1>4 DEF Commit, CallsOK, Sound
  <2>2. CASE CommitTerminal(r.op, r.version, Asked(r), verdict)
    <3>1. r.version = version[r.op]
      BY <2>2 DEF CommitTerminal, Committable, VersionFence
    <3>2. Asked(r) \in Dispositions /\ verdict \in [members[r.op] -> Verdicts]
      BY DEF Asked, Dispositions, Verdicts
    <3>3. SettleStep(r.op, version[r.op])
      BY <2>2, <3>1, <3>2 DEF SettleStep
    <3>4. QED BY <2>1, <3>3 DEF Next
  <2>3. QED BY <1>4, <2>2 DEF Commit
<1>5. ASSUME NEW p \in Callers, RecordAbort(p) PROVE [Next]_vars
  <2>1. call[p].op \in Ops
    BY <1>5 DEF RecordAbort, CallsOK, Sound
  <2>2. QED BY <1>2, <1>5, <2>1, CancelSourceTyped DEF RecordAbort
<1>6. ASSUME NEW p \in Callers, Continue(p) PROVE [Next]_vars
  BY <1>3, <1>4, <1>5, <1>6
     DEF Continue, Inspect, Materialise, StopSubmission, SettleAborted,
         WithdrawSubmission, AbortSideConversation, RecoverByAbort
<1>7. ASSUME NEW p \in Callers, NEW o \in Ops, Begin(p, o) PROVE [Next]_vars
  <2>1. ASSUME NEW c \in Requests, NEW s \in Sources, CancelInput(p, o, c, s)
        PROVE  [Next]_vars
    BY <1>2, <2>1 DEF CancelInput, Requests
  <2>2. CASE CancelSide(p, o)
    BY <1>2, <2>2, CancelSourceTyped DEF CancelSide
  <2>3. QED BY <1>7, <2>1, <2>2 DEF Begin, BeginSettle, BeginAbort, BeginRecovery
<1>8. CASE \/ \E s \in Sources : SdkCommit(s)
           \/ Crash \/ UNCHANGED allVars
  BY <1>8 DEF SdkCommit, Crash, allVars
<1>9. QED BY <1>1, <1>6, <1>7, <1>8 DEF HostNext

\* In how few ways a step of the host writes to operations.
LEMMA HostWrites ==
  ASSUME HostInv, [HostNext]_allVars
  PROVE  \/ UNCHANGED opVars \/ Opening \/ Binding \/ Attaching \/ Cancelling
         \/ Finishing \/ Committing
<1> DEFINE Goal == \/ UNCHANGED opVars \/ Opening \/ Binding \/ Attaching
                   \/ Cancelling \/ Finishing \/ Committing
<1> USE DEF HostInv
<1>1. CASE LedgerCall
  <2>1. ASSUME NEW s \in Sources,
               \/ \E o \in Ops \cup {NoOp} : AcceptSource(s, o)
               \/ Withdraw(s) \/ AckNative(s)
        PROVE  UNCHANGED opVars
    BY <2>1 DEF AcceptSource, Withdraw, AckNative
  <2>2. ASSUME NEW s \in Sources, NEW o \in Ops, AcceptAndClaim(s, o) PROVE Opening
    BY <2>2 DEF AcceptAndClaim, Opening
  <2>3. ASSUME NEW c \in Chats, NEW o \in Ops, ClaimNext(c, o) PROVE Opening
    <3>1. PICK i \in Seqs(c) : OpenOperation(log[c][i], o)
      BY <2>3 DEF ClaimNext
    <3>2. log[c][i] \in Sources /\ NewOperationId(o)
      BY <2>3 DEF ClaimNext, Seqs, LedgerInv, TypeOK
    <3>3. QED BY <3>1, <3>2 DEF Opening
  <2>4. SideSources \subseteq Sources
    BY HostConstants DEF HostConstants
  <2>5. QED
    BY <1>1, <2>1, <2>2, <2>3, <2>4
       DEF LedgerCall, Binding, Attaching, Requests
<1>2. ASSUME NEW s \in Sources, NEW o \in Ops, NEW v,
             AcceptCancellation(o, s, v) \/ AcceptAndCancel(o, s, v)
      PROVE  Cancelling
  <2>1. v = version[o]
    BY <1>2 DEF AcceptCancellation, AcceptAndCancel, VersionFence
  <2>2. QED BY <1>2, <2>1 DEF Cancelling
<1>3. ASSUME NEW p \in Callers, Continue(p) PROVE Goal
  <2>1. CASE RecordAbort(p)
    <3>1. call[p].op \in Ops
      BY <2>1 DEF RecordAbort, CallsOK, Sound
    <3>2. QED BY <1>2, <2>1, <3>1, CancelSourceTyped DEF RecordAbort, vars
  <2>2. CASE Finish(p)
    BY <2>2 DEF Finish, Finishing, vars
  <2>3. CASE Commit(p)
    BY <2>3 DEF Commit, Committing, vars
  <2>4. QED
    BY <1>3, <2>1, <2>2, <2>3
       DEF Continue, Inspect, Materialise, StopSubmission, SettleAborted,
           WithdrawSubmission, AbortSideConversation, RecoverByAbort, vars
<1>4. ASSUME NEW p \in Callers, NEW o \in Ops, Begin(p, o) PROVE Goal
  <2>1. ASSUME NEW c \in Requests, NEW s \in Sources, CancelInput(p, o, c, s)
        PROVE  Goal
    BY <1>2, <2>1 DEF CancelInput, Requests, vars
  <2>2. CASE CancelSide(p, o)
    BY <1>2, <2>2, CancelSourceTyped DEF CancelSide, vars
  <2>3. QED
    BY <1>4, <2>1, <2>2 DEF Begin, BeginSettle, BeginAbort, BeginRecovery, vars
<1>5. CASE \/ \E s \in Sources : SdkCommit(s)
           \/ Crash \/ UNCHANGED allVars
  BY <1>5 DEF SdkCommit, Crash, allVars, vars
<1>6. QED BY <1>1, <1>3, <1>4, <1>5 DEF HostNext

\* A call writes under the version it captured, to the operation it captured.
LEMMA CallWrites ==
  ASSUME HostInv, Finishing \/ Committing
  PROVE  \E o \in Ops :
           /\ Inputs(o) \subseteq done /\ phase[o] # "unused"
           /\ \E ph \in {"settling", "terminal"} : phase' = [phase EXCEPT ![o] = ph]
           /\ version' = [version EXCEPT ![o] = @ + 1]
           /\ UNCHANGED <<members, cancellation>>
<1> USE DEF HostInv
<1>1. PICK p \in Callers :
        /\ call[p].pc \in {"inspected", "ready"}
        /\ \/ FinishHarness(call[p].op, call[p].version)
           \/ CommitTerminal(call[p].op, call[p].version, Asked(call[p]),
                             [s \in members[call[p].op] |-> "consumed"])
  BY DEF Finishing, Committing
<1>2. PICK o \in Ops : o = call[p].op
  BY <1>1 DEF CallsOK, Sound
<1>3. /\ version[o] = call[p].version
      /\ version' = [version EXCEPT ![o] = @ + 1]
      /\ UNCHANGED <<members, cancellation>>
      /\ \/ phase' = [phase EXCEPT ![o] = "settling"]
         \/ phase' = [phase EXCEPT ![o] = "terminal"]
  BY <1>1, <1>2 DEF FinishHarness, Finishable, CommitTerminal, Committable,
                    VersionFence
<1>4. Inputs(o) \subseteq done /\ phase[o] # "unused"
  BY <1>1, <1>2, <1>3 DEF CallsOK, Sound, CaptureHolds
<1>5. QED BY <1>3, <1>4

-----------------------------------------------------------------------------
(* In how few ways a step of the host can move what the calls rely on.     *)

\* An operation that was opened stays opened; every write to it counts its
\* version up; and its cancellation is never replaced.
LEMMA VersionCounts ==
  ASSUME HostInv, [HostNext]_allVars, NEW o \in Ops, phase[o] # "unused"
  PROVE  /\ phase'[o] # "unused"
         /\ \/ version'[o] = version[o] + 1
            \/ /\ version'[o] = version[o]
               /\ members'[o] = members[o] /\ cancellation'[o] = cancellation[o]
         /\ cancellation[o] # NoSource => cancellation'[o] = cancellation[o]
<1> DEFINE Goal ==
         /\ phase'[o] # "unused"
         /\ \/ version'[o] = version[o] + 1
            \/ /\ version'[o] = version[o]
               /\ members'[o] = members[o] /\ cancellation'[o] = cancellation[o]
         /\ cancellation[o] # NoSource => cancellation'[o] = cancellation[o]
<1> USE DEF HostInv, LedgerInv, TypeOK
<1>1. CASE UNCHANGED opVars
  BY <1>1 DEF opVars
<1>2. CASE Opening
  BY <1>2 DEF Opening, OpenOperation, NewOperationId
<1>3. CASE Binding
  BY <1>3 DEF Binding, BindHarness
<1>4. CASE Attaching
  BY <1>4 DEF Attaching, AttachQueued
<1>5. CASE Cancelling
  BY <1>5 DEF Cancelling, AcceptCancellation, AcceptAndCancel, RecordCancellation
<1>6. CASE Finishing \/ Committing
  BY <1>6, CallWrites
<1>7. QED BY <1>1, <1>2, <1>3, <1>4, <1>5, <1>6, HostWrites

\* An operation gets another input in two cases only: it is opened, or it runs
\* and is not cancelled (attachQueuedSourceInTransaction).
LEMMA InputMoves ==
  ASSUME HostInv, [HostNext]_allVars, NEW o \in Ops
  PROVE  \/ Inputs(o)' \subseteq Inputs(o)
         \/ phase[o] = "unused" /\ phase'[o] = "claimed"
         \/ /\ phase'[o] = "executing"
            /\ cancellation[o] = NoSource /\ cancellation'[o] = NoSource
<1> DEFINE Goal ==
         \/ Inputs(o)' \subseteq Inputs(o)
         \/ phase[o] = "unused" /\ phase'[o] = "claimed"
         \/ /\ phase'[o] = "executing"
            /\ cancellation[o] = NoSource /\ cancellation'[o] = NoSource
<1> USE DEF HostInv, LedgerInv, TypeOK
<1>1. ASSUME UNCHANGED <<members, cancellation>> PROVE Goal
  BY <1>1 DEF Inputs
<1>2. CASE Opening
  BY <1>2 DEF Opening, OpenOperation, NewOperationId, Inputs
<1>3. CASE Attaching
  BY <1>3 DEF Attaching, AttachQueued, Inputs
<1>4. ASSUME NEW s \in Sources, NEW p \in Ops,
             \/ AcceptCancellation(p, s, version[p])
             \/ AcceptAndCancel(p, s, version[p])
      PROVE  Goal
  <2>1. /\ cancellation[p] = NoSource
        /\ cancellation' = [cancellation EXCEPT ![p] = s]
        /\ members' \in {members, [members EXCEPT ![p] = @ \cup {s}]}
    BY <1>4 DEF AcceptCancellation, AcceptAndCancel, RecordCancellation
  <2>2. /\ cancellation'[o] = IF o = p THEN s ELSE cancellation[o]
        /\ members'[o] \subseteq members[o] \cup (IF o = p THEN {s} ELSE {})
    BY <2>1
  <2>3. NoSource \notin members[p]
    BY LedgerConstants DEF LedgerConstants
  <2>4. QED BY <2>1, <2>2, <2>3 DEF Inputs
<1>5. CASE Finishing \/ Committing
  BY <1>1, <1>5, CallWrites
<1>6. CASE UNCHANGED opVars \/ Binding
  BY <1>1, <1>6 DEF opVars, Binding, BindHarness
<1>7. QED BY <1>2, <1>3, <1>4, <1>5, <1>6, HostWrites DEF Cancelling

\* A cancelled operation gets no further input.
LEMMA CancelledKeepsInputs ==
  ASSUME HostInv, [HostNext]_allVars, NEW o \in Ops,
         phase[o] # "unused", cancellation[o] # NoSource
  PROVE  Inputs(o)' \subseteq Inputs(o)
BY InputMoves

\* An operation starts to settle or ends only by a call that saw an outcome
\* for each of the inputs that it has now.
LEMMA SettlesVerified ==
  ASSUME HostInv, [HostNext]_allVars, NEW o \in Ops,
         phase'[o] \in {"settling", "terminal"},
         phase[o] \notin {"settling", "terminal"}
  PROVE  Inputs(o) \subseteq done
<1> USE DEF HostInv, LedgerInv, TypeOK
<1>1. ~UNCHANGED opVars
  BY DEF opVars
<1>2. ~Opening
  BY DEF Opening, OpenOperation
<1>3. ~Binding
  BY DEF Binding, BindHarness
<1>4. ~Attaching
  BY DEF Attaching, AttachQueued
<1>5. ~Cancelling
  BY DEF Cancelling, AcceptCancellation, AcceptAndCancel, RecordCancellation
<1>6. QED BY <1>1, <1>2, <1>3, <1>4, <1>5, HostWrites, CallWrites

\* One call moves to rec, the others stay.
LEMMA OneCallMoves ==
  ASSUME HostTypeOK, NEW p \in Callers, NEW rec \in CallRecords, Goto(p, rec)
  PROVE  /\ call' \in [Callers -> CallRecords]
         /\ call'[p] = rec
         /\ \A q \in Callers \ {p} : call'[q] = call[q]
BY DEF HostTypeOK, CallRecords, Goto

\* Outcomes and stopped submissions are never taken back, and the other
\* records of the host keep their types.
LEMMA RecordsGrow ==
  ASSUME HostInv, [HostNext]_allVars
  PROVE  /\ done \subseteq done' /\ stopped \subseteq stopped'
         /\ done' \subseteq Sources /\ stopped' \subseteq Sources
         /\ refused' \in BOOLEAN /\ crashes' \in 0..MaxCrashes
         /\ \A o \in toCancel' : o \in Ops /\ phase[o] # "unused"
<1> DEFINE Goal ==
         /\ done \subseteq done' /\ stopped \subseteq stopped'
         /\ done' \subseteq Sources /\ stopped' \subseteq Sources
         /\ refused' \in BOOLEAN /\ crashes' \in 0..MaxCrashes
         /\ \A o \in toCancel' : o \in Ops /\ phase[o] # "unused"
<1> USE DEF HostInv, HostTypeOK, StartOK
<1>1. CASE LedgerCall \/ UNCHANGED allVars
  BY <1>1 DEF LedgerCall, allVars, hostVars
<1>2. ASSUME NEW s \in Sources, SdkCommit(s) PROVE Goal
  BY <1>2 DEF SdkCommit
<1>3. ASSUME Crash PROVE Goal
  <2>1. crashes' \in 0..MaxCrashes
    BY <1>3, HostConstants DEF Crash, HostConstants
  <2>2. \A o \in toCancel' : o \in Ops /\ phase[o] # "unused"
    BY <1>3 DEF Crash, CancelledAtStart, Bound, Open
  <2>3. /\ UNCHANGED <<done, stopped>> /\ refused' = FALSE
    BY <1>3 DEF Crash
  <2>4. QED BY <2>1, <2>2, <2>3
<1>4. ASSUME NEW p \in Callers, Continue(p) PROVE Goal
  <2>1. call[p].inputs \subseteq Sources
    OBVIOUS
  <2>2. CASE StopSubmission(p) \/ WithdrawSubmission(p)
    BY <2>1, <2>2 DEF StopSubmission, WithdrawSubmission
  <2>3. CASE AbortSideConversation(p)
    <3>1. Inputs(call[p].op) \subseteq Sources
      BY <2>3 DEF AbortSideConversation, CallsOK, Sound, Inputs, LedgerInv, TypeOK
    <3>2. QED BY <2>3, <3>1 DEF AbortSideConversation
  <2>4. QED
    BY <1>4, <2>2, <2>3
       DEF Continue, Inspect, Finish, Materialise, Commit, RecordAbort,
           SettleAborted, RecoverByAbort
<1>5. ASSUME NEW p \in Callers, NEW o \in Ops, Begin(p, o) PROVE Goal
  BY <1>5 DEF Begin, BeginSettle, BeginAbort, CancelSide, CancelInput,
              BeginRecovery
<1>6. QED BY <1>1, <1>2, <1>3, <1>4, <1>5 DEF HostNext

\* What a call relies on stays so while the others work.
LEMMA SoundKept ==
  ASSUME HostInv, [HostNext]_allVars, NEW r \in CallRecords, Sound(r)
  PROVE  Sound(r)'
<1>1. r.pc = "idle" \/ (r.op \in Ops /\ phase[r.op] # "unused")
  BY DEF Sound
<1>2. CASE r.pc = "idle"
  BY <1>2 DEF Sound
<1>3. CASE r.op \in Ops /\ phase[r.op] # "unused"
  <2> DEFINE o == r.op
  <2>1. /\ phase'[o] # "unused"
        /\ \/ version'[o] = version[o] + 1
           \/ /\ version'[o] = version[o]
              /\ members'[o] = members[o] /\ cancellation'[o] = cancellation[o]
        /\ cancellation[o] # NoSource => cancellation'[o] = cancellation[o]
    BY <1>3, VersionCounts
  <2>2. version[o] \in Nat /\ r.version \in Nat
    BY <1>3 DEF HostInv, LedgerInv, TypeOK, CallRecords
  <2>3. CaptureHolds(r) => CaptureHolds(r)'
    BY <2>1, <2>2 DEF CaptureHolds, Inputs
  <2>4. done \subseteq done' /\ stopped \subseteq stopped'
    BY RecordsGrow
  <2>5. cancellation[o] # NoSource => Inputs(o)' \subseteq Inputs(o)
    BY <1>3, CancelledKeepsInputs
  <2>6. QED BY <1>3, <2>1, <2>3, <2>4, <2>5 DEF Sound
<1>4. QED BY <1>1, <1>2, <1>3

-----------------------------------------------------------------------------
(* The invariant.                                                          *)

\* A call that has ended, as a crash leaves every call.
LEMMA IdleTyped == Idle \in CallRecords /\ Idle.pc = "idle"
BY DEF Idle, CallRecords, CallPcs

\* A first read captures what is true of an operation that was opened.
LEMMA CaptureBegins ==
  ASSUME HostInv, NEW o \in Ops, phase[o] # "unused",
         NEW rec, rec.op = o, rec.version = version[o], rec.inputs = Inputs(o),
         rec.pc \in {"reading", "aborting"}
  PROVE  Sound(rec)
BY DEF HostInv, LedgerInv, TypeOK, Sound, CaptureHolds

\* The record of a first read is a record of a call.
LEMMA CaptureTyped ==
  ASSUME HostInv, NEW o \in Ops
  PROVE  \E r \in CallRecords :
           /\ r = Captured(o)
           /\ r.op = o /\ r.version = version[o] /\ r.inputs = Inputs(o)
<1>1. Inputs(o) \subseteq Sources /\ version[o] \in Nat
  BY DEF HostInv, LedgerInv, TypeOK, Inputs
<1>2. PICK idle \in CallRecords : idle = Idle
  BY IdleTyped
<1>3. Captured(o) = [idle EXCEPT !.op = o, !.version = version[o],
                                 !.inputs = Inputs(o)]
  BY <1>2 DEF Captured
<1>4. Captured(o) \in CallRecords
  BY <1>1, <1>3 DEF CallRecords
<1>5. PICK r \in CallRecords : r = Captured(o)
  BY <1>4
<1>6. r.op = o /\ r.version = version[o] /\ r.inputs = Inputs(o)
  BY <1>3, <1>5 DEF CallRecords
<1>7. QED BY <1>5, <1>6

\* What the next record of a call must be.
Continues(p, rec) ==
  Goto(p, rec) /\ Sound(rec)'

\* A call that goes on while the ledger stays.
LEMMA Stays ==
  ASSUME HostInv, [HostNext]_allVars, NEW p \in Callers,
         NEW rec \in CallRecords, Goto(p, rec), Sound(rec)
  PROVE  \E next \in CallRecords : Continues(p, next)
BY SoundKept DEF Continues

\* A call goes on with a first read.
LEMMA Reads ==
  ASSUME HostInv, [HostNext]_allVars, NEW p \in Callers,
         NEW o \in Ops, phase[o] # "unused", NEW pc \in {"reading", "aborting"},
         \/ Goto(p, [Captured(o) EXCEPT !.pc = pc])
         \/ Goto(p, [Captured(o) EXCEPT !.pc = pc, !.recovering = TRUE])
  PROVE  \E next \in CallRecords : Continues(p, next)
<1>1. PICK r \in CallRecords :
        /\ r = Captured(o)
        /\ r.op = o /\ r.version = version[o] /\ r.inputs = Inputs(o)
  BY CaptureTyped
<1>2. /\ [r EXCEPT !.pc = pc] \in CallRecords
      /\ [r EXCEPT !.pc = pc, !.recovering = TRUE] \in CallRecords
  BY DEF CallRecords, CallPcs
<1>3. PICK rec \in CallRecords :
        /\ \/ rec = [r EXCEPT !.pc = pc]
           \/ rec = [r EXCEPT !.pc = pc, !.recovering = TRUE]
        /\ Goto(p, rec)
  BY <1>1, <1>2
<1>4. /\ rec.op = o /\ rec.version = version[o] /\ rec.inputs = Inputs(o)
      /\ rec.pc = pc
  BY <1>1, <1>3 DEF CallRecords
<1>5. Sound(rec)
  BY <1>4, CaptureBegins
<1>6. QED BY <1>3, <1>5, Stays

\* A call waits to stop one submission, or a whole side conversation.
LEMMA StopsOnly ==
  ASSUME HostInv, [HostNext]_allVars, NEW p \in Callers,
         NEW o \in Ops, phase[o] # "unused", NEW inputs \in SUBSET Sources,
         \/ Goto(p, [Idle EXCEPT !.pc = "withdrawing", !.op = o, !.inputs = inputs])
         \/ Goto(p, [Idle EXCEPT !.pc = "sideCancelled", !.op = o])
  PROVE  \E next \in CallRecords : Continues(p, next)
<1>1. PICK r \in CallRecords : r = Idle
  BY IdleTyped
<1>2. /\ [r EXCEPT !.pc = "withdrawing", !.op = o, !.inputs = inputs] \in CallRecords
      /\ [r EXCEPT !.pc = "sideCancelled", !.op = o] \in CallRecords
  BY DEF CallRecords, CallPcs
<1>3. PICK rec \in CallRecords :
        /\ \/ rec = [r EXCEPT !.pc = "withdrawing", !.op = o, !.inputs = inputs]
           \/ rec = [r EXCEPT !.pc = "sideCancelled", !.op = o]
        /\ Goto(p, rec)
  BY <1>1, <1>2
<1>4. rec.pc \in {"withdrawing", "sideCancelled"} /\ rec.op = o
  BY <1>3 DEF CallRecords
<1>5. Sound(rec)
  BY <1>4 DEF Sound
<1>6. QED BY <1>3, <1>5, Stays

\* The step ends the call.
LEMMA Ends ==
  ASSUME NEW p \in Callers, Goto(p, Idle)
  PROVE  \E next \in CallRecords : Continues(p, next)
BY IdleTyped DEF Continues, Sound

\* settleInput after its first read.
LEMMA SettleContinues ==
  ASSUME HostInv, [HostNext]_allVars, NEW p \in Callers,
         Inspect(p) \/ Finish(p) \/ Materialise(p) \/ Commit(p)
  PROVE  \E next \in CallRecords : Continues(p, next)
<1> DEFINE Done == \E next \in CallRecords : Continues(p, next)
<1> USE DEF HostInv
<1>1. PICK r \in CallRecords : r = call[p]
  BY DEF HostTypeOK, CallRecords
<1>2. Sound(r)
  BY <1>1 DEF CallsOK
<1>3. CASE Goto(p, Idle)
  BY <1>3, Ends
<1>4. CASE Inspect(p) /\ ~Goto(p, Idle)
  <2>1. CASE VersionFence(r.op, r.version) /\ AllCommitted(r.inputs)
    <3>1. PICK failed \in BOOLEAN :
            Goto(p, [r EXCEPT !.failed = failed, !.pc = ResumeAt(r.op),
                              !.cancelled = cancellation[r.op] # NoSource])
      BY <1>1, <1>4, <2>1 DEF Inspect
    <3> DEFINE new == [r EXCEPT !.failed = failed, !.pc = ResumeAt(r.op),
                                !.cancelled = cancellation[r.op] # NoSource]
    <3>2. ResumeAt(r.op) \in {"inspected", "finished"}
      BY DEF ResumeAt
    <3>3. (cancellation[r.op] # NoSource) \in BOOLEAN
      OBVIOUS
    <3>4. new \in CallRecords
      BY <3>2, <3>3 DEF CallRecords, CallPcs
    <3>5. PICK rec \in CallRecords : rec = new
      BY <3>4
    <3>6. /\ rec.op = r.op /\ rec.version = r.version /\ rec.inputs = r.inputs
          /\ rec.pc = ResumeAt(r.op)
      BY <3>5 DEF CallRecords
    <3>7. r.pc = "reading" /\ r.inputs \subseteq done
      BY <1>1, <1>4, <2>1 DEF Inspect, AllCommitted
    <3>8. Sound(rec)
      BY <1>2, <3>2, <3>6, <3>7 DEF Sound, CaptureHolds
    <3>9. QED BY <3>1, <3>5, <3>8, Stays
  <2>2. CASE ~(VersionFence(r.op, r.version) /\ AllCommitted(r.inputs))
    <3>1. r.pc = "reading" /\ Goto(p, [r EXCEPT !.pc = "unsettled"])
      BY <1>1, <1>4, <2>2 DEF Inspect, End
    <3>2. [r EXCEPT !.pc = "unsettled"] \in CallRecords
      BY DEF CallRecords, CallPcs
    <3>3. PICK rec \in CallRecords : rec = [r EXCEPT !.pc = "unsettled"]
      BY <3>2
    <3>4. rec.pc = "unsettled" /\ rec.op = r.op
      BY <3>3 DEF CallRecords
    <3>5. Sound(rec)
      BY <1>2, <3>1, <3>4 DEF Sound
    <3>6. QED BY <3>1, <3>3, <3>5, Stays
  <2>3. QED BY <2>1, <2>2
<1>5. CASE Finish(p) /\ ~Goto(p, Idle)
  <2> DEFINE new == [r EXCEPT !.pc = "finished", !.version = version'[r.op],
                              !.cancelled = cancellation[r.op] # NoSource]
  <2>1. /\ r.pc = "inspected" /\ FinishHarness(r.op, r.version) /\ Goto(p, new)
        /\ UNCHANGED done
    BY <1>1, <1>5 DEF Finish, End
  <2>2. r.op \in Ops /\ CaptureHolds(r) /\ r.inputs \subseteq done
    BY <1>2, <2>1 DEF Sound
  <2>3. /\ Inputs(r.op) = r.inputs
        /\ phase'[r.op] = "settling" /\ UNCHANGED <<members, cancellation>>
    BY <2>1, <2>2
       DEF FinishHarness, Finishable, VersionFence, CaptureHolds, LedgerInv, TypeOK
  <2>4. version'[r.op] = version[r.op] + 1 /\ version'[r.op] \in Nat
    BY <2>1, <2>2 DEF FinishHarness, LedgerInv, TypeOK
  <2>5. (cancellation[r.op] # NoSource) \in BOOLEAN
    OBVIOUS
  <2>6. new \in CallRecords
    BY <2>4, <2>5 DEF CallRecords, CallPcs
  <2>7. PICK rec \in CallRecords : rec = new
    BY <2>6
  <2>8. /\ rec.op = r.op /\ rec.version = version'[r.op] /\ rec.inputs = r.inputs
        /\ rec.pc = "finished"
    BY <2>7 DEF CallRecords
  <2>9. CaptureHolds(rec)'
    BY <2>3, <2>4, <2>8 DEF CaptureHolds, Inputs
  <2>10. Sound(rec)'
    BY <2>1, <2>2, <2>3, <2>8, <2>9 DEF Sound
  <2>11. QED BY <2>1, <2>7, <2>10 DEF Continues
<1>6. CASE Materialise(p) /\ ~Goto(p, Idle)
  <2>1. r.pc = "finished" /\ Goto(p, [r EXCEPT !.pc = "ready"])
    BY <1>1, <1>6 DEF Materialise, End
  <2>2. [r EXCEPT !.pc = "ready"] \in CallRecords
    BY DEF CallRecords, CallPcs
  <2>3. PICK rec \in CallRecords : rec = [r EXCEPT !.pc = "ready"]
    BY <2>2
  <2>4. /\ rec.op = r.op /\ rec.version = r.version /\ rec.inputs = r.inputs
        /\ rec.pc = "ready"
    BY <2>3 DEF CallRecords
  <2>5. Sound(rec)
    BY <1>2, <2>1, <2>4 DEF Sound, CaptureHolds
  <2>6. QED BY <2>1, <2>3, <2>5, Stays
<1>7. CASE Commit(p)
  BY <1>7, Ends DEF Commit, End
<1>8. QED BY <1>3, <1>4, <1>5, <1>6, <1>7

\* abortOperation after its first read, and the other cancellations.
LEMMA AbortContinues ==
  ASSUME HostInv, [HostNext]_allVars, NEW p \in Callers,
         \/ RecordAbort(p) \/ StopSubmission(p) \/ SettleAborted(p)
         \/ WithdrawSubmission(p) \/ AbortSideConversation(p)
         \/ RecoverByAbort(p)
  PROVE  \E next \in CallRecords : Continues(p, next)
<1> USE DEF HostInv
<1>1. PICK r \in CallRecords : r = call[p]
  BY DEF HostTypeOK, CallRecords
<1>2. Sound(r)
  BY <1>1 DEF CallsOK
<1>3. CASE Goto(p, Idle)
  BY <1>3, Ends
<1>4. CASE RecordAbort(p) /\ ~Goto(p, Idle)
  <2>1. /\ r.pc = "aborting" /\ Goto(p, [r EXCEPT !.pc = "stopping"])
        /\ VersionFence(r.op, r.version)
        /\ \/ AcceptAndCancel(r.op, CancelSource[r.op], r.version)
           \/ cancellation[r.op] # NoSource /\ UNCHANGED vars
    BY <1>1, <1>4 DEF RecordAbort, End, AcceptAndCancel, AbortVersion
  <2>2. /\ r.op \in Ops /\ phase[r.op] # "unused" /\ Inputs(r.op) = r.inputs
    BY <1>2, <2>1 DEF Sound, CaptureHolds, VersionFence
  <2>3. CancelSource[r.op] \in Sources /\ CancelSource[r.op] # NoSource
    BY <2>2, CancelSourceTyped, LedgerConstants DEF LedgerConstants
  <2>4. cancellation'[r.op] # NoSource
    BY <2>1, <2>2, <2>3
       DEF AcceptAndCancel, RecordCancellation, LedgerInv, TypeOK, vars, opVars
  <2>5. phase'[r.op] # "unused"
    BY <2>2, VersionCounts
  <2>6. Inputs(r.op)' \subseteq r.inputs
    <3>1. CASE cancellation[r.op] # NoSource
      BY <2>2, <3>1, CancelledKeepsInputs
    <3>2. CASE cancellation[r.op] = NoSource
      BY <2>2, <2>4, <3>2, InputMoves
    <3>3. QED BY <3>1, <3>2
  <2>7. [r EXCEPT !.pc = "stopping"] \in CallRecords
    BY DEF CallRecords, CallPcs
  <2>8. PICK rec \in CallRecords : rec = [r EXCEPT !.pc = "stopping"]
    BY <2>7
  <2>9. rec.op = r.op /\ rec.inputs = r.inputs /\ rec.pc = "stopping"
    BY <2>8 DEF CallRecords
  <2>10. Sound(rec)'
    BY <2>2, <2>4, <2>5, <2>6, <2>9 DEF Sound
  <2>11. QED BY <2>1, <2>8, <2>10 DEF Continues
<1>5. CASE StopSubmission(p)
  <2>1. PICK s \in r.inputs :
          /\ stopped' = stopped \cup {s}
          /\ Goto(p, [r EXCEPT !.inputs = @ \ {s}])
    BY <1>1, <1>5 DEF StopSubmission
  <2>2. r.pc = "stopping" /\ UNCHANGED vars
    BY <1>1, <1>5 DEF StopSubmission
  <2>3. [r EXCEPT !.inputs = @ \ {s}] \in CallRecords
    BY DEF CallRecords
  <2>4. PICK rec \in CallRecords : rec = [r EXCEPT !.inputs = @ \ {s}]
    BY <2>3
  <2>5. rec.op = r.op /\ rec.inputs = r.inputs \ {s} /\ rec.pc = "stopping"
    BY <2>2, <2>4 DEF CallRecords
  <2>6. Sound(rec)'
    BY <1>2, <2>1, <2>2, <2>5 DEF Sound, Inputs, vars, opVars
  <2>7. QED BY <2>1, <2>4, <2>6 DEF Continues
<1>6. CASE SettleAborted(p) /\ ~Goto(p, Idle)
  <2>1. r.pc = "stopping" /\ Goto(p, [Captured(r.op) EXCEPT !.pc = "reading"])
    BY <1>1, <1>6 DEF SettleAborted, End
  <2>2. r.op \in Ops /\ phase[r.op] # "unused"
    BY <1>2, <2>1 DEF Sound
  <2>3. QED BY <2>1, <2>2, Reads
<1>7. CASE WithdrawSubmission(p) \/ AbortSideConversation(p)
  BY <1>7, Ends DEF WithdrawSubmission, AbortSideConversation, End
<1>8. CASE RecoverByAbort(p) /\ ~Goto(p, Idle)
  <2>1. /\ r.pc = "unsettled"
        /\ Goto(p, [Captured(r.op) EXCEPT !.pc = "aborting", !.recovering = TRUE])
    BY <1>1, <1>8 DEF RecoverByAbort, End
  <2>2. r.op \in Ops /\ phase[r.op] # "unused"
    BY <1>2, <2>1 DEF Sound
  <2>3. QED BY <2>1, <2>2, Reads
<1>9. QED BY <1>3, <1>4, <1>5, <1>6, <1>7, <1>8

\* The first step of a call.
LEMMA BeginContinues ==
  ASSUME HostInv, [HostNext]_allVars, NEW p \in Callers, NEW o \in Ops, Begin(p, o)
  PROVE  \E next \in CallRecords : Continues(p, next)
<1> USE DEF HostInv
<1>1. phase[o] # "unused"
  BY DEF Begin, BeginSettle, BeginAbort, CancelSide, CancelInput, BeginRecovery,
         Bound, Open, StartOK
<1>2. CASE BeginSettle(p, o) \/ BeginAbort(p, o) \/ BeginRecovery(p, o)
  <2>1. \/ Goto(p, [Captured(o) EXCEPT !.pc = "reading"])
        \/ Goto(p, [Captured(o) EXCEPT !.pc = "aborting"])
        \/ Goto(p, [Captured(o) EXCEPT !.pc = "reading", !.recovering = TRUE])
    BY <1>2 DEF BeginSettle, BeginAbort, BeginRecovery
  <2>2. QED BY <1>1, <2>1, Reads
<1>3. CASE CancelSide(p, o)
  BY <1>1, <1>3, StopsOnly DEF CancelSide
<1>4. ASSUME NEW c \in Requests, NEW s \in Sources, CancelInput(p, o, c, s)
      PROVE  \E next \in CallRecords : Continues(p, next)
  <2>1. /\ {s} \in SUBSET Sources
        /\ Goto(p, [Idle EXCEPT !.pc = "withdrawing", !.op = o, !.inputs = {s}])
    BY <1>4 DEF CancelInput
  <2>2. QED BY <1>1, <2>1, StopsOnly
<1>5. QED BY <1>2, <1>3, <1>4 DEF Begin

\* The host starts with no call and no outcome.
LEMMA HostInitInv == HostInit => HostInv
<1> SUFFICES ASSUME HostInit PROVE HostInv
  OBVIOUS
<1>1. LedgerInv
  BY InitLedger DEF HostInit
<1>2. HostTypeOK
  <2>1. call \in [Callers -> CallRecords]
    BY IdleTyped DEF HostInit
  <2>2. crashes \in 0..MaxCrashes
    BY HostConstants DEF HostConstants, HostInit
  <2>3. QED BY <2>1, <2>2 DEF HostInit, HostTypeOK, CallRecords
<1>3. CallsOK /\ StartOK
  BY IdleTyped DEF HostInit, CallsOK, Sound, StartOK
<1>4. OnlyCommittedOutcomes
  BY DEF HostInit, Init, OnlyCommittedOutcomes
<1>5. QED BY <1>1, <1>2, <1>3, <1>4 DEF HostInv

\* Every step keeps the calls in flight well typed and sound.
LEMMA CallsKept ==
  ASSUME HostInv, [HostNext]_allVars
  PROVE  call' \in [Callers -> CallRecords] /\ CallsOK'
<1> DEFINE Goal == call' \in [Callers -> CallRecords] /\ CallsOK'
<1> USE DEF HostInv
<1>1. ASSUME NEW q \in Callers, call'[q] = call[q] PROVE Sound(call[q])'
  <2>1. PICK r \in CallRecords : r = call[q]
    BY DEF HostTypeOK, CallRecords
  <2>2. Sound(r)'
    BY <2>1, SoundKept DEF CallsOK
  <2>3. call'[q] = r
    BY <1>1, <2>1
  <2>4. QED BY <2>2, <2>3
<1>2. CASE UNCHANGED call
  <2>1. \A q \in Callers : Sound(call[q])'
    BY <1>1, <1>2
  <2>2. call' \in [Callers -> CallRecords]
    BY <1>2 DEF HostTypeOK, CallRecords
  <2>3. QED BY <2>1, <2>2 DEF CallsOK
<1>3. ASSUME NEW p \in Callers, Continue(p) \/ \E o \in Ops : Begin(p, o) PROVE Goal
  <2>1. PICK rec \in CallRecords : Continues(p, rec)
    BY <1>3, SettleContinues, AbortContinues, BeginContinues DEF Continue
  <2>2. /\ call' \in [Callers -> CallRecords] /\ call'[p] = rec
        /\ \A q \in Callers \ {p} : call'[q] = call[q]
    BY <2>1, OneCallMoves DEF Continues
  <2>3. Sound(call[p])'
    BY <2>1, <2>2 DEF Continues
  <2>4. \A q \in Callers : Sound(call[q])'
    BY <1>1, <2>2, <2>3
  <2>5. QED BY <2>2, <2>4 DEF CallsOK
<1>4. CASE Crash
  <2>1. call' = [p \in Callers |-> Idle]
    BY <1>4 DEF Crash
  <2>2. QED BY <2>1, IdleTyped DEF CallsOK, Sound
<1>5. CASE LedgerCall \/ (\E s \in Sources : SdkCommit(s)) \/ UNCHANGED allVars
  BY <1>2, <1>5 DEF LedgerCall, SdkCommit, allVars, hostVars
<1>6. QED BY <1>3, <1>4, <1>5 DEF HostNext

\* Every step keeps the invariant.
LEMMA HostStep ==
  ASSUME HostInv, [HostNext]_allVars
  PROVE  HostInv'
<1> USE DEF HostInv
<1>1. LedgerInv'
  BY HostIsLedger, LedgerStep
<1>2. CallsOK' /\ call' \in [Callers -> CallRecords]
  BY CallsKept
<1>3. HostTypeOK'
  <2>1. toCancel' \subseteq Ops
    BY RecordsGrow
  <2>2. QED BY <1>2, <2>1, RecordsGrow DEF HostTypeOK, CallRecords
<1>4. StartOK'
  <2>1. ASSUME NEW o \in toCancel' PROVE phase'[o] # "unused"
    BY RecordsGrow, VersionCounts
  <2>2. QED BY <2>1 DEF StartOK
<1>5. OnlyCommittedOutcomes'
  <2>1. ASSUME NEW o \in Ops, phase'[o] \in {"settling", "terminal"}
        PROVE  Inputs(o)' \subseteq done'
    <3>1. Inputs(o)' \subseteq Inputs(o)
      BY <2>1, InputMoves
    <3>2. Inputs(o) \subseteq done
      BY <2>1, SettlesVerified DEF OnlyCommittedOutcomes
    <3>3. QED BY <3>1, <3>2, RecordsGrow
  <2>2. QED BY <2>1 DEF OnlyCommittedOutcomes
<1>6. QED BY <1>1, <1>2, <1>3, <1>4, <1>5

-----------------------------------------------------------------------------
(* The theorems.                                                           *)

\* What a host call captured with a version holds as long as that version
\* does, for any number of settlements, cancellations, attachments and crashes.
THEOREM HostInvariant == HostSpec => []HostInv
BY HostInitInv, HostStep, PTL DEF HostSpec

\* The host uses the work ledger by its own calls only: everything proved of
\* Spec holds of the ledger under settleInput, the three cancellations and a
\* restart.
THEOREM HostRunsTheLedger == HostSpec => Spec
<1>1. HostInit => Init
  BY DEF HostInit
<1>2. HostInv /\ [HostNext]_allVars => [Next]_vars
  BY HostIsLedger
<1>3. QED BY <1>1, <1>2, HostInvariant, PTL DEF HostSpec, Spec

\* The calls in flight keep the shapes that settleInput and the cancellations
\* give them.
THEOREM HostTypes == HostSpec => []HostTypeOK
<1>1. HostInv => HostTypeOK
  BY DEF HostInv
<1>2. QED BY HostInvariant, <1>1, PTL

\* No operation settles or ends with an input whose outcome the SDK has not
\* committed, whatever is attached between the reads of settleInput.
THEOREM OutcomesCommitted == HostSpec => []OnlyCommittedOutcomes
<1>1. HostInv => OnlyCommittedOutcomes
  BY DEF HostInv
<1>2. QED BY HostInvariant, <1>1, PTL

\* The set of submissions that abortOperation collects before it cancels is
\* enough: after its cancellation every input of the operation was stopped or
\* is still in that set, for every interleaving with attachments, the other
\* cancellations, settlements and crashes.
THEOREM AbortCovers == HostSpec => []AbortCoversOperation
<1>1. HostInv => AbortCoversOperation
  BY DEF HostInv, CallsOK, Sound, AbortCoversOperation
<1>2. QED BY HostInvariant, <1>1, PTL
=============================================================================
