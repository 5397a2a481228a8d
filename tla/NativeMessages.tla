--------------------------- MODULE NativeMessages ---------------------------
(***************************************************************************)
(* Ordinary input on the native runtime: an accepted message is handed to  *)
(* the SDK, acknowledged, answered and its reply published; queued input   *)
(* can be removed and running work aborted (dispatchAcceptedInput in       *)
(* durable-engine/src/application-bootstrap.ts, submitMessage and          *)
(* abortMessages in host-runtime.ts, drainPending and onMessageResult in   *)
(* default-application-runtime.ts).                                        *)
(*                                                                         *)
(* The host awaits the SDK and its own database between any two steps, and *)
(* every error leaves the message where it is: each stretch between two    *)
(* awaits is an action here.  The tables and the SDK's store survive a     *)
(* crash; calls, observers and aborts in flight do not.                    *)
(*                                                                         *)
(* The SDK is external: one submission per request id, an inbox, and runs  *)
(* that answer one or more inputs together.                                *)
(***************************************************************************)
EXTENDS Naturals, FiniteSets, Sequences, SequencesExt

CONSTANTS
  Messages,   \* messages of one chat
  Callers,    \* bound on concurrent dispatches
  MaxFaults,  \* bound on failing SDK and database calls
  MaxCrashes, \* bound on crashes
  None

ASSUME MessageConstants ==
  /\ IsFiniteSet(Messages) /\ None \notin Messages
  /\ MaxFaults \in Nat /\ MaxCrashes \in Nat

VARIABLES
  source,   \* state of the accepted source (EF-S01)
  ack,      \* submission_id of the binding row, 0 for null or no row
  sub,      \* SDK: submission of the request id of the message, 0 for none
  status,   \* SDK: status of that submission
  runOf,    \* SDK: the first input of the run it was placed in
  todo,     \* accepted messages this process still has to dispatch
  call,     \* the dispatches in flight
  obs,      \* result observers of this process
  errored,  \* messages for which this process has reported an error
  posts,    \* how many timeline replies there are for each answer
  aborter,  \* the abort in flight
  faults, crashes

ledger == <<source, ack>>
sdk == <<sub, status, runOf>>
process == <<todo, call, obs, errored>>
vars == <<ledger, sdk, process, posts, aborter, faults, crashes>>

Pending == {m \in Messages : source[m] = "pending"}
Queued == {m \in Messages : status[m] = "queued"}
Placed == {m \in Messages : status[m] = "placed"}

\* The members of S in the order in which the SDK accepted them.
Rank(S, m) == Cardinality({n \in S : sub[n] <= sub[m]})
InOrder(S) == [i \in 1..Cardinality(S) |-> CHOOSE m \in S : Rank(S, m) = i]
First(S) == InOrder(S)[1]
RunFirst == runOf[CHOOSE m \in Placed : TRUE]
Move(S, to) == [m \in Messages |-> IF m \in S THEN to ELSE status[m]]

Idle == [pc |-> "idle", msg |-> None]
NotAborting == [first |-> None, scope |-> {}, left |-> <<>>]

\* A failing call of the SDK or the database.
Fault ==
  /\ faults < MaxFaults
  /\ faults' = faults + 1
  /\ UNCHANGED crashes
NoFault == UNCHANGED <<faults, crashes>>

-----------------------------------------------------------------------------
(* Accepting a message.                                                    *)

\* The message row and its source are stored in one transaction; the handler
\* goes on to dispatch it.
Admit(m) ==
  /\ source[m] = "none"
  /\ source' = [source EXCEPT ![m] = "pending"]
  /\ todo' = todo \cup {m}
  /\ UNCHANGED <<ack, sdk, call, obs, errored, posts, aborter>>
  /\ NoFault

-----------------------------------------------------------------------------
(* dispatchAcceptedInput.                                                  *)

At(d, pc) == call[d].pc = pc
Goto(d, pc) == call' = [call EXCEPT ![d].pc = pc]
Ended(d) == call' = [call EXCEPT ![d] = Idle]

\* The caller is answered 503, the drain writes a warning.
Refuse(d) ==
  /\ Ended(d)
  /\ errored' = errored \cup {call[d].msg}

\* The identity checks pass and the binding row is there or reserved.  Each
\* drain, when an operation settles or the chat is resumed, dispatches every
\* pending message again.
Start(d, m) ==
  /\ At(d, "idle")
  /\ m \in todo \cup Pending
  /\ call' = [call EXCEPT ![d] = [pc |-> "lookup", msg |-> m]]
  /\ todo' = todo \ {m}
  /\ UNCHANGED <<ledger, sdk, obs, errored, posts, aborter>>
  /\ NoFault

\* What record() finds: nothing, the submission with its input, or a
\* conflict.  The input of a withdrawn submission is gone; such a record is
\* accepted only if its id was recorded before.
Evidence(m) ==
  IF sub[m] = 0 THEN "none"
  ELSE IF status[m] = "withdrawn" /\ ack[m] # sub[m] THEN "conflict"
  ELSE "proven"

\* A call goes on where the evidence leads it, or ends.
Follow(d, missing, found) ==
  LET e == Evidence(call[d].msg) IN
  \/ /\ e = "proven"
     /\ Goto(d, found)
     /\ UNCHANGED errored
  \/ /\ e = "none" /\ missing # "refuse"
     /\ Goto(d, missing)
     /\ UNCHANGED errored
  \/ /\ e = "conflict" \/ (e = "none" /\ missing = "refuse")
     /\ Refuse(d)

\* The lookup before the submission.
Lookup(d) ==
  /\ At(d, "lookup")
  /\ Follow(d, "submit", "correlate")
  /\ UNCHANGED <<ledger, sdk, todo, obs, posts, aborter>>
  /\ NoFault

\* conversation.submit is idempotent by request id.
SubmitOnce(m) ==
  IF sub[m] = 0
  THEN /\ sub' = [sub EXCEPT ![m] = Cardinality({n \in Messages : sub[n] # 0}) + 1]
       /\ status' = Move({m}, "queued")
  ELSE UNCHANGED <<sub, status>>

\* The submission may fail and its return may be lost; the call goes on to
\* look for the evidence in any case.
Submit(d) ==
  /\ At(d, "submit")
  /\ \/ SubmitOnce(call[d].msg) /\ NoFault
     \/ UNCHANGED <<sub, status>> /\ Fault
  /\ Goto(d, "resolve")
  /\ UNCHANGED <<ledger, runOf, todo, obs, errored, posts, aborter>>

\* Faulty variant: a submission that did not fail visibly is trusted.
TrustSubmit(d) ==
  /\ At(d, "resolve")
  /\ Follow(d, "correlate", "correlate")
  /\ UNCHANGED <<ledger, sdk, todo, obs, posts, aborter>>
  /\ NoFault

\* Only the exact evidence of the submission lets the call go on.
Resolve(d) ==
  /\ At(d, "resolve")
  /\ Follow(d, "refuse", "correlate")
  /\ UNCHANGED <<ledger, sdk, todo, obs, posts, aborter>>
  /\ NoFault

\* recordSubmission.  If it fails, the evidence is read once more.
Correlate(d) ==
  LET m == call[d].msg IN
  /\ At(d, "correlate")
  /\ \/ /\ ack' = [ack EXCEPT ![m] = sub[m]]
        /\ Goto(d, "observe")
        /\ UNCHANGED errored
        /\ NoFault
     \/ /\ UNCHANGED ack
        /\ Follow(d, "refuse", "observe")
        /\ Fault
  /\ UNCHANGED <<source, sdk, todo, obs, posts, aborter>>

\* The accepted submission is observed, and its source and cursor are
\* acknowledged in one transaction whose failure is tolerated.
Acknowledge(d) ==
  LET m == call[d].msg IN
  /\ At(d, "observe")
  /\ obs' = [obs EXCEPT ![m] = IF @ = "none" THEN "waiting" ELSE @]
  /\ \/ source' = [source EXCEPT ![m] = "consumed"] /\ NoFault
     \/ UNCHANGED source /\ Fault
  /\ Goto(d, "confirm")
  /\ UNCHANGED <<ack, sdk, todo, errored, posts, aborter>>

\* The receipt: the evidence is read again after the acknowledgement.
Confirm(d) ==
  LET m == call[d].msg IN
  /\ At(d, "confirm")
  /\ IF Evidence(m) = "proven"
     THEN Ended(d) /\ UNCHANGED errored
     ELSE Refuse(d)
  /\ UNCHANGED <<ledger, sdk, todo, obs, posts, aborter>>
  /\ NoFault

\* Any other error of a read or a write on the way ends the call.
CallFails(d) ==
  /\ call[d].pc \in {"lookup", "resolve", "confirm"}
  /\ Refuse(d)
  /\ UNCHANGED <<ledger, sdk, todo, obs, posts, aborter>>
  /\ Fault

-----------------------------------------------------------------------------
(* The SDK.                                                                *)

\* An idle conversation starts a run with the oldest input of the inbox,
\* together with those that may steer it.
Place ==
  /\ Placed = {} /\ Queued # {}
  /\ \E S \in SUBSET Queued :
       /\ First(Queued) \in S
       /\ status' = Move(S, "placed")
       /\ runOf' = [m \in Messages |->
                      IF m \in S THEN First(Queued) ELSE runOf[m]]
  /\ UNCHANGED <<ledger, sub, process, posts, aborter>>
  /\ NoFault

\* A queued input joins the live run.
Steer(m) ==
  /\ Placed # {} /\ m \in Queued
  /\ status' = Move({m}, "placed")
  /\ runOf' = [runOf EXCEPT ![m] = RunFirst]
  /\ UNCHANGED <<ledger, sub, process, posts, aborter>>
  /\ NoFault

\* A run ends with one answer for all its inputs, with an answer that has no
\* text, or with a model error.
EndRun ==
  /\ Placed # {}
  /\ \E outcome \in {"done", "silent", "failed"} :
       status' = Move(Placed, outcome)
  /\ UNCHANGED <<ledger, sub, runOf, process, posts, aborter>>
  /\ NoFault

\* removeQueuedMessage: the SDK decides between removal and placement.
Withdraw(m) ==
  /\ m \in Queued
  /\ status' = Move({m}, "withdrawn")
  /\ UNCHANGED <<ledger, sub, runOf, process, posts, aborter>>
  /\ NoFault

-----------------------------------------------------------------------------
(* Publishing the result.                                                  *)

\* The identity of the reply: inputs of one run share its answer, a model
\* error has a notice for each of them.
Reply(m) == IF status[m] = "done" THEN runOf[m] ELSE m
Observed(m, to) == obs' = [obs EXCEPT ![m] = to]

\* The result is read; a reply that exists is not written again, a cancelled
\* input and an answer without text have none, and a conflict is an error.
ReadResult(m) ==
  /\ obs[m] = "waiting"
  /\ status[m] \notin {"queued", "placed"}
  /\ Observed(m, IF status[m] \in {"done", "failed"} /\ posts[Reply(m)] = 0
                 THEN "read" ELSE "none")
  /\ errored' = IF Evidence(m) = "conflict" THEN errored \cup {m} ELSE errored
  /\ UNCHANGED <<ledger, sdk, todo, call, posts, aborter>>
  /\ NoFault

\* Faulty variant: the transaction relies on the check before it.
PublishUnchecked(m) ==
  /\ obs[m] = "read"
  /\ posts' = [posts EXCEPT ![Reply(m)] = @ + 1]
  /\ Observed(m, "none")
  /\ UNCHANGED <<ledger, sdk, todo, call, errored, aborter>>
  /\ NoFault

\* The answer was rendered meanwhile: the transaction looks for it again.
Publish(m) ==
  /\ obs[m] = "read"
  /\ posts' = [posts EXCEPT ![Reply(m)] = IF @ = 0 THEN 1 ELSE @]
  /\ Observed(m, "none")
  /\ UNCHANGED <<ledger, sdk, todo, call, errored, aborter>>
  /\ NoFault

\* "Native result projection is unavailable; SDK result retained".
ProjectionFails(m) ==
  /\ obs[m] # "none"
  /\ Observed(m, "none")
  /\ errored' = errored \cup {m}
  /\ UNCHANGED <<ledger, sdk, todo, call, posts, aborter>>
  /\ Fault

-----------------------------------------------------------------------------
(* abortMessages.                                                          *)

\* Faulty variant: the newest input stands for the scope.
LastOfScope(ids) == Last(ids)

\* The run of the scope is known by its first input.
FirstOfScope(ids) == ids[1]

\* readMessageAbortScope: the inputs of the live run, then the inbox.
ReadScope ==
  LET ids == InOrder(Placed) \o InOrder(Queued) IN
  /\ aborter = NotAborting
  /\ ids # <<>>
  /\ aborter' = [first |-> FirstOfScope(ids), scope |-> ToSet(ids), left |-> ids]
  /\ UNCHANGED <<ledger, sdk, process, posts>>
  /\ NoFault

\* Each submission is aborted in turn: a queued one is withdrawn, a placed
\* one answers "already_placed".
AbortNextInput ==
  /\ aborter.left # <<>>
  /\ aborter' = [aborter EXCEPT !.left = Tail(@)]
  /\ status' = IF Head(aborter.left) \in Queued
               THEN Move({Head(aborter.left)}, "withdrawn") ELSE status
  /\ UNCHANGED <<ledger, sub, runOf, process, posts>>
  /\ NoFault

\* The live run is the captured one.
RunsStill == Placed # {} /\ RunFirst = aborter.first

\* The captured run is aborted while it lasts; then the abort answers.
AbortCapturedRun ==
  /\ aborter # NotAborting /\ aborter.left = <<>>
  /\ IF RunsStill
     THEN status' = Move(Placed, "aborted") /\ UNCHANGED aborter
     ELSE aborter' = NotAborting /\ UNCHANGED status
  /\ UNCHANGED <<ledger, sub, runOf, process, posts>>
  /\ NoFault

-----------------------------------------------------------------------------
(* The process.                                                            *)

\* Faulty variant: acknowledged messages need no recovery.
OnlyPending == Pending

\* Faulty variant: what is recovered is not checked for a source.
Everything == Messages

\* drainPending at start: pending sources, and consumed ones whose reply may
\* be missing.
Recoverable == {m \in Messages : source[m] \in {"pending", "consumed"}}

Crash ==
  /\ crashes < MaxCrashes
  /\ crashes' = crashes + 1
  /\ call' = [d \in Callers |-> Idle]
  /\ obs' = [m \in Messages |-> "none"]
  /\ todo' = Recoverable
  /\ errored' = {}
  /\ aborter' = NotAborting
  /\ UNCHANGED <<ledger, sdk, posts, faults>>

Init ==
  /\ source = [m \in Messages |-> "none"]
  /\ ack = [m \in Messages |-> 0]
  /\ sub = [m \in Messages |-> 0]
  /\ status = [m \in Messages |-> "none"]
  /\ runOf = [m \in Messages |-> None]
  /\ todo = {}
  /\ call = [d \in Callers |-> Idle]
  /\ errored = {}
  /\ obs = [m \in Messages |-> "none"]
  /\ posts = [m \in Messages |-> 0]
  /\ aborter = NotAborting
  /\ faults = 0 /\ crashes = 0

DispatchStep(d) ==
  Lookup(d) \/ Submit(d) \/ Resolve(d) \/ Correlate(d)
    \/ Acknowledge(d) \/ Confirm(d)

Next ==
  \/ \E m \in Messages :
       \/ Admit(m) \/ Steer(m) \/ Withdraw(m)
       \/ ReadResult(m) \/ Publish(m) \/ ProjectionFails(m)
  \/ \E d \in Callers :
       \/ \E m \in Messages : Start(d, m)
       \/ DispatchStep(d) \/ CallFails(d)
  \/ Place \/ EndRun
  \/ ReadScope \/ AbortNextInput \/ AbortCapturedRun
  \/ Crash

Spec == Init /\ [][Next]_vars

\* The event loop runs every dispatch and observer that was started (the
\* number of callers is a bound of the model, not of the code, hence the
\* strong fairness of Start), and the SDK places what is queued and ends its
\* runs.
FairSpec ==
  /\ Spec
  /\ \A m \in Messages :
       /\ SF_vars(m \in todo /\ \E d \in Callers : Start(d, m))
       /\ WF_vars(ReadResult(m)) /\ WF_vars(Publish(m))
  /\ \A d \in Callers : WF_vars(DispatchStep(d))
  /\ WF_vars(Place) /\ WF_vars(EndRun)

-----------------------------------------------------------------------------
(* Properties.                                                             *)

CallPcs == {"idle", "lookup", "submit", "resolve", "correlate",
            "observe", "confirm"}
Statuses == {"none", "queued", "placed", "done", "silent", "failed",
             "aborted", "withdrawn"}
Ids == 0..Cardinality(Messages)

\* Types; only accepted messages are dispatched.
TypeOK ==
  /\ source \in [Messages -> {"none", "pending", "consumed"}]
  /\ ack \in [Messages -> Ids] /\ sub \in [Messages -> Ids]
  /\ status \in [Messages -> Statuses]
  /\ runOf \in [Messages -> Messages \cup {None}]
  /\ \A m \in todo : source[m] # "none"
  /\ call \in [Callers -> [pc : CallPcs, msg : Messages \cup {None}]]
  /\ errored \subseteq Messages
  /\ obs \in [Messages -> {"none", "waiting", "read"}]
  /\ posts \in [Messages -> Nat]
  /\ faults \in 0..MaxFaults /\ crashes \in 0..MaxCrashes

\* "The dispatcher returns success only after re-proving the exact retained
\* SDK input": whatever was lost, failed or crashed on the way, a source is
\* consumed and an id recorded only for an input that the SDK has.
AcknowledgedIsHeld ==
  \A m \in Messages :
    /\ source[m] = "consumed" => sub[m] # 0
    /\ ack[m] \in {0, sub[m]}

\* The observers of all inputs of a run, of this process and after a restart,
\* publish its answer once.
AnswerPostedOnce == \A m \in Messages : posts[m] <= 1

Published(m) == status[m] \in {"done", "failed"} /\ posts[Reply(m)] > 0

\* No accepted message is lost: its reply is published, its answer has no
\* text, it is cancelled, or this process has reported an error for it.  After
\* a crash between any two steps the next process takes it up again.
MessageSettles ==
  \A m \in Messages :
    source[m] # "none" ~>
      \/ Published(m)
      \/ status[m] \in {"silent", "aborted", "withdrawn"}
      \/ m \in errored

\* "Operator cancellation follows the public conversation scope, including
\* its queued inputs": when an abort answers, no input of its scope waits, and
\* the run of its oldest input has ended, whatever was placed, steered or
\* withdrawn while it went through the scope.  A captured input that was
\* placed in a run of its own meanwhile is the exception: that run goes on.
AbortCoversScope ==
  [][aborter # NotAborting /\ aborter' = NotAborting /\ UNCHANGED crashes
       => \A m \in aborter.scope :
            /\ status'[m] # "queued"
            /\ status'[m] = "placed" => runOf[m] # First(aborter.scope)]_vars
=============================================================================
