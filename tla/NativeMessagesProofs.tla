------------------------ MODULE NativeMessagesProofs ------------------------
(***************************************************************************)
(* Machine-checked facts about NativeMessages, for every finite set of     *)
(* messages, any number of concurrent dispatches, faults and crashes.      *)
(***************************************************************************)
EXTENDS NativeMessages, FiniteSetTheorems, TLAPS

\* A dispatch works on a message, and goes beyond the submission only with
\* one that the SDK has accepted.
CallsHold ==
  \A d \in Callers :
    /\ call[d].pc # "idle" => call[d].msg \in Messages
    /\ call[d].pc \in {"correlate", "observe", "confirm"}
         => sub[call[d].msg] # 0

\* The inductive invariant.
NativeInv ==
  /\ TypeOK
  /\ todo \subseteq Messages
  /\ CallsHold
  /\ AcknowledgedIsHeld
  /\ AnswerPostedOnce

\* Submissions are numbered from 1 to the number of messages.
LEMMA NextSubmission ==
  ASSUME TypeOK, NEW m \in Messages, sub[m] = 0
  PROVE  Cardinality({n \in Messages : sub[n] # 0}) + 1 \in Ids \ {0}
<1> DEFINE S == {n \in Messages : sub[n] # 0}
<1>1. IsFiniteSet(Messages)
  BY MessageConstants DEF MessageConstants
<1>2. S \subseteq Messages /\ m \notin S
  BY DEF TypeOK
<1>3. IsFiniteSet(S)
  BY <1>1, <1>2, FS_Subset
<1>4. Cardinality(S \cup {m}) = Cardinality(S) + 1
  BY <1>2, <1>3, FS_AddElement
<1>5. Cardinality(S \cup {m}) <= Cardinality(Messages)
  BY <1>1, <1>2, FS_Subset
<1>6. Cardinality(S) \in Nat /\ Cardinality(Messages) \in Nat
  BY <1>1, <1>3, FS_CardinalityType
<1> HIDE DEF S
<1>7. Cardinality(S) + 1 \in Ids \ {0}
  BY <1>4, <1>5, <1>6 DEF Ids
<1> QED BY <1>7 DEF S

\* The inductive invariant holds at the start.
LEMMA NativeInit == Init => NativeInv
<1> SUFFICES ASSUME Init PROVE NativeInv
  OBVIOUS
<1>1. Cardinality(Messages) \in Nat
  BY FS_CardinalityType, MessageConstants DEF MessageConstants
<1>2. TypeOK
  BY <1>1, MessageConstants
     DEF Init, TypeOK, MessageConstants, Statuses, Ids, CallPcs, Idle
<1> QED BY <1>2
     DEF Init, NativeInv, CallsHold, AcknowledgedIsHeld, AnswerPostedOnce, Idle

\* Only the submission changes what the SDK has accepted, and it adds to it.
LEMMA SubmitKeepsAccepted ==
  ASSUME TypeOK, NEW m \in Messages, SubmitOnce(m)
  PROVE  /\ sub' \in [Messages -> Ids]
         /\ status' \in [Messages -> Statuses]
         /\ \A n \in Messages : sub[n] # 0 => sub'[n] = sub[n]
<1>1. CASE sub[m] # 0
  BY <1>1 DEF SubmitOnce, TypeOK
<1>2. CASE sub[m] = 0
  BY <1>2, NextSubmission DEF SubmitOnce, TypeOK, Move, Statuses
<1> QED BY <1>1, <1>2

\* Where the evidence leads a call.
LEMMA FollowKeeps ==
  ASSUME TypeOK, CallsHold, NEW d \in Callers, call[d].pc # "idle",
         NEW missing \in {"submit", "refuse"}, NEW found \in {"correlate", "observe"},
         Follow(d, missing, found), UNCHANGED sub
  PROVE  /\ call' \in [Callers -> [pc : CallPcs, msg : Messages \cup {None}]]
         /\ errored' \subseteq Messages
         /\ CallsHold'
<1> DEFINE m == call[d].msg
<1>1. m \in Messages
  BY DEF CallsHold
<1>2. CASE Evidence(m) = "proven" /\ Goto(d, found) /\ UNCHANGED errored
  <2>1. sub[m] # 0
    BY <1>2 DEF Evidence
  <2>2. call' = [call EXCEPT ![d].pc = found]
    BY <1>2 DEF Goto
  <2> QED BY <1>1, <1>2, <2>1, <2>2 DEF TypeOK, CallsHold, CallPcs
<1>3. CASE missing = "submit" /\ Goto(d, missing) /\ UNCHANGED errored
  BY <1>1, <1>3 DEF TypeOK, CallsHold, CallPcs, Goto
<1>4. CASE Refuse(d)
  BY <1>1, <1>4 DEF TypeOK, CallsHold, CallPcs, Refuse, Ended, Idle
<1> QED BY <1>2, <1>3, <1>4 DEF Follow

\* The counters stay in their bounds.
LEMMA Counted ==
  ASSUME TypeOK, Fault \/ NoFault
  PROVE  faults' \in 0..MaxFaults /\ crashes' \in 0..MaxCrashes
BY MessageConstants DEF MessageConstants, TypeOK, Fault, NoFault

\* Steps of a dispatch.
LEMMA DispatchKeeps ==
  ASSUME NativeInv, NEW d \in Callers, DispatchStep(d) \/ CallFails(d)
  PROVE  NativeInv'
<1> USE DEF NativeInv
<1>1. CASE Lookup(d)
  <2>1. call[d].pc # "idle"
    BY <1>1 DEF Lookup, At
  <2>2. Follow(d, "submit", "correlate") /\ UNCHANGED sub
    BY <1>1 DEF Lookup, sdk
  <2>3. /\ call' \in [Callers -> [pc : CallPcs, msg : Messages \cup {None}]]
        /\ errored' \subseteq Messages /\ CallsHold'
    BY <2>1, <2>2, FollowKeeps
  <2> QED BY <1>1, <2>3
    DEF Lookup, TypeOK, AcknowledgedIsHeld, AnswerPostedOnce, ledger, sdk,
        NoFault
<1>2. CASE Submit(d)
  <2> DEFINE m == call[d].msg
  <2>1. m \in Messages
    BY <1>2 DEF Submit, At, CallsHold
  <2>2. /\ sub' \in [Messages -> Ids] /\ status' \in [Messages -> Statuses]
        /\ \A n \in Messages : sub[n] # 0 => sub'[n] = sub[n]
    BY <1>2, <2>1, SubmitKeepsAccepted DEF Submit, TypeOK
  <2>3. AcknowledgedIsHeld'
    BY <1>2, <2>2 DEF Submit, AcknowledgedIsHeld, ledger, TypeOK, Ids
  <2>4. CallsHold'
    BY <1>2, <2>1, <2>2 DEF Submit, CallsHold, Goto, TypeOK
  <2>5. faults' \in 0..MaxFaults /\ crashes' \in 0..MaxCrashes
    BY <1>2, Counted DEF Submit
  <2>6. call' \in [Callers -> [pc : CallPcs, msg : Messages \cup {None}]]
    BY <1>2 DEF Submit, TypeOK, Goto, CallPcs
  <2>7. UNCHANGED <<source, ack, runOf, todo, obs, errored, posts>>
    BY <1>2 DEF Submit, ledger
  <2>8. TypeOK'
    BY <2>2, <2>5, <2>6, <2>7 DEF TypeOK
  <2> QED BY <2>3, <2>4, <2>7, <2>8 DEF AnswerPostedOnce
<1>3. CASE Resolve(d)
  <2>1. call[d].pc # "idle"
    BY <1>3 DEF Resolve, At
  <2>2. Follow(d, "refuse", "correlate") /\ UNCHANGED sub
    BY <1>3 DEF Resolve, sdk
  <2>3. /\ call' \in [Callers -> [pc : CallPcs, msg : Messages \cup {None}]]
        /\ errored' \subseteq Messages /\ CallsHold'
    BY <2>1, <2>2, FollowKeeps
  <2> QED BY <1>3, <2>3
    DEF Resolve, TypeOK, AcknowledgedIsHeld, AnswerPostedOnce, ledger, sdk,
        NoFault
<1>4. CASE Correlate(d)
  <2> DEFINE m == call[d].msg
  <2>1. m \in Messages /\ sub[m] # 0 /\ call[d].pc # "idle"
    BY <1>4 DEF Correlate, At, CallsHold
  <2>2. /\ call' \in [Callers -> [pc : CallPcs, msg : Messages \cup {None}]]
        /\ errored' \subseteq Messages /\ CallsHold'
    <3>1. CASE Goto(d, "observe") /\ UNCHANGED errored
      BY <1>4, <2>1, <3>1 DEF Correlate, Goto, TypeOK, CallsHold, CallPcs, sdk
    <3>2. CASE Follow(d, "refuse", "observe")
      BY <1>4, <2>1, <3>2, FollowKeeps DEF Correlate, sdk
    <3> QED BY <1>4, <3>1, <3>2 DEF Correlate
  <2>3. ack' \in [Messages -> Ids] /\ \A n \in Messages : ack'[n] \in {0, sub[n]}
    BY <1>4, <2>1 DEF Correlate, TypeOK, AcknowledgedIsHeld
  <2>4. faults' \in 0..MaxFaults /\ crashes' \in 0..MaxCrashes
    BY <1>4, Counted DEF Correlate
  <2>5. UNCHANGED <<source, sub, status, runOf, todo, obs, posts>>
    BY <1>4 DEF Correlate, sdk
  <2> QED BY <2>2, <2>3, <2>4, <2>5
    DEF TypeOK, AcknowledgedIsHeld, AnswerPostedOnce
<1>5. CASE Acknowledge(d)
  <2> DEFINE m == call[d].msg
  <2>1. m \in Messages /\ sub[m] # 0
    BY <1>5 DEF Acknowledge, At, CallsHold
  <2>2. AcknowledgedIsHeld'
    BY <1>5, <2>1 DEF Acknowledge, AcknowledgedIsHeld, TypeOK, sdk
  <2>3. CallsHold'
    BY <1>5, <2>1 DEF Acknowledge, CallsHold, TypeOK, sdk, Goto
  <2>4. faults' \in 0..MaxFaults /\ crashes' \in 0..MaxCrashes
    BY <1>5, Counted DEF Acknowledge
  <2>5. /\ source' \in [Messages -> {"none", "pending", "consumed"}]
        /\ \A n \in todo : source'[n] # "none"
    BY <1>5, <2>1 DEF Acknowledge, TypeOK
  <2>6. obs' \in [Messages -> {"none", "waiting", "read"}]
    BY <1>5, <2>1 DEF Acknowledge, TypeOK
  <2>7. call' \in [Callers -> [pc : CallPcs, msg : Messages \cup {None}]]
    BY <1>5 DEF Acknowledge, TypeOK, Goto, CallPcs
  <2>8. UNCHANGED <<ack, sub, status, runOf, todo, errored, posts>>
    BY <1>5 DEF Acknowledge, sdk
  <2>9. TypeOK'
    BY <2>4, <2>5, <2>6, <2>7, <2>8 DEF TypeOK
  <2> QED BY <2>2, <2>3, <2>8, <2>9 DEF AnswerPostedOnce
<1>6. CASE Confirm(d) \/ CallFails(d)
  <2>1. /\ call' = [call EXCEPT ![d] = Idle]
        /\ errored' \in {errored, errored \cup {call[d].msg}}
        /\ call[d].msg \in Messages
    BY <1>6 DEF Confirm, CallFails, Refuse, Ended, At, CallsHold
  <2>2. UNCHANGED <<ledger, sdk, todo, obs, posts>>
        /\ faults' \in 0..MaxFaults /\ crashes' \in 0..MaxCrashes
    BY <1>6, Counted DEF Confirm, CallFails
  <2> QED BY <2>1, <2>2
    DEF TypeOK, CallsHold, AcknowledgedIsHeld, AnswerPostedOnce, Idle, CallPcs,
        ledger, sdk
<1> QED BY <1>1, <1>2, <1>3, <1>4, <1>5, <1>6 DEF DispatchStep

\* Steps of the SDK and of the abort move statuses only.
LEMMA SdkKeeps ==
  ASSUME NativeInv,
         \/ Place \/ EndRun \/ AbortNextInput \/ AbortCapturedRun
         \/ \E m \in Messages : Steer(m) \/ Withdraw(m)
  PROVE  NativeInv'
<1> USE DEF NativeInv
<1>1. ASSUME NEW S, NEW to \in Statuses, status' = Move(S, to)
      PROVE  status' \in [Messages -> Statuses]
  BY <1>1 DEF Move, TypeOK
<1>2. status' \in [Messages -> Statuses]
  <2>1. {"placed", "done", "silent", "failed", "aborted", "withdrawn"}
          \subseteq Statuses
    BY DEF Statuses
  <2>2. UNCHANGED status \/ \E S, to : to \in Statuses /\ status' = Move(S, to)
    BY <2>1 DEF Place, EndRun, AbortNextInput, AbortCapturedRun, Steer, Withdraw
  <2> QED BY <1>1, <2>2 DEF TypeOK
<1>3. runOf' \in [Messages -> Messages \cup {None}]
  <2>1. CASE Place
    BY <2>1 DEF Place, TypeOK, Queued
  <2>2. ASSUME NEW m \in Messages, Steer(m)
        PROVE  runOf' \in [Messages -> Messages \cup {None}]
    <3>1. Placed \subseteq Messages /\ Placed # {}
      BY <2>2 DEF Steer, Placed
    <3>2. RunFirst \in Messages \cup {None}
      BY <3>1 DEF RunFirst, TypeOK
    <3> QED BY <2>2, <3>2 DEF Steer, TypeOK
  <2>3. CASE UNCHANGED runOf
    BY <2>3 DEF TypeOK
  <2> QED BY <2>1, <2>2, <2>3
    DEF EndRun, AbortNextInput, AbortCapturedRun, Withdraw
<1>4. UNCHANGED <<ledger, sub, process, posts, faults, crashes>>
  BY DEF Place, EndRun, AbortNextInput, AbortCapturedRun, Steer, Withdraw, NoFault
<1> QED BY <1>2, <1>3, <1>4
  DEF TypeOK, CallsHold, AcknowledgedIsHeld, AnswerPostedOnce, ledger, process

\* Steps of the observers.
LEMMA ObserverKeeps ==
  ASSUME NativeInv, NEW m \in Messages,
         ReadResult(m) \/ Publish(m) \/ ProjectionFails(m)
  PROVE  NativeInv'
<1> USE DEF NativeInv
<1>1. obs' \in [Messages -> {"none", "waiting", "read"}]
  BY DEF ReadResult, Publish, ProjectionFails, Observed, TypeOK
<1>2. errored' \subseteq Messages
  <2>1. errored \subseteq Messages
    BY DEF TypeOK
  <2>2. errored' \in {errored, errored \cup {m}}
    <3>1. CASE ReadResult(m)
      BY <3>1 DEF ReadResult
    <3>2. CASE Publish(m)
      BY <3>2 DEF Publish
    <3>3. CASE ProjectionFails(m)
      BY <3>3 DEF ProjectionFails
    <3> QED BY <3>1, <3>2, <3>3
  <2> QED BY <2>1, <2>2
<1>3. posts' \in [Messages -> Nat] /\ \A n \in Messages : posts'[n] <= 1
  <2>1. CASE Publish(m)
    <3>1. posts' = [posts EXCEPT ![Reply(m)] = IF posts[Reply(m)] = 0
                                               THEN 1 ELSE posts[Reply(m)]]
      BY <2>1 DEF Publish
    <3>2. posts \in [Messages -> Nat] /\ \A n \in Messages : posts[n] <= 1
      BY DEF TypeOK, AnswerPostedOnce
    <3>3. ASSUME NEW n \in Messages
          PROVE  posts'[n] = IF n = Reply(m) /\ posts[n] = 0 THEN 1 ELSE posts[n]
      BY <3>1, <3>2
    <3>4. posts' \in [Messages -> Nat]
      BY <3>1, <3>2
    <3> QED BY <3>2, <3>3, <3>4
  <2>2. CASE UNCHANGED posts
    BY <2>2 DEF TypeOK, AnswerPostedOnce
  <2> QED BY <2>1, <2>2 DEF ReadResult, ProjectionFails
<1>4. UNCHANGED <<ledger, sdk, todo, call>>
  BY DEF ReadResult, Publish, ProjectionFails
<1>5. faults' \in 0..MaxFaults /\ crashes' \in 0..MaxCrashes
  <2>1. Fault \/ NoFault
    BY DEF ReadResult, Publish, ProjectionFails, NoFault
  <2> QED BY <2>1, Counted
<1> QED BY <1>1, <1>2, <1>3, <1>4, <1>5
  DEF TypeOK, CallsHold, AcknowledgedIsHeld, AnswerPostedOnce, ledger, sdk

\* Every step keeps the inductive invariant.
LEMMA NativeStep == NativeInv /\ [Next]_vars => NativeInv'
<1> SUFFICES ASSUME NativeInv, [Next]_vars PROVE NativeInv'
  OBVIOUS
<1> USE DEF NativeInv
<1>1. ASSUME NEW m \in Messages, Admit(m) PROVE NativeInv'
  BY <1>1 DEF Admit, TypeOK, CallsHold, AcknowledgedIsHeld, AnswerPostedOnce, sdk,
     NoFault
<1>2. ASSUME NEW d \in Callers, NEW m \in Messages, Start(d, m) PROVE NativeInv'
  <2>1. call' = [call EXCEPT ![d] = [pc |-> "lookup", msg |-> m]]
        /\ todo' \subseteq todo
        /\ UNCHANGED <<ledger, sdk, obs, errored, posts, faults, crashes>>
    BY <1>2 DEF Start, NoFault
  <2> QED BY <2>1
    DEF TypeOK, CallsHold, AcknowledgedIsHeld, AnswerPostedOnce, ledger, sdk,
        CallPcs
<1>3. ASSUME NEW d \in Callers, DispatchStep(d) \/ CallFails(d) PROVE NativeInv'
  BY <1>3, DispatchKeeps
<1>4. ASSUME NEW m \in Messages, ReadResult(m) \/ Publish(m) \/ ProjectionFails(m)
      PROVE NativeInv'
  BY <1>4, ObserverKeeps
<1>5. CASE ReadScope
  BY <1>5 DEF ReadScope, TypeOK, CallsHold, AcknowledgedIsHeld, AnswerPostedOnce,
     ledger, sdk, process, NoFault
<1>6. CASE Crash
  <2>1. todo' \subseteq Messages /\ \A m \in todo' : source[m] # "none"
    BY <1>6 DEF Crash, Recoverable
  <2>2. crashes' \in 0..MaxCrashes
    BY <1>6, MessageConstants DEF Crash, TypeOK, MessageConstants
  <2> QED BY <1>6, <2>1, <2>2
    DEF Crash, TypeOK, CallsHold, AcknowledgedIsHeld, AnswerPostedOnce, ledger,
        sdk, Idle, CallPcs
<1>7. CASE UNCHANGED vars
  BY <1>7 DEF vars, ledger, sdk, process, TypeOK, CallsHold, AcknowledgedIsHeld,
     AnswerPostedOnce
<1>8. CASE \/ Place \/ EndRun \/ AbortNextInput \/ AbortCapturedRun
           \/ \E m \in Messages : Steer(m) \/ Withdraw(m)
  BY <1>8, SdkKeeps
<1> QED BY <1>1, <1>2, <1>3, <1>4, <1>5, <1>6, <1>7, <1>8 DEF Next

\* The inductive invariant holds in every reachable state.
LEMMA NativeInvariant == Spec => []NativeInv
BY NativeInit, NativeStep, PTL DEF Spec

\* Every variable keeps its type, and only accepted messages are dispatched.
THEOREM NativeTypes == Spec => []TypeOK
BY NativeInvariant, PTL DEF NativeInv

\* For every number of messages, concurrent dispatches, failing calls and
\* crashes, a source is acknowledged and an id recorded only for an input
\* that the SDK holds (dispatchAcceptedInput and submitMessage).
THEOREM AcknowledgedIsHeldTheorem == Spec => []AcknowledgedIsHeld
BY NativeInvariant, PTL DEF NativeInv

\* However many inputs share an answer and however often their observers
\* start again, its reply is written once (onMessageResult).
THEOREM AnswerPostedOnceTheorem == Spec => []AnswerPostedOnce
BY NativeInvariant, PTL DEF NativeInv

-----------------------------------------------------------------------------
(* The order of submission.                                                *)

\* Sets of submissions that are numbered differently.
Distinct(S) ==
  S \subseteq Messages /\ \A m, n \in S : sub[m] = sub[n] => m = n

\* The rank of a message in a set of them is its place in the order.
LEMMA RankTyped ==
  ASSUME TypeOK, NEW S \in SUBSET Messages, NEW m \in S
  PROVE  /\ Rank(S, m) \in 1..Cardinality(S)
         /\ IsFiniteSet(S) /\ Cardinality(S) \in Nat
<1> DEFINE B == {n \in S : sub[n] <= sub[m]}
<1>1. IsFiniteSet(S) /\ Cardinality(S) \in Nat
  BY MessageConstants, FS_Subset, FS_CardinalityType DEF MessageConstants
<1>2. sub[m] \in Int
  BY FS_CardinalityType, MessageConstants DEF MessageConstants, TypeOK, Ids
<1>3. m \in B /\ B \subseteq S
  BY <1>2
<1>4. IsFiniteSet(B) /\ Cardinality(B) <= Cardinality(S) /\ Cardinality(B) \in Nat
  BY <1>1, <1>3, FS_Subset, FS_CardinalityType
<1>5. Cardinality(B) # 0
  BY <1>3, <1>4, FS_EmptySet
<1> HIDE DEF B
<1>6. Cardinality(B) \in 1..Cardinality(S)
  BY <1>1, <1>4, <1>5
<1> QED BY <1>1, <1>6 DEF B, Rank

\* What was submitted earlier has the lower rank.
LEMMA RankOrders ==
  ASSUME TypeOK, NEW S \in SUBSET Messages, NEW m \in S, NEW n \in S,
         sub[m] < sub[n]
  PROVE  Rank(S, m) < Rank(S, n)
<1> DEFINE B(k) == {j \in S : sub[j] <= sub[k]}
<1>1. IsFiniteSet(S)
  BY RankTyped
<1>2. \A j \in Messages : sub[j] \in Int
  BY FS_CardinalityType, MessageConstants DEF MessageConstants, TypeOK, Ids
<1>3. B(m) \subseteq B(n) /\ n \in B(n) /\ n \notin B(m)
  BY <1>2
<1>4. IsFiniteSet(B(n))
  BY <1>1, FS_Subset
<1>5. /\ Cardinality(B(m)) <= Cardinality(B(n))
      /\ Cardinality(B(m)) # Cardinality(B(n))
  BY <1>3, <1>4, FS_Subset
<1>6. Cardinality(B(m)) \in Nat /\ Cardinality(B(n)) \in Nat
  BY <1>1, FS_Subset, FS_CardinalityType
<1> HIDE DEF B
<1>7. Cardinality(B(m)) < Cardinality(B(n))
  BY <1>5, <1>6
<1> QED BY <1>7 DEF B, Rank

\* Ranks of different messages differ, and every rank is taken.
LEMMA RankCounts ==
  ASSUME TypeOK, NEW S, Distinct(S)
  PROVE  /\ \A m, n \in S : Rank(S, m) = Rank(S, n) => m = n
         /\ \A i \in 1..Cardinality(S) : \E m \in S : Rank(S, m) = i
<1> DEFINE N == Cardinality(S)
           f == [m \in S |-> Rank(S, m)]
<1>0. S \in SUBSET Messages /\ IsFiniteSet(S) /\ N \in Nat
  BY MessageConstants, FS_Subset, FS_CardinalityType DEF MessageConstants, Distinct
<1>1. \A m \in S : Rank(S, m) \in 1..N
  BY <1>0, RankTyped
<1>2. ASSUME NEW m \in S, NEW n \in S, Rank(S, m) = Rank(S, n) PROVE m = n
  <2>1. sub[m] \in Int /\ sub[n] \in Int
    BY <1>0, FS_CardinalityType, MessageConstants DEF MessageConstants, TypeOK, Ids
  <2>2. Rank(S, m) \in Int /\ Rank(S, n) \in Int
    BY <1>1
  <2>3. ~(sub[m] < sub[n]) /\ ~(sub[n] < sub[m])
    BY <1>0, <1>2, <2>2, RankOrders
  <2> QED BY <2>1, <2>3 DEF Distinct
<1>3. f \in Injection(S, 1..N)
  BY <1>1, <1>2 DEF Injection, IsInjective
<1>4. IsFiniteSet(1..N) /\ Cardinality(1..N) = N
  BY <1>0, FS_Interval
<1>5. f \in Surjection(S, 1..N)
  BY <1>3, <1>4, FS_Injection
<1>6. \A i \in 1..N : \E m \in S : f[m] = i
  BY <1>5 DEF Surjection
<1> QED BY <1>2, <1>6

\* InOrder lists the set, and begins with what was submitted first.
LEMMA InOrderLists ==
  ASSUME TypeOK, NEW S, Distinct(S)
  PROVE  /\ InOrder(S) \in Seq(S) /\ Len(InOrder(S)) = Cardinality(S)
         /\ \A m \in S : \E i \in 1..Len(InOrder(S)) : InOrder(S)[i] = m
         /\ S # {} => /\ First(S) \in S /\ Len(InOrder(S)) > 0
                      /\ \A m \in S : sub[First(S)] <= sub[m]
<1> DEFINE N == Cardinality(S)
<1>0. S \in SUBSET Messages /\ IsFiniteSet(S) /\ N \in Nat
  BY MessageConstants, FS_Subset, FS_CardinalityType DEF MessageConstants, Distinct
<1>1. \A i \in 1..N : InOrder(S)[i] \in S /\ Rank(S, InOrder(S)[i]) = i
  BY RankCounts DEF InOrder
<1>2. InOrder(S) \in [1..N -> S]
  BY <1>1 DEF InOrder
<1>3. InOrder(S) \in Seq(S) /\ Len(InOrder(S)) = N
  BY <1>0, <1>2
<1>4. ASSUME NEW m \in S PROVE \E i \in 1..N : InOrder(S)[i] = m
  <2>1. Rank(S, m) \in 1..N
    BY <1>0, RankTyped
  <2>2. InOrder(S)[Rank(S, m)] = m
    BY <1>1, <2>1, RankCounts
  <2> QED BY <2>1, <2>2
<1>5. ASSUME S # {}
      PROVE  First(S) \in S /\ N > 0 /\ \A m \in S : sub[First(S)] <= sub[m]
  <2>1. N # 0
    BY <1>0, <1>5, FS_EmptySet
  <2>2. 1 \in 1..N
    BY <1>0, <2>1
  <2>3. First(S) \in S /\ Rank(S, First(S)) = 1
    BY <1>1, <2>2 DEF First
  <2>4. ASSUME NEW m \in S PROVE sub[First(S)] <= sub[m]
    <3>1. sub[m] \in Int /\ sub[First(S)] \in Int
      BY <1>0, <2>3, FS_CardinalityType, MessageConstants
         DEF MessageConstants, TypeOK, Ids
    <3>2. Rank(S, m) \in 1..N
      BY <1>0, RankTyped
    <3>3. ~(Rank(S, m) < 1)
      BY <3>2
    <3>4. ~(sub[m] < sub[First(S)])
      BY <1>0, <2>3, <3>3, RankOrders
    <3> QED BY <3>1, <3>4
  <2> QED BY <1>0, <2>1, <2>3, <2>4
<1> QED BY <1>3, <1>4, <1>5

-----------------------------------------------------------------------------
(* What an abort covers.                                                   *)

Accepted == {m \in Messages : sub[m] # 0}

\* Submissions are numbered in the order in which the SDK accepted them.
Numbered ==
  /\ \A m \in Messages : /\ sub[m] = 0 <=> status[m] = "none"
                         /\ sub[m] <= Cardinality(Accepted)
  /\ \A m, n \in Accepted : sub[m] = sub[n] => m = n

\* The live run began with the oldest of all inputs that run or wait.
RunLed == \A m \in Placed :
  /\ runOf[m] \in Placed
  /\ \A n \in Placed \cup Queued : sub[runOf[m]] <= sub[n]

\* An abort knows its oldest input, and what waits of its scope is before it.
AborterOK ==
  \/ aborter = NotAborting
  \/ /\ aborter \in [first : Messages, scope : SUBSET Messages, left : Seq(Messages)]
     /\ aborter.first \in aborter.scope
     /\ \A m \in aborter.scope :
          /\ status[m] # "none" /\ sub[aborter.first] <= sub[m]
          /\ status[m] = "queued" =>
               \E i \in 1..Len(aborter.left) : aborter.left[i] = m

AbortInv == NativeInv /\ Numbered /\ RunLed /\ AborterOK

\* Steps that move queued and placed inputs on and submit nothing.
Advances ==
  /\ UNCHANGED sub
  /\ \A m \in Messages :
       \/ status'[m] = status[m]
       \/ status[m] \in {"queued", "placed"} /\ status'[m] \notin {"none", "queued"}

\* What was accepted has its number, which no other input has.
LEMMA AcceptedDistinct ==
  ASSUME Numbered, NEW S \in SUBSET Messages, \A m \in S : status[m] # "none"
  PROVE  Distinct(S)
BY DEF Numbered, Distinct, Accepted

\* The runs that are alive are one run.
LEMMA OneRun ==
  ASSUME TypeOK, Numbered, RunLed, NEW m \in Placed, NEW n \in Placed
  PROVE  runOf[m] = runOf[n]
<1>1. /\ runOf[m] \in Placed /\ runOf[n] \in Placed
      /\ sub[runOf[m]] <= sub[runOf[n]] /\ sub[runOf[n]] <= sub[runOf[m]]
  BY DEF RunLed
<1>2. runOf[m] \in Accepted /\ runOf[n] \in Accepted
  BY <1>1 DEF Placed, Accepted, Numbered
<1>3. sub[runOf[m]] \in Int /\ sub[runOf[n]] \in Int
  BY <1>2, FS_CardinalityType, MessageConstants
     DEF Accepted, MessageConstants, TypeOK, Ids
<1> QED BY <1>1, <1>2, <1>3 DEF Numbered

\* Numbers stay when nothing is submitted.
LEMMA AdvancesNumbered ==
  ASSUME Numbered, Advances PROVE Numbered'
<1>1. Accepted' = Accepted
  BY DEF Advances, Accepted
<1> QED BY <1>1 DEF Advances, Numbered

\* The live run stays led when nothing is placed: it ends as a whole.
LEMMA RunStaysLed ==
  ASSUME RunLed, Advances, UNCHANGED runOf, Placed' = Placed \/ Placed' = {}
  PROVE  RunLed'
<1>1. Queued' \subseteq Queued
  BY DEF Advances, Queued
<1> QED BY <1>1 DEF Advances, RunLed

\* An abort in flight is not disturbed by others.
LEMMA AborterStays ==
  ASSUME AborterOK, UNCHANGED aborter,
         \A m \in Messages :
           status[m] # "none" =>
             /\ sub'[m] = sub[m] /\ status'[m] # "none"
             /\ status'[m] = "queued" => status[m] = "queued"
  PROVE  AborterOK'
<1>1. CASE aborter = NotAborting
  BY <1>1 DEF AborterOK
<1>2. CASE aborter # NotAborting
  BY <1>2 DEF AborterOK
<1> QED BY <1>1, <1>2

\* A submission comes after all others.
LEMMA SubmitOrders ==
  ASSUME AbortInv, NEW m \in Messages, SubmitOnce(m), UNCHANGED <<runOf, aborter>>
  PROVE  Numbered' /\ RunLed' /\ AborterOK'
<1>0. TypeOK /\ Numbered /\ RunLed /\ AborterOK
  BY DEF AbortInv, NativeInv
<1>1. CASE sub[m] # 0
  <2>1. UNCHANGED <<sub, status>>
    BY <1>1 DEF SubmitOnce
  <2>2. Advances /\ Placed' = Placed
    BY <2>1 DEF Advances, Placed
  <2> QED BY <1>0, <2>1, <2>2, AdvancesNumbered, RunStaysLed, AborterStays
<1>2. CASE sub[m] = 0
  <2> DEFINE N == Cardinality(Accepted)
  <2>1. /\ sub' = [sub EXCEPT ![m] = N + 1] /\ status' = Move({m}, "queued")
        /\ status[m] = "none"
    BY <1>0, <1>2 DEF SubmitOnce, Accepted, Numbered
  <2>2. \A n \in Messages : n # m => sub'[n] = sub[n] /\ status'[n] = status[n]
    BY <1>0, <2>1 DEF Move, TypeOK
  <2>3. sub'[m] = N + 1 /\ status'[m] = "queued"
    BY <1>0, <2>1 DEF Move, TypeOK
  <2>4. IsFiniteSet(Accepted) /\ N \in Nat
    BY MessageConstants, FS_Subset, FS_CardinalityType
       DEF MessageConstants, Accepted
  <2>5. Accepted' = Accepted \cup {m} /\ m \notin Accepted
    BY <1>2, <2>2, <2>3, <2>4 DEF Accepted
  <2>6. Cardinality(Accepted') = N + 1
    BY <2>4, <2>5, FS_AddElement
  <2>7. \A n \in Messages : sub[n] \in Nat /\ sub[n] <= N
    BY <1>0, FS_CardinalityType, MessageConstants
       DEF MessageConstants, TypeOK, Ids, Numbered
  <2> HIDE DEF N
  <2>8. Numbered'
    <3>1. \A n \in Messages : /\ sub'[n] = 0 <=> status'[n] = "none"
                              /\ sub'[n] <= N + 1
      BY <1>0, <2>2, <2>3, <2>4, <2>7 DEF Numbered
    <3>2. ASSUME NEW k \in Accepted', NEW n \in Accepted', sub'[k] = sub'[n]
          PROVE  k = n
      BY <1>0, <2>2, <2>3, <2>4, <2>5, <2>7, <3>2 DEF Numbered, Accepted
    <3> QED BY <2>6, <3>1, <3>2 DEF Numbered
  <2>9. RunLed'
    <3>1. Placed' = Placed /\ Queued' = Queued \cup {m} /\ m \notin Placed
      BY <2>1, <2>2, <2>3 DEF Placed, Queued
    <3>2. Placed \subseteq Messages /\ Queued \subseteq Messages /\ m \notin Queued
      BY <2>1 DEF Placed, Queued
    <3>3. ASSUME NEW k \in Placed
          PROVE  /\ runOf[k] \in Placed
                 /\ \A n \in Placed \cup Queued \cup {m} : sub'[runOf[k]] <= sub'[n]
      <4>1. runOf[k] \in Placed /\ \A n \in Placed \cup Queued : sub[runOf[k]] <= sub[n]
        BY <1>0, <3>3 DEF RunLed
      <4>2. sub'[runOf[k]] = sub[runOf[k]] /\ sub[runOf[k]] <= N
        BY <2>2, <2>7, <3>1, <3>2, <4>1
      <4> QED BY <2>2, <2>3, <2>4, <2>7, <3>1, <3>2, <4>1, <4>2
    <3> QED BY <3>1, <3>3 DEF RunLed
  <2>10. AborterOK'
    BY <1>0, <2>1, <2>2, AborterStays
  <2> QED BY <2>8, <2>9, <2>10
<1> QED BY <1>1, <1>2

\* A run starts with the oldest input of the inbox, and is joined by others.
LEMMA PlacementOrders ==
  ASSUME AbortInv, Place \/ \E m \in Messages : Steer(m)
  PROVE  Numbered' /\ RunLed' /\ AborterOK'
<1>0. /\ TypeOK /\ Numbered /\ RunLed /\ AborterOK
      /\ Placed \subseteq Messages /\ Queued \subseteq Messages
  BY DEF AbortInv, NativeInv, Placed, Queued
<1>1. PICK S \in SUBSET Queued :
        /\ status' = Move(S, "placed") /\ UNCHANGED <<sub, aborter>>
        /\ \/ /\ Placed = {} /\ First(Queued) \in S
              /\ runOf' = [m \in Messages |->
                             IF m \in S THEN First(Queued) ELSE runOf[m]]
           \/ /\ Placed # {}
              /\ runOf' = [m \in Messages |-> IF m \in S THEN RunFirst ELSE runOf[m]]
  <2>1. CASE Place
    BY <2>1 DEF Place, process
  <2>2. ASSUME NEW m \in Messages, Steer(m)
        PROVE  /\ {m} \in SUBSET Queued /\ Placed # {} /\ UNCHANGED <<sub, aborter>>
               /\ status' = Move({m}, "placed")
               /\ runOf' = [n \in Messages |-> IF n \in {m} THEN RunFirst ELSE runOf[n]]
    BY <1>0, <2>2 DEF Steer, TypeOK
  <2> QED BY <2>1, <2>2
<1>2. /\ \A m \in S : status[m] = "queued" /\ status'[m] = "placed"
      /\ \A m \in Messages \ S : status'[m] = status[m]
  BY <1>0, <1>1 DEF Move, Queued
<1>3. Advances
  BY <1>0, <1>1, <1>2 DEF Advances
<1>4. Placed' = Placed \cup S /\ Placed' \cup Queued' = Placed \cup Queued
  BY <1>0, <1>2 DEF Placed, Queued
<1>5. RunLed'
  <2>1. PICK f \in Placed \cup S :
          /\ \A n \in Placed \cup Queued : sub[f] <= sub[n]
          /\ \A m \in Placed \cup S : runOf'[m] = f
    <3>1. CASE Placed = {}
      <4>1. Queued # {} /\ First(Queued) \in S
        BY <1>1, <3>1
      <4>2. Distinct(Queued)
        BY <1>0, AcceptedDistinct DEF Queued
      <4>3. \A n \in Queued : sub[First(Queued)] <= sub[n]
        BY <1>0, <4>1, <4>2, InOrderLists
      <4>4. \A m \in S : runOf'[m] = First(Queued)
        BY <1>0, <1>1, <3>1
      <4> QED BY <3>1, <4>1, <4>3, <4>4
    <3>2. CASE Placed # {}
      <4>1. RunFirst \in Placed /\ \A n \in Placed \cup Queued : sub[RunFirst] <= sub[n]
        BY <1>0, <3>2 DEF RunFirst, RunLed
      <4>2. \A m \in Placed : runOf[m] = RunFirst
        BY <1>0, <3>2, OneRun DEF RunFirst
      <4>3. \A m \in Placed \cup S : runOf'[m] = RunFirst
        BY <1>0, <1>1, <3>2, <4>2
      <4> QED BY <4>1, <4>3
    <3> QED BY <3>1, <3>2
  <2> QED BY <1>1, <1>4, <2>1 DEF RunLed
<1> QED BY <1>0, <1>1, <1>3, <1>5, AdvancesNumbered, AborterStays DEF Advances

\* A run ends, an input is withdrawn, or an abort goes on.
LEMMA EndingOrders ==
  ASSUME AbortInv,
         \/ EndRun \/ AbortNextInput \/ AbortCapturedRun
         \/ \E m \in Messages : Withdraw(m)
  PROVE  Numbered' /\ RunLed' /\ AborterOK'
<1>0. /\ TypeOK /\ Numbered /\ RunLed /\ AborterOK
      /\ Placed \subseteq Messages /\ Queued \subseteq Messages
  BY DEF AbortInv, NativeInv, Placed, Queued
<1>1. UNCHANGED <<sub, runOf>>
  BY DEF EndRun, AbortNextInput, AbortCapturedRun, Withdraw
<1>2. \/ UNCHANGED status
      \/ \E to \in {"done", "silent", "failed", "aborted"} : status' = Move(Placed, to)
      \/ \E m \in Queued : status' = Move({m}, "withdrawn")
  BY DEF EndRun, AbortNextInput, AbortCapturedRun, Withdraw
<1>3. Advances
  BY <1>0, <1>1, <1>2 DEF Advances, Move, Placed, Queued
<1>4. Placed' = Placed \/ Placed' = {}
  BY <1>0, <1>2 DEF Move, Placed, Queued
<1>5. CASE AbortNextInput
  <2>1. aborter # NotAborting
    BY <1>5 DEF AbortNextInput, NotAborting
  <2>2. aborter \in [first : Messages, scope : SUBSET Messages, left : Seq(Messages)]
    BY <1>0, <2>1 DEF AborterOK
  <2>3. PICK l \in Seq(Messages) : l = aborter.left
    BY <2>2
  <2>4. /\ l # <<>> /\ Tail(l) \in Seq(Messages)
        /\ \A i \in 1..Len(l) : i # 1 =>
             i - 1 \in 1..Len(Tail(l)) /\ Tail(l)[i - 1] = l[i]
        /\ l[1] = Head(l)
    BY <1>5, <2>3 DEF AbortNextInput
  <2>5. /\ aborter' \in [first : Messages, scope : SUBSET Messages,
                         left : Seq(Messages)]
        /\ aborter'.first = aborter.first /\ aborter'.scope = aborter.scope
        /\ aborter'.left = Tail(l)
    BY <1>5, <2>2, <2>3, <2>4 DEF AbortNextInput
  <2>6. Head(l) \in Messages => status'[Head(l)] # "queued"
    BY <1>5, <2>3 DEF AbortNextInput, Move, Queued
  <2>7. ASSUME NEW m \in aborter.scope
        PROVE  /\ status'[m] # "none" /\ sub[aborter.first] <= sub[m]
               /\ status'[m] = "queued" =>
                    \E i \in 1..Len(Tail(l)) : Tail(l)[i] = m
    <3>1. /\ m \in Messages /\ status[m] # "none" /\ sub[aborter.first] <= sub[m]
          /\ status[m] = "queued" => \E i \in 1..Len(l) : l[i] = m
      BY <1>0, <2>1, <2>2, <2>3 DEF AborterOK
    <3>2. status'[m] # "none" /\ (status'[m] = "queued" => status[m] = "queued")
      BY <1>3, <3>1 DEF Advances
    <3>3. ASSUME status'[m] = "queued" PROVE \E i \in 1..Len(Tail(l)) : Tail(l)[i] = m
      <4>1. PICK i \in 1..Len(l) : l[i] = m
        BY <3>1, <3>2, <3>3
      <4>2. i # 1
        BY <2>4, <2>6, <3>1, <3>3, <4>1
      <4> QED BY <2>4, <4>1, <4>2
    <3> QED BY <3>1, <3>2, <3>3
  <2>8. aborter.first \in aborter.scope
    BY <1>0, <2>1 DEF AborterOK
  <2>9. AborterOK'
    BY <1>1, <2>5, <2>7, <2>8 DEF AborterOK
  <2> QED BY <1>0, <1>1, <1>3, <1>4, <2>9, AdvancesNumbered, RunStaysLed
<1>6. CASE ~AbortNextInput
  <2>1. aborter' = aborter \/ aborter' = NotAborting
    BY <1>6 DEF EndRun, AbortCapturedRun, Withdraw
  <2>2. AborterOK'
    <3>1. CASE aborter' = NotAborting
      BY <3>1 DEF AborterOK, NotAborting
    <3>2. CASE aborter' = aborter
      BY <1>0, <1>3, <3>2, AborterStays DEF Advances
    <3> QED BY <2>1, <3>1, <3>2
  <2> QED BY <1>0, <1>1, <1>3, <1>4, <2>2, AdvancesNumbered, RunStaysLed
<1> QED BY <1>5, <1>6

\* The scope that is read begins with its oldest input.
LEMMA ScopeOrders ==
  ASSUME AbortInv, ReadScope
  PROVE  Numbered' /\ RunLed' /\ AborterOK'
<1> DEFINE p == InOrder(Placed)
           q == InOrder(Queued)
<1>0. /\ TypeOK /\ Numbered /\ RunLed
      /\ Placed \in SUBSET Messages /\ Queued \in SUBSET Messages
  BY DEF AbortInv, NativeInv, Placed, Queued
<1>1. /\ UNCHANGED <<sub, status, runOf>> /\ p \o q # <<>>
      /\ aborter' = [first |-> (p \o q)[1], scope |-> ToSet(p \o q), left |-> p \o q]
  BY DEF ReadScope, FirstOfScope, sdk
<1>2. Distinct(Placed) /\ Distinct(Queued)
  BY <1>0, AcceptedDistinct DEF Placed, Queued
<1>3. /\ p \in Seq(Placed) /\ q \in Seq(Queued)
      /\ \A m \in Placed : \E i \in 1..Len(p) : p[i] = m
      /\ \A m \in Queued : \E i \in 1..Len(q) : q[i] = m
      /\ Placed # {} => /\ Len(p) > 0 /\ p[1] \in Placed
                        /\ \A m \in Placed : sub[p[1]] <= sub[m]
      /\ Queued # {} => /\ Len(q) > 0 /\ q[1] \in Queued
                        /\ \A m \in Queued : sub[q[1]] <= sub[m]
  BY <1>0, <1>2, InOrderLists DEF First
<1> HIDE DEF p, q
<1>4. PICK a \in Seq(Messages), b \in Seq(Messages) : a = p /\ b = q
  BY <1>0, <1>3
<1>5. PICK s \in Seq(Messages) : s = a \o b
  <2>1. a \o b \in Seq(Messages)
    OBVIOUS
  <2> QED BY <2>1
<1>6. /\ Len(s) = Len(a) + Len(b) /\ Len(a) \in Nat /\ Len(b) \in Nat
      /\ \A i \in 1..Len(a) : i \in 1..Len(s) /\ s[i] = a[i]
      /\ \A i \in 1..Len(b) : Len(a) + i \in 1..Len(s) /\ s[Len(a) + i] = b[i]
      /\ \A i \in 1..Len(s) : i > Len(a) => i - Len(a) \in 1..Len(b)
                                            /\ s[i] = b[i - Len(a)]
  BY <1>5
<1>7. /\ \A i \in 1..Len(a) : a[i] \in Placed
      /\ \A i \in 1..Len(b) : b[i] \in Queued
      /\ \A m \in Queued : \E i \in 1..Len(b) : b[i] = m
      /\ Placed # {} => /\ Len(a) > 0 /\ a[1] \in Placed
                        /\ \A m \in Placed : sub[a[1]] <= sub[m]
      /\ Queued # {} => /\ Len(b) > 0 /\ b[1] \in Queued
                        /\ \A m \in Queued : sub[b[1]] <= sub[m]
  BY <1>3, <1>4
<1>8. /\ \A i \in 1..Len(s) : s[i] \in Placed \cup Queued
      /\ \A m \in Queued : \E i \in 1..Len(s) : s[i] = m
  <2>1. ASSUME NEW i \in 1..Len(s) PROVE s[i] \in Placed \cup Queued
    <3>1. CASE i \in 1..Len(a)
      BY <1>6, <1>7, <3>1
    <3>2. CASE i > Len(a)
      BY <1>6, <1>7, <3>2
    <3> QED BY <1>6, <3>1, <3>2
  <2>2. ASSUME NEW m \in Queued PROVE \E i \in 1..Len(s) : s[i] = m
    <3>1. PICK i \in 1..Len(b) : b[i] = m
      BY <1>7
    <3> QED BY <1>6, <3>1
  <2> QED BY <2>1, <2>2
<1>9. Len(s) > 0 /\ s # <<>>
  BY <1>1, <1>4, <1>5
<1>10. /\ s[1] \in Placed \cup Queued
       /\ \A m \in Placed \cup Queued : sub[s[1]] <= sub[m]
  <2>1. CASE Placed = {}
    <3>1. Len(a) = 0
      <4>1. ~(1 \in 1..Len(a))
        BY <1>7, <2>1
      <4> QED BY <1>6, <4>1
    <3>2. Queued # {}
      BY <1>6, <1>8, <1>9, <2>1
    <3>3. s[1] = b[1]
      BY <1>6, <1>7, <3>1, <3>2
    <3> QED BY <1>7, <2>1, <3>2, <3>3
  <2>2. CASE Placed # {}
    <3>1. s[1] = a[1] /\ a[1] \in Placed /\ \A m \in Placed : sub[a[1]] <= sub[m]
      BY <1>6, <1>7, <2>2
    <3>2. /\ runOf[a[1]] \in Placed
          /\ \A m \in Placed \cup Queued : sub[runOf[a[1]]] <= sub[m]
      BY <1>0, <3>1 DEF RunLed
    <3>3. sub[a[1]] <= sub[runOf[a[1]]]
      BY <3>1, <3>2
    <3>4. \A m \in Messages : sub[m] \in Int
      BY <1>0, FS_CardinalityType, MessageConstants
         DEF MessageConstants, TypeOK, Ids
    <3> QED BY <1>0, <3>1, <3>2, <3>3, <3>4
  <2> QED BY <2>1, <2>2
<1>11. /\ ToSet(s) \subseteq Placed \cup Queued /\ s[1] \in ToSet(s)
       /\ s[1] \in Messages
  BY <1>0, <1>8, <1>9, <1>10 DEF ToSet
<1>12. aborter' = [first |-> s[1], scope |-> ToSet(s), left |-> s]
  BY <1>1, <1>4, <1>5
<1>13. AborterOK'
  <2>1. aborter' \in [first : Messages, scope : SUBSET Messages, left : Seq(Messages)]
    BY <1>0, <1>11, <1>12
  <2>2. ASSUME NEW m \in ToSet(s)
        PROVE  /\ status[m] # "none" /\ sub[s[1]] <= sub[m]
               /\ status[m] = "queued" => \E i \in 1..Len(s) : s[i] = m
    <3>1. m \in Placed \cup Queued
      BY <1>11
    <3> QED BY <1>8, <1>10, <3>1 DEF Placed, Queued
  <2>3. aborter'.first = s[1] /\ aborter'.scope = ToSet(s) /\ aborter'.left = s
    BY <1>12
  <2> QED BY <1>1, <1>11, <2>1, <2>2, <2>3 DEF AborterOK
<1>14. Advances /\ Placed' = Placed
  BY <1>1 DEF Advances, Placed
<1> QED BY <1>0, <1>1, <1>13, <1>14, AdvancesNumbered, RunStaysLed

\* Everything else leaves the SDK alone, and a crash forgets the abort.
LEMMA ElsewhereOrders ==
  ASSUME AbortInv, UNCHANGED sdk, aborter' \in {aborter, NotAborting}
  PROVE  Numbered' /\ RunLed' /\ AborterOK'
<1>0. Numbered /\ RunLed /\ AborterOK
  BY DEF AbortInv
<1>1. UNCHANGED <<sub, status, runOf>>
  BY DEF sdk
<1>2. Advances /\ Placed' = Placed
  BY <1>1 DEF Advances, Placed
<1>3. AborterOK'
  BY <1>0, <1>1, AborterStays DEF AborterOK, NotAborting
<1> QED BY <1>0, <1>1, <1>2, <1>3, AdvancesNumbered, RunStaysLed

\* At the start nothing is submitted.
LEMMA AbortInit == Init => AbortInv
<1> SUFFICES ASSUME Init PROVE AbortInv
  OBVIOUS
<1>1. Accepted = {}
  BY DEF Init, Accepted
<1>2. Numbered
  BY <1>1, FS_EmptySet DEF Init, Numbered
<1> QED BY <1>2, NativeInit DEF Init, AbortInv, RunLed, Placed, AborterOK

\* Every step keeps the order of the SDK and the scope of an abort.
LEMMA AbortStep == AbortInv /\ [Next]_vars => AbortInv'
<1> SUFFICES ASSUME AbortInv, [Next]_vars PROVE Numbered' /\ RunLed' /\ AborterOK'
  BY NativeStep DEF AbortInv
<1>1. ASSUME NEW d \in Callers, Submit(d) PROVE Numbered' /\ RunLed' /\ AborterOK'
  <2>1. call[d].msg \in Messages /\ UNCHANGED <<runOf, aborter>>
    BY <1>1 DEF Submit, At, AbortInv, NativeInv, CallsHold
  <2>2. CASE SubmitOnce(call[d].msg)
    BY <2>1, <2>2, SubmitOrders
  <2>3. CASE UNCHANGED <<sub, status>>
    BY <2>1, <2>3, ElsewhereOrders DEF sdk
  <2> QED BY <1>1, <2>2, <2>3 DEF Submit
<1>2. CASE Place \/ \E m \in Messages : Steer(m)
  BY <1>2, PlacementOrders
<1>3. CASE \/ EndRun \/ AbortNextInput \/ AbortCapturedRun
           \/ \E m \in Messages : Withdraw(m)
  BY <1>3, EndingOrders
<1>4. CASE ReadScope
  BY <1>4, ScopeOrders
<1>5. CASE UNCHANGED sdk /\ aborter' \in {aborter, NotAborting}
  BY <1>5, ElsewhereOrders
<1>6. \/ \E d \in Callers : Submit(d)
      \/ Place \/ \E m \in Messages : Steer(m)
      \/ EndRun \/ AbortNextInput \/ AbortCapturedRun
      \/ \E m \in Messages : Withdraw(m)
      \/ ReadScope
      \/ UNCHANGED sdk /\ aborter' \in {aborter, NotAborting}
  BY DEF Next, vars, Admit, ReadResult, Publish, ProjectionFails, Start,
     DispatchStep, Lookup, Resolve, Correlate, Acknowledge, Confirm, CallFails, Crash
<1> QED BY <1>1, <1>2, <1>3, <1>4, <1>5, <1>6

\* For every number of messages and whatever is placed, steered or withdrawn
\* while an abort goes through its scope, its answer leaves no input of the
\* scope waiting, and the run of the oldest has ended (abortMessages: the
\* scope is read oldest first, and the run is aborted while it is the one of
\* the first input).
THEOREM AbortCoversScopeTheorem == Spec => AbortCoversScope
<1> DEFINE Covered ==
      aborter # NotAborting /\ aborter' = NotAborting /\ UNCHANGED crashes
        => \A m \in aborter.scope :
             /\ status'[m] # "queued"
             /\ status'[m] = "placed" => runOf[m] # First(aborter.scope)
<1>1. ASSUME AbortInv, [Next]_vars PROVE [Covered]_vars
  <2> SUFFICES ASSUME aborter # NotAborting, aborter' = NotAborting,
                      UNCHANGED crashes, NEW m \in aborter.scope
               PROVE  /\ status'[m] # "queued"
                      /\ status'[m] = "placed" => runOf[m] # First(aborter.scope)
    OBVIOUS
  <2>0. TypeOK /\ Numbered /\ RunLed
    BY <1>1 DEF AbortInv, NativeInv
  <2>1. /\ aborter \in [first : Messages, scope : SUBSET Messages,
                        left : Seq(Messages)]
        /\ aborter.first \in aborter.scope
        /\ \A n \in aborter.scope :
             /\ status[n] # "none" /\ sub[aborter.first] <= sub[n]
             /\ status[n] = "queued" =>
                  \E i \in 1..Len(aborter.left) : aborter.left[i] = n
    BY <1>1 DEF AbortInv, AborterOK
  <2>2. ~AbortNextInput
    <3>1. ASSUME AbortNextInput PROVE aborter'.scope = aborter.scope
      BY <2>1, <3>1 DEF AbortNextInput
    <3> QED BY <2>1, <3>1 DEF NotAborting
  <2>3. ~Crash
    BY <2>0 DEF Crash, TypeOK
  <2>4. AbortCapturedRun
    BY <1>1, <2>2, <2>3
       DEF Next, vars, Admit, ReadResult, Publish, ProjectionFails, Start,
           DispatchStep, Lookup, Submit, Resolve, Correlate, Acknowledge, Confirm,
           CallFails, Place, Steer, EndRun, Withdraw, ReadScope
  <2>5. aborter.left = <<>> /\ ~RunsStill /\ UNCHANGED status
    BY <2>4 DEF AbortCapturedRun
  <2>6. status[m] # "queued"
    BY <2>1, <2>5
  <2>7. ASSUME status[m] = "placed", runOf[m] = First(aborter.scope)
        PROVE  FALSE
    <3>1. m \in Placed
      BY <2>1, <2>7 DEF Placed
    <3>2. RunFirst = runOf[m] /\ RunFirst # aborter.first
      <4>1. RunFirst # aborter.first
        BY <2>5, <3>1 DEF RunsStill
      <4> QED BY <2>0, <3>1, <4>1, OneRun DEF RunFirst
    <3>3. Distinct(aborter.scope)
      BY <2>0, <2>1, AcceptedDistinct
    <3>4. /\ First(aborter.scope) \in aborter.scope
          /\ \A n \in aborter.scope : sub[First(aborter.scope)] <= sub[n]
      BY <2>0, <2>1, <3>3, InOrderLists
    <3>5. /\ sub[First(aborter.scope)] <= sub[aborter.first]
          /\ sub[aborter.first] <= sub[First(aborter.scope)]
      BY <2>1, <3>4
    <3>6. \A n \in Messages : sub[n] \in Int
      BY <2>0, FS_CardinalityType, MessageConstants DEF MessageConstants, TypeOK, Ids
    <3>7. sub[First(aborter.scope)] = sub[aborter.first]
      BY <2>1, <3>4, <3>5, <3>6
    <3> QED BY <2>1, <2>7, <3>2, <3>3, <3>4, <3>7 DEF Distinct
  <2> QED BY <2>5, <2>6, <2>7
<1> QED BY <1>1, AbortInit, AbortStep, PTL DEF Spec, AbortCoversScope
=============================================================================
