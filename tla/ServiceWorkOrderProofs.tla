----------------------- MODULE ServiceWorkOrderProofs -----------------------
(***************************************************************************)
(* Machine-checked facts about the order in which ServiceWork closes and   *)
(* starts the sources of a chat, for every set of chats, sources,          *)
(* operations and intents.                                                 *)
(*                                                                         *)
(* OrderInv adds to the ownership invariant of ServiceWorkProofs where the *)
(* frontier of a chat may stand, that the source of an unfinished run is   *)
(* the last scheduled one of its chat (so that a run which ends is never   *)
(* below the frontier that an earlier run left), and that an operation     *)
(* which a source names is one of the source's chat.                       *)
(***************************************************************************)
EXTENDS ServiceWorkProofs

\* A run that was accepted after sequence i has ended at or below the frontier.
RunCrossed(c, i) == \E j \in EndedRuns(c) : i < j /\ j <= frontier[c]

\* Up to the frontier of chat c a source is closed or was crossed by a run, and
\* in an idle chat the next one is open, unless a run ended at the frontier or
\* beyond it.
FrontierAt(c) ==
  /\ frontier[c] <= Len(log[c])
  /\ \A i \in 1..frontier[c] : Closed(state[log[c][i]]) \/ RunCrossed(c, i)
  /\ active[c] = NoOp /\ frontier[c] < Len(log[c]) =>
       \/ ~Closed(state[log[c][frontier[c] + 1]])
       \/ \E j \in EndedRuns(c) : frontier[c] <= j

FrontierOK == \A c \in Chats : FrontierAt(c)

\* The operation that a source was sent to runs, or ran, in its chat.
TargetInChat ==
  \A s \in Sources : target[s] # NoOp =>
    phase[target[s]] # "unused" /\ ChatOfOp(target[s]) = ChatOf[s]

\* No scheduled source of its chat was accepted after s.
LastRun(s) ==
  \A i, j \in Seqs(ChatOf[s]) :
    log[ChatOf[s]][i] = s /\ Scheduled(log[ChatOf[s]][j]) => j <= i

\* A scheduled source never waits, and while its operation is unfinished it is
\* claimed and the last one of its chat.
RunsOK ==
  \A s \in Sources : Scheduled(s) =>
    /\ state[s] # "pending"
    /\ \A o \in Ops : Open(o) /\ primary[o] = s =>
         state[s] = "claimed" /\ LastRun(s)

OrderInv == LedgerInv /\ FrontierOK /\ RunsOK /\ TargetInChat /\ TargetRespected

-----------------------------------------------------------------------------
(* The frontier of one chat.                                               *)

\* The sources of a log are sources.
LEMMA LogTyped ==
  ASSUME TypeOK, NEW c \in Chats
  PROVE  /\ log[c] \in Seq(Sources) /\ Len(log[c]) \in Nat
         /\ \A i \in Seqs(c) : log[c][i] \in Sources
         /\ frontier[c] \in Nat
BY DEF TypeOK, Seqs

\* In a well-formed log a source has one position.
LEMMA OnePosition ==
  ASSUME TypeOK, LogOK, NEW c \in Chats, NEW i \in Seqs(c)
  PROVE  Position(log[c], log[c][i]) = i
<1>1. log[c] \in Seq(Sources) /\ DOMAIN log[c] = Seqs(c)
  BY DEF TypeOK, Seqs
<1>2. \A j \in Seqs(c) : log[c][j] = log[c][i] => j = i
  BY DEF LogOK, LogSound
<1>3. QED BY <1>1, <1>2 DEF Position

\* What ended stays ended when a step reopens no source of the chat.
LEMMA RunsStayEnded ==
  ASSUME TypeOK, NEW c \in Chats,
         \/ log'[c] = log[c]
         \/ \E s \in Sources : log'[c] = Append(log[c], s),
         \A i \in Seqs(c) : Closed(state[log[c][i]]) => Closed(state'[log[c][i]])
  PROVE  EndedRuns(c) \subseteq EndedRuns(c)'
<1>1. log[c] \in Seq(Sources) /\ Len(log[c]) \in Nat
  BY LogTyped
<1>2. \A i \in Seqs(c) : i \in Seqs(c)' /\ log'[c][i] = log[c][i]
  BY <1>1, AppendProperties DEF Seqs
<1>3. QED BY <1>2 DEF EndedRuns, Closed

\* A step that leaves the log and the frontier of a chat alone and reopens no
\* source; if the chat is idle after it, it was before, and none was closed.
LEMMA FrontierStays ==
  ASSUME TypeOK, NEW c \in Chats, FrontierAt(c),
         log'[c] = log[c], frontier'[c] = frontier[c],
         \A i \in Seqs(c) : Closed(state[log[c][i]]) => Closed(state'[log[c][i]]),
         active'[c] = NoOp =>
           /\ active[c] = NoOp
           /\ \A i \in Seqs(c) :
                Closed(state'[log[c][i]]) => Closed(state[log[c][i]])
  PROVE  FrontierAt(c)'
<1>1. /\ Len(log[c]) \in Nat /\ frontier[c] \in Nat
      /\ EndedRuns(c) \subseteq EndedRuns(c)'
  BY LogTyped, RunsStayEnded
<1>2. ASSUME NEW i \in 1..frontier[c]
      PROVE  Closed(state'[log[c][i]]) \/ RunCrossed(c, i)'
  <2>1. i \in Seqs(c) /\ (Closed(state[log[c][i]]) \/ RunCrossed(c, i))
    BY <1>1 DEF FrontierAt, Seqs
  <2>2. QED BY <1>1, <2>1 DEF RunCrossed
<1>3. ASSUME active'[c] = NoOp, frontier[c] < Len(log[c])
      PROVE  \/ ~Closed(state'[log[c][frontier[c] + 1]])
             \/ \E j \in EndedRuns(c)' : frontier[c] <= j
  <2>1. frontier[c] + 1 \in Seqs(c)
    BY <1>1, <1>3 DEF Seqs
  <2>2. QED BY <1>1, <1>3, <2>1 DEF FrontierAt
<1>4. QED BY <1>1, <1>2, <1>3 DEF FrontierAt, Closed

\* Accepting an open source leaves the frontier of its chat where it is.
LEMMA FrontierBeforeNew ==
  ASSUME TypeOK, NEW c \in Chats, FrontierAt(c), NEW s \in Sources,
         log'[c] = Append(log[c], s), frontier'[c] = frontier[c],
         ~Closed(state'[s]),
         \A i \in Seqs(c) : Closed(state'[log[c][i]]) = Closed(state[log[c][i]]),
         active'[c] = NoOp => active[c] = NoOp
  PROVE  FrontierAt(c)'
<1> DEFINE n == Len(log[c])
<1>1. /\ n \in Nat /\ frontier[c] \in Nat /\ log[c] \in Seq(Sources)
      /\ EndedRuns(c) \subseteq EndedRuns(c)'
  BY LogTyped, RunsStayEnded
<1>2. /\ Len(log'[c]) = n + 1 /\ log'[c][n + 1] = s
      /\ \A i \in Seqs(c) : log'[c][i] = log[c][i]
  BY <1>1, AppendProperties DEF Seqs
<1>3. ASSUME NEW i \in 1..frontier[c]
      PROVE  Closed(state'[log'[c][i]]) \/ RunCrossed(c, i)'
  <2>1. i \in Seqs(c) /\ (Closed(state[log[c][i]]) \/ RunCrossed(c, i))
    BY <1>1 DEF FrontierAt, Seqs
  <2>2. QED BY <1>1, <1>2, <2>1 DEF RunCrossed
<1>4. ASSUME active'[c] = NoOp
      PROVE  \/ ~Closed(state'[log'[c][frontier[c] + 1]])
             \/ \E j \in EndedRuns(c)' : frontier[c] <= j
  <2>1. CASE frontier[c] = n
    BY <1>2, <2>1
  <2>2. CASE frontier[c] < n
    <3>1. frontier[c] + 1 \in Seqs(c)
      BY <1>1, <2>2 DEF Seqs
    <3>2. QED BY <1>1, <1>2, <1>4, <2>2, <3>1 DEF FrontierAt
  <2>3. QED BY <1>1, <2>1, <2>2 DEF FrontierAt
<1>5. QED BY <1>1, <1>2, <1>3, <1>4 DEF FrontierAt, Closed

\* A frontier that computeClosedSourceFrontier or the native host computed.
LEMMA FrontierComputed ==
  ASSUME TypeOK, NEW c \in Chats, FrontierAt(c), NEW n \in 0..Len(log[c]),
         log'[c] = log[c], frontier'[c] = n,
         \A i \in Seqs(c) : Closed(state[log[c][i]]) => Closed(state'[log[c][i]]),
         ClosedFrontier(c, state', n) \/ BeforeFirstOpen(c, state', n)
  PROVE  FrontierAt(c)'
<1>1. /\ Len(log[c]) \in Nat /\ frontier[c] \in Nat /\ n \in Nat
      /\ n <= Len(log[c]) /\ EndedRuns(c) \subseteq EndedRuns(c)'
  BY LogTyped, RunsStayEnded
<1>2. ASSUME NEW i \in 1..n
      PROVE  Closed(state'[log[c][i]]) \/ RunCrossed(c, i)'
  <2>1. CASE BeforeFirstOpen(c, state', n)
    BY <2>1 DEF BeforeFirstOpen
  <2>2. CASE ClosedFrontier(c, state', n) /\ i > frontier[c]
    <3>1. i \in frontier[c] + 1..n
      BY <1>1, <2>2
    <3>2. QED BY <2>2, <3>1 DEF ClosedFrontier
  <2>3. CASE ClosedFrontier(c, state', n) /\ i <= frontier[c]
    <3>1. i \in 1..frontier[c] /\ i \in Seqs(c) /\ frontier[c] <= n
      BY <1>1, <2>3 DEF Seqs, ClosedFrontier
    <3>2. Closed(state[log[c][i]]) \/ RunCrossed(c, i)
      BY <3>1 DEF FrontierAt
    <3>3. \A j \in EndedRuns(c) : j <= frontier[c] => j <= n
      BY <1>1, <3>1 DEF EndedRuns, Seqs
    <3>4. QED BY <1>1, <3>1, <3>2, <3>3 DEF RunCrossed
  <2>4. QED BY <1>1, <2>1, <2>2, <2>3
<1>3. n < Len(log[c]) => ~Closed(state'[log[c][n + 1]])
  BY DEF ClosedFrontier, BeforeFirstOpen
<1>4. QED BY <1>1, <1>2, <1>3 DEF FrontierAt, Closed

\* A run ends at sequence k, which the frontier has not passed: the frontier
\* stays where it is or moves to k.
LEMMA FrontierAtRun ==
  ASSUME TypeOK, NEW c \in Chats, FrontierAt(c), NEW k \in Seqs(c),
         log'[c] = log[c], frontier'[c] \in {frontier[c], k}, frontier[c] <= k,
         \A i \in Seqs(c) : Closed(state[log[c][i]]) => Closed(state'[log[c][i]]),
         Scheduled(log[c][k]), Closed(state'[log[c][k]])
  PROVE  FrontierAt(c)'
<1>1. /\ Len(log[c]) \in Nat /\ frontier[c] \in Nat /\ k \in Nat
      /\ k <= Len(log[c]) /\ EndedRuns(c) \subseteq EndedRuns(c)'
  BY LogTyped, RunsStayEnded DEF Seqs
<1>2. k \in EndedRuns(c)'
  BY DEF EndedRuns, Seqs, Closed
<1>3. ASSUME NEW i \in 1..frontier'[c]
      PROVE  Closed(state'[log[c][i]]) \/ RunCrossed(c, i)'
  <2>1. CASE frontier'[c] = frontier[c]
    <3>1. i \in Seqs(c) /\ (Closed(state[log[c][i]]) \/ RunCrossed(c, i))
      BY <1>1, <2>1 DEF FrontierAt, Seqs
    <3>2. QED BY <1>1, <2>1, <3>1 DEF RunCrossed
  <2>2. CASE frontier'[c] = k
    BY <1>1, <1>2, <2>2 DEF RunCrossed
  <2>3. QED BY <2>1, <2>2
<1>4. frontier'[c] <= k /\ frontier'[c] \in Nat
  BY <1>1
<1>5. QED BY <1>1, <1>2, <1>3, <1>4 DEF FrontierAt, Closed

\* A step that changes only sources of another chat.
LEMMA FrontierElsewhere ==
  ASSUME TypeOK, LogOK, NEW c \in Chats, FrontierAt(c),
         log'[c] = log[c], frontier'[c] = frontier[c], active'[c] = active[c],
         \A t \in Sources : ChatOf[t] = c => state'[t] = state[t]
  PROVE  FrontierAt(c)'
<1>1. \A i \in Seqs(c) : state'[log[c][i]] = state[log[c][i]]
  BY LogTyped DEF LogOK, LogSound
<1>2. QED BY <1>1, FrontierStays

\* A step that closes and reopens nothing and gives back no chat, and that
\* accepts at most one source.
LEMMA FrontierUntouched ==
  ASSUME TypeOK, FrontierOK, UNCHANGED frontier, NEW s \in Sources,
         UNCHANGED log \/ log' = [log EXCEPT ![ChatOf[s]] = Append(@, s)],
         \A t \in Sources : Closed(state'[t]) = Closed(state[t]),
         ~Closed(state'[s]),
         \A c \in Chats : active'[c] = NoOp => active[c] = NoOp
  PROVE  FrontierOK'
<1> SUFFICES ASSUME NEW c \in Chats PROVE FrontierAt(c)'
  BY DEF FrontierOK
<1>1. FrontierAt(c)
  BY DEF FrontierOK
<1>2. \A i \in Seqs(c) : Closed(state'[log[c][i]]) = Closed(state[log[c][i]])
  BY LogTyped
<1>3. log'[c] = log[c] \/ log'[c] = Append(log[c], s)
  BY DEF TypeOK
<1>4. QED BY <1>1, <1>2, <1>3, FrontierStays, FrontierBeforeNew

-----------------------------------------------------------------------------
(* The frontier of every chat.                                             *)

\* Opening an operation gives back no chat.
LEMMA OpeningKeepsBusy ==
  ASSUME TypeOK, NEW s \in Sources, NEW o \in Ops, OpenOperation(s, o)
  PROVE  /\ UNCHANGED frontier
         /\ \A c \in Chats : active'[c] = NoOp => active[c] = NoOp
BY LedgerConstants DEF LedgerConstants, OpenOperation, TypeOK

\* The calls on one source keep the frontier explained.
LEMMA SourceStepFrontier ==
  ASSUME LedgerInv, FrontierOK, NEW s \in Sources, SourceStep(s)
  PROVE  FrontierOK'
<1> DEFINE c == ChatOf[s]
<1> USE DEF LedgerInv
<1>1. c \in Chats
  BY LedgerConstants DEF LedgerConstants
<1>2. ASSUME NEW o \in Ops \cup {NoOp}, AcceptSource(s, o) PROVE FrontierOK'
  <2>1. \A t \in Sources : state'[t] = IF t = s THEN "pending" ELSE state[t]
    BY <1>2 DEF AcceptSource, TypeOK
  <2>2. /\ \A t \in Sources : Closed(state'[t]) = Closed(state[t])
        /\ ~Closed(state'[s])
    BY <1>2, <2>1 DEF AcceptSource, Closed, Verdicts
  <2>3. QED BY <1>2, <2>2, FrontierUntouched DEF AcceptSource, chatVars
<1>3. ASSUME NEW o \in Ops, AcceptAndClaim(s, o) PROVE FrontierOK'
  <2>1. \A t \in Sources : state'[t] = IF t = s THEN "claimed" ELSE state[t]
    BY <1>3 DEF AcceptAndClaim, TypeOK
  <2>2. /\ \A t \in Sources : Closed(state'[t]) = Closed(state[t])
        /\ ~Closed(state'[s])
    BY <1>3, <2>1 DEF AcceptAndClaim, Closed, Verdicts
  <2>3. QED BY <1>3, <2>2, FrontierUntouched, OpeningKeepsBusy DEF AcceptAndClaim
<1>4. ASSUME NEW st, state' = [state EXCEPT ![s] = st], Closed(st),
             UNCHANGED <<log, active>>,
             \A d \in Chats \ {c} : frontier'[d] = frontier[d],
             FrontierAt(c)'
      PROVE  FrontierOK'
  <2>1. ASSUME NEW d \in Chats, d # c PROVE FrontierAt(d)'
    BY <1>4, <2>1, FrontierElsewhere DEF FrontierOK, TypeOK
  <2>2. QED BY <1>4, <2>1 DEF FrontierOK
<1>5. CASE Withdraw(s)
  <2>1. /\ state' = [state EXCEPT ![s] = "disposed"] /\ UNCHANGED <<log, active>>
        /\ \A t \in Sources : Closed(state[t]) => Closed(state'[t])
    BY <1>5 DEF Withdraw, Closed, Verdicts, TypeOK
  <2>2. CASE ChatIsIdle(c)
    <3>1. PICK n \in 0..Len(log[c]) :
            ClosedFrontier(c, state', n) /\ frontier' = [frontier EXCEPT ![c] = n]
      BY <1>5, <2>2 DEF Withdraw
    <3>2. frontier'[c] = n /\ \A d \in Chats \ {c} : frontier'[d] = frontier[d]
      BY <1>1, <3>1 DEF TypeOK
    <3>3. FrontierAt(c)'
      BY <1>1, <2>1, <3>1, <3>2, LogTyped, FrontierComputed DEF FrontierOK
    <3>4. QED BY <1>4, <2>1, <3>2, <3>3 DEF Closed, Verdicts
  <2>3. CASE ~ChatIsIdle(c)
    <3>1. UNCHANGED frontier /\ active[c] # NoOp
      BY <1>5, <2>3 DEF Withdraw, ChatIsIdle
    <3>2. FrontierAt(c)'
      BY <1>1, <2>1, <3>1, LogTyped, FrontierStays DEF FrontierOK
    <3>3. QED BY <1>4, <2>1, <3>1, <3>2 DEF Closed, Verdicts
  <2>4. QED BY <2>2, <2>3
<1>6. CASE AckNative(s)
  <2>1. /\ state' = [state EXCEPT ![s] = "consumed"] /\ UNCHANGED <<log, active>>
        /\ \A t \in Sources : Closed(state[t]) => Closed(state'[t])
    BY <1>6 DEF AckNative, Closed, Verdicts, TypeOK
  <2>2. PICK n \in 0..Len(log[c]) :
          BeforeFirstOpen(c, state', n) /\ frontier' = [frontier EXCEPT ![c] = n]
    BY <1>6 DEF AckNative
  <2>3. frontier'[c] = n /\ \A d \in Chats \ {c} : frontier'[d] = frontier[d]
    BY <1>1, <2>2 DEF TypeOK
  <2>4. FrontierAt(c)'
    BY <1>1, <2>1, <2>2, <2>3, LogTyped, FrontierComputed DEF FrontierOK
  <2>5. QED BY <1>4, <2>1, <2>3, <2>4 DEF Closed, Verdicts
<1>7. QED BY <1>2, <1>3, <1>5, <1>6 DEF SourceStep

\* The run of an unfinished operation is beyond the frontier.
LEMMA RunBeyondFrontier ==
  ASSUME LedgerInv, FrontierOK, RunsOK, NEW s \in Sources, Scheduled(s),
         NEW o \in Ops, Open(o), primary[o] = s,
         NEW k \in Seqs(ChatOf[s]), log[ChatOf[s]][k] = s
  PROVE  frontier[ChatOf[s]] < k
<1> DEFINE c == ChatOf[s]
<1>1. c \in Chats /\ frontier[c] \in Nat /\ k \in Nat \ {0}
  BY LedgerConstants, LogTyped DEF LedgerConstants, LedgerInv, Seqs
<1>2. ~Closed(state[log[c][k]]) /\ LastRun(s)
  BY DEF RunsOK, Closed, Verdicts
<1>3. \A j \in EndedRuns(c) : j <= k
  BY <1>2 DEF LastRun, EndedRuns
<1>4. ~RunCrossed(c, k)
  BY <1>1, <1>3 DEF RunCrossed, EndedRuns, Seqs
<1>5. SUFFICES ASSUME k <= frontier[c] PROVE FALSE
  BY <1>1
<1>6. k \in 1..frontier[c]
  BY <1>1, <1>5
<1>7. QED BY <1>1, <1>2, <1>4, <1>6 DEF FrontierOK, FrontierAt

\* A frontier that is moved to sequence k if it is behind.
LEMMA MovedFrontier ==
  ASSUME NEW f \in Nat, NEW k \in Nat
  PROVE  ThroughSource(f, k) = IF f <= k THEN k ELSE f
BY DEF ThroughSource

\* The scheduler moves the frontier to the source of a run that succeeded, and
\* gives the chat back with the frontier behind one that did not.
LEMMA SchedulerStepFrontier ==
  ASSUME LedgerInv, FrontierOK, RunsOK, NEW s \in Sources, SchedulerStep(s)
  PROVE  FrontierOK'
<1> PICK c \in Chats : c = ChatOf[s]
  BY LedgerConstants DEF LedgerConstants
<1> USE DEF LedgerInv
<1>1. ASSUME NEW o \in Ops, AcceptScheduled(s, o) PROVE FrontierOK'
  <2>1. \A t \in Sources : state'[t] = IF t = s THEN "claimed" ELSE state[t]
    BY <1>1 DEF AcceptScheduled, TypeOK
  <2>2. /\ \A t \in Sources : Closed(state'[t]) = Closed(state[t])
        /\ ~Closed(state'[s])
    BY <1>1, <2>1 DEF AcceptScheduled, Closed, Verdicts
  <2>3. QED BY <1>1, <2>2, FrontierUntouched, OpeningKeepsBusy DEF AcceptScheduled
<1>2. ASSUME NEW o \in Ops, primary[o] = s, NEW d, EndScheduled(o, d),
             NEW st, Closed(st), state' = [state EXCEPT ![s] = st],
             \A k \in Seqs(c) : log[c][k] = s =>
               \/ UNCHANGED frontier
               \/ frontier[c] <= k /\ frontier' = [frontier EXCEPT ![c] = k]
      PROVE  FrontierOK'
  <2>1. /\ Scheduled(s) /\ UNCHANGED log /\ ChatOfOp(o) = c
        /\ active' = [active EXCEPT ![c] = IF @ = o THEN NoOp ELSE @]
    BY <1>2 DEF SchedulerStep, EndScheduled, ChatOfOp
  <2>2. /\ state'[s] = st
        /\ \A t \in Sources : /\ t # s => state'[t] = state[t]
                              /\ Closed(state[t]) => Closed(state'[t])
    BY <1>2 DEF TypeOK
  <2>3. PICK k \in Seqs(c) : log[c][k] = s
    <3>1. state[s] # "unseen"
      BY <1>2, LedgerConstants
         DEF LedgerConstants, FreshOps, MembersOK, SourcesOK, WaitingUnowned, Unowned
    <3>2. QED BY <3>1 DEF LogOK, LogComplete
  <2>4. /\ k \in Nat /\ frontier[c] \in Nat
        /\ \A e \in Chats \ {c} : frontier'[e] = frontier[e] /\ active'[e] = active[e]
        /\ frontier'[c] = frontier[c] \/ (frontier[c] <= k /\ frontier'[c] = k)
    BY <1>2, <2>1, <2>3, LogTyped DEF TypeOK, Seqs
  <2>5. \A i \in Seqs(c) : Closed(state[log[c][i]]) => Closed(state'[log[c][i]])
    BY <2>2, LogTyped
  <2>6. FrontierAt(c)'
    <3>1. CASE frontier[c] <= k
      BY <1>2, <2>1, <2>2, <2>3, <2>4, <2>5, <3>1, FrontierAtRun DEF FrontierOK
    <3>2. CASE frontier[c] > k
      <4>1. ~Open(o)
        BY <1>2, <2>1, <2>3, <2>4, <3>2, RunBeyondFrontier
      <4>2. active'[c] = active[c] /\ Closed(state[s])
        <5>1. active[c] # o
          BY <4>1, LedgerConstants DEF LedgerConstants, ActiveOK
        <5>2. phase[o] = "terminal" /\ s \in members[o]
          BY <1>2, <4>1, LedgerConstants
             DEF LedgerConstants, Open, FreshOps, MembersOK
        <5>3. QED BY <2>1, <5>1, <5>2 DEF SourcesOK, FinishedClosed, TypeOK
      <4>3. \A i \in Seqs(c) : Closed(state'[log[c][i]]) => Closed(state[log[c][i]])
        BY <2>2, <4>2, LogTyped
      <4>4. frontier'[c] = frontier[c]
        BY <2>4, <3>2
      <4>5. QED BY <2>1, <2>5, <4>2, <4>3, <4>4, FrontierStays DEF FrontierOK
    <3>3. QED BY <2>4, <3>1, <3>2
  <2>7. ASSUME NEW e \in Chats, e # c PROVE FrontierAt(e)'
    BY <2>1, <2>2, <2>4, <2>7, FrontierElsewhere DEF FrontierOK
  <2>8. QED BY <2>6, <2>7 DEF FrontierOK
<1>3. ASSUME NEW o \in Ops, NEW success \in BOOLEAN, SettleScheduled(s, o, success)
      PROVE  FrontierOK'
  <2>1. PICK d, st : /\ EndScheduled(o, d) /\ Closed(st)
                     /\ state' = [state EXCEPT ![s] = st]
    BY <1>3 DEF SettleScheduled, Closed, Verdicts
  <2>2. ASSUME NEW k \in Seqs(c), log[c][k] = s
        PROVE  \/ UNCHANGED frontier
               \/ frontier[c] <= k /\ frontier' = [frontier EXCEPT ![c] = k]
    <3>1. Position(log[c], s) = k /\ k \in Nat /\ frontier[c] \in Nat
      BY <2>2, OnePosition, LogTyped DEF Seqs
    <3>2. CASE success
      <4>1. frontier' = [frontier EXCEPT ![c] = ThroughSource(frontier[c], k)]
        BY <1>3, <3>1, <3>2 DEF SettleScheduled
      <4>2. CASE frontier[c] <= k
        BY <3>1, <4>1, <4>2, MovedFrontier
      <4>3. CASE ~(frontier[c] <= k)
        BY <3>1, <4>1, <4>3, MovedFrontier DEF TypeOK
      <4>4. QED BY <4>2, <4>3
    <3>3. CASE ~success
      BY <1>3, <3>3 DEF SettleScheduled
    <3>4. QED BY <3>2, <3>3
  <2>3. QED BY <1>2, <1>3, <2>1, <2>2 DEF SettleScheduled
<1>4. ASSUME NEW o \in Ops, ExpireScheduled(s, o) PROVE FrontierOK'
  <2>1. PICK st : Closed(st) /\ state' = [state EXCEPT ![s] = st]
    BY <1>4 DEF ExpireScheduled, Closed, Verdicts
  <2>2. QED BY <1>2, <1>4, <2>1 DEF ExpireScheduled
<1>5. QED BY <1>1, <1>3, <1>4 DEF SchedulerStep

\* claimNext takes an open source and keeps the frontier.
LEMMA ClaimNextFrontier ==
  ASSUME LedgerInv, FrontierOK, NEW c \in Chats, NEW o \in Ops, ClaimNext(c, o)
  PROVE  FrontierOK'
<1> USE DEF LedgerInv
<1>1. PICK i \in Seqs(c) :
        /\ state[log[c][i]] = "pending"
        /\ state' = [state EXCEPT ![log[c][i]] = "claimed"]
        /\ OpenOperation(log[c][i], o)
  BY DEF ClaimNext, Claimable, Pending
<1>2. log[c][i] \in Sources /\ UNCHANGED log
  BY DEF ClaimNext, Seqs, TypeOK
<1>3. /\ \A t \in Sources : Closed(state'[t]) = Closed(state[t])
      /\ ~Closed(state'[log[c][i]])
  BY <1>1, <1>2 DEF TypeOK, Closed, Verdicts
<1>4. QED BY <1>1, <1>2, <1>3, FrontierUntouched, OpeningKeepsBusy

\* The calls on an unfinished operation: its chat is busy, so its frontier may
\* lag but never moves.
LEMMA OperationStepFrontier ==
  ASSUME LedgerInv, FrontierOK, NEW o \in Ops, OperationStep(o, version[o])
  PROVE  FrontierOK'
<1> DEFINE v == version[o]
<1> USE DEF LedgerInv
<1>1. ASSUME UNCHANGED <<log, state, active, frontier>> PROVE FrontierOK'
  <2>1. ASSUME NEW c \in Chats PROVE FrontierAt(c)'
    BY <1>1, FrontierStays DEF FrontierOK
  <2>2. QED BY <2>1 DEF FrontierOK
<1>2. ASSUME NEW s \in Sources, ~Closed(state[s]),
             state' = [state EXCEPT ![s] = "claimed"],
             UNCHANGED log \/ log' = [log EXCEPT ![ChatOf[s]] = Append(@, s)],
             UNCHANGED <<active, frontier>>
      PROVE  FrontierOK'
  <2>1. /\ \A t \in Sources : Closed(state'[t]) = Closed(state[t])
        /\ ~Closed(state'[s])
    BY <1>2 DEF TypeOK, Closed, Verdicts
  <2>2. QED BY <1>2, <2>1, FrontierUntouched
<1>3. ASSUME BindHarness(o, v) \/ FinishHarness(o, v) PROVE FrontierOK'
  BY <1>1, <1>3 DEF BindHarness, FinishHarness, sourceVars, chatVars
<1>4. ASSUME NEW i \in Intents, AppendIntent(o, i, v) PROVE FrontierOK'
  BY <1>1, <1>4 DEF AppendIntent, sourceVars, chatVars
<1>5. ASSUME NEW s \in Sources, AcceptCancellation(o, s, v) PROVE FrontierOK'
  BY <1>1, <1>5 DEF AcceptCancellation, sourceVars, chatVars
<1>6. ASSUME NEW s \in Sources, AttachQueued(o, s, v) PROVE FrontierOK'
  BY <1>2, <1>6 DEF AttachQueued, Unclaimed, Closed, Verdicts, chatVars
<1>7. ASSUME NEW s \in Sources, AcceptAndCancel(o, s, v) PROVE FrontierOK'
  <2>1. /\ ~Closed(state[s]) /\ state' = [state EXCEPT ![s] = "claimed"]
        /\ UNCHANGED <<active, frontier>>
        /\ UNCHANGED log \/ log' = [log EXCEPT ![ChatOf[s]] = Append(@, s)]
    BY <1>7 DEF AcceptAndCancel, Closed, Verdicts, chatVars
  <2>2. QED BY <1>2, <2>1
<1>8. ASSUME NEW s \in Sources, NEW q \in QueueStates, RecordQueuedInput(o, s, q, v)
      PROVE  FrontierOK'
  <2> DEFINE c == ChatOf[s]
  <2>1. /\ Open(o) /\ c = ChatOfOp(o) /\ UNCHANGED <<log, active, frontier>>
    BY <1>8 DEF RecordQueuedInput, chatVars
  <2>2. CASE RecordFirst(o, s)
    BY <1>2, <2>1, <2>2 DEF RecordFirst, SourceStateForQueue, Closed, Verdicts
  <2>3. CASE RecordNext(o, s, q)
    <3>1. active'[c] # NoOp
      BY <2>1, LedgerConstants DEF LedgerConstants, ActiveOK
    <3>2. \A t \in Sources : /\ t # s => state'[t] = state[t]
                             /\ Closed(state[t]) => Closed(state'[t])
      BY <2>3 DEF RecordNext, QueueTransition, SourceStateForQueue, TypeOK, Closed,
                  Verdicts
    <3>3. ASSUME NEW d \in Chats PROVE FrontierAt(d)'
      <4>1. CASE d = c
        BY <2>1, <3>1, <3>2, <4>1, LogTyped, FrontierStays DEF FrontierOK
      <4>2. CASE d # c
        BY <2>1, <3>2, <4>2, FrontierElsewhere DEF FrontierOK
      <4>3. QED BY <4>1, <4>2
    <3>4. QED BY <3>3 DEF FrontierOK
  <2>4. QED BY <1>8, <2>2, <2>3 DEF RecordQueuedInput
<1>9. QED
  BY <1>3, <1>4, <1>5, <1>6, <1>7, <1>8 DEF OperationStep

\* commitTerminal gives the chat back with the frontier computed anew.
LEMMA SettleStepFrontier ==
  ASSUME LedgerInv, FrontierOK, NEW o \in Ops, SettleStep(o, version[o])
  PROVE  FrontierOK'
<1> USE DEF LedgerInv
<1>1. PICK d \in Dispositions, verdict \in [members[o] -> Verdicts] :
        CommitTerminal(o, version[o], d, verdict)
  BY DEF SettleStep
<1>2. /\ Open(o) /\ state' = Settled(o, verdict) /\ UNCHANGED log
      /\ active' = [active EXCEPT ![ChatOfOp(o)] = NoOp]
  BY <1>1 DEF CommitTerminal, Committable, ReleaseChat
<1> PICK c \in Chats : c = ChatOfOp(o)
  BY <1>2, LedgerConstants DEF LedgerConstants, MembersOK, TypeOK, Open, ChatOfOp
<1>3. PICK n \in 0..Len(log[c]) :
        ClosedFrontier(c, state', n) /\ frontier' = [frontier EXCEPT ![c] = n]
  BY <1>1 DEF CommitTerminal
<1>4. /\ frontier'[c] = n
      /\ \A e \in Chats \ {c} : frontier'[e] = frontier[e] /\ active'[e] = active[e]
  BY <1>2, <1>3 DEF TypeOK
<1>5. \A t \in Sources : /\ t \notin members[o] => state'[t] = state[t]
                         /\ Closed(state[t]) => Closed(state'[t])
  BY <1>2 DEF Settled, Closed
<1>6. FrontierAt(c)'
  BY <1>2, <1>3, <1>4, <1>5, LogTyped, FrontierComputed DEF FrontierOK
<1>7. ASSUME NEW e \in Chats, e # c PROVE FrontierAt(e)'
  <2>1. \A t \in members[o] : ChatOf[t] = c
    BY <1>2 DEF MembersOK, Open
  <2>2. QED
    BY <1>2, <1>4, <1>5, <1>7, <2>1, FrontierElsewhere DEF FrontierOK
<1>8. QED BY <1>6, <1>7 DEF FrontierOK

\* Every call keeps the frontiers explained.
LEMMA FrontierStep ==
  ASSUME LedgerInv, FrontierOK, RunsOK, [Next]_vars
  PROVE  FrontierOK'
<1>1. CASE UNCHANGED vars
  BY <1>1 DEF vars, sourceVars, chatVars, FrontierOK, FrontierAt, RunCrossed,
              EndedRuns, Seqs, Closed
<1>2. QED
  BY <1>1, SourceStepFrontier, SchedulerStepFrontier, ClaimNextFrontier, OperationStepFrontier,
     SettleStepFrontier DEF Next

-----------------------------------------------------------------------------
(* Scheduled runs.                                                         *)

\* A step that accepts no scheduled source, opens no operation for one and
\* leaves the sources of unfinished runs alone.
LEMMA RunsKeep ==
  ASSUME TypeOK, RunsOK,
         \/ UNCHANGED log
         \/ \E x \in Sources : /\ ~Scheduled(x)
                              /\ log' = [log EXCEPT ![ChatOf[x]] = Append(@, x)],
         \A t \in Sources : Scheduled(t) =>
           /\ state'[t] = "pending" => state[t] = "pending"
           /\ \A o \in Ops : Open(o)' /\ primary'[o] = t =>
                /\ Open(o) /\ primary[o] = t
                /\ state[t] = "claimed" => state'[t] = "claimed"
  PROVE  RunsOK'
<1> SUFFICES ASSUME NEW t \in Sources, Scheduled(t), LastRun(t)
             PROVE  LastRun(t)'
  BY DEF RunsOK
<1> PICK c \in Chats : c = ChatOf[t]
  BY LedgerConstants DEF LedgerConstants
<1>1. CASE log'[c] = log[c]
  BY <1>1 DEF LastRun, Seqs
<1>2. ASSUME NEW x \in Sources, ~Scheduled(x), log'[c] = Append(log[c], x)
      PROVE  LastRun(t)'
  <2>1. log[c] \in Seq(Sources) /\ Len(log[c]) \in Nat
    BY LogTyped
  <2>2. ASSUME NEW i \in Seqs(c)', NEW j \in Seqs(c)', log'[c][i] = t,
               Scheduled(log'[c][j])
        PROVE  j <= i
    <3>1. log'[c][Len(log[c]) + 1] = x /\ Len(log'[c]) = Len(log[c]) + 1
      BY <1>2, <2>1, AppendProperties
    <3>2. i \in Seqs(c) /\ j \in Seqs(c)
      BY <1>2, <2>1, <2>2, <3>1 DEF Seqs
    <3>3. log'[c][i] = log[c][i] /\ log'[c][j] = log[c][j]
      BY <1>2, <2>1, <3>2, AppendProperties DEF Seqs
    <3>4. QED BY <2>2, <3>2, <3>3 DEF LastRun
  <2>3. QED BY <2>2 DEF LastRun
<1>3. ASSUME NEW x \in Sources, ~Scheduled(x),
             log' = [log EXCEPT ![ChatOf[x]] = Append(@, x)]
      PROVE  LastRun(t)'
  <2>1. log'[c] = log[c] \/ log'[c] = Append(log[c], x)
    BY <1>3 DEF TypeOK
  <2>2. QED BY <1>1, <1>2, <1>3, <2>1
<1>4. QED BY <1>1, <1>3

\* A run is accepted in an idle chat, at the end of its log.
LEMMA AcceptScheduledRuns ==
  ASSUME LedgerInv, RunsOK, NEW s \in Sources, Scheduled(s), NEW o \in Ops,
         AcceptScheduled(s, o)
  PROVE  RunsOK'
<1> PICK c \in Chats : c = ChatOf[s]
  BY LedgerConstants DEF LedgerConstants
<1> USE DEF LedgerInv
<1>1. /\ state[s] = "unseen" /\ active[c] = NoOp /\ phase[o] = "unused"
      /\ log' = [log EXCEPT ![c] = Append(@, s)]
      /\ state' = [state EXCEPT ![s] = "claimed"]
      /\ phase' = [phase EXCEPT ![o] = "claimed"]
      /\ primary' = [primary EXCEPT ![o] = s]
  BY DEF AcceptScheduled, OpenOperation, ChatIsIdle, NewOperationId
<1>2. /\ log'[c] = Append(log[c], s)
      /\ \A d \in Chats \ {c} : log'[d] = log[d]
      /\ state'[s] = "claimed" /\ \A t \in Sources \ {s} : state'[t] = state[t]
      /\ primary'[o] = s
      /\ \A p \in Ops \ {o} : phase'[p] = phase[p] /\ primary'[p] = primary[p]
  BY <1>1 DEF TypeOK
<1>3. LastRun(s)'
  <2>1. log[c] \in Seq(Sources) /\ Len(log[c]) \in Nat
    BY LogTyped
  <2>2. Len(log'[c]) = Len(log[c]) + 1
    BY <1>2, <2>1, AppendProperties
  <2>3. \A i \in Seqs(c) : log'[c][i] # s
    BY <1>1, <1>2, <2>1, AppendProperties DEF LogOK, LogSound, Seqs
  <2>4. ASSUME NEW i \in Seqs(c)', NEW j \in Seqs(c)', log'[c][i] = s
        PROVE  j <= i
    BY <2>1, <2>2, <2>3, <2>4 DEF Seqs
  <2>5. QED BY <2>4 DEF LastRun
<1>4. ASSUME NEW t \in Sources, Scheduled(t), NEW p \in Ops, p # o, Open(p)',
             primary'[p] = t
      PROVE  state'[t] = "claimed" /\ LastRun(t)'
  <2>1. Open(p) /\ primary[p] = t
    BY <1>2, <1>4 DEF Open
  <2>2. state[t] = "claimed" /\ LastRun(t) /\ t # s
    BY <1>1, <1>4, <2>1 DEF RunsOK
  <2>3. ChatOf[t] # c /\ ChatOf[t] \in Chats
    BY <1>1, <2>1, LedgerConstants DEF LedgerConstants, ActiveOK, ChatOfOp
  <2>4. log'[ChatOf[t]] = log[ChatOf[t]]
    BY <1>2, <2>3
  <2>5. QED BY <1>2, <2>2, <2>4 DEF LastRun, Seqs
<1>5. ASSUME NEW t \in Sources, Scheduled(t) PROVE state'[t] # "pending"
  BY <1>2, <1>5 DEF RunsOK
<1>6. QED BY <1>2, <1>3, <1>4, <1>5 DEF RunsOK

\* Every call keeps the sources of unfinished runs claimed and the last ones.
LEMMA RunsStep ==
  ASSUME LedgerInv, RunsOK, [Next]_vars
  PROVE  RunsOK'
<1> USE DEF LedgerInv
<1>1. ASSUME NEW t \in Sources, Scheduled(t), NEW p \in Ops, Open(p), primary[p] = t
      PROVE  state[t] = "claimed" /\ t \in members[p] /\ ~Joinable(p)
  BY <1>1 DEF RunsOK, MembersOK, Joinable, Open
<1>2. ASSUME UNCHANGED log,
             \A t \in Sources : Scheduled(t) /\ state'[t] = "pending" =>
               state[t] = "pending",
             UNCHANGED primary,
             \A p \in Ops : Open(p)' => Open(p),
             \A t \in Sources, p \in Ops :
               Scheduled(t) /\ Open(p)' /\ Open(p) /\ primary[p] = t =>
                 state'[t] = state[t]
      PROVE  RunsOK'
  BY <1>2, RunsKeep
<1>3. ASSUME NEW s \in Sources, SourceStep(s) PROVE RunsOK'
  <2>1. ~Scheduled(s) /\ \A t \in Sources : Scheduled(t) => state'[t] = state[t]
    BY <1>3 DEF SourceStep, AcceptSource, AcceptAndClaim, Withdraw, AckNative, TypeOK
  <2>2. UNCHANGED log \/ log' = [log EXCEPT ![ChatOf[s]] = Append(@, s)]
    BY <1>3 DEF SourceStep, AcceptSource, AcceptAndClaim, Withdraw, AckNative
  <2>3. ASSUME NEW t \in Sources, Scheduled(t), NEW p \in Ops, Open(p)',
               primary'[p] = t
        PROVE  Open(p) /\ primary[p] = t
    <3>1. CASE UNCHANGED <<phase, primary>>
      BY <2>3, <3>1 DEF Open
    <3>2. ASSUME NEW o \in Ops, OpenOperation(s, o) PROVE Open(p) /\ primary[p] = t
      BY <2>1, <2>3, <3>2 DEF OpenOperation, Open, TypeOK
    <3>3. QED
      BY <1>3, <3>1, <3>2
         DEF SourceStep, AcceptSource, AcceptAndClaim, Withdraw, AckNative, opVars
  <2>4. QED BY <2>1, <2>2, <2>3, RunsKeep
<1>4. ASSUME NEW s \in Sources, SchedulerStep(s) PROVE RunsOK'
  <2>1. ASSUME NEW o \in Ops, primary[o] = s, NEW d, EndScheduled(o, d),
               NEW st \in Verdicts, state' = [state EXCEPT ![s] = st]
        PROVE  RunsOK'
    <3>1. /\ UNCHANGED <<log, primary>> /\ ~Open(o)'
          /\ \A p \in Ops \ {o} : phase'[p] = phase[p]
      BY <2>1 DEF EndScheduled, Open, TypeOK
    <3>2. \A t \in Sources : state'[t] = IF t = s THEN st ELSE state[t]
      BY <2>1 DEF TypeOK
    <3>3. \A p \in Ops : Open(p)' => Open(p) /\ p # o
      BY <3>1 DEF Open
    <3>4. \A p \in Ops \ {o} : Open(p) => primary[p] # s
      <4>1. s \in members[o]
        BY <2>1, LedgerConstants DEF LedgerConstants, MembersOK, FreshOps
      <4>2. QED BY <2>1, <4>1 DEF MembersOK, SourcesOK, SingleOwner, Open
    <3>5. st # "pending"
      BY DEF Verdicts
    <3>6. QED BY <1>2, <3>1, <3>2, <3>3, <3>4, <3>5
  <2>2. ASSUME NEW o \in Ops, NEW success \in BOOLEAN, SettleScheduled(s, o, success)
        PROVE  RunsOK'
    BY <2>1, <2>2 DEF SettleScheduled, Verdicts
  <2>3. ASSUME NEW o \in Ops, ExpireScheduled(s, o) PROVE RunsOK'
    BY <2>1, <2>3 DEF ExpireScheduled, Verdicts, Closed
  <2>4. QED BY <1>4, <2>2, <2>3, AcceptScheduledRuns DEF SchedulerStep
<1>5. ASSUME NEW c \in Chats, NEW o \in Ops, ClaimNext(c, o) PROVE RunsOK'
  <2>1. PICK i \in Seqs(c) :
          /\ state[log[c][i]] = "pending"
          /\ state' = [state EXCEPT ![log[c][i]] = "claimed"]
          /\ OpenOperation(log[c][i], o)
    BY <1>5 DEF ClaimNext, Claimable, Pending
  <2>2. log[c][i] \in Sources /\ ~Scheduled(log[c][i]) /\ UNCHANGED log
    BY <1>5, <2>1, LogTyped DEF ClaimNext, RunsOK
  <2>3. \A t \in Sources : Scheduled(t) => state'[t] = state[t]
    BY <2>1, <2>2 DEF TypeOK
  <2>4. ASSUME NEW t \in Sources, Scheduled(t), NEW p \in Ops, Open(p)',
               primary'[p] = t
        PROVE  Open(p) /\ primary[p] = t
    BY <2>1, <2>2, <2>4 DEF OpenOperation, Open, TypeOK
  <2>5. QED BY <2>2, <2>3, <2>4, RunsKeep
<1>6. ASSUME NEW o \in Ops, OperationStep(o, version[o]) PROVE RunsOK'
  <2> DEFINE v == version[o]
  <2>1. CASE BindHarness(o, v)
    BY <1>2, <2>1 DEF BindHarness, Open, TypeOK, sourceVars
  <2>2. CASE FinishHarness(o, v)
    BY <1>2, <2>2 DEF FinishHarness, Finishable, Open, TypeOK, sourceVars
  <2>3. ASSUME NEW i \in Intents, AppendIntent(o, i, v) PROVE RunsOK'
    BY <1>2, <2>3 DEF AppendIntent, Open, sourceVars
  <2>4. ASSUME NEW x \in Sources, AcceptCancellation(o, x, v) PROVE RunsOK'
    BY <1>2, <2>4 DEF AcceptCancellation, RecordCancellation, Open, TypeOK, sourceVars
  <2>5. ASSUME NEW x \in Sources, AttachQueued(o, x, v) PROVE RunsOK'
    <3>1. /\ state[x] = "pending" /\ state' = [state EXCEPT ![x] = "claimed"]
          /\ UNCHANGED <<log, phase, primary>>
      BY <2>5 DEF AttachQueued, Unclaimed
    <3>2. ~Scheduled(x)
      BY <3>1 DEF RunsOK
    <3>3. QED BY <1>2, <3>1, <3>2 DEF TypeOK, Open
  <2>6. ASSUME NEW x \in Sources, AcceptAndCancel(o, x, v) PROVE RunsOK'
    <3>1. /\ ~Scheduled(x) /\ Open(o) /\ UNCHANGED primary
          /\ state' = [state EXCEPT ![x] = "claimed"]
          /\ phase' = [phase EXCEPT ![o] = "cancelling"]
          /\ UNCHANGED log \/ log' = [log EXCEPT ![ChatOf[x]] = Append(@, x)]
      BY <2>6 DEF AcceptAndCancel, RecordCancellation, Scheduled
    <3>2. /\ \A t \in Sources : Scheduled(t) => state'[t] = state[t]
          /\ \A p \in Ops : Open(p)' => Open(p)
      BY <3>1 DEF TypeOK, Open
    <3>3. QED BY <3>1, <3>2, RunsKeep
  <2>7. ASSUME NEW x \in Sources, NEW q \in QueueStates, Joinable(o),
               RecordQueuedInput(o, x, q, v)
        PROVE  RunsOK'
    <3>1. /\ UNCHANGED <<log, phase, primary>>
          /\ \A t \in Sources \ {x} : state'[t] = state[t]
          /\ state'[x] # "pending"
          /\ state[x] = "pending" \/ x \in members[o]
      BY <2>7 DEF RecordQueuedInput, RecordFirst, RecordNext, SourceStateForQueue,
                  QueueStates, TypeOK
    <3>2. ASSUME NEW p \in Ops, Scheduled(x), Open(p), primary[p] = x PROVE FALSE
      BY <1>1, <2>7, <3>1, <3>2 DEF SourcesOK, SingleOwner
    <3>3. QED BY <1>2, <3>1, <3>2 DEF Open
  <2>8. QED
    BY <1>6, <2>1, <2>2, <2>3, <2>4, <2>5, <2>6, <2>7 DEF OperationStep
<1>7. ASSUME NEW o \in Ops, SettleStep(o, version[o]) PROVE RunsOK'
  <2>1. PICK d \in Dispositions, verdict \in [members[o] -> Verdicts] :
          CommitTerminal(o, version[o], d, verdict)
    BY <1>7 DEF SettleStep
  <2>2. /\ state' = Settled(o, verdict) /\ UNCHANGED <<log, primary>>
        /\ phase' = [phase EXCEPT ![o] = "terminal"]
    BY <2>1 DEF CommitTerminal
  <2>3. \A p \in Ops : Open(p)' => Open(p) /\ p # o
    BY <2>2 DEF TypeOK, Open
  <2>4. /\ \A t \in Sources : t \notin members[o] => state'[t] = state[t]
        /\ \A t \in Sources : t \in members[o] => state'[t] # "pending"
    BY <2>2 DEF Settled, Verdicts
  <2>5. \A t \in Sources, p \in Ops : t \in members[p] /\ p # o => t \notin members[o]
    BY DEF SourcesOK, SingleOwner
  <2>6. \A t \in Sources, p \in Ops :
          Scheduled(t) /\ Open(p)' /\ Open(p) /\ primary[p] = t => state'[t] = state[t]
    <3> SUFFICES ASSUME NEW t \in Sources, NEW p \in Ops, Scheduled(t), Open(p)',
                        Open(p), primary[p] = t
                 PROVE  state'[t] = state[t]
      OBVIOUS
    <3>1. t \in members[p] /\ p # o
      BY <1>1, <2>3
    <3>2. t \notin members[o]
      BY <2>5, <3>1
    <3>3. QED BY <2>4, <3>2
  <2>7. \A t \in Sources : state'[t] = "pending" => state[t] = "pending"
    BY <2>4
  <2>8. QED BY <1>2, <2>2, <2>3, <2>6, <2>7
<1>8. CASE UNCHANGED vars
  BY <1>2, <1>8 DEF vars, sourceVars, opVars, Open
<1>9. QED BY <1>3, <1>4, <1>5, <1>6, <1>7, <1>8 DEF Next

-----------------------------------------------------------------------------
(* Targets.                                                                *)

\* What any step may do to an operation that was opened before.
OpenedStays ==
  \A o \in Ops : phase[o] # "unused" =>
    /\ phase'[o] # "unused" /\ primary'[o] = primary[o]
    /\ phase[o] = "terminal" => phase'[o] = "terminal"

\* An operation that was opened is never opened again, keeps its primary
\* source, and once terminal stays so.
LEMMA OpenedOnce ==
  ASSUME TypeOK, [Next]_vars
  PROVE  OpenedStays
<1> USE DEF TypeOK, OpenedStays
<1>1. ASSUME NEW s \in Sources, SourceStep(s) PROVE OpenedStays
  BY <1>1 DEF SourceStep, AcceptSource, AcceptAndClaim, OpenOperation,
              NewOperationId, Withdraw, AckNative, opVars
<1>1a. ASSUME NEW s \in Sources, SchedulerStep(s) PROVE OpenedStays
  <2>1. ASSUME NEW p \in Ops, NEW d, EndScheduled(p, d) PROVE OpenedStays
    BY <2>1 DEF EndScheduled, Open
  <2>2. ASSUME NEW p \in Ops, AcceptScheduled(s, p) PROVE OpenedStays
    BY <2>2 DEF AcceptScheduled, OpenOperation, NewOperationId
  <2>3. QED
    BY <1>1a, <2>1, <2>2 DEF SchedulerStep, SettleScheduled, ExpireScheduled
<1>2. ASSUME NEW c \in Chats, NEW p \in Ops, ClaimNext(c, p) PROVE OpenedStays
  BY <1>2 DEF ClaimNext, OpenOperation, NewOperationId
<1>3. ASSUME NEW p \in Ops, OperationStep(p, version[p]) PROVE OpenedStays
  <2>1. CASE BindHarness(p, version[p])
    BY <2>1 DEF BindHarness, Open
  <2>2. CASE FinishHarness(p, version[p])
    BY <2>2 DEF FinishHarness, Finishable
  <2>3. ASSUME NEW i \in Intents, AppendIntent(p, i, version[p]) PROVE OpenedStays
    BY <2>3 DEF AppendIntent
  <2>4. ASSUME NEW s \in Sources,
               \/ AttachQueued(p, s, version[p])
               \/ \E q \in QueueStates : RecordQueuedInput(p, s, q, version[p])
        PROVE  OpenedStays
    BY <2>4 DEF AttachQueued, RecordQueuedInput
  <2>5. ASSUME NEW s \in Sources,
               \/ AcceptCancellation(p, s, version[p])
               \/ AcceptAndCancel(p, s, version[p])
        PROVE  OpenedStays
    BY <2>5 DEF AcceptCancellation, AcceptAndCancel, RecordCancellation, Open
  <2>6. QED BY <1>3, <2>1, <2>2, <2>3, <2>4, <2>5 DEF OperationStep
<1>4. ASSUME NEW p \in Ops, SettleStep(p, version[p]) PROVE OpenedStays
  BY <1>4 DEF SettleStep, CommitTerminal
<1>5. CASE UNCHANGED vars
  BY <1>5 DEF vars, opVars
<1>6. QED BY <1>1, <1>1a, <1>2, <1>3, <1>4, <1>5 DEF Next

\* No operation but o holds source s.
HeldOnlyBy(o, s) == \A p \in Ops \ {o} : s \notin members[p]

\* A step that leaves a source and its owners alone, or that is shown to
\* respect the target that the source has after it.
LEMMA RespectsTargets ==
  ASSUME TypeOK, TargetInChat, TargetRespected, OpenedStays,
         \A t \in Sources :
           \/ /\ target'[t] = target[t]
              /\ \A p \in Ops : t \in members'[p] => t \in members[p]
           \/ \A o \in Ops : target'[t] = o /\ Open(o)' => HeldOnlyBy(o, t)'
  PROVE  TargetRespected'
<1> SUFFICES ASSUME NEW t \in Sources, NEW o \in Ops, target'[t] = o, Open(o)'
             PROVE  HeldOnlyBy(o, t)'
  BY DEF TargetRespected, HeldOnlyBy
<1>1. CASE /\ target'[t] = target[t]
           /\ \A p \in Ops : t \in members'[p] => t \in members[p]
  <2>1. Open(o)
    BY <1>1, LedgerConstants DEF LedgerConstants, TargetInChat, OpenedStays, Open
  <2>2. QED BY <1>1, <2>1 DEF TargetRespected, HeldOnlyBy
<1>2. QED BY <1>1

\* A source's target stays in its chat unless the step writes it.
LEMMA TargetsInChat ==
  ASSUME TypeOK, TargetInChat, OpenedStays,
         \A t \in Sources :
           \/ target'[t] = target[t]
           \/ target'[t] = NoOp
           \/ /\ target'[t] \in Ops /\ phase[target'[t]] # "unused"
              /\ ChatOfOp(target'[t]) = ChatOf[t]
  PROVE  TargetInChat'
<1> SUFFICES ASSUME NEW t \in Sources, NEW o, o = target'[t], o # NoOp
             PROVE  phase'[o] # "unused" /\ ChatOf[primary'[o]] = ChatOf[t]
  BY DEF TargetInChat, ChatOfOp
<1>1. o \in Ops /\ phase[o] # "unused" /\ ChatOf[primary[o]] = ChatOf[t]
  BY DEF TypeOK, TargetInChat, ChatOfOp
<1>2. QED BY <1>1 DEF OpenedStays

\* A new operation in an idle chat takes no source from its target.
LEMMA OpeningRespects ==
  ASSUME LedgerInv, TargetInChat, TargetRespected, OpenedStays,
         NEW s \in Sources, NEW o \in Ops, state[s] \in {"unseen", "pending"},
         ChatIsIdle(ChatOf[s]), NewOperationId(o), OpenOperation(s, o),
         UNCHANGED target
  PROVE  TargetInChat' /\ TargetRespected'
<1> USE DEF LedgerInv
<1>1. /\ members' = [members EXCEPT ![o] = {s}]
      /\ phase' = [phase EXCEPT ![o] = "claimed"]
  BY DEF OpenOperation
<1>2. TargetInChat'
  BY TargetsInChat
<1>3. Unowned(s)
  BY DEF SourcesOK, WaitingUnowned
<1>4. ASSUME NEW t \in Sources, t # s, NEW p \in Ops, t \in members'[p]
      PROVE  t \in members[p]
  BY <1>1, <1>4 DEF TypeOK
<1>5. ASSUME NEW p \in Ops, target'[s] = p, Open(p)'
      PROVE  HeldOnlyBy(p, s)'
  <2>1. phase[p] # "unused" /\ ChatOfOp(p) = ChatOf[s]
    BY <1>5, LedgerConstants DEF LedgerConstants, TargetInChat
  <2>2. Open(p)
    BY <1>5, <2>1 DEF OpenedStays, Open
  <2>3. FALSE
    BY <2>1, <2>2, LedgerConstants DEF LedgerConstants, ActiveOK, ChatIsIdle
  <2>4. QED BY <2>3
<1>6. TargetRespected'
  BY <1>4, <1>5, RespectsTargets
<1>7. QED BY <1>2, <1>6

\* Every call respects the targets.
LEMMA TargetStep ==
  ASSUME LedgerInv, TargetInChat, TargetRespected, [Next]_vars
  PROVE  TargetInChat' /\ TargetRespected'
<1> DEFINE Goal == TargetInChat' /\ TargetRespected'
<1> USE DEF LedgerInv
<1>1. OpenedStays
  BY OpenedOnce
<1>2. ASSUME UNCHANGED <<target, members>> PROVE Goal
  BY <1>1, <1>2, TargetsInChat, RespectsTargets
<1>3. ASSUME NEW s \in Sources, NEW o \in Ops, Open(o), ChatOfOp(o) = ChatOf[s],
             target' = [target EXCEPT ![s] = o],
             members' = [members EXCEPT ![o] = @ \cup {s}],
             state[s] \in {"unseen", "pending"}
      PROVE  Goal
  <2>1. /\ \A t \in Sources : t # s => target'[t] = target[t]
        /\ target'[s] = o
        /\ \A t \in Sources, p \in Ops :
             t # s \/ p # o => (t \in members'[p] <=> t \in members[p])
    BY <1>3 DEF TypeOK
  <2>2. phase[o] # "unused" /\ Unowned(s)
    BY <1>3 DEF Open, SourcesOK, WaitingUnowned
  <2>3. TargetInChat'
    BY <1>1, <1>3, <2>1, <2>2, TargetsInChat
  <2>4. HeldOnlyBy(o, s)'
    BY <2>1, <2>2 DEF HeldOnlyBy, Unowned
  <2>5. TargetRespected'
    BY <1>1, <2>1, <2>4, RespectsTargets
  <2>6. QED BY <2>3, <2>5
<1>4. ASSUME NEW s \in Sources, SourceStep(s) PROVE Goal
  <2>1. ASSUME NEW o \in Ops \cup {NoOp}, AcceptSource(s, o) PROVE Goal
    <3>1. /\ state[s] = "unseen" /\ UNCHANGED <<members, phase, primary>>
          /\ o # NoOp => Open(o) /\ ChatOfOp(o) = ChatOf[s]
          /\ \A t \in Sources : t # s => target'[t] = target[t]
          /\ target'[s] = o
      BY <2>1 DEF AcceptSource, opVars, TypeOK
    <3>2. TargetInChat'
      BY <1>1, <3>1, TargetsInChat DEF Open
    <3>3. \A p \in Ops : HeldOnlyBy(p, s)'
      BY <3>1 DEF HeldOnlyBy, SourcesOK, WaitingUnowned, Unowned
    <3>4. TargetRespected'
      BY <1>1, <3>1, <3>3, RespectsTargets
    <3>5. QED BY <3>2, <3>4
  <2>2. ASSUME NEW o \in Ops, AcceptAndClaim(s, o) PROVE Goal
    BY <1>1, <2>2, OpeningRespects DEF AcceptAndClaim
  <2>3. CASE Withdraw(s) \/ AckNative(s)
    BY <1>2, <2>3 DEF Withdraw, AckNative, opVars
  <2>4. QED BY <1>4, <2>1, <2>2, <2>3 DEF SourceStep
<1>4a. ASSUME NEW s \in Sources, SchedulerStep(s) PROVE Goal
  <2>1. ASSUME NEW o \in Ops, AcceptScheduled(s, o) PROVE Goal
    BY <1>1, <2>1, OpeningRespects DEF AcceptScheduled
  <2>2. ASSUME NEW o \in Ops, NEW d, EndScheduled(o, d) PROVE Goal
    BY <1>2, <2>2 DEF EndScheduled
  <2>3. QED
    BY <1>4a, <2>1, <2>2 DEF SchedulerStep, SettleScheduled, ExpireScheduled
<1>5. ASSUME NEW c \in Chats, NEW o \in Ops, ClaimNext(c, o) PROVE Goal
  <2>1. PICK i \in Seqs(c) : state[log[c][i]] = "pending" /\ OpenOperation(log[c][i], o)
    BY <1>5 DEF ClaimNext, Claimable, Pending
  <2>2. log[c][i] \in Sources /\ ChatOf[log[c][i]] = c
    BY LogTyped DEF LogOK, LogSound
  <2>3. QED BY <1>1, <1>5, <2>1, <2>2, OpeningRespects DEF ClaimNext
<1>6. ASSUME NEW o \in Ops, OperationStep(o, version[o]) PROVE Goal
  <2>1. ASSUME \/ BindHarness(o, version[o]) \/ FinishHarness(o, version[o])
               \/ \E i \in Intents : AppendIntent(o, i, version[o])
               \/ \E s \in Sources : AcceptCancellation(o, s, version[o])
        PROVE  Goal
    BY <1>2, <2>1 DEF BindHarness, FinishHarness, AppendIntent, AcceptCancellation,
                      sourceVars
  <2>2. ASSUME NEW s \in Sources, AttachQueued(o, s, version[o]) PROVE Goal
    <3>1. active[ChatOf[s]] = o /\ phase[o] = "executing"
      BY <2>2 DEF AttachQueued
    <3>2. Open(o) /\ ChatOfOp(o) = ChatOf[s]
      BY <3>1, LedgerConstants DEF LedgerConstants, ActiveOK, Open
    <3>3. QED BY <1>3, <2>2, <3>2 DEF AttachQueued, Unclaimed
  <2>3. ASSUME NEW s \in Sources, AcceptAndCancel(o, s, version[o]) PROVE Goal
    BY <1>3, <2>3 DEF AcceptAndCancel
  <2>4. ASSUME NEW s \in Sources, NEW q \in QueueStates,
               RecordQueuedInput(o, s, q, version[o])
        PROVE  Goal
    <3>1. CASE RecordNext(o, s, q)
      BY <1>2, <2>4, <3>1 DEF RecordQueuedInput, RecordNext
    <3>2. CASE RecordFirst(o, s)
      <4>1. Open(o) /\ UNCHANGED <<target, phase, primary>> /\ state[s] = "pending"
        BY <2>4, <3>2 DEF RecordQueuedInput, RecordFirst
      <4>2. s \notin members[o]
        BY <4>1 DEF SourcesOK, WaitingUnowned, Unowned
      <4>3. target[s] = o
        BY <2>4, <4>1, <4>2 DEF RecordQueuedInput, MembersOK, Open
      <4>4. /\ \A t \in Sources, p \in Ops :
                 t # s \/ p # o => (t \in members'[p] <=> t \in members[p])
            /\ HeldOnlyBy(o, s)
        BY <3>2 DEF RecordFirst, HeldOnlyBy, TypeOK
      <4>5. HeldOnlyBy(o, s)'
        BY <4>4 DEF HeldOnlyBy
      <4>6. TargetRespected'
        BY <1>1, <4>1, <4>3, <4>4, <4>5, RespectsTargets
      <4>7. QED BY <1>1, <4>1, <4>6, TargetsInChat
    <3>3. QED BY <2>4, <3>1, <3>2 DEF RecordQueuedInput
  <2>5. QED BY <1>6, <2>1, <2>2, <2>3, <2>4 DEF OperationStep
<1>7. ASSUME NEW o \in Ops, SettleStep(o, version[o]) PROVE Goal
  BY <1>2, <1>7 DEF SettleStep, CommitTerminal
<1>8. CASE UNCHANGED vars
  BY <1>2, <1>8 DEF vars, sourceVars, opVars
<1>9. QED BY <1>4, <1>4a, <1>5, <1>6, <1>7, <1>8 DEF Next

-----------------------------------------------------------------------------
(* The order in which operations start.                                    *)

\* claimNext and acceptAndClaim are the only calls that start an operation,
\* but for the scheduler.
LEMMA OnlyClaimsOpen ==
  ASSUME TypeOK, [Next]_vars, NEW o \in Ops, NEW s \in Sources, Opens(o, s),
         ~Scheduled(s)
  PROVE  \/ AcceptAndClaim(s, o)
         \/ \E c \in Chats : \E i \in Seqs(c) :
              /\ Claimable(c, i) /\ log[c][i] = s /\ UNCHANGED log
<1> USE DEF TypeOK, Opens
<1>1. ASSUME NEW t \in Sources, NEW p \in Ops, OpenOperation(t, p)
      PROVE  p = o /\ t = s
  BY <1>1 DEF OpenOperation
<1>2. ASSUME NEW t \in Sources, SourceStep(t) PROVE AcceptAndClaim(s, o)
  <2>1. PICK p \in Ops : AcceptAndClaim(t, p)
    BY <1>2 DEF SourceStep, AcceptSource, Withdraw, AckNative, opVars
  <2>2. QED BY <1>1, <2>1 DEF AcceptAndClaim
<1>2a. ASSUME NEW t \in Sources, SchedulerStep(t) PROVE FALSE
  <2>1. ASSUME NEW p \in Ops, AcceptScheduled(t, p) PROVE FALSE
    BY <1>1, <1>2a, <2>1 DEF AcceptScheduled, SchedulerStep
  <2>2. ASSUME NEW p \in Ops, NEW d, EndScheduled(p, d) PROVE FALSE
    BY <2>2 DEF EndScheduled, Open
  <2>3. QED
    BY <1>2a, <2>1, <2>2 DEF SchedulerStep, SettleScheduled, ExpireScheduled
<1>3. ASSUME NEW c \in Chats, NEW p \in Ops, ClaimNext(c, p)
      PROVE  \E i \in Seqs(c) : Claimable(c, i) /\ log[c][i] = s /\ UNCHANGED log
  <2>1. PICK i \in Seqs(c) : Claimable(c, i) /\ OpenOperation(log[c][i], p)
    BY <1>3 DEF ClaimNext
  <2>2. log[c][i] \in Sources /\ UNCHANGED log
    BY <1>3 DEF ClaimNext, Seqs
  <2>3. QED BY <1>1, <2>1, <2>2
<1>4. ASSUME NEW p \in Ops, OperationStep(p, version[p]) PROVE FALSE
  <2>1. Open(p) => p # o
    BY DEF Open
  <2>2. phase' = phase \/ (Open(p) /\ \A q \in Ops \ {p} : phase'[q] = phase[q])
    <3>1. CASE BindHarness(p, version[p]) \/ FinishHarness(p, version[p])
      BY <3>1 DEF BindHarness, FinishHarness, Finishable, Open
    <3>2. ASSUME NEW t \in Sources, \/ AcceptCancellation(p, t, version[p])
                                    \/ AcceptAndCancel(p, t, version[p])
          PROVE  Open(p) /\ \A q \in Ops \ {p} : phase'[q] = phase[q]
      BY <3>2 DEF AcceptCancellation, AcceptAndCancel, RecordCancellation
    <3>3. QED
      BY <1>4, <3>1, <3>2
         DEF OperationStep, AppendIntent, AttachQueued, RecordQueuedInput
  <2>3. QED BY <2>1, <2>2
<1>5. ASSUME NEW p \in Ops, SettleStep(p, version[p]) PROVE FALSE
  BY <1>5 DEF SettleStep, CommitTerminal, Committable, Open
<1>6. CASE UNCHANGED vars
  BY <1>6 DEF vars, opVars
<1>7. QED BY <1>2, <1>2a, <1>3, <1>4, <1>5, <1>6 DEF Next

\* An older source that still waits when an operation starts is a queued
\* message, and so is the source that overtakes it.
LEMMA BarrierStep ==
  ASSUME LedgerInv, [Next]_vars, NEW o \in Ops, NEW s \in Sources, Opens(o, s),
         ~Scheduled(s),
         NEW i \in Pending(ChatOf[s]), i < Position(log'[ChatOf[s]], s)
  PROVE  KindOf[s] = "queued" /\ PlainQueued(log[ChatOf[s]][i])
<1> USE DEF LedgerInv
<1>1. CASE AcceptAndClaim(s, o)
  BY <1>1 DEF AcceptAndClaim
<1>2. ASSUME NEW c \in Chats, NEW j \in Seqs(c), Claimable(c, j), log[c][j] = s,
             UNCHANGED log
      PROVE  KindOf[s] = "queued" /\ PlainQueued(log[ChatOf[s]][i])
  <2>1. ChatOf[s] = c /\ Position(log'[c], s) = j
    BY <1>2, OnePosition DEF LogOK, LogSound
  <2>2. i < j /\ i \in Pending(c) /\ j \in Pending(c) /\ i \in Nat /\ j \in Nat
    BY <1>2, <2>1 DEF Claimable, Pending, Seqs
  <2>3. InPriorityBatch(c, j)
    BY <1>2, <2>2 DEF Claimable
  <2>4. PlainQueued(log[c][i]) /\ PlainQueued(log[c][j])
    BY <2>2, <2>3 DEF InPriorityBatch
  <2>5. QED BY <1>2, <2>1, <2>4 DEF PlainQueued
<1>3. QED BY <1>1, <1>2, OnlyClaimsOpen

-----------------------------------------------------------------------------
(* The theorems.                                                           *)

\* The empty tables satisfy the order invariant.
LEMMA InitOrder == Init => OrderInv
<1> SUFFICES ASSUME Init PROVE OrderInv
  OBVIOUS
<1>1. LedgerInv
  BY InitLedger
<1>2. FrontierOK
  BY DEF Init, FrontierOK, FrontierAt
<1>2a. RunsOK
  BY DEF Init, RunsOK, Open
<1>3. TargetInChat /\ TargetRespected
  BY DEF Init, TargetInChat, TargetRespected, Open
<1>4. QED BY <1>1, <1>2, <1>2a, <1>3 DEF OrderInv

\* The frontiers and the targets stay in step with the sources after every call.
THEOREM OrderInvariant == Spec => []OrderInv
<1>1. OrderInv /\ [Next]_vars => OrderInv'
  BY LedgerStep, FrontierStep, RunsStep, TargetStep DEF OrderInv
<1>2. QED BY InitOrder, <1>1, PTL DEF Spec

\* The consumed_through column lies beyond an open source only when a scheduled
\* run that was accepted later has ended below it, and in an idle chat it is
\* behind only when a run has ended at it or beyond it, however the host's
\* acknowledgement, withdrawals, settlements and the scheduler interleave.
THEOREM FrontierTheorem == Spec => []FrontierExplained
<1>1. ASSUME OrderInv PROVE FrontierExplained
  <2>1. TypeOK /\ FrontierOK
    BY <1>1 DEF OrderInv, LedgerInv
  <2>2. ASSUME NEW c \in Chats, NEW i \in Seqs(c), i <= frontier[c]
        PROVE  Closed(state[log[c][i]]) \/ RunCrossed(c, i)
    <3>1. i \in 1..frontier[c]
      BY <2>1, <2>2, LogTyped DEF Seqs
    <3>2. QED BY <2>1, <3>1 DEF FrontierOK, FrontierAt
  <2>3. QED
    BY <2>1, <2>2 DEF FrontierOK, FrontierAt, RunCrossed, FrontierExplained
<1>2. QED BY OrderInvariant, <1>1, PTL

\* No operation works on a source that was sent to another unfinished one.
THEOREM TargetTheorem == Spec => []TargetRespected
<1>1. OrderInv => TargetRespected
  BY DEF OrderInv
<1>2. QED BY OrderInvariant, <1>1, PTL

\* The user's queue order never lets a message overtake an ordinary input:
\* true of every step, from the invariant alone.
THEOREM QueueBarrierTheorem == Spec => QueueBarrier
<1> DEFINE Kept ==
      \A o \in Ops, s \in Sources : Opens(o, s) /\ ~Scheduled(s) =>
        \A i \in Pending(ChatOf[s]) : i < Position(log'[ChatOf[s]], s) =>
          KindOf[s] = "queued" /\ PlainQueued(log[ChatOf[s]][i])
<1>1. ASSUME LedgerInv, [Next]_vars PROVE [Kept]_vars
  BY <1>1, BarrierStep
<1>2. QED BY LedgerInvariant, <1>1, PTL DEF Spec, QueueBarrier
=============================================================================
