----------------------- MODULE LedgerRefinementProofs -----------------------
(***************************************************************************)
(* ServiceWork implements ChatLedger, machine-checked for every set of     *)
(* chats, sources, operations and intents: the initial tables map to the   *)
(* initial abstract state, and every call of the stores and every write of *)
(* the scheduler maps to one abstract step or to none.                     *)
(*                                                                         *)
(* The abstract log tells whether a source was accepted; the stores ask    *)
(* the source row.  LogOK is what makes the two agree.                     *)
(***************************************************************************)
EXTENDS ServiceWorkOrderProofs

\* The mapped variables, as ServiceWork substitutes them.
OwnerBar == [s \in Sources |-> Owner(s)]
ClosedBar == {s \in Sources : Closed(state[s])}
RetiredBar == {o \in Ops : phase[o] = "terminal"}

-----------------------------------------------------------------------------
(* The mapped variables.                                                   *)

\* The owner of a source is the operation that has it as a member.
LEMMA OwnerIsHolder ==
  ASSUME SingleOwner, NEW s \in Sources
  PROVE  /\ Unowned(s) => Owner(s) = NoOp
         /\ \A o \in Ops : s \in members[o] => Owner(s) = o
BY DEF Owner, Unowned, SingleOwner

\* The same after a step.
LEMMA OwnerIsHolderNext ==
  ASSUME SingleOwner', NEW s \in Sources
  PROVE  /\ Unowned(s)' => Owner(s)' = NoOp
         /\ \A o \in Ops : s \in members'[o] => Owner(s)' = o
BY DEF Owner, Unowned, SingleOwner

\* The owner of a source has it as a member, and is an operation.
LEMMA HolderIsOwner ==
  ASSUME SingleOwner, NEW s \in Sources, NEW o \in Ops
  PROVE  (Owner(s) = o) <=> s \in members[o]
<1>1. CASE Unowned(s)
  BY <1>1, OwnerIsHolder, LedgerConstants DEF LedgerConstants, Unowned
<1>2. CASE ~Unowned(s)
  <2>1. PICK p \in Ops : s \in members[p]
    BY <1>2 DEF Unowned
  <2>2. Owner(s) = p
    BY <2>1, OwnerIsHolder
  <2>3. QED BY <2>1, <2>2, OwnerIsHolder
<1>3. QED BY <1>1, <1>2

\* A step that changes no membership changes no owner.
LEMMA OwnersStay ==
  ASSUME UNCHANGED members
  PROVE  UNCHANGED OwnerBar
BY DEF OwnerBar, Owner, Unowned

\* A source that nobody owned belongs to the operation that takes it.
LEMMA OwnerTaken ==
  ASSUME TypeOK, SingleOwner, SingleOwner', NEW s \in Sources, NEW o \in Ops,
         Unowned(s), members' = [members EXCEPT ![o] = @ \cup {s}]
  PROVE  OwnerBar' = [OwnerBar EXCEPT ![s] = o]
<1>1. \A t \in Sources, p \in Ops :
        t \in members'[p] <=> t \in members[p] \/ (t = s /\ p = o)
  BY DEF TypeOK
<1>2. Owner(s)' = o
  BY <1>1, OwnerIsHolderNext
<1>3. ASSUME NEW t \in Sources, t # s PROVE Owner(t)' = Owner(t)
  <2>1. \A p \in Ops : t \in members'[p] <=> t \in members[p]
    BY <1>1, <1>3
  <2>2. CASE Unowned(t)
    BY <2>1, <2>2, OwnerIsHolder, OwnerIsHolderNext DEF Unowned
  <2>3. CASE ~Unowned(t)
    BY <2>1, <2>3, OwnerIsHolder, OwnerIsHolderNext DEF Unowned
  <2>4. QED BY <2>2, <2>3
<1>4. QED BY <1>2, <1>3 DEF OwnerBar

\* The abstract log and the source row agree on what was accepted.
LEMMA AcceptedIsSeen ==
  ASSUME LedgerInv, NEW s \in Sources
  PROVE  Ledger!IsAccepted(s) <=> state[s] # "unseen"
<1>1. ChatOf[s] \in Chats /\ TypeOK
  BY LedgerConstants DEF LedgerConstants, LedgerInv
<1>2. DOMAIN log[ChatOf[s]] = Seqs(ChatOf[s])
  BY <1>1 DEF TypeOK, Seqs
<1>3. QED
  BY <1>1, <1>2 DEF LedgerInv, LogOK, LogSound, LogComplete, Ledger!IsAccepted

-----------------------------------------------------------------------------
(* The abstract steps.                                                     *)

\* No abstract step.
LEMMA Stutters ==
  ASSUME UNCHANGED <<log, members, active>>,
         \A t \in Sources : Closed(state'[t]) = Closed(state[t]),
         \A p \in Ops : (phase'[p] = "terminal") = (phase[p] = "terminal")
  PROVE  UNCHANGED Ledger!vars
<1>1. UNCHANGED OwnerBar
  BY OwnersStay
<1>2. UNCHANGED <<ClosedBar, RetiredBar>>
  BY DEF ClosedBar, RetiredBar
<1>3. QED BY <1>1, <1>2 DEF Ledger!vars, OwnerBar, ClosedBar, RetiredBar

\* A source is taken by an operation of its chat, or by one that opens there.
LEMMA Takes ==
  ASSUME LedgerInv, SingleOwner', NEW s \in Sources, NEW o \in Ops,
         state[s] \in {"unseen", "pending"},
         IF state[s] = "unseen"
         THEN log' = [log EXCEPT ![ChatOf[s]] = Append(@, s)] ELSE UNCHANGED log,
         phase[o] # "terminal",
         \/ active[ChatOf[s]] = o
         \/ active[ChatOf[s]] = NoOp /\ phase[o] = "unused",
         members' = [members EXCEPT ![o] = @ \cup {s}],
         active' = [active EXCEPT ![ChatOf[s]] = o],
         \A t \in Sources : Closed(state'[t]) = Closed(state[t]),
         \A p \in Ops : (phase'[p] = "terminal") = (phase[p] = "terminal")
  PROVE  Ledger!Take(o, s)
<1> USE DEF LedgerInv
<1>1. Unowned(s) /\ ~Closed(state[s])
  BY DEF SourcesOK, WaitingUnowned, Closed, Verdicts
<1>2. OwnerBar[s] = NoOp /\ s \notin ClosedBar /\ o \notin RetiredBar
  BY <1>1, OwnerIsHolder DEF OwnerBar, ClosedBar, RetiredBar, SourcesOK
<1>3. OwnerBar' = [OwnerBar EXCEPT ![s] = o]
  BY <1>1, OwnerTaken DEF SourcesOK
<1>4. UNCHANGED <<ClosedBar, RetiredBar>>
  BY DEF ClosedBar, RetiredBar
<1>5. phase[o] = "unused" => \A c \in Chats : active[c] # o
  BY LedgerConstants DEF LedgerConstants, ActiveOK, Open
<1>6. QED
  BY <1>1, <1>2, <1>3, <1>4, <1>5, AcceptedIsSeen
     DEF Ledger!Take, Ledger!Append1, OwnerBar, ClosedBar, RetiredBar

\* An open source is closed outside a settlement.
LEMMA Closes ==
  ASSUME LedgerInv, NEW s \in Sources, NEW st, Closed(st),
         state[s] # "unseen", ~Closed(state[s]),
         Unowned(s) \/ (active[ChatOf[s]] \in Ops /\ s \in members[active[ChatOf[s]]]),
         state' = [state EXCEPT ![s] = st],
         UNCHANGED <<log, members, phase, active>>
  PROVE  Ledger!Close(s)
<1> USE DEF LedgerInv
<1>1. Owner(s) = NoOp \/ active[ChatOf[s]] = Owner(s)
  BY OwnerIsHolder DEF SourcesOK
<1>2. UNCHANGED <<OwnerBar, RetiredBar>>
  BY OwnersStay DEF RetiredBar
<1>3. s \notin ClosedBar /\ ClosedBar' = ClosedBar \cup {s}
  BY DEF ClosedBar, TypeOK
<1>4. QED
  BY <1>1, <1>2, <1>3, AcceptedIsSeen
     DEF Ledger!Close, OwnerBar, ClosedBar, RetiredBar

\* An operation ends, closes what it held and frees its chat.
LEMMA Retires ==
  ASSUME LedgerInv, NEW o \in Ops, NEW c \in Chats, active[c] = o,
         active' = [active EXCEPT ![c] = NoOp],
         phase' = [phase EXCEPT ![o] = "terminal"],
         \A t \in members[o] : Closed(state'[t]),
         \A t \in Sources \ members[o] : state'[t] = state[t],
         UNCHANGED <<log, members>>
  PROVE  Ledger!Retire(c)
<1> USE DEF LedgerInv
<1>1. \A t \in Sources : Owner(t) = o <=> t \in members[o]
  BY HolderIsOwner DEF SourcesOK
<1>2. ClosedBar' = ClosedBar \cup {t \in Sources : OwnerBar[t] = o}
  <2>1. \A t \in Sources : Closed(state'[t]) <=> Closed(state[t]) \/ t \in members[o]
    BY DEF TypeOK, Closed
  <2>2. QED BY <1>1, <2>1 DEF ClosedBar, OwnerBar
<1>3. RetiredBar' = RetiredBar \cup {o}
  BY DEF RetiredBar, TypeOK
<1>4. UNCHANGED OwnerBar /\ active[c] # NoOp
  BY OwnersStay, LedgerConstants DEF LedgerConstants
<1>5. QED
  BY <1>2, <1>3, <1>4 DEF Ledger!Retire, OwnerBar, ClosedBar, RetiredBar

-----------------------------------------------------------------------------
(* Every call is an abstract step or none.                                 *)

Simulated == Ledger!Next \/ UNCHANGED Ledger!vars

\* acceptSource accepts; acceptAndClaim takes; a withdrawal and the first
\* acknowledgement close, a repeated acknowledgement does nothing.
LEMMA SourceStepSimulated ==
  ASSUME LedgerInv, SingleOwner', NEW s \in Sources, SourceStep(s)
  PROVE  Simulated
<1> USE DEF LedgerInv
<1>1. ASSUME NEW o \in Ops \cup {NoOp}, AcceptSource(s, o) PROVE Ledger!Accept(s)
  <2>1. /\ state[s] = "unseen" /\ UNCHANGED <<members, phase, active>>
        /\ log' = [log EXCEPT ![ChatOf[s]] = Append(@, s)]
        /\ \A t \in Sources : Closed(state'[t]) = Closed(state[t])
    BY <1>1 DEF AcceptSource, opVars, chatVars, TypeOK, Closed, Verdicts
  <2>2. UNCHANGED <<OwnerBar, ClosedBar, RetiredBar>>
    BY <2>1, OwnersStay DEF ClosedBar, RetiredBar
  <2>3. QED
    BY <2>1, <2>2, AcceptedIsSeen
       DEF Ledger!Accept, Ledger!Append1, OwnerBar, ClosedBar, RetiredBar
<1>2. ASSUME NEW o \in Ops, AcceptAndClaim(s, o) PROVE Ledger!Take(o, s)
  <2>1. /\ state[s] = "unseen" /\ phase[o] = "unused" /\ active[ChatOf[s]] = NoOp
        /\ log' = [log EXCEPT ![ChatOf[s]] = Append(@, s)]
        /\ state' = [state EXCEPT ![s] = "claimed"]
        /\ phase' = [phase EXCEPT ![o] = "claimed"]
        /\ members' = [members EXCEPT ![o] = {s}]
        /\ active' = [active EXCEPT ![ChatOf[s]] = o]
    BY <1>2 DEF AcceptAndClaim, ChatIsIdle, NewOperationId, OpenOperation
  <2>2. members' = [members EXCEPT ![o] = @ \cup {s}]
    BY <2>1 DEF MembersOK
  <2>3. /\ \A t \in Sources : Closed(state'[t]) = Closed(state[t])
        /\ \A p \in Ops : (phase'[p] = "terminal") = (phase[p] = "terminal")
    BY <2>1 DEF TypeOK, Closed, Verdicts
  <2>4. QED BY <2>1, <2>2, <2>3, Takes
<1>3. CASE Withdraw(s)
  <2>1. /\ state[s] = "pending" /\ Unowned(s)
        /\ state' = [state EXCEPT ![s] = "disposed"]
        /\ UNCHANGED <<log, members, phase, active>>
    BY <1>3 DEF Withdraw, Unclaimed, opVars
  <2>2. Ledger!Close(s)
    BY <2>1, Closes DEF Closed, Verdicts
  <2>3. QED BY <2>2 DEF Simulated, Ledger!Next
<1>4. CASE AckNative(s)
  <2>1. /\ state[s] \in {"pending", "consumed"}
        /\ state' = [state EXCEPT ![s] = "consumed"]
        /\ UNCHANGED <<log, members, phase, active>>
    BY <1>4 DEF AckNative, opVars
  <2>2. CASE state[s] = "pending"
    <3>1. Unowned(s)
      BY <2>2 DEF SourcesOK, WaitingUnowned
    <3>2. Ledger!Close(s)
      BY <2>1, <2>2, <3>1, Closes DEF Closed, Verdicts
    <3>3. QED BY <3>2 DEF Simulated, Ledger!Next
  <2>3. CASE state[s] = "consumed"
    <3>1. \A t \in Sources : Closed(state'[t]) = Closed(state[t])
      BY <2>1, <2>3 DEF TypeOK, Closed, Verdicts
    <3>2. QED BY <2>1, <3>1, Stutters DEF Simulated
  <2>4. QED BY <2>1, <2>2, <2>3
<1>5. QED
  BY <1>1, <1>2, <1>3, <1>4 DEF SourceStep, Simulated, Ledger!Next

\* The scheduler takes the source of a run for a new operation, retires the
\* operation when it ends it, and does nothing to one that has ended.
LEMMA SchedulerStepSimulated ==
  ASSUME LedgerInv, SingleOwner', NEW s \in Sources, SchedulerStep(s)
  PROVE  Simulated
<1> USE DEF LedgerInv
<1>1. ASSUME NEW o \in Ops, AcceptScheduled(s, o) PROVE Simulated
  <2>1. /\ state[s] = "unseen" /\ phase[o] = "unused" /\ active[ChatOf[s]] = NoOp
        /\ log' = [log EXCEPT ![ChatOf[s]] = Append(@, s)]
        /\ state' = [state EXCEPT ![s] = "claimed"]
        /\ phase' = [phase EXCEPT ![o] = "claimed"]
        /\ members' = [members EXCEPT ![o] = {s}]
        /\ active' = [active EXCEPT ![ChatOf[s]] = o]
    BY <1>1 DEF AcceptScheduled, ChatIsIdle, NewOperationId, OpenOperation
  <2>2. members' = [members EXCEPT ![o] = @ \cup {s}]
    BY <2>1 DEF MembersOK
  <2>3. /\ \A t \in Sources : Closed(state'[t]) = Closed(state[t])
        /\ \A p \in Ops : (phase'[p] = "terminal") = (phase[p] = "terminal")
    BY <2>1 DEF TypeOK, Closed, Verdicts
  <2>4. Ledger!Take(o, s)
    BY <2>1, <2>2, <2>3, Takes
  <2>5. QED BY <2>4 DEF Simulated, Ledger!Next
<1>2. ASSUME NEW o \in Ops, primary[o] = s, NEW d, EndScheduled(o, d),
             NEW st, Closed(st), state' = [state EXCEPT ![s] = st]
      PROVE  Simulated
  <2>1. /\ members[o] = {s} /\ phase[o] # "unused"
        /\ UNCHANGED <<log, members>>
    BY <1>2, LedgerConstants
       DEF LedgerConstants, SchedulerStep, ScheduledAlone, FreshOps, EndScheduled
  <2>2. state'[s] = st /\ \A t \in Sources \ {s} : state'[t] = state[t]
    BY <1>2 DEF TypeOK
  <2>3. PICK c \in Chats : c = ChatOfOp(o)
    BY <1>2, LedgerConstants DEF LedgerConstants, ChatOfOp
  <2>4. active' = [active EXCEPT ![c] = IF @ = o THEN NoOp ELSE @]
    BY <1>2, <2>3 DEF EndScheduled
  <2>5. CASE Open(o)
    <3>1. active[c] = o
      BY <2>3, <2>5 DEF ActiveOK
    <3>2. /\ active' = [active EXCEPT ![c] = NoOp]
          /\ phase' = [phase EXCEPT ![o] = "terminal"]
      BY <1>2, <2>4, <2>5, <3>1 DEF EndScheduled
    <3>3. /\ \A t \in members[o] : Closed(state'[t])
          /\ \A t \in Sources \ members[o] : state'[t] = state[t]
      BY <1>2, <2>1, <2>2
    <3>4. Ledger!Retire(c)
      BY <2>1, <3>1, <3>2, <3>3, Retires
    <3>5. QED BY <3>4 DEF Simulated, Ledger!Next
  <2>6. CASE ~Open(o)
    <3>1. UNCHANGED phase /\ phase[o] = "terminal"
      BY <1>2, <2>1, <2>6 DEF EndScheduled, Open
    <3>2. UNCHANGED active
      BY <2>4, <2>6, LedgerConstants DEF LedgerConstants, ActiveOK, TypeOK
    <3>3. Closed(state[s])
      BY <2>1, <3>1 DEF SourcesOK, FinishedClosed
    <3>4. \A t \in Sources : Closed(state'[t]) = Closed(state[t])
      BY <1>2, <2>2, <3>3 DEF Closed
    <3>5. QED BY <2>1, <3>1, <3>2, <3>4, Stutters DEF Simulated
  <2>7. QED BY <2>5, <2>6
<1>3. ASSUME NEW o \in Ops, NEW success \in BOOLEAN, SettleScheduled(s, o, success)
      PROVE  Simulated
  BY <1>2, <1>3 DEF SettleScheduled, Closed, Verdicts
<1>4. ASSUME NEW o \in Ops, ExpireScheduled(s, o) PROVE Simulated
  BY <1>2, <1>4 DEF ExpireScheduled, Closed, Verdicts
<1>5. QED BY <1>1, <1>3, <1>4 DEF SchedulerStep

\* claimNext takes the source that it picks.
LEMMA ClaimNextSimulated ==
  ASSUME LedgerInv, SingleOwner', NEW c \in Chats, NEW o \in Ops, ClaimNext(c, o)
  PROVE  Simulated
<1> USE DEF LedgerInv
<1>1. PICK i \in Seqs(c) :
        /\ state[log[c][i]] = "pending"
        /\ state' = [state EXCEPT ![log[c][i]] = "claimed"]
        /\ OpenOperation(log[c][i], o)
  BY DEF ClaimNext, Claimable, Pending
<1>2. PICK s \in Sources : s = log[c][i] /\ ChatOf[s] = c
  BY LogTyped DEF LogOK, LogSound
<1>3. /\ state[s] = "pending" /\ phase[o] = "unused" /\ active[ChatOf[s]] = NoOp
      /\ UNCHANGED log
      /\ state' = [state EXCEPT ![s] = "claimed"]
      /\ phase' = [phase EXCEPT ![o] = "claimed"]
      /\ members' = [members EXCEPT ![o] = {s}]
      /\ active' = [active EXCEPT ![ChatOf[s]] = o]
  BY <1>1, <1>2 DEF ClaimNext, ChatIsIdle, NewOperationId, OpenOperation
<1>4. members' = [members EXCEPT ![o] = @ \cup {s}]
  BY <1>3 DEF MembersOK
<1>5. /\ \A t \in Sources : Closed(state'[t]) = Closed(state[t])
      /\ \A p \in Ops : (phase'[p] = "terminal") = (phase[p] = "terminal")
  BY <1>3 DEF TypeOK, Closed, Verdicts
<1>6. Ledger!Take(o, s)
  BY <1>3, <1>4, <1>5, Takes
<1>7. QED BY <1>6 DEF Simulated, Ledger!Next

\* A waiting source joins an unfinished operation.
LEMMA JoinSimulated ==
  ASSUME LedgerInv, SingleOwner', NEW s \in Sources, NEW o \in Ops,
         Open(o), ChatOf[s] = ChatOfOp(o), state[s] \in {"unseen", "pending"},
         IF state[s] = "unseen"
         THEN log' = [log EXCEPT ![ChatOf[s]] = Append(@, s)] ELSE UNCHANGED log,
         state' = [state EXCEPT ![s] = "claimed"],
         members' = [members EXCEPT ![o] = @ \cup {s}], UNCHANGED active,
         \A p \in Ops : (phase'[p] = "terminal") = (phase[p] = "terminal")
  PROVE  Simulated
<1> USE DEF LedgerInv
<1>1. active[ChatOf[s]] = o /\ phase[o] # "terminal"
  BY DEF ActiveOK, Open
<1>2. active' = [active EXCEPT ![ChatOf[s]] = o]
  BY <1>1 DEF TypeOK
<1>3. \A t \in Sources : Closed(state'[t]) = Closed(state[t])
  BY DEF TypeOK, Closed, Verdicts
<1>4. Ledger!Take(o, s)
  BY <1>1, <1>2, <1>3, Takes
<1>5. QED BY <1>4 DEF Simulated, Ledger!Next

\* The calls on one operation take a source, close one, or do nothing that
\* the promise speaks of.
LEMMA OperationStepSimulated ==
  ASSUME LedgerInv, SingleOwner', NEW o \in Ops, OperationStep(o, version[o])
  PROVE  Simulated
<1> DEFINE v == version[o]
<1> USE DEF LedgerInv
<1>1. ASSUME Open(o), UNCHANGED <<sourceVars, members, active>>,
             \A p \in Ops \ {o} : phase'[p] = phase[p], phase'[o] # "terminal"
      PROVE  Simulated
  BY <1>1, Stutters DEF Simulated, sourceVars, Open, Closed
<1>2. CASE BindHarness(o, v)
  <2>1. /\ Open(o) /\ UNCHANGED <<sourceVars, members, active>>
        /\ \A p \in Ops \ {o} : phase'[p] = phase[p]
        /\ phase'[o] # "terminal"
    BY <1>2 DEF BindHarness, chatVars, TypeOK
  <2>2. QED BY <1>1, <2>1
<1>3. CASE FinishHarness(o, v)
  <2>1. /\ Open(o) /\ UNCHANGED <<sourceVars, members, active>>
        /\ \A p \in Ops \ {o} : phase'[p] = phase[p]
        /\ phase'[o] # "terminal"
    BY <1>3 DEF FinishHarness, Finishable, Open, chatVars, TypeOK
  <2>2. QED BY <1>1, <2>1
<1>4. ASSUME NEW i \in Intents, AppendIntent(o, i, v) PROVE Simulated
  BY <1>1, <1>4 DEF AppendIntent, Open, chatVars
<1>5. ASSUME NEW s \in Sources, AcceptCancellation(o, s, v) PROVE Simulated
  <2>1. /\ Open(o) /\ UNCHANGED <<sourceVars, members, active>>
        /\ \A p \in Ops \ {o} : phase'[p] = phase[p]
        /\ phase'[o] # "terminal"
    BY <1>5 DEF AcceptCancellation, RecordCancellation, chatVars, TypeOK
  <2>2. QED BY <1>1, <2>1
<1>6. ASSUME NEW s \in Sources, AttachQueued(o, s, v) PROVE Simulated
  <2>1. active[ChatOf[s]] = o /\ phase[o] = "executing"
    BY <1>6 DEF AttachQueued
  <2>2. Open(o) /\ ChatOf[s] = ChatOfOp(o)
    BY <2>1, LedgerConstants DEF LedgerConstants, ActiveOK, Open
  <2>3. QED BY <1>6, <2>2, JoinSimulated DEF AttachQueued, Unclaimed, chatVars
<1>7. ASSUME NEW s \in Sources, AcceptAndCancel(o, s, v) PROVE Simulated
  <2>1. /\ Open(o) /\ ChatOf[s] = ChatOfOp(o)
        /\ state[s] \in {"unseen", "pending"}
        /\ IF state[s] = "unseen"
           THEN log' = [log EXCEPT ![ChatOf[s]] = Append(@, s)] ELSE UNCHANGED log
        /\ state' = [state EXCEPT ![s] = "claimed"]
        /\ members' = [members EXCEPT ![o] = @ \cup {s}] /\ UNCHANGED active
        /\ phase' = [phase EXCEPT ![o] = "cancelling"]
    BY <1>7 DEF AcceptAndCancel, RecordCancellation, chatVars
  <2>2. \A p \in Ops : (phase'[p] = "terminal") = (phase[p] = "terminal")
    BY <2>1 DEF TypeOK, Open
  <2>3. QED BY <2>1, <2>2, JoinSimulated
<1>8. ASSUME NEW s \in Sources, NEW q \in QueueStates, RecordQueuedInput(o, s, q, v)
      PROVE  Simulated
  <2>1. /\ Open(o) /\ ChatOf[s] = ChatOfOp(o) /\ UNCHANGED <<log, phase, active>>
    BY <1>8 DEF RecordQueuedInput, chatVars
  <2>2. CASE RecordFirst(o, s)
    BY <2>1, <2>2, JoinSimulated DEF RecordFirst, SourceStateForQueue
  <2>3. CASE RecordNext(o, s, q)
    <3>1. /\ s \in members[o] /\ UNCHANGED members
          /\ state[s] \in {"claimed", "queued"}
          /\ state' = [state EXCEPT ![s] = q]
          /\ q \in {"queued", "consumed", "disposed"}
      BY <2>3 DEF RecordNext, QueueTransition, SourceStateForQueue, Verdicts
    <3>2. CASE q = "queued"
      BY <2>1, <3>1, <3>2, Stutters DEF Simulated, Closed, Verdicts, TypeOK
    <3>3. CASE q # "queued"
      <4>1. active[ChatOf[s]] = o
        BY <2>1 DEF ActiveOK
      <4>2. Ledger!Close(s)
        BY <2>1, <3>1, <3>3, <4>1, Closes DEF Closed, Verdicts
      <4>3. QED BY <4>2 DEF Simulated, Ledger!Next
    <3>4. QED BY <3>2, <3>3
  <2>4. QED BY <1>8, <2>2, <2>3 DEF RecordQueuedInput
<1>9. QED
  BY <1>2, <1>3, <1>4, <1>5, <1>6, <1>7, <1>8 DEF OperationStep

\* commitTerminal retires the operation of its chat.
LEMMA SettleStepSimulated ==
  ASSUME LedgerInv, NEW o \in Ops, SettleStep(o, version[o])
  PROVE  Simulated
<1> USE DEF LedgerInv
<1>1. PICK d \in Dispositions, verdict \in [members[o] -> Verdicts] :
        CommitTerminal(o, version[o], d, verdict)
  BY DEF SettleStep
<1>2. Open(o) /\ active[ChatOfOp(o)] = o
  BY <1>1 DEF CommitTerminal, Committable
<1>3. PICK c \in Chats : c = ChatOfOp(o)
  BY <1>2, LedgerConstants DEF LedgerConstants, MembersOK, TypeOK, Open, ChatOfOp
<1>4. /\ active' = [active EXCEPT ![c] = NoOp]
      /\ phase' = [phase EXCEPT ![o] = "terminal"]
      /\ \A t \in members[o] : Closed(state'[t])
      /\ \A t \in Sources \ members[o] : state'[t] = state[t]
      /\ UNCHANGED <<log, members>>
  BY <1>1, <1>3 DEF CommitTerminal, ReleaseChat, Settled, Closed, TypeOK
<1>5. Ledger!Retire(c)
  BY <1>2, <1>3, <1>4, Retires
<1>6. QED BY <1>5 DEF Simulated, Ledger!Next

-----------------------------------------------------------------------------
(* The theorems.                                                           *)

\* The durable stores keep the promise of ChatLedger: a source is accepted
\* once, taken by at most one operation and closed once, a chat has at most
\* one unfinished operation, and an operation ends by closing everything it
\* took and freeing its chat in one step, for every interleaving of calls,
\* acknowledgements and writes of the scheduler.
THEOREM LedgerImplementsPromise == Spec => ImplementsChatLedger
<1>1. Init => Ledger!Init
  <2>1. SUFFICES ASSUME Init PROVE Ledger!Init
    OBVIOUS
  <2>2. \A s \in Sources : Owner(s) = NoOp /\ ~Closed(state[s])
    BY <2>1 DEF Init, Owner, Unowned, Closed, Verdicts
  <2>3. QED BY <2>1, <2>2 DEF Init, Ledger!Init
<1>2. ASSUME LedgerInv, LedgerInv', [Next]_vars
      PROVE  [Ledger!Next]_(Ledger!vars)
  <2>1. LedgerInv /\ SingleOwner'
    BY <1>2 DEF LedgerInv, SourcesOK
  <2>2. CASE UNCHANGED vars
    BY <2>2, Stutters DEF vars, sourceVars, opVars, chatVars, Closed
  <2>3. CASE Next
    BY <2>1, <2>3, SourceStepSimulated, SchedulerStepSimulated, ClaimNextSimulated,
       OperationStepSimulated, SettleStepSimulated DEF Next, Simulated
  <2>4. QED BY <1>2, <2>2, <2>3
<1>3. QED
  BY <1>1, <1>2, LedgerInvariant, PTL
     DEF Spec, ImplementsChatLedger, Ledger!Spec
=============================================================================
