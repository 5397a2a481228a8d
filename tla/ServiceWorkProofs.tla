-------------------------- MODULE ServiceWorkProofs --------------------------
(***************************************************************************)
(* Machine-checked facts about ServiceWork, for every set of chats,        *)
(* sources, operations and intents.                                        *)
(*                                                                         *)
(* The inductive invariant LedgerInv adds to the properties what their     *)
(* proofs need: where the sources of a log and the members of an operation *)
(* live, that active_operation_id and the unfinished operations point at   *)
(* each other, and that the operation of a scheduled run stays alone: only *)
(* because of that may the scheduler end it without a look at its members  *)
(* and at its cancellation.                                                *)
(***************************************************************************)
EXTENDS ServiceWork, SequenceTheorems, TLAPS

\* The log of a chat holds the accepted sources of that chat, each one once.
LogSound ==
  \A c \in Chats : \A i \in Seqs(c) :
    /\ ChatOf[log[c][i]] = c
    /\ state[log[c][i]] # "unseen"
    /\ \A j \in Seqs(c) : log[c][i] = log[c][j] => i = j
LogComplete ==
  \A s \in Sources : state[s] # "unseen" =>
    \E i \in Seqs(ChatOf[s]) : log[ChatOf[s]][i] = s

LogOK == LogSound /\ LogComplete

\* The members of an operation are in the chat of its primary source.
MembersOK ==
  \A o \in Ops :
    /\ phase[o] = "unused" => members[o] = {}
    /\ phase[o] # "unused" =>
         /\ primary[o] \in members[o]
         /\ \A s \in members[o] : ChatOf[s] = ChatOfOp(o)

\* The chats and the unfinished operations point at each other.
ActiveOK ==
  /\ \A o \in Ops : Open(o) => active[ChatOfOp(o)] = o
  /\ \A c \in Chats : active[c] # NoOp =>
       Open(active[c]) /\ ChatOfOp(active[c]) = c

WaitingUnowned ==
  \A s \in Sources : state[s] \in {"unseen", "pending"} => Unowned(s)
WorkHasOwner ==
  \A s \in Sources : state[s] \in {"claimed", "queued"} =>
    \E o \in Ops : Open(o) /\ s \in members[o]
FinishedClosed ==
  \A o \in Ops : phase[o] = "terminal" => \A s \in members[o] : Closed(state[s])
SingleOwner ==
  \A s \in Sources, o, p \in Ops : s \in members[o] /\ s \in members[p] => o = p

SourcesOK == WaitingUnowned /\ WorkHasOwner /\ FinishedClosed /\ SingleOwner

\* An operation id that was not used has no primary source and no
\* cancellation.
FreshOps ==
  \A o \in Ops : phase[o] = "unused" =>
    primary[o] = NoSource /\ cancellation[o] = NoSource

\* The operation of a scheduled run owns its source only and is not cancelled.
ScheduledAlone ==
  \A o \in Ops, s \in Sources : primary[o] = s /\ Scheduled(s) =>
    members[o] = {s} /\ cancellation[o] = NoSource

LedgerInv ==
  /\ TypeOK /\ LogOK /\ MembersOK /\ ActiveOK /\ SourcesOK
  /\ CancellationDecides /\ FreshOps /\ ScheduledAlone

-----------------------------------------------------------------------------
(* What the shared writes preserve.                                        *)

\* Accepting a source that was unseen keeps the logs well formed.
LEMMA AppendKeepsLog ==
  ASSUME TypeOK, LogOK, NEW s \in Sources, state[s] = "unseen",
         log' = [log EXCEPT ![ChatOf[s]] = Append(@, s)],
         \A t \in Sources \ {s} : state'[t] = state[t],
         state'[s] # "unseen"
  PROVE  LogOK'
<1> USE LedgerConstants DEF LedgerConstants, TypeOK
<1> DEFINE c == ChatOf[s]
<1>1. c \in Chats /\ log[c] \in Seq(Sources)
  OBVIOUS
<1>2. /\ log'[c] = Append(log[c], s)
      /\ \A d \in Chats : d # c => log'[d] = log[d]
  BY <1>1
<1>3. /\ Len(log'[c]) = Len(log[c]) + 1
      /\ log'[c][Len(log[c]) + 1] = s
      /\ \A i \in Seqs(c) : log'[c][i] = log[c][i]
  BY <1>1, <1>2, AppendProperties DEF Seqs
<1>4. \A d \in Chats : \A i \in Seqs(d) : log[d][i] \in Sources /\ log[d][i] # s
  BY DEF LogOK, LogSound, Seqs
<1>5. ASSUME NEW d \in Chats, NEW i \in Seqs(d)'
      PROVE  /\ ChatOf[log'[d][i]] = d
             /\ state'[log'[d][i]] # "unseen"
             /\ \A j \in Seqs(d)' : log'[d][i] = log'[d][j] => i = j
  <2>1. CASE d # c
    <3>1. Seqs(d)' = Seqs(d) /\ log'[d] = log[d]
      BY <1>2, <2>1 DEF Seqs
    <3>2. QED BY <3>1, <1>4, <1>5 DEF LogOK, LogSound
  <2>2. CASE d = c
    <3>1. Seqs(d)' = Seqs(d) \cup {Len(log[c]) + 1} /\ Len(log[c]) + 1 \notin Seqs(d)
      BY <1>1, <1>3, <2>2 DEF Seqs
    <3>2. ASSUME NEW j \in Seqs(d)', log'[d][i] = log'[d][j]
          PROVE  i = j
      <4> DEFINE n == Len(log[c]) + 1
      <4>1. i \in Seqs(d) \cup {n} /\ j \in Seqs(d) \cup {n}
        BY <1>5, <3>1, <3>2
      <4>2. CASE i \in Seqs(d) /\ j \in Seqs(d)
        <5>1. log'[d][i] = log[d][i] /\ log'[d][j] = log[d][j]
          BY <1>3, <2>2, <4>2
        <5>2. \A k \in Seqs(d) : log[d][i] = log[d][k] => i = k
          BY <4>2 DEF LogOK, LogSound
        <5>3. QED BY <3>2, <4>2, <5>1, <5>2
      <4>3. CASE i = n /\ j \in Seqs(d)
        <5>1. log'[d][i] = s /\ log'[d][j] = log[d][j] /\ log[d][j] # s
          BY <1>3, <1>4, <2>2, <4>3
        <5>2. QED BY <3>2, <5>1
      <4>4. CASE i \in Seqs(d) /\ j = n
        <5>1. log'[d][j] = s /\ log'[d][i] = log[d][i] /\ log[d][i] # s
          BY <1>3, <1>4, <2>2, <4>4
        <5>2. QED BY <3>2, <5>1
      <4>5. CASE i = n /\ j = n
        BY <4>5
      <4>6. QED BY <4>1, <4>2, <4>3, <4>4, <4>5
    <3>3. CASE i \in Seqs(d)
      <4>1. log'[d][i] = log[d][i] /\ ChatOf[log[d][i]] = d
            /\ log[d][i] \in Sources /\ state[log[d][i]] # "unseen"
        BY <1>3, <1>4, <2>2, <3>3 DEF LogOK, LogSound
      <4>2. QED BY <3>2, <4>1
    <3>4. CASE i = Len(log[c]) + 1
      BY <1>3, <2>2, <3>2, <3>4
    <3>5. QED BY <1>5, <3>1, <3>3, <3>4
  <2>3. QED BY <2>1, <2>2
<1>6. ASSUME NEW t \in Sources, state'[t] # "unseen"
      PROVE  \E i \in Seqs(ChatOf[t])' : log'[ChatOf[t]][i] = t
  <2>1. CASE t = s
    <3>1. Len(log[c]) + 1 \in Seqs(c)'
      BY <1>1, <1>3 DEF Seqs
    <3>2. QED BY <1>3, <2>1, <3>1
  <2>2. CASE t # s
    <3>1. PICK i \in Seqs(ChatOf[t]) : log[ChatOf[t]][i] = t
      BY <1>6, <2>2 DEF LogOK, LogComplete
    <3>2. ChatOf[t] \in Chats
      OBVIOUS
    <3>3. CASE ChatOf[t] = c
      <4>1. i \in Seqs(c)' /\ log'[c][i] = t
        BY <1>1, <1>3, <3>1, <3>3 DEF Seqs
      <4>2. QED BY <3>3, <4>1
    <3>4. CASE ChatOf[t] # c
      BY <1>2, <3>1, <3>2, <3>4 DEF Seqs
    <3>5. QED BY <3>3, <3>4
  <2>3. QED BY <2>1, <2>2
<1>7. QED BY <1>5, <1>6 DEF LogOK, LogSound, LogComplete

\* A step that accepts nothing and forgets nothing keeps the logs well formed.
LEMMA SameLog ==
  ASSUME TypeOK, LogOK, UNCHANGED log,
         \A t \in Sources : state'[t] # "unseen" <=> state[t] # "unseen"
  PROVE  LogOK'
<1>1. \A c \in Chats : \A i \in Seqs(c) : log[c][i] \in Sources
  BY DEF TypeOK, Seqs
<1>2. QED BY <1>1 DEF LogOK, LogSound, LogComplete, Seqs

\* An unfinished operation that takes a waiting source of its chat.
LEMMA JoinKeeps ==
  ASSUME TypeOK, MembersOK, SourcesOK,
         NEW o \in Ops, NEW s \in Sources, Open(o), Open(o)',
         \A p \in Ops \ {o} : phase'[p] = phase[p],
         UNCHANGED primary, ChatOf[s] = ChatOfOp(o), Unowned(s),
         members' = [members EXCEPT ![o] = @ \cup {s}],
         state' = [state EXCEPT ![s] = "claimed"]
  PROVE  MembersOK' /\ SourcesOK'
<1> USE DEF TypeOK
<1>1. /\ members'[o] = members[o] \cup {s}
      /\ \A p \in Ops \ {o} : members'[p] = members[p]
      /\ state'[s] = "claimed"
      /\ \A t \in Sources \ {s} : state'[t] = state[t]
  OBVIOUS
<1>2. MembersOK'
  BY <1>1 DEF MembersOK, Open, ChatOfOp
<1>3. WaitingUnowned'
  BY <1>1 DEF SourcesOK, WaitingUnowned, Unowned
<1>4. WorkHasOwner'
  <2>1. ASSUME NEW t \in Sources, t # s, state'[t] \in {"claimed", "queued"}
        PROVE  \E p \in Ops : Open(p)' /\ t \in members'[p]
    <3>1. PICK p \in Ops : Open(p) /\ t \in members[p]
      BY <1>1, <2>1 DEF SourcesOK, WorkHasOwner
    <3>2. QED BY <1>1, <3>1 DEF Open
  <2>2. o \in Ops /\ Open(o)' /\ s \in members'[o]
    BY <1>1
  <2>3. QED BY <2>1, <2>2 DEF WorkHasOwner
<1>5. FinishedClosed'
  BY <1>1 DEF SourcesOK, FinishedClosed, Unowned, Open
<1>6. SingleOwner'
  BY <1>1 DEF SourcesOK, SingleOwner, Unowned
<1>7. QED BY <1>2, <1>3, <1>4, <1>5, <1>6 DEF SourcesOK

\* A new operation in an idle chat that takes a waiting source.
LEMMA OpenKeeps ==
  ASSUME TypeOK, MembersOK, ActiveOK, SourcesOK, CancellationDecides,
         FreshOps, ScheduledAlone, NEW s \in Sources, NEW o \in Ops,
         ChatIsIdle(ChatOf[s]), NewOperationId(o),
         state[s] \in {"unseen", "pending"},
         state' = [state EXCEPT ![s] = "claimed"], OpenOperation(s, o)
  PROVE  /\ MembersOK' /\ ActiveOK' /\ SourcesOK' /\ CancellationDecides'
         /\ FreshOps' /\ ScheduledAlone'
<1> USE LedgerConstants DEF LedgerConstants, TypeOK
<1>1. /\ phase'[o] = "claimed" /\ primary'[o] = s /\ members'[o] = {s}
      /\ \A p \in Ops \ {o} :
           phase'[p] = phase[p] /\ primary'[p] = primary[p] /\ members'[p] = members[p]
      /\ active'[ChatOf[s]] = o
      /\ \A c \in Chats \ {ChatOf[s]} : active'[c] = active[c]
      /\ state'[s] = "claimed"
      /\ \A t \in Sources \ {s} : state'[t] = state[t]
      /\ UNCHANGED <<cancellation, commit>>
  BY DEF OpenOperation
<1>2. phase[o] = "unused" /\ active[ChatOf[s]] = NoOp /\ ~Open(o) /\ members[o] = {}
  BY DEF ChatIsIdle, NewOperationId, Open, MembersOK
<1>3. Unowned(s) /\ ChatOf[s] \in Chats
  BY DEF SourcesOK, WaitingUnowned
<1>4. MembersOK'
  <2>1. ASSUME NEW p \in Ops
        PROVE  /\ phase'[p] = "unused" => members'[p] = {}
               /\ phase'[p] # "unused" =>
                    /\ primary'[p] \in members'[p]
                    /\ \A t \in members'[p] : ChatOf[t] = ChatOf[primary'[p]]
    <3>1. CASE p = o
      BY <1>1, <3>1
    <3>2. CASE p # o
      BY <1>1, <3>2 DEF MembersOK, ChatOfOp
    <3>3. QED BY <3>1, <3>2
  <2>2. QED BY <2>1 DEF MembersOK, ChatOfOp
<1>5. ActiveOK'
  <2>1. ASSUME NEW p \in Ops, Open(p)'
        PROVE  active'[ChatOfOp(p)'] = p
    <3>1. CASE p = o
      BY <1>1, <3>1 DEF ChatOfOp
    <3>2. CASE p # o
      <4>1. Open(p) /\ ChatOfOp(p)' = ChatOfOp(p) /\ ChatOfOp(p) \in Chats
        <5>1. Open(p) /\ primary'[p] = primary[p]
          BY <1>1, <2>1, <3>2 DEF Open
        <5>2. primary[p] \in Sources
          BY <5>1 DEF Open, MembersOK
        <5>3. QED BY <5>1, <5>2 DEF ChatOfOp
      <4>2. active[ChatOfOp(p)] = p
        BY <4>1 DEF ActiveOK
      <4>3. QED BY <1>1, <1>2, <4>1, <4>2
    <3>3. QED BY <3>1, <3>2
  <2>2. ASSUME NEW c \in Chats, active'[c] # NoOp
        PROVE  Open(active[c])' /\ ChatOfOp(active[c])' = c
    <3>1. CASE c = ChatOf[s]
      BY <1>1, <3>1 DEF Open, ChatOfOp
    <3>2. CASE c # ChatOf[s]
      <4>1. active'[c] = active[c] /\ Open(active[c]) /\ ChatOfOp(active[c]) = c
        BY <1>1, <2>2, <3>2 DEF ActiveOK
      <4>2. active[c] \in Ops \ {o}
        BY <1>2, <4>1, <2>2
      <4>3. QED BY <1>1, <4>1, <4>2 DEF Open, ChatOfOp
    <3>3. QED BY <3>1, <3>2
  <2>3. QED BY <2>1, <2>2 DEF ActiveOK
<1>6. WaitingUnowned' /\ SingleOwner' /\ FinishedClosed'
  <2>1. WaitingUnowned'
    BY <1>1 DEF SourcesOK, WaitingUnowned, Unowned
  <2>2. SingleOwner'
    <3>1. ASSUME NEW t \in Sources, NEW p \in Ops, NEW q \in Ops,
                 t \in members'[p], t \in members'[q]
          PROVE  p = q
      <4>1. (p = o => t = s) /\ (q = o => t = s)
        BY <1>1, <3>1
      <4>2. (p # o => t \in members[p]) /\ (q # o => t \in members[q])
        BY <1>1, <3>1
      <4>3. CASE p # o /\ q # o
        BY <4>2, <4>3 DEF SourcesOK, SingleOwner
      <4>4. CASE p = o \/ q = o
        BY <1>3, <4>1, <4>2, <4>4 DEF Unowned
      <4>5. QED BY <4>3, <4>4
    <3>2. QED BY <3>1 DEF SingleOwner
  <2>3. FinishedClosed'
    <3>1. ASSUME NEW p \in Ops, phase'[p] = "terminal", NEW t \in members'[p]
          PROVE  Closed(state[t])'
      <4>1. p # o /\ phase[p] = "terminal" /\ t \in members[p] /\ t # s
        BY <1>1, <1>3, <3>1 DEF Unowned
      <4>2. t \in Sources /\ state'[t] = state[t]
        BY <1>1, <4>1
      <4>3. QED BY <4>1, <4>2 DEF SourcesOK, FinishedClosed
    <3>2. QED BY <3>1 DEF FinishedClosed
  <2>4. QED BY <2>1, <2>2, <2>3
<1>7. WorkHasOwner'
  <2>1. ASSUME NEW t \in Sources, t # s, state'[t] \in {"claimed", "queued"}
        PROVE  \E p \in Ops : Open(p)' /\ t \in members'[p]
    <3>1. PICK p \in Ops : Open(p) /\ t \in members[p]
      BY <1>1, <2>1 DEF SourcesOK, WorkHasOwner
    <3>2. QED BY <1>1, <1>2, <3>1 DEF Open
  <2>2. Open(o)' /\ s \in members'[o]
    BY <1>1 DEF Open
  <2>3. QED BY <2>1, <2>2 DEF WorkHasOwner
<1>8. CancellationDecides'
  BY <1>1 DEF CancellationDecides
<1>9. FreshOps'
  BY <1>1 DEF FreshOps
<1>10. ScheduledAlone'
  <2>1. cancellation[o] = NoSource
    BY <1>2 DEF FreshOps
  <2>2. ASSUME NEW p \in Ops, NEW t \in Sources, primary'[p] = t, Scheduled(t)
        PROVE  members'[p] = {t} /\ cancellation'[p] = NoSource
    <3>1. CASE p = o
      BY <1>1, <2>1, <2>2, <3>1
    <3>2. CASE p # o
      BY <1>1, <2>2, <3>2 DEF ScheduledAlone
    <3>3. QED BY <3>1, <3>2
  <2>3. QED BY <2>2 DEF ScheduledAlone
<1>11. QED BY <1>4, <1>5, <1>6, <1>7, <1>8, <1>9, <1>10 DEF SourcesOK

\* A step that leaves the scheduled operations and the unused ids alone.
LEMMA SameScheduled ==
  ASSUME FreshOps, ScheduledAlone, UNCHANGED primary,
         \A p \in Ops :
           /\ phase'[p] = "unused" => phase[p] = "unused"
           /\ phase[p] = "unused" => cancellation'[p] = cancellation[p]
           /\ \/ members'[p] = members[p] /\ cancellation'[p] = cancellation[p]
              \/ Joinable(p)
  PROVE  FreshOps' /\ ScheduledAlone'
BY DEF FreshOps, ScheduledAlone, Joinable

\* The end of an operation whose members are all closed with it.
LEMMA EndKeeps ==
  ASSUME LedgerInv, TypeOK', NEW o \in Ops, Open(o),
         active' = [active EXCEPT ![ChatOfOp(o)] = NoOp],
         phase' = [phase EXCEPT ![o] = "terminal"],
         \A t \in members[o] : Closed(state'[t]),
         \A t \in Sources \ members[o] : state'[t] = state[t],
         (commit'[o].disposition = "cancelled") = (cancellation[o] # NoSource),
         \A p \in Ops \ {o} : commit'[p] = commit[p],
         UNCHANGED <<log, primary, members, cancellation>>
  PROVE  LedgerInv'
<1> USE DEF LedgerInv
<1>1. /\ phase'[o] = "terminal"
      /\ \A p \in Ops \ {o} : phase'[p] = phase[p]
  BY DEF TypeOK
<1>2. primary[o] \in Sources /\ ChatOfOp(o) \in Chats
  BY LedgerConstants DEF LedgerConstants, MembersOK, TypeOK, Open, ChatOfOp
<1>3. LogOK'
  <2>1. \A t \in members[o] : t \in Sources /\ state[t] # "unseen"
    BY DEF SourcesOK, WaitingUnowned, Unowned, TypeOK
  <2>2. \A t \in Sources : state'[t] # "unseen" <=> state[t] # "unseen"
    BY <2>1 DEF Closed, Verdicts
  <2>3. QED BY <2>2, SameLog
<1>4. MembersOK'
  BY <1>1 DEF MembersOK, ChatOfOp, Open
<1>5. ActiveOK'
  <2>1. /\ active'[ChatOfOp(o)] = NoOp
        /\ \A c \in Chats \ {ChatOfOp(o)} : active'[c] = active[c]
    BY <1>2 DEF TypeOK
  <2>2. ASSUME NEW p \in Ops, Open(p)' PROVE active'[ChatOfOp(p)'] = p
    <3>1. p # o /\ Open(p) /\ ChatOfOp(p)' = ChatOfOp(p)
      BY <1>1, <2>2 DEF Open, ChatOfOp
    <3>2. active[ChatOfOp(p)] = p /\ ChatOfOp(p) # ChatOfOp(o)
      BY <3>1 DEF ActiveOK
    <3>3. ChatOfOp(p) \in Chats
      BY <3>1, LedgerConstants DEF LedgerConstants, MembersOK, TypeOK, Open, ChatOfOp
    <3>4. QED BY <2>1, <3>1, <3>2, <3>3
  <2>3. ASSUME NEW c \in Chats, active'[c] # NoOp
        PROVE  Open(active[c])' /\ ChatOfOp(active[c])' = c
    <3>1. active'[c] = active[c] /\ Open(active[c]) /\ ChatOfOp(active[c]) = c
      BY <2>1, <2>3 DEF ActiveOK
    <3>2. active[c] \in Ops \ {o}
      BY <2>1, <2>3, <3>1 DEF TypeOK
    <3>3. QED BY <1>1, <3>1, <3>2 DEF Open, ChatOfOp
  <2>4. QED BY <2>2, <2>3 DEF ActiveOK
<1>6. WaitingUnowned' /\ SingleOwner' /\ FinishedClosed'
  <2>1. WaitingUnowned' /\ SingleOwner'
    BY <1>1 DEF SourcesOK, WaitingUnowned, SingleOwner, Unowned, Closed,
                      Verdicts
  <2>2. ASSUME NEW p \in Ops, phase'[p] = "terminal", NEW t \in members[p]
        PROVE  Closed(state'[t])
    BY <1>1, <2>2 DEF SourcesOK, FinishedClosed, TypeOK
  <2>3. QED BY <2>1, <2>2 DEF FinishedClosed, Closed
<1>7. WorkHasOwner'
  <2>1. ASSUME NEW t \in Sources, state'[t] \in {"claimed", "queued"}
        PROVE  \E p \in Ops : Open(p)' /\ t \in members'[p]
    <3>1. t \notin members[o] /\ state'[t] = state[t]
      BY <1>1, <2>1 DEF Closed, Verdicts
    <3>2. PICK p \in Ops : Open(p) /\ t \in members[p]
      BY <2>1, <3>1 DEF SourcesOK, WorkHasOwner
    <3>3. QED BY <1>1, <3>1, <3>2 DEF Open
  <2>2. QED BY <2>1 DEF WorkHasOwner
<1>8. CancellationDecides'
  BY <1>1 DEF CancellationDecides
<1>9. FreshOps' /\ ScheduledAlone'
  BY <1>1, SameScheduled DEF Open
<1>10. QED
  BY <1>3, <1>4, <1>5, <1>6, <1>7, <1>8, <1>9 DEF SourcesOK

\* A step that opens and finishes nothing leaves the chats alone.
LEMMA SameActive ==
  ASSUME ActiveOK, UNCHANGED <<primary, active>>,
         TypeOK, \A p \in Ops : Open(p)' = Open(p)
  PROVE  ActiveOK'
BY DEF ActiveOK, ChatOfOp, TypeOK

\* A step that changes no source, no membership and no end of an operation.
LEMMA SameSources ==
  ASSUME MembersOK, SourcesOK, UNCHANGED <<primary, members, state>>,
         \A p \in Ops : /\ Open(p)' = Open(p)
                        /\ phase'[p] = "terminal" => phase[p] = "terminal"
                        /\ phase'[p] = "unused" => phase[p] = "unused"
                        /\ phase'[p] # "unused" => phase[p] # "unused"
  PROVE  MembersOK' /\ SourcesOK'
<1>1. MembersOK'
  BY DEF MembersOK, ChatOfOp
<1>2. WaitingUnowned' /\ WorkHasOwner' /\ FinishedClosed' /\ SingleOwner'
  BY DEF SourcesOK, WaitingUnowned, WorkHasOwner, FinishedClosed, SingleOwner,
         Unowned
<1>3. QED BY <1>1, <1>2 DEF SourcesOK

\* A finished operation is not touched, so its verdict stands.
LEMMA SameVerdicts ==
  ASSUME CancellationDecides, UNCHANGED commit, NEW o \in Ops,
         phase'[o] # "terminal",
         \A p \in Ops \ {o} : /\ phase'[p] = phase[p]
                              /\ cancellation'[p] = cancellation[p]
  PROVE  CancellationDecides'
BY DEF CancellationDecides

-----------------------------------------------------------------------------
(* Type correctness.                                                       *)

\* The empty tables are well typed (service-work-schema.ts).
LEMMA InitType == Init => TypeOK
<1> SUFFICES ASSUME Init PROVE TypeOK
  OBVIOUS
<1> USE LedgerConstants DEF LedgerConstants, Init
<1>1. /\ log \in [Chats -> Seq(Sources)]
      /\ active \in [Chats -> Ops \cup {NoOp}]
      /\ frontier \in [Chats -> Nat]
  OBVIOUS
<1>2. /\ state \in [Sources -> SourceStates]
      /\ target \in [Sources -> Ops \cup {NoOp}]
      /\ queueRow \in [Sources -> QueueStates \cup {"none"}]
  BY DEF SourceStates
<1>3. /\ phase \in [Ops -> Phases]
      /\ version \in [Ops -> Nat]
      /\ primary \in [Ops -> Sources \cup {NoSource}]
      /\ members \in [Ops -> SUBSET Sources]
  BY DEF Phases
<1>4. /\ harness \in [Ops -> BOOLEAN]
      /\ cancellation \in [Ops -> Sources \cup {NoSource}]
      /\ intents \in [Ops -> SUBSET (Intents \cup Sources)]
      /\ commit \in [Ops -> Commits \cup {NoCommit}]
  OBVIOUS
<1>5. QED BY <1>1, <1>2, <1>3, <1>4 DEF TypeOK

\* acceptSource, acceptAndClaim, withdraw and the native acknowledgement keep the
\* types.
LEMMA SourceStepType ==
  ASSUME TypeOK, NEW s \in Sources, SourceStep(s)
  PROVE  TypeOK'
<1> USE LedgerConstants DEF LedgerConstants, TypeOK
<1>1. ASSUME NEW o \in Ops \cup {NoOp}, AcceptSource(s, o) PROVE TypeOK'
  BY <1>1 DEF AcceptSource, SourceStates, opVars, chatVars
<1>2. ASSUME NEW o \in Ops, AcceptAndClaim(s, o) PROVE TypeOK'
  BY <1>2 DEF AcceptAndClaim, OpenOperation, SourceStates, Phases
<1>3. CASE Withdraw(s)
  <2>1. frontier' \in [Chats -> Nat]
    <3>1. CASE ChatIsIdle(ChatOf[s])
      <4>1. PICK n \in 0..Len(log[ChatOf[s]]) :
              frontier' = [frontier EXCEPT ![ChatOf[s]] = n]
        BY <1>3, <3>1 DEF Withdraw
      <4>2. n \in Nat
        OBVIOUS
      <4>3. QED BY <4>1, <4>2
    <3>2. CASE ~ChatIsIdle(ChatOf[s])
      BY <1>3, <3>2 DEF Withdraw
    <3>3. QED BY <3>1, <3>2
  <2>2. QED BY <1>3, <2>1 DEF Withdraw, SourceStates, opVars
<1>4. CASE AckNative(s)
  <2>1. PICK n \in 0..Len(log[ChatOf[s]]) :
          frontier' = [frontier EXCEPT ![ChatOf[s]] = n]
    BY <1>4 DEF AckNative
  <2>2. n \in Nat
    OBVIOUS
  <2>3. frontier' \in [Chats -> Nat]
    BY <2>1, <2>2
  <2>4. QED BY <1>4, <2>3 DEF AckNative, SourceStates, opVars
<1>5. QED BY <1>1, <1>2, <1>3, <1>4 DEF SourceStep

\* The calls on one operation before its settlement keep the types.
LEMMA OperationStepType ==
  ASSUME TypeOK, NEW o \in Ops, OperationStep(o, version[o])
  PROVE  TypeOK'
<1> USE LedgerConstants DEF LedgerConstants, TypeOK, sourceVars, chatVars
<1> DEFINE v == version[o]
<1>1. CASE BindHarness(o, v)
  BY <1>1 DEF BindHarness, Phases
<1>2. ASSUME NEW i \in Intents, AppendIntent(o, i, v) PROVE TypeOK'
  BY <1>2 DEF AppendIntent
<1>3. CASE FinishHarness(o, v)
  BY <1>3 DEF FinishHarness, Phases
<1>4. ASSUME NEW s \in Sources, AttachQueued(o, s, v) PROVE TypeOK'
  BY <1>4 DEF AttachQueued, SourceStates
<1>5. ASSUME NEW s \in Sources, AcceptCancellation(o, s, v) PROVE TypeOK'
  BY <1>5 DEF AcceptCancellation, RecordCancellation, Phases
<1>6. ASSUME NEW s \in Sources, AcceptAndCancel(o, s, v) PROVE TypeOK'
  <2>1. log' \in [Chats -> Seq(Sources)]
    <3>1. \/ log' = [log EXCEPT ![ChatOf[s]] = Append(@, s)]
          \/ UNCHANGED log
      BY <1>6 DEF AcceptAndCancel
    <3>2. ChatOf[s] \in Chats /\ Append(log[ChatOf[s]], s) \in Seq(Sources)
      OBVIOUS
    <3>3. QED BY <3>1, <3>2
  <2>2. QED
    BY <1>6, <2>1 DEF AcceptAndCancel, RecordCancellation, Phases, SourceStates
<1>7. ASSUME NEW s \in Sources, NEW q \in QueueStates,
             RecordQueuedInput(o, s, q, v)
      PROVE  TypeOK'
  <2>1. /\ state' \in [Sources -> SourceStates]
        /\ queueRow' \in [Sources -> QueueStates \cup {"none"}]
        /\ members' \in [Ops -> SUBSET Sources]
    <3>1. SourceStateForQueue(q) \in SourceStates
      BY DEF SourceStateForQueue, SourceStates, QueueStates
    <3>2. CASE q = "accepted" /\ RecordFirst(o, s)
      BY <3>1, <3>2 DEF RecordFirst
    <3>3. CASE RecordNext(o, s, q)
      BY <3>1, <3>3 DEF RecordNext
    <3>4. QED BY <1>7, <3>2, <3>3 DEF RecordQueuedInput
  <2>2. /\ version' = [version EXCEPT ![o] = @ + 1]
        /\ UNCHANGED <<log, target, phase, primary, harness, cancellation,
                       intents, commit, active, frontier>>
    BY <1>7 DEF RecordQueuedInput
  <2>3. QED BY <2>1, <2>2
<1>8. QED
  BY <1>1, <1>2, <1>3, <1>4, <1>5, <1>6, <1>7 DEF OperationStep

\* commitTerminal keeps the types.
LEMMA SettleStepType ==
  ASSUME TypeOK, NEW o \in Ops, SettleStep(o, version[o])
  PROVE  TypeOK'
<1> USE LedgerConstants DEF LedgerConstants, TypeOK
<1>1. PICK d \in Dispositions, verdict \in [members[o] -> Verdicts] :
        CommitTerminal(o, version[o], d, verdict)
  BY DEF SettleStep
<1>2. state' \in [Sources -> SourceStates]
  BY <1>1 DEF CommitTerminal, Settled, SourceStates, Verdicts
<1>3. queueRow' \in [Sources -> QueueStates \cup {"none"}]
  BY <1>1 DEF CommitTerminal, QueueStates, Verdicts
<1>4. frontier' \in [Chats -> Nat] /\ commit' \in [Ops -> Commits \cup {NoCommit}]
  <2>1. PICK n \in 0..Len(log[ChatOfOp(o)]) :
          /\ frontier' = [frontier EXCEPT ![ChatOfOp(o)] = n]
          /\ commit' = [commit EXCEPT ![o] =
               [disposition |-> d, version |-> version[o] + 1, frontier |-> n]]
    BY <1>1 DEF CommitTerminal
  <2>2. [disposition |-> d, version |-> version[o] + 1, frontier |-> n] \in Commits
    BY DEF Commits
  <2>3. n \in Nat
    OBVIOUS
  <2>4. frontier' \in [Chats -> Nat]
    BY <2>1, <2>3
  <2>5. QED BY <2>1, <2>2, <2>4
<1>5. active' \in [Chats -> Ops \cup {NoOp}]
  BY <1>1 DEF CommitTerminal, ReleaseChat
<1>6. QED
  BY <1>1, <1>2, <1>3, <1>4, <1>5 DEF CommitTerminal, Phases

\* The scheduler's writes keep the types: the source of an operation is in the
\* log of its chat, so the frontier moves to a sequence.
LEMMA SchedulerStepType ==
  ASSUME LedgerInv, NEW s \in Sources, SchedulerStep(s)
  PROVE  TypeOK'
<1> USE LedgerConstants DEF LedgerConstants, LedgerInv, TypeOK
<1>1. ASSUME NEW o \in Ops, AcceptScheduled(s, o) PROVE TypeOK'
  BY <1>1 DEF AcceptScheduled, OpenOperation, SourceStates, Phases
<1>2. ASSUME NEW o \in Ops, primary[o] = s, NEW d \in {"completed", "failed"},
             EndScheduled(o, d), state' \in [Sources -> SourceStates],
             frontier' \in [Chats -> Nat]
      PROVE  TypeOK'
  <2>1. [disposition |-> d, version |-> 0, frontier |-> 0] \in Commits
    BY DEF Commits, Dispositions
  <2>2. ChatOfOp(o) \in Chats
    BY <1>2 DEF ChatOfOp
  <2>3. active' \in [Chats -> Ops \cup {NoOp}]
    BY <1>2, <2>2 DEF EndScheduled
  <2>4. /\ phase' \in [Ops -> Phases] /\ version' \in [Ops -> Nat]
        /\ commit' \in [Ops -> Commits \cup {NoCommit}]
    <3>1. CASE Open(o)
      <4>1. PICK r \in Commits : commit' = [commit EXCEPT ![o] = r]
        <5>1. commit' = [commit EXCEPT ![o] =
                [disposition |-> d, version |-> 0, frontier |-> 0]]
          BY <1>2, <3>1 DEF EndScheduled
        <5>2. QED BY <2>1, <5>1
      <4>2. /\ phase' = [phase EXCEPT ![o] = "terminal"]
            /\ version' = [version EXCEPT ![o] = @ + 1]
        BY <1>2, <3>1 DEF EndScheduled
      <4>3. QED BY <4>1, <4>2 DEF Phases
    <3>2. CASE ~Open(o)
      BY <1>2, <3>2 DEF EndScheduled
    <3>3. QED BY <3>1, <3>2
  <2>5. QED BY <1>2, <2>3, <2>4 DEF EndScheduled
<1>3. ASSUME NEW o \in Ops, NEW success \in BOOLEAN, SettleScheduled(s, o, success)
      PROVE  TypeOK'
  <2>1. state' \in [Sources -> SourceStates] /\ primary[o] = s
    BY <1>3 DEF SettleScheduled, SourceStates
  <2>2. PICK i \in Seqs(ChatOf[s]) : log[ChatOf[s]][i] = s
    <3>1. state[s] # "unseen"
      BY <2>1 DEF FreshOps, MembersOK, SourcesOK, WaitingUnowned, Unowned
    <3>2. QED BY <3>1 DEF LogOK, LogComplete
  <2>3. Position(log[ChatOf[s]], s) \in Nat
    BY <2>2 DEF Position, Seqs
  <2>4. frontier' \in [Chats -> Nat]
    <3>1. PICK n \in Nat : n = Position(log[ChatOf[s]], s)
      BY <2>3
    <3>2. ThroughSource(frontier[ChatOf[s]], n) \in Nat
      BY DEF ThroughSource
    <3>3. \/ frontier' = [frontier EXCEPT ![ChatOf[s]] =
                  ThroughSource(frontier[ChatOf[s]], n)]
          \/ UNCHANGED frontier
      BY <1>3, <3>1 DEF SettleScheduled
    <3>4. QED BY <3>2, <3>3
  <2>5. \E d \in {"completed", "failed"} : EndScheduled(o, d)
    BY <1>3 DEF SettleScheduled
  <2>6. QED BY <1>2, <2>1, <2>4, <2>5
<1>4. ASSUME NEW o \in Ops, ExpireScheduled(s, o) PROVE TypeOK'
  <2>1. state' \in [Sources -> SourceStates]
    BY <1>4 DEF ExpireScheduled, SourceStates
  <2>2. QED BY <1>2, <1>4, <2>1 DEF ExpireScheduled
<1>5. QED BY <1>1, <1>3, <1>4 DEF SchedulerStep

\* Every call keeps the types.
LEMMA TypeStep ==
  ASSUME LedgerInv, [Next]_vars
  PROVE  TypeOK'
<1> USE DEF LedgerInv
<1>1. ASSUME NEW c \in Chats, NEW o \in Ops, ClaimNext(c, o) PROVE TypeOK'
  <2>1. PICK i \in Seqs(c) :
          /\ state' = [state EXCEPT ![log[c][i]] = "claimed"]
          /\ OpenOperation(log[c][i], o)
    BY <1>1 DEF ClaimNext
  <2>2. log[c][i] \in Sources
    BY DEF TypeOK, Seqs
  <2>3. UNCHANGED <<log, target, queueRow>>
    BY <1>1 DEF ClaimNext
  <2>4. QED
    BY <2>1, <2>2, <2>3 DEF TypeOK, OpenOperation, SourceStates, Phases
<1>2. CASE UNCHANGED vars
  BY <1>2 DEF TypeOK, vars, sourceVars, opVars, chatVars
<1>3. QED
  BY <1>1, <1>2, SourceStepType, SchedulerStepType, OperationStepType,
     SettleStepType DEF Next

-----------------------------------------------------------------------------
(* The ownership invariant.                                                *)

\* The empty tables satisfy the ownership invariant.
LEMMA InitLedger == Init => LedgerInv
<1> SUFFICES ASSUME Init PROVE LedgerInv
  OBVIOUS
<1>1. TypeOK
  BY InitType
<1>2. LogOK
  BY DEF Init, LogOK, LogSound, LogComplete, Seqs
<1>3. MembersOK /\ ActiveOK /\ CancellationDecides /\ FreshOps /\ ScheduledAlone
  BY LedgerConstants DEF LedgerConstants, Init, MembersOK, ActiveOK,
     CancellationDecides, FreshOps, ScheduledAlone, Open
<1>4. SourcesOK
  BY DEF Init, SourcesOK, WaitingUnowned, WorkHasOwner, FinishedClosed,
         SingleOwner, Unowned
<1>5. QED BY <1>1, <1>2, <1>3, <1>4 DEF LedgerInv

\* A newly accepted source waits and belongs to nobody.
LEMMA AcceptSourceStep ==
  ASSUME LedgerInv, NEW s \in Sources, NEW o \in Ops \cup {NoOp},
         AcceptSource(s, o), TypeOK'
  PROVE  LedgerInv'
<1> USE DEF LedgerInv
<1>1. /\ state[s] = "unseen" /\ state' = [state EXCEPT ![s] = "pending"]
      /\ log' = [log EXCEPT ![ChatOf[s]] = Append(@, s)]
      /\ UNCHANGED <<phase, primary, members, cancellation, commit, active>>
  BY DEF AcceptSource, opVars, chatVars
<1>2. state'[s] = "pending" /\ \A t \in Sources \ {s} : state'[t] = state[t]
  BY <1>1 DEF TypeOK
<1>3. LogOK'
  BY <1>1, <1>2, AppendKeepsLog
<1>4. /\ MembersOK' /\ ActiveOK' /\ CancellationDecides'
      /\ FreshOps' /\ ScheduledAlone'
  BY <1>1 DEF MembersOK, ActiveOK, CancellationDecides, FreshOps, ScheduledAlone,
              Open, ChatOfOp
<1>5. WaitingUnowned' /\ SingleOwner'
  BY <1>1, <1>2 DEF SourcesOK, WaitingUnowned, SingleOwner, Unowned
<1>6. FinishedClosed'
  BY <1>1, <1>2 DEF SourcesOK, FinishedClosed, WaitingUnowned, Unowned, TypeOK
<1>7. WorkHasOwner'
  BY <1>1, <1>2 DEF SourcesOK, WorkHasOwner, Open
<1>8. QED BY <1>3, <1>4, <1>5, <1>6, <1>7 DEF SourcesOK

\* The source accepted and claimed at once belongs to the operation it opens.
LEMMA AcceptAndClaimStep ==
  ASSUME LedgerInv, NEW s \in Sources, NEW o \in Ops, AcceptAndClaim(s, o),
         TypeOK'
  PROVE  LedgerInv'
<1> USE DEF LedgerInv
<1>1. /\ state[s] = "unseen" /\ state' = [state EXCEPT ![s] = "claimed"]
      /\ log' = [log EXCEPT ![ChatOf[s]] = Append(@, s)]
      /\ ChatIsIdle(ChatOf[s]) /\ NewOperationId(o) /\ OpenOperation(s, o)
  BY DEF AcceptAndClaim
<1>2. LogOK'
  BY <1>1, AppendKeepsLog DEF TypeOK
<1>3. QED BY <1>1, <1>2, OpenKeeps

\* claimNext opens an operation in an idle chat with a source that waits.
LEMMA ClaimNextStep ==
  ASSUME LedgerInv, NEW c \in Chats, NEW o \in Ops, ClaimNext(c, o), TypeOK'
  PROVE  LedgerInv'
<1> USE DEF LedgerInv
<1>1. PICK i \in Seqs(c) :
        /\ state[log[c][i]] = "pending"
        /\ state' = [state EXCEPT ![log[c][i]] = "claimed"]
        /\ OpenOperation(log[c][i], o)
  BY DEF ClaimNext, Claimable, Pending
<1>2. log[c][i] \in Sources /\ ChatOf[log[c][i]] = c
  BY DEF TypeOK, Seqs, LogOK, LogSound
<1>3. ChatIsIdle(c) /\ NewOperationId(o) /\ UNCHANGED log
  BY DEF ClaimNext
<1>4. LogOK'
  BY <1>1, <1>2, <1>3, SameLog DEF TypeOK
<1>5. QED BY <1>1, <1>2, <1>3, <1>4, OpenKeeps

\* Only a source that waits and belongs to nobody is withdrawn.
LEMMA WithdrawStep ==
  ASSUME LedgerInv, NEW s \in Sources, Withdraw(s), TypeOK'
  PROVE  LedgerInv'
<1> USE DEF LedgerInv
<1>1. /\ Unowned(s) /\ state[s] = "pending"
      /\ state' = [state EXCEPT ![s] = "disposed"]
      /\ UNCHANGED <<log, phase, primary, members, cancellation, commit, active>>
  BY DEF Withdraw, Unclaimed, opVars
<1>2. state'[s] = "disposed" /\ \A t \in Sources \ {s} : state'[t] = state[t]
  BY <1>1 DEF TypeOK
<1>3. LogOK'
  BY <1>1, <1>2, SameLog
<1>4. /\ MembersOK' /\ ActiveOK' /\ CancellationDecides'
      /\ FreshOps' /\ ScheduledAlone'
  BY <1>1 DEF MembersOK, ActiveOK, CancellationDecides, FreshOps, ScheduledAlone,
              Open, ChatOfOp
<1>5. WaitingUnowned' /\ SingleOwner' /\ FinishedClosed'
  BY <1>1, <1>2 DEF SourcesOK, WaitingUnowned, SingleOwner, FinishedClosed,
                    Unowned, TypeOK
<1>6. WorkHasOwner'
  BY <1>1, <1>2 DEF SourcesOK, WorkHasOwner, Open
<1>7. QED BY <1>3, <1>4, <1>5, <1>6 DEF SourcesOK

\* The acknowledgement closes a source that waits, or was closed before.
LEMMA AckNativeStep ==
  ASSUME LedgerInv, NEW s \in Sources, AckNative(s), TypeOK'
  PROVE  LedgerInv'
<1> USE DEF LedgerInv
<1>1. /\ state[s] \in {"pending", "consumed"}
      /\ state' = [state EXCEPT ![s] = "consumed"]
      /\ UNCHANGED <<log, phase, primary, members, cancellation, commit, active>>
  BY DEF AckNative, opVars
<1>2. state'[s] = "consumed" /\ \A t \in Sources \ {s} : state'[t] = state[t]
  BY <1>1 DEF TypeOK
<1>3. LogOK'
  BY <1>1, <1>2, SameLog
<1>4. /\ MembersOK' /\ ActiveOK' /\ CancellationDecides'
      /\ FreshOps' /\ ScheduledAlone'
  BY <1>1 DEF MembersOK, ActiveOK, CancellationDecides, FreshOps, ScheduledAlone,
              Open, ChatOfOp
<1>5. WaitingUnowned' /\ SingleOwner'
  BY <1>1, <1>2 DEF SourcesOK, WaitingUnowned, SingleOwner, Unowned
<1>6. FinishedClosed'
  BY <1>1, <1>2 DEF SourcesOK, FinishedClosed, TypeOK, Closed, Verdicts
<1>7. WorkHasOwner'
  BY <1>1, <1>2 DEF SourcesOK, WorkHasOwner, Open
<1>8. QED BY <1>3, <1>4, <1>5, <1>6, <1>7 DEF SourcesOK

\* The calls that change only the operation itself: binding the harness,
\* appending an intent, finishing the harness and recording a cancellation.
LEMMA OwnFieldsStep ==
  ASSUME LedgerInv, NEW o \in Ops, Open(o), Open(o)', TypeOK',
         \A p \in Ops \ {o} : /\ phase'[p] = phase[p]
                              /\ cancellation'[p] = cancellation[p],
         cancellation'[o] = cancellation[o] \/ Joinable(o),
         UNCHANGED <<log, state, primary, members, commit, active>>
  PROVE  LedgerInv'
<1> USE DEF LedgerInv
<1>1. \A p \in Ops : Open(p)' = Open(p)
  <2>1. \A p \in Ops \ {o} : Open(p)' = Open(p)
    BY DEF Open
  <2>2. Open(o) /\ Open(o)'
    OBVIOUS
  <2>3. Open(o)' = Open(o)
    BY <2>2 DEF Open
  <2>4. QED BY <2>1, <2>3
<1>2. phase[o] \notin {"unused", "terminal"} /\ phase'[o] \notin {"unused", "terminal"}
  BY DEF Open
<1>3. LogOK'
  BY SameLog
<1>4. ActiveOK'
  BY <1>1, SameActive
<1>5. MembersOK' /\ SourcesOK'
  <2>1. ASSUME NEW p \in Ops
        PROVE  /\ phase'[p] = "terminal" => phase[p] = "terminal"
               /\ phase'[p] = "unused" => phase[p] = "unused"
               /\ phase'[p] # "unused" => phase[p] # "unused"
    BY <1>2
  <2>2. QED BY <1>1, <2>1, SameSources
<1>6. CancellationDecides'
  BY <1>2, SameVerdicts
<1>7. FreshOps' /\ ScheduledAlone'
  BY <1>2, SameScheduled
<1>8. QED BY <1>3, <1>4, <1>5, <1>6, <1>7

\* An attached message was waiting and becomes a member of the active operation.
LEMMA AttachQueuedStep ==
  ASSUME LedgerInv, NEW o \in Ops, NEW s \in Sources,
         AttachQueued(o, s, version[o]), Joinable(o), TypeOK'
  PROVE  LedgerInv'
<1> USE DEF LedgerInv
<1>1. /\ active[ChatOf[s]] = o /\ phase[o] = "executing"
      /\ state[s] = "pending" /\ Unowned(s)
      /\ state' = [state EXCEPT ![s] = "claimed"]
      /\ members' = [members EXCEPT ![o] = @ \cup {s}]
      /\ UNCHANGED <<log, phase, primary, cancellation, commit, active>>
  BY DEF AttachQueued, Unclaimed, chatVars
<1>2. Open(o) /\ Open(o)'
  BY <1>1 DEF Open
<1>3. ChatOf[s] = ChatOfOp(o)
  <2>1. ChatOf[s] \in Chats /\ o # NoOp
    BY LedgerConstants DEF LedgerConstants
  <2>2. QED BY <1>1, <2>1 DEF ActiveOK
<1>4. LogOK'
  BY <1>1, SameLog DEF TypeOK
<1>5. MembersOK' /\ SourcesOK'
  BY <1>1, <1>2, <1>3, JoinKeeps
<1>6. ActiveOK' /\ CancellationDecides'
  BY <1>1 DEF ActiveOK, CancellationDecides, Open, ChatOfOp
<1>7. FreshOps' /\ ScheduledAlone'
  BY <1>1, SameScheduled DEF TypeOK
<1>8. QED BY <1>4, <1>5, <1>6, <1>7

\* The cancellation source joins the operation that it cancels.
LEMMA AcceptAndCancelStep ==
  ASSUME LedgerInv, NEW o \in Ops, NEW s \in Sources,
         AcceptAndCancel(o, s, version[o]), Joinable(o), TypeOK'
  PROVE  LedgerInv'
<1> USE DEF LedgerInv
<1>1. /\ Open(o) /\ ChatOf[s] = ChatOfOp(o)
      /\ state[s] \in {"unseen", "pending"}
      /\ state' = [state EXCEPT ![s] = "claimed"]
      /\ members' = [members EXCEPT ![o] = @ \cup {s}]
      /\ phase' = [phase EXCEPT ![o] = "cancelling"]
      /\ cancellation' = [cancellation EXCEPT ![o] = s]
      /\ UNCHANGED <<primary, commit, active>>
  BY DEF AcceptAndCancel, RecordCancellation, chatVars
<1>2. /\ phase'[o] = "cancelling" /\ Open(o)' /\ Unowned(s)
      /\ \A p \in Ops \ {o} : /\ phase'[p] = phase[p]
                               /\ cancellation'[p] = cancellation[p]
  BY <1>1 DEF TypeOK, Open, SourcesOK, WaitingUnowned
<1>3. LogOK'
  <2>1. CASE state[s] = "unseen" /\ log' = [log EXCEPT ![ChatOf[s]] = Append(@, s)]
    BY <1>1, <2>1, AppendKeepsLog DEF TypeOK
  <2>2. CASE state[s] = "pending" /\ UNCHANGED log
    BY <1>1, <2>2, SameLog DEF TypeOK
  <2>3. QED BY <2>1, <2>2 DEF AcceptAndCancel
<1>4. MembersOK' /\ SourcesOK'
  BY <1>1, <1>2, JoinKeeps
<1>5. ActiveOK'
  <2>1. \A p \in Ops : p # o => Open(p)' = Open(p)
    BY <1>2 DEF Open
  <2>2. Open(o)' = Open(o)
    BY <1>1, <1>2 DEF Open
  <2>3. QED BY <1>1, <2>1, <2>2, SameActive
<1>6. CancellationDecides'
  BY <1>1, <1>2, SameVerdicts
<1>7. FreshOps' /\ ScheduledAlone'
  <2>1. /\ phase[o] # "unused"
        /\ \A p \in Ops \ {o} : members'[p] = members[p]
    BY <1>1 DEF TypeOK, Open
  <2>2. QED BY <1>1, <1>2, <2>1, SameScheduled
<1>8. QED BY <1>3, <1>4, <1>5, <1>6, <1>7

\* A recorded queue state moves the source of an unfinished operation.
LEMMA RecordQueuedInputStep ==
  ASSUME LedgerInv, NEW o \in Ops, NEW s \in Sources, NEW q \in QueueStates,
         RecordQueuedInput(o, s, q, version[o]), Joinable(o), TypeOK'
  PROVE  LedgerInv'
<1> USE DEF LedgerInv
<1>1. /\ Open(o) /\ ChatOf[s] = ChatOfOp(o)
      /\ UNCHANGED <<log, phase, primary, cancellation, commit, active>>
  BY DEF RecordQueuedInput, chatVars
<1>2. Open(o)'
  BY <1>1 DEF Open
<1>3. ActiveOK' /\ CancellationDecides'
  BY <1>1 DEF ActiveOK, CancellationDecides, Open, ChatOfOp
<1>4. FreshOps' /\ ScheduledAlone'
  <2>1. \A p \in Ops \ {o} : members'[p] = members[p]
    BY DEF RecordQueuedInput, RecordFirst, RecordNext, TypeOK
  <2>2. QED BY <1>1, <2>1, SameScheduled
<1>5. CASE RecordFirst(o, s)
  <2>1. /\ state[s] = "pending" /\ Unowned(s)
        /\ state' = [state EXCEPT ![s] = "claimed"]
        /\ members' = [members EXCEPT ![o] = @ \cup {s}]
    BY <1>5 DEF RecordFirst, SourceStateForQueue, SourcesOK, WaitingUnowned
  <2>2. LogOK'
    BY <1>1, <2>1, SameLog DEF TypeOK
  <2>3. QED BY <1>1, <1>2, <1>3, <1>4, <2>1, <2>2, JoinKeeps
<1>6. CASE RecordNext(o, s, q)
  <2>1. /\ s \in members[o] /\ UNCHANGED members
        /\ state'[s] \in {"queued", "consumed", "disposed"}
        /\ \A t \in Sources \ {s} : state'[t] = state[t]
    BY <1>6 DEF RecordNext, QueueTransition, SourceStateForQueue, TypeOK, Verdicts
  <2>2. LogOK'
    <3>1. state[s] # "unseen"
      BY <2>1 DEF SourcesOK, WaitingUnowned, Unowned
    <3>2. QED BY <1>1, <2>1, <3>1, SameLog
  <2>3. MembersOK'
    BY <1>1, <2>1 DEF MembersOK, ChatOfOp
  <2>4. WaitingUnowned' /\ SingleOwner'
    BY <2>1 DEF SourcesOK, WaitingUnowned, SingleOwner, Unowned
  <2>5. WorkHasOwner'
    BY <1>1, <1>2, <2>1 DEF SourcesOK, WorkHasOwner, Open
  <2>6. FinishedClosed'
    <3>1. ASSUME NEW p \in Ops, phase[p] = "terminal", NEW t \in members[p]
          PROVE  t # s /\ t \in Sources /\ Closed(state[t])
      BY <1>1, <2>1, <3>1 DEF SourcesOK, SingleOwner, FinishedClosed, Open, TypeOK
    <3>2. QED BY <1>1, <2>1, <3>1 DEF FinishedClosed
  <2>7. QED BY <1>3, <1>4, <2>2, <2>3, <2>4, <2>5, <2>6 DEF SourcesOK
<1>7. QED BY <1>5, <1>6 DEF RecordQueuedInput

\* Every call on one operation before its settlement keeps the invariant.
LEMMA OperationStepKeeps ==
  ASSUME LedgerInv, NEW o \in Ops, OperationStep(o, version[o]), TypeOK'
  PROVE  LedgerInv'
<1> DEFINE v == version[o]
<1>1. CASE BindHarness(o, v)
  <2>1. phase'[o] \in {"executing", "cancelling"} /\ Open(o)
    BY <1>1 DEF BindHarness, LedgerInv, TypeOK
  <2>2. QED
    BY <1>1, <2>1, OwnFieldsStep
       DEF BindHarness, Open, LedgerInv, TypeOK, sourceVars, chatVars
<1>2. ASSUME NEW i \in Intents, AppendIntent(o, i, v) PROVE LedgerInv'
  BY <1>2, OwnFieldsStep DEF AppendIntent, Open, sourceVars, chatVars
<1>3. CASE FinishHarness(o, v)
  BY <1>3, OwnFieldsStep
     DEF FinishHarness, Finishable, Open, LedgerInv, TypeOK, sourceVars, chatVars
<1>4. ASSUME NEW s \in Sources, Joinable(o), AcceptCancellation(o, s, v)
      PROVE  LedgerInv'
  BY <1>4, OwnFieldsStep
     DEF AcceptCancellation, RecordCancellation, Open, LedgerInv, TypeOK,
         sourceVars, chatVars
<1>5. QED
  BY <1>1, <1>2, <1>3, <1>4, AttachQueuedStep, AcceptAndCancelStep,
     RecordQueuedInputStep DEF OperationStep

\* Settlement closes every member, frees the chat and records the verdict.
LEMMA CommitTerminalStep ==
  ASSUME LedgerInv, NEW o \in Ops, NEW d \in Dispositions,
         NEW verdict \in [members[o] -> Verdicts],
         CommitTerminal(o, version[o], d, verdict), TypeOK'
  PROVE  LedgerInv'
<1> USE DEF LedgerInv
<1>1. /\ Open(o) /\ active[ChatOfOp(o)] = o /\ DispositionAllowed(o, d)
      /\ state' = Settled(o, verdict)
      /\ active' = [active EXCEPT ![ChatOfOp(o)] = NoOp]
      /\ phase' = [phase EXCEPT ![o] = "terminal"]
      /\ UNCHANGED <<log, primary, members, cancellation>>
  BY DEF CommitTerminal, Committable, ReleaseChat
<1>2. /\ \A t \in members[o] : Closed(state'[t])
      /\ \A t \in Sources \ members[o] : state'[t] = state[t]
  BY <1>1 DEF TypeOK, Settled, Closed
<1>3. PICK r \in Commits : r.disposition = d /\ commit' = [commit EXCEPT ![o] = r]
  <2>1. PICK n \in 0..Len(log[ChatOfOp(o)]) : commit' = [commit EXCEPT ![o] =
          [disposition |-> d, version |-> version[o] + 1, frontier |-> n]]
    BY DEF CommitTerminal
  <2>2. [disposition |-> d, version |-> version[o] + 1, frontier |-> n] \in Commits
    BY DEF Commits, TypeOK, Open
  <2>3. QED BY <2>1, <2>2
<1>4. commit'[o].disposition = d /\ \A p \in Ops \ {o} : commit'[p] = commit[p]
  BY <1>3 DEF TypeOK
<1>5. (d = "cancelled") = (cancellation[o] # NoSource)
  BY <1>1 DEF DispositionAllowed
<1>6. QED BY <1>1, <1>2, <1>4, <1>5, EndKeeps

\* The source accepted for a scheduled run belongs to the operation it opens.
LEMMA AcceptScheduledStep ==
  ASSUME LedgerInv, NEW s \in Sources, NEW o \in Ops, AcceptScheduled(s, o),
         TypeOK'
  PROVE  LedgerInv'
<1> USE DEF LedgerInv
<1>1. /\ state[s] = "unseen" /\ state' = [state EXCEPT ![s] = "claimed"]
      /\ log' = [log EXCEPT ![ChatOf[s]] = Append(@, s)]
      /\ ChatIsIdle(ChatOf[s]) /\ NewOperationId(o) /\ OpenOperation(s, o)
  BY DEF AcceptScheduled
<1>2. LogOK'
  BY <1>1, AppendKeepsLog DEF TypeOK
<1>3. QED BY <1>1, <1>2, OpenKeeps

\* The end that the scheduler gives the operation of a run closes its source,
\* which is all that the operation owns; a second end changes nothing else.
LEMMA EndScheduledStep ==
  ASSUME LedgerInv, NEW s \in Sources, Scheduled(s), NEW o \in Ops,
         primary[o] = s, NEW d \in {"completed", "failed"}, EndScheduled(o, d),
         NEW st \in Verdicts, state' = [state EXCEPT ![s] = st], TypeOK'
  PROVE  LedgerInv'
<1> USE DEF LedgerInv
<1>1. /\ members[o] = {s} /\ cancellation[o] = NoSource /\ phase[o] # "unused"
      /\ state[s] # "unseen"
  <2>1. members[o] = {s} /\ cancellation[o] = NoSource /\ phase[o] # "unused"
    BY LedgerConstants DEF LedgerConstants, ScheduledAlone, FreshOps
  <2>2. QED BY <2>1 DEF SourcesOK, WaitingUnowned, Unowned
<1>2. /\ state'[s] = st /\ Closed(st)
      /\ \A t \in Sources \ {s} : state'[t] = state[t]
  BY DEF TypeOK, Closed
<1>3. /\ active' = [active EXCEPT ![ChatOfOp(o)] = IF @ = o THEN NoOp ELSE @]
      /\ UNCHANGED <<log, primary, members, cancellation>>
      /\ ChatOfOp(o) \in Chats
  BY LedgerConstants DEF LedgerConstants, EndScheduled, ChatOfOp
<1>4. CASE Open(o)
  <2>1. active' = [active EXCEPT ![ChatOfOp(o)] = NoOp]
    BY <1>3, <1>4 DEF ActiveOK, TypeOK
  <2>2. PICK r : /\ r = [disposition |-> d, version |-> 0, frontier |-> 0]
                 /\ commit' = [commit EXCEPT ![o] = r]
    BY <1>4 DEF EndScheduled
  <2>3. commit'[o].disposition = d /\ \A p \in Ops \ {o} : commit'[p] = commit[p]
    BY <2>2 DEF TypeOK
  <2>4. phase' = [phase EXCEPT ![o] = "terminal"]
    BY <1>4 DEF EndScheduled
  <2>5. /\ \A t \in members[o] : Closed(state'[t])
        /\ \A t \in Sources \ members[o] : state'[t] = state[t]
        /\ (commit'[o].disposition = "cancelled") = (cancellation[o] # NoSource)
    BY <1>1, <1>2, <2>3
  <2>6. QED BY <1>3, <1>4, <2>1, <2>3, <2>4, <2>5, EndKeeps
<1>5. CASE ~Open(o)
  <2>1. phase[o] = "terminal" /\ UNCHANGED <<phase, commit>>
    BY <1>1, <1>5 DEF EndScheduled, Open
  <2>2. UNCHANGED active
    BY <1>3, <1>5, LedgerConstants DEF LedgerConstants, ActiveOK, TypeOK
  <2>3. LogOK'
    <3>1. \A t \in Sources : state'[t] # "unseen" <=> state[t] # "unseen"
      BY <1>1, <1>2 DEF Closed, Verdicts
    <3>2. QED BY <1>3, <3>1, SameLog
  <2>4. MembersOK' /\ ActiveOK' /\ CancellationDecides' /\ FreshOps' /\ ScheduledAlone'
    BY <1>3, <2>1, <2>2 DEF MembersOK, ActiveOK, CancellationDecides, FreshOps,
                            ScheduledAlone, Open, ChatOfOp
  <2>5. WaitingUnowned' /\ SingleOwner'
    BY <1>2, <1>3 DEF SourcesOK, WaitingUnowned, SingleOwner, Unowned, Closed,
                      Verdicts
  <2>6. FinishedClosed'
    BY <1>2, <1>3, <2>1 DEF SourcesOK, FinishedClosed, TypeOK, Closed
  <2>7. WorkHasOwner'
    BY <1>2, <1>3, <2>1 DEF SourcesOK, WorkHasOwner, Open, Closed, Verdicts
  <2>8. QED BY <2>3, <2>4, <2>5, <2>6, <2>7 DEF SourcesOK
<1>6. QED BY <1>4, <1>5

\* The scheduler's writes keep the ownership invariant.
LEMMA SchedulerStepKeeps ==
  ASSUME LedgerInv, NEW s \in Sources, SchedulerStep(s), TypeOK'
  PROVE  LedgerInv'
<1>1. Scheduled(s)
  BY DEF SchedulerStep
<1>2. ASSUME NEW o \in Ops, NEW success \in BOOLEAN, SettleScheduled(s, o, success)
      PROVE  LedgerInv'
  BY <1>1, <1>2, EndScheduledStep DEF SettleScheduled, Verdicts
<1>3. ASSUME NEW o \in Ops, ExpireScheduled(s, o) PROVE LedgerInv'
  BY <1>1, <1>3, EndScheduledStep DEF ExpireScheduled, Closed, Verdicts
<1>4. QED BY <1>2, <1>3, AcceptScheduledStep DEF SchedulerStep

\* Every call keeps the ownership invariant.
LEMMA LedgerStep ==
  ASSUME LedgerInv, [Next]_vars
  PROVE  LedgerInv'
<1>1. TypeOK'
  BY TypeStep
<1>2. ASSUME NEW s \in Sources, SourceStep(s) PROVE LedgerInv'
  BY <1>1, <1>2, AcceptSourceStep, AcceptAndClaimStep, WithdrawStep,
     AckNativeStep DEF SourceStep
<1>2a. ASSUME NEW s \in Sources, SchedulerStep(s) PROVE LedgerInv'
  BY <1>1, <1>2a, SchedulerStepKeeps
<1>3. ASSUME NEW c \in Chats, NEW o \in Ops, ClaimNext(c, o) PROVE LedgerInv'
  BY <1>1, <1>3, ClaimNextStep
<1>4. ASSUME NEW o \in Ops, OperationStep(o, version[o]) PROVE LedgerInv'
  BY <1>1, <1>4, OperationStepKeeps
<1>5. ASSUME NEW o \in Ops, SettleStep(o, version[o]) PROVE LedgerInv'
  BY <1>1, <1>5, CommitTerminalStep DEF SettleStep
<1>6. CASE UNCHANGED vars
  BY <1>1, <1>6
     DEF LedgerInv, FreshOps, ScheduledAlone, vars, sourceVars, opVars,
         chatVars, LogOK, LogSound, LogComplete, MembersOK,
         ActiveOK, SourcesOK, WaitingUnowned, WorkHasOwner, FinishedClosed,
         SingleOwner, Unowned, CancellationDecides, Seqs, Open, ChatOfOp, Closed
<1>7. QED BY <1>2, <1>2a, <1>3, <1>4, <1>5, <1>6 DEF Next

\* The ownership invariant holds in every behaviour: the log, the memberships,
\* the active operation and the source states agree after every call of the stores.
THEOREM LedgerInvariant == Spec => []LedgerInv
BY InitLedger, LedgerStep, PTL DEF Spec

\* Every variable of the ledger keeps its type: no call of the two stores and
\* no write of the scheduler puts a state, phase or disposition outside the sets
\* of the schema.
THEOREM TypeCorrect == Spec => []TypeOK
<1>1. LedgerInv => TypeOK
  BY DEF LedgerInv
<1>2. QED BY LedgerInvariant, <1>1, PTL

-----------------------------------------------------------------------------
(* What the invariant says of the ledger.                                  *)

\* A well-formed active column names exactly the unfinished operations.
LEMMA LedgerOneOwner == LedgerInv => OneOwner
<1> SUFFICES ASSUME LedgerInv, NEW c \in Chats
             PROVE  {o \in Ops : Open(o) /\ ChatOfOp(o) = c} = {active[c]} \ {NoOp}
  BY DEF OneOwner
<1>1. ASSUME NEW o \in Ops, Open(o), ChatOfOp(o) = c
      PROVE  o = active[c] /\ o # NoOp
  BY <1>1, LedgerConstants DEF LedgerConstants, LedgerInv, ActiveOK
<1>2. active[c] # NoOp =>
        active[c] \in Ops /\ Open(active[c]) /\ ChatOfOp(active[c]) = c
  BY DEF LedgerInv, ActiveOK, TypeOK
<1>3. QED BY <1>1, <1>2

\* The named parts about sources are the ownership property.
LEMMA LedgerSourceOwnership == LedgerInv => SourceOwnership
BY DEF LedgerInv, SourcesOK, SourceOwnership, WaitingUnowned, WorkHasOwner,
       FinishedClosed, SingleOwner

\* A well-formed log holds each source once.
LEMMA LedgerAcceptedOnce == LedgerInv => AcceptedOnce
BY DEF LedgerInv, LogOK, LogSound, AcceptedOnce

\* The unfinished operations of a chat are exactly its active operation, for
\* any number of claims, cancellations and settlements that race.
THEOREM OneOwnerTheorem == Spec => []OneOwner
BY LedgerInvariant, LedgerOneOwner, PTL

\* A source belongs to at most one operation for life, waits unowned, works
\* under an unfinished operation, and is closed when its operation is done.
THEOREM SourceOwnershipTheorem == Spec => []SourceOwnership
BY LedgerInvariant, LedgerSourceOwnership, PTL

\* A source id is given one sequence, however often it is sent.
THEOREM AcceptedOnceTheorem == Spec => []AcceptedOnce
BY LedgerInvariant, LedgerAcceptedOnce, PTL

\* An operation ends as cancelled exactly when its cancellation was accepted.
THEOREM CancellationTheorem == Spec => []CancellationDecides
<1>1. LedgerInv => CancellationDecides
  BY DEF LedgerInv
<1>2. QED BY LedgerInvariant, <1>1, PTL
=============================================================================
