------------------------- MODULE ServiceOutboxProofs -------------------------
(***************************************************************************)
(* Machine-checked facts about ServiceOutbox, for every set of rows,       *)
(* tokens and workers and every bound on attempts and instants.            *)
(*                                                                         *)
(* The inductive invariant says of each row what its recorded history is:  *)
(* which results the current attempt has in each state, how every earlier  *)
(* attempt ended, and that nothing is recorded for a later one.            *)
(***************************************************************************)
EXTENDS ServiceOutbox, TLAPS

Blank(r, k) == outcomes[r][k] = NoResult /\ resolutions[r][k] = NoResult

Ambiguous(r, k) == outcomes[r][k].state = "unknown"

\* How attempt k ended, when another one followed it.
Past(r, k) ==
  \/ Retry(outcomes[r][k]) /\ resolutions[r][k] = NoResult
  \/ Ambiguous(r, k) /\ Retry(resolutions[r][k])
  \/ /\ Blank(r, k)
     /\ \/ reclaims[r][k] = "repeatable" /\ r \in Repeatable
        \/ reclaims[r][k] = "reconciled_absent"

\* What is recorded for the current attempt k in each state of the row.
Current(r, k) ==
  /\ state[r] = "started" => Blank(r, k)
  /\ state[r] = "unknown" => Ambiguous(r, k) /\ resolutions[r][k] = NoResult
  /\ state[r] = "completed" =>
       \/ outcomes[r][k].state = "completed" /\ resolutions[r][k] = NoResult
       \/ Ambiguous(r, k) /\ resolutions[r][k].state = "completed"
  /\ state[r] = "failed" =>
       \/ /\ outcomes[r][k].state = "failed"
          /\ outcomes[r][k].retry = due[r]
          /\ resolutions[r][k] = NoResult
       \/ /\ Ambiguous(r, k)
          /\ resolutions[r][k].state = "failed"
          /\ resolutions[r][k].retry = due[r]
  /\ state[r] = "cancelled" =>
       Ambiguous(r, k) /\ resolutions[r][k].state = "cancelled"

\* No reclaim of attempt k was applied.
NotReclaimed(r, k) == reclaims[r][k] \in {"none", "stale"}

RetryLater(result) == result.retry # Never => result.retry > result.at

History(r) ==
  \A k \in Attempts :
    /\ k < attempt[r] => Past(r, k)
    /\ k = attempt[r] => Current(r, k)
    /\ k > attempt[r] => Blank(r, k)
    /\ k >= attempt[r] => NotReclaimed(r, k)
    /\ RetryLater(outcomes[r][k])
    /\ RetryLater(resolutions[r][k])

RowInv(r) == RowCheck(r) /\ History(r)

OutboxInv == TypeOK /\ \A r \in Rows : RowInv(r)

-----------------------------------------------------------------------------
(* Types.                                                                  *)

\* A granted attempt has a well-typed row and lease.
LEMMA GrantTyped ==
  ASSUME TypeOK, NEW r \in Rows, NEW k \in Attempts, NEW t \in Tokens,
         NEW w \in Workers, NEW now \in Times, NEW until \in Times,
         Grant(r, k, t, w, now, until)
  PROVE  /\ state' \in [Rows -> States]
         /\ attempt' \in [Rows -> 0..MaxAttempt]
         /\ due' \in [Rows -> Times \cup {Never}]
         /\ holder' \in [Rows -> Tokens \cup {NoToken}]
         /\ leases' \in [Tokens -> Leases \cup {NoLease}]
<1>1. k \in 0..MaxAttempt /\ "started" \in States
  BY OutboxConstants DEF OutboxConstants, Attempts, States
<1>2. [row |-> r, attempt |-> k, worker |-> w, claimedAt |-> now,
       expires |-> until] \in Leases
  BY DEF Leases
<1>3. QED BY <1>1, <1>2 DEF TypeOK, Grant

\* An attempt that is not the last one in the bound is followed by another.
LEMMA NextAttempt ==
  \A k \in 0..MaxAttempt : k < MaxAttempt => k + 1 \in Attempts
BY OutboxConstants DEF OutboxConstants, Attempts

\* A recorded worker result leaves every column and table well typed.
LEMMA ResultTyped ==
  ASSUME TypeOK, NEW r \in Rows, NEW k \in Attempts, NEW t, NEW w,
         NEW outcome \in Results, Result(r, k, t, w, outcome)
  PROVE  TypeOK'
<1>1. /\ outcome.state \in States
      /\ outcome.retry \in Times \cup {Never}
  BY DEF Results, States
<1>2. QED BY <1>1 DEF TypeOK, Result

\* Cleanup leaves every column and table well typed.
LEMMA CleanupTyped ==
  ASSUME TypeOK, NEW gone \in SUBSET Rows, CleanupTerminal(gone)
  PROVE  TypeOK'
<1>1. /\ "absent" \in States /\ 0 \in 0..MaxAttempt
      /\ "none" \in Decision
  BY OutboxConstants DEF OutboxConstants, States, Decision
<1>2. /\ state' \in [Rows -> States]
      /\ attempt' \in [Rows -> 0..MaxAttempt]
      /\ due' \in [Rows -> Times \cup {Never}]
      /\ holder' \in [Rows -> Tokens \cup {NoToken}]
      /\ reconciled' \in [Rows -> BOOLEAN]
  BY <1>1 DEF TypeOK, CleanupTerminal, Without
<1>3. [k \in Attempts |-> NoResult] \in [Attempts -> Results \cup {NoResult}]
      /\ [k \in Attempts |-> "none"] \in [Attempts -> Decision]
  BY <1>1
<1>4. /\ outcomes' \in [Rows -> [Attempts -> Results \cup {NoResult}]]
      /\ resolutions' \in [Rows -> [Attempts -> Results \cup {NoResult}]]
      /\ reclaims' \in [Rows -> [Attempts -> Decision]]
  BY <1>3 DEF TypeOK, CleanupTerminal, Without
<1>5. resolves' \subseteq Rows \X Attempts /\ leases' = leases /\ empty' = empty
  BY DEF TypeOK, CleanupTerminal, KeptLeases
<1>6. QED BY <1>2, <1>4, <1>5 DEF TypeOK

\* Every step keeps the columns and tables well typed.
LEMMA TypeStep == TypeOK /\ [Next]_vars => TypeOK'
<1> SUFFICES ASSUME TypeOK, [Next]_vars PROVE TypeOK'
  OBVIOUS
<1>1. ASSUME NEW r \in Rows, NEW at \in Times, Enqueue(r, at) PROVE TypeOK'
  BY <1>1, OutboxConstants
     DEF OutboxConstants, TypeOK, Enqueue, authorityVars, States
<1>2. ASSUME NEW t \in Tokens, NEW kinds, NEW now \in Times,
             ClaimEmpty(t, kinds, now)
      PROVE  TypeOK'
  BY <1>2 DEF TypeOK, ClaimEmpty, rowVars
<1>3. ASSUME NEW r \in Rows, NEW t \in Tokens, NEW w \in Workers, NEW kinds,
             NEW now \in Times, NEW until \in Times,
             ClaimNext(r, t, w, kinds, now, until)
      PROVE  TypeOK'
  <2>1. attempt[r] + 1 \in Attempts
    BY <1>3, NextAttempt DEF TypeOK, ClaimNext
  <2>2. QED BY <1>3, <2>1, GrantTyped DEF TypeOK, ClaimNext
<1>4. ASSUME NEW r \in Rows, NEW k \in Attempts, NEW t \in Tokens,
             NEW authority, NEW now \in Times,
             ReclaimStale(r, k, t, authority, now)
      PROVE  TypeOK'
  BY <1>4 DEF TypeOK, ReclaimStale, rowVars, Decision
<1>5. ASSUME NEW r \in Rows, NEW k \in Attempts, NEW t \in Tokens,
             NEW w \in Workers, NEW authority \in Authorities,
             NEW now \in Times, NEW until \in Times,
             Reclaim(r, k, t, w, authority, now, until)
      PROVE  TypeOK'
  <2>1. k + 1 \in Attempts
    BY <1>5, OutboxConstants DEF OutboxConstants, Attempts, Reclaim
  <2>2. authority \in Decision
    BY DEF Decision
  <2>3. reconciled' \in [Rows -> BOOLEAN]
    BY <1>5 DEF TypeOK, Reclaim
  <2>4. reclaims' \in [Rows -> [Attempts -> Decision]]
    BY <1>5, <2>2 DEF TypeOK, Reclaim
  <2>5. QED BY <1>5, <2>1, <2>3, <2>4, GrantTyped DEF TypeOK, Reclaim
<1>6. ASSUME WorkerResults PROVE TypeOK'
  <2>1. PICK r \in Rows, k \in Attempts, t \in Tokens, w \in Workers,
             at \in Times :
          \/ Complete(r, k, t, w, at)
          \/ MarkUnknown(r, k, t, w, at)
          \/ \E retry \in Times \cup {Never} : Fail(r, k, t, w, at, retry)
    BY <1>6 DEF WorkerResults
  <2>2. PICK outcome \in Results : Result(r, k, t, w, outcome)
    BY <2>1 DEF Complete, MarkUnknown, Fail, Results
  <2>3. QED BY <2>2, ResultTyped
<1>7. ASSUME NEW r \in Rows, NEW k \in Attempts, NEW resolution \in Resolutions,
             ResolveUnknown(r, k, resolution)
      PROVE  TypeOK'
  <2>1. /\ resolution \in Results
        /\ resolution.state \in States
        /\ resolution.retry \in Times \cup {Never}
    BY DEF Resolutions, Results, States
  <2>2. QED BY <1>7, <2>1 DEF TypeOK, ResolveUnknown
<1>8. ASSUME NEW r \in Rows, NEW k \in Attempts, NEW resolution,
             ResolveStale(r, k, resolution)
      PROVE  TypeOK'
  BY <1>8 DEF TypeOK, ResolveStale, rowVars
<1>9. CASE UNCHANGED vars
  BY <1>9 DEF TypeOK, vars, rowVars, authorityVars
<1>10. QED
  BY <1>1, <1>2, <1>3, <1>4, <1>5, <1>6, <1>7, <1>8, <1>9, CleanupTyped
     DEF Next, Claims, Reclaims, Reconciliations

\* The store is empty at first.
LEMMA TypeInit == Init => TypeOK
BY OutboxConstants DEF OutboxConstants, Init, TypeOK, States, Decision

\* Every column and table holds values of its range in every behaviour.
THEOREM OutboxTyped == Spec => []TypeOK
BY TypeInit, TypeStep, PTL DEF Spec

-----------------------------------------------------------------------------
(* The history of a row.                                                   *)

\* A step that does not touch row r, its history and its lease keeps them.
LEMMA SameRow ==
  ASSUME NEW r \in Rows, RowInv(r),
         state'[r] = state[r], attempt'[r] = attempt[r], due'[r] = due[r],
         holder'[r] = holder[r], reconciled'[r] = reconciled[r],
         outcomes'[r] = outcomes[r], resolutions'[r] = resolutions[r],
         reclaims'[r] = reclaims[r],
         state[r] = "started" => leases'[holder[r]] = leases[holder[r]]
  PROVE  RowInv(r)'
<1>1. RowCheck(r)'
  BY DEF RowInv, RowCheck
<1>2. History(r)'
  BY DEF RowInv, History, Past, Current, Blank, Ambiguous, NotReclaimed
<1>3. QED BY <1>1, <1>2 DEF RowInv

\* A first request for an intent starts with an empty history.
LEMMA EnqueueKeeps ==
  ASSUME OutboxInv, NEW r \in Rows, NEW at \in Times, Enqueue(r, at)
  PROVE  \A q \in Rows : RowInv(q)'
<1> SUFFICES ASSUME NEW q \in Rows PROVE RowInv(q)'
  OBVIOUS
<1>1. RowInv(q) /\ RowInv(r)
  BY DEF OutboxInv
<1>2. CASE q # r
  BY <1>1, <1>2, SameRow DEF OutboxInv, TypeOK, Enqueue, authorityVars
<1>3. CASE q = r
  <2>1. /\ state'[r] = "pending" /\ attempt'[r] = 0 /\ due'[r] = at
        /\ holder'[r] = NoToken /\ reconciled'[r] = FALSE
        /\ outcomes' = outcomes /\ resolutions' = resolutions
        /\ reclaims' = reclaims /\ attempt[r] = 0
    BY <1>1 DEF OutboxInv, TypeOK, Enqueue, authorityVars, RowInv, RowCheck
  <2>2. RowCheck(r)'
    BY <2>1 DEF RowCheck
  <2>3. History(r)'
    BY <1>1, <2>1, OutboxConstants
       DEF OutboxConstants, RowInv, History, Blank, NotReclaimed, Attempts
  <2>4. QED BY <1>3, <2>2, <2>3 DEF RowInv
<1>4. QED BY <1>2, <1>3

\* A new attempt may start when the previous one ended in a way that permits
\* it; its token was never granted before.
LEMMA GrantKeeps ==
  ASSUME OutboxInv, NEW r \in Rows, NEW p, p = attempt[r], p + 1 \in Attempts,
         NEW t \in Tokens, NEW w \in Workers, NEW now \in Times,
         NEW until \in Times, Grant(r, p + 1, t, w, now, until),
         leases[t] = NoLease, UNCHANGED <<outcomes, resolutions>>,
         \A q \in Rows : q # r => /\ reclaims'[q] = reclaims[q]
                                  /\ reconciled'[q] = reconciled[q],
         \A j \in Attempts : j # p => reclaims'[r][j] = reclaims[r][j],
         p \in Attempts => Past(r, p)'
  PROVE  \A q \in Rows : RowInv(q)'
<1> SUFFICES ASSUME NEW q \in Rows PROVE RowInv(q)'
  OBVIOUS
<1>1. RowInv(q) /\ RowInv(r) /\ p \in 0..MaxAttempt
  BY DEF OutboxInv, TypeOK
<1>2. CASE q # r
  <2>1. state[q] = "started" => leases'[holder[q]] = leases[holder[q]]
    <3>1. SUFFICES ASSUME state[q] = "started"
                   PROVE  leases'[holder[q]] = leases[holder[q]]
      OBVIOUS
    <3>2. holder[q] \in Tokens /\ leases[holder[q]] # NoLease
      BY <1>1, <3>1 DEF OutboxInv, TypeOK, RowInv, RowCheck
    <3>3. QED BY <3>2 DEF OutboxInv, TypeOK, Grant
  <2>2. /\ state'[q] = state[q] /\ attempt'[q] = attempt[q]
        /\ due'[q] = due[q] /\ holder'[q] = holder[q]
    BY <1>2 DEF OutboxInv, TypeOK, Grant
  <2>3. QED BY <1>1, <1>2, <2>1, <2>2, SameRow
<1>3. CASE q = r
  <2>1. /\ state'[r] = "started" /\ attempt'[r] = p + 1 /\ due'[r] = Never
        /\ holder'[r] = t /\ t # NoToken /\ leases'[t] # NoLease
        /\ leases'[t].claimedAt < leases'[t].expires
    <3>1. [row |-> r, attempt |-> p + 1, worker |-> w, claimedAt |-> now,
           expires |-> until] # NoLease
      BY OutboxConstants DEF OutboxConstants
    <3>2. QED BY <3>1, OutboxConstants
                 DEF OutboxConstants, OutboxInv, TypeOK, Grant
  <2>2. RowCheck(r)'
    BY <1>1, <2>1 DEF RowCheck
  <2>3. ASSUME NEW j \in Attempts
        PROVE  /\ j < p + 1 => Past(r, j)'
               /\ j = p + 1 => Current(r, j)'
               /\ j > p + 1 => Blank(r, j)'
               /\ j >= p + 1 => NotReclaimed(r, j)'
               /\ RetryLater(outcomes[r][j])'
               /\ RetryLater(resolutions[r][j])'
    <3>1. j \in Nat /\ p \in Nat
      BY <1>1, OutboxConstants DEF OutboxConstants, Attempts
    <3>2. CASE j < p
      BY <1>1, <3>1, <3>2 DEF RowInv, History, Past, Blank, Ambiguous
    <3>3. CASE j = p
      BY <1>1, <3>1, <3>3 DEF RowInv, History
    <3>4. CASE j > p
      <4>1. Blank(r, j) /\ NotReclaimed(r, j) /\ reclaims'[r][j] = reclaims[r][j]
            /\ RetryLater(outcomes[r][j]) /\ RetryLater(resolutions[r][j])
        BY <1>1, <3>1, <3>4 DEF RowInv, History
      <4>2. QED BY <2>1, <3>1, <3>4, <4>1
                   DEF Blank, NotReclaimed, Current, RetryLater
    <3>5. QED BY <3>1, <3>2, <3>3, <3>4
  <2>4. History(r)'
    BY <2>1, <2>3 DEF History
  <2>5. QED BY <1>3, <2>2, <2>4 DEF RowInv
<1>4. QED BY <1>2, <1>3

\* A reclaim without authority records a decision and changes no row.
LEMMA StaleKeeps ==
  ASSUME OutboxInv, NEW r \in Rows, NEW k \in Attempts, NEW t \in Tokens,
         NEW authority, NEW now, ReclaimStale(r, k, t, authority, now)
  PROVE  \A q \in Rows : RowInv(q)'
<1> SUFFICES ASSUME NEW q \in Rows PROVE RowInv(q)'
  OBVIOUS
<1>1. RowInv(q) /\ reclaims[r][k] = "none"
  BY DEF OutboxInv, ReclaimStale, ReclaimRequest
<1>2. RowCheck(q)'
  BY <1>1 DEF ReclaimStale, rowVars, RowInv, RowCheck
<1>3. \A j \in Attempts :
        \/ reclaims'[q][j] = reclaims[q][j]
        \/ reclaims'[q][j] = "stale" /\ reclaims[q][j] = "none"
  BY <1>1 DEF OutboxInv, TypeOK, ReclaimStale
<1>4. History(q)'
  <2>1. ASSUME NEW j \in Attempts
        PROVE  /\ Past(q, j) => Past(q, j)'
               /\ Current(q, j) => Current(q, j)'
               /\ Blank(q, j) => Blank(q, j)'
               /\ NotReclaimed(q, j) => NotReclaimed(q, j)'
    BY <1>3 DEF ReclaimStale, rowVars, Past, Current, Blank, Ambiguous,
                NotReclaimed
  <2>2. QED BY <1>1, <2>1 DEF ReclaimStale, rowVars, RowInv, History
<1>5. QED BY <1>2, <1>4 DEF RowInv

\* The result of the current attempt is the first one recorded for it.
LEMMA ResultKeeps ==
  ASSUME OutboxInv, NEW r \in Rows, NEW k \in Attempts, NEW t \in Tokens,
         NEW w, NEW outcome \in Results, Result(r, k, t, w, outcome),
         outcome.state \in {"completed", "failed", "unknown"},
         outcome.state # "failed" => outcome.retry = Never,
         outcome.state = "unknown" => ~reconciled[r]
  PROVE  \A q \in Rows : RowInv(q)'
<1> SUFFICES ASSUME NEW q \in Rows PROVE RowInv(q)'
  OBVIOUS
<1>1. RowInv(q) /\ RowInv(r)
  BY DEF OutboxInv
<1>2. /\ state[r] = "started" /\ attempt[r] = k
      /\ RetryLater(outcome)
  BY DEF Result, OwnsAttempt, RetryLater, ValidRetry
<1>3. CASE q # r
  BY <1>1, <1>3, SameRow DEF OutboxInv, TypeOK, Result
<1>4. CASE q = r
  <2>1. /\ state'[r] = outcome.state /\ attempt'[r] = k
        /\ due'[r] = outcome.retry /\ holder'[r] = NoToken
        /\ reconciled'[r] = reconciled[r] /\ outcomes'[r][k] = outcome
        /\ resolutions' = resolutions /\ reclaims' = reclaims
        /\ \A j \in Attempts : j # k => outcomes'[r][j] = outcomes[r][j]
    BY <1>2 DEF OutboxInv, TypeOK, Result
  <2>2. k # 0
    BY OutboxConstants DEF OutboxConstants, Attempts
  <2>3. RowCheck(r)'
    BY <1>1, <1>2, <2>1, <2>2 DEF RowInv, RowCheck
  <2>4. Blank(r, k)
    BY <1>1, <1>2 DEF RowInv, History, Current
  <2>5. Current(r, k)'
    BY <2>1, <2>4 DEF Current, Blank, Ambiguous
  <2>6. ASSUME NEW j \in Attempts, j # k
        PROVE  /\ Past(r, j) => Past(r, j)'
               /\ Blank(r, j) => Blank(r, j)'
               /\ RetryLater(outcomes[r][j]) => RetryLater(outcomes[r][j])'
    BY <2>1, <2>6 DEF Past, Blank, Ambiguous, RetryLater
  <2>7. History(r)'
    <3>1. ASSUME NEW j \in Attempts
          PROVE  /\ j < k => Past(r, j)'
                 /\ j = k => Current(r, j)'
                 /\ j > k => Blank(r, j)'
                 /\ j >= k => NotReclaimed(r, j)'
                 /\ RetryLater(outcomes[r][j])'
                 /\ RetryLater(resolutions[r][j])'
      <4>1. j \in Nat /\ k \in Nat
        BY OutboxConstants DEF OutboxConstants, Attempts
      <4>2. CASE j = k
        BY <1>1, <1>2, <2>1, <2>5, <4>1, <4>2
           DEF RowInv, History, NotReclaimed, RetryLater
      <4>3. CASE j # k
        BY <1>1, <1>2, <2>1, <2>6, <4>1, <4>3
           DEF RowInv, History, NotReclaimed, RetryLater
      <4>4. QED BY <4>2, <4>3
    <3>2. QED BY <2>1, <3>1 DEF History
  <2>8. QED BY <1>4, <2>3, <2>7 DEF RowInv
<1>5. QED BY <1>3, <1>4

\* A resolution closes an ambiguous attempt that has none.
LEMMA ResolveKeeps ==
  ASSUME OutboxInv, NEW r \in Rows, NEW k \in Attempts,
         NEW resolution \in Resolutions, ResolveUnknown(r, k, resolution)
  PROVE  \A q \in Rows : RowInv(q)'
<1> SUFFICES ASSUME NEW q \in Rows PROVE RowInv(q)'
  OBVIOUS
<1>1. RowInv(q) /\ RowInv(r)
  BY DEF OutboxInv
<1>2. /\ state[r] = "unknown" /\ attempt[r] = k
      /\ RetryLater(resolution)
  BY DEF ResolveUnknown, MayResolve, RetryLater, ValidRetry
<1>3. CASE q # r
  BY <1>1, <1>3, SameRow DEF OutboxInv, TypeOK, ResolveUnknown
<1>4. CASE q = r
  <2>1. /\ state'[r] = resolution.state /\ attempt'[r] = k
        /\ due'[r] = resolution.retry /\ holder'[r] = holder[r]
        /\ reconciled'[r] = TRUE /\ resolutions'[r][k] = resolution
        /\ outcomes' = outcomes /\ reclaims' = reclaims
        /\ \A j \in Attempts : j # k => resolutions'[r][j] = resolutions[r][j]
    BY <1>2 DEF OutboxInv, TypeOK, ResolveUnknown
  <2>2. /\ k # 0
        /\ resolution.state \in {"completed", "failed", "cancelled"}
        /\ resolution.retry # Never => resolution.state = "failed"
    BY OutboxConstants DEF OutboxConstants, Attempts, Resolutions, Results
  <2>3. RowCheck(r)'
    BY <1>1, <1>2, <2>1, <2>2 DEF RowInv, RowCheck
  <2>4. Ambiguous(r, k) /\ resolutions[r][k] = NoResult
    BY <1>1, <1>2 DEF RowInv, History, Current
  <2>5. Current(r, k)'
    BY <2>1, <2>2, <2>4 DEF Current, Ambiguous
  <2>6. ASSUME NEW j \in Attempts, j # k
        PROVE  /\ Past(r, j) => Past(r, j)'
               /\ Blank(r, j) => Blank(r, j)'
               /\ RetryLater(resolutions[r][j]) => RetryLater(resolutions[r][j])'
    BY <2>1, <2>6 DEF Past, Blank, Ambiguous, RetryLater
  <2>7. History(r)'
    <3>1. ASSUME NEW j \in Attempts
          PROVE  /\ j < k => Past(r, j)'
                 /\ j = k => Current(r, j)'
                 /\ j > k => Blank(r, j)'
                 /\ j >= k => NotReclaimed(r, j)'
                 /\ RetryLater(outcomes[r][j])'
                 /\ RetryLater(resolutions[r][j])'
      <4>1. j \in Nat /\ k \in Nat
        BY OutboxConstants DEF OutboxConstants, Attempts
      <4>2. CASE j = k
        BY <1>1, <1>2, <2>1, <2>5, <4>1, <4>2
           DEF RowInv, History, NotReclaimed, RetryLater
      <4>3. CASE j # k
        BY <1>1, <1>2, <2>1, <2>6, <4>1, <4>3
           DEF RowInv, History, NotReclaimed, RetryLater
      <4>4. QED BY <4>2, <4>3
    <3>2. QED BY <2>1, <3>1 DEF History
  <2>8. QED BY <1>4, <2>3, <2>7 DEF RowInv
<1>5. QED BY <1>3, <1>4

\* A removed row is as if it had never been enqueued.
LEMMA CleanupKeeps ==
  ASSUME OutboxInv, NEW gone \in SUBSET Rows, CleanupTerminal(gone)
  PROVE  \A q \in Rows : RowInv(q)'
<1> SUFFICES ASSUME NEW q \in Rows PROVE RowInv(q)'
  OBVIOUS
<1>1. RowInv(q)
  BY DEF OutboxInv
<1>2. CASE q \notin gone
  BY <1>1, <1>2, SameRow DEF CleanupTerminal, Without, KeptLeases
<1>3. CASE q \in gone
  <2>1. /\ state'[q] = "absent" /\ attempt'[q] = 0 /\ due'[q] = Never
        /\ holder'[q] = NoToken /\ reconciled'[q] = FALSE
        /\ \A j \in Attempts : /\ outcomes'[q][j] = NoResult
                               /\ resolutions'[q][j] = NoResult
                               /\ reclaims'[q][j] = "none"
    BY <1>3 DEF CleanupTerminal, Without
  <2>2. RowCheck(q)'
    BY <2>1 DEF RowCheck
  <2>3. History(q)'
    BY <2>1, OutboxConstants
       DEF OutboxConstants, History, Blank, NotReclaimed, RetryLater, NoResult,
           Attempts
  <2>4. QED BY <2>2, <2>3 DEF RowInv
<1>4. QED BY <1>2, <1>3

-----------------------------------------------------------------------------
(* The invariant.                                                          *)

\* A claimed row is pending, or failed with a retry.
LEMMA ClaimKeeps ==
  ASSUME OutboxInv, NEW r \in Rows, NEW t \in Tokens, NEW w \in Workers,
         NEW kinds, NEW now \in Times, NEW until \in Times,
         ClaimNext(r, t, w, kinds, now, until)
  PROVE  \A q \in Rows : RowInv(q)'
<1>0. PICK p : p = attempt[r]
  OBVIOUS
<1>1. RowInv(r) /\ p \in 0..MaxAttempt /\ p + 1 \in Attempts
  BY <1>0, NextAttempt DEF OutboxInv, TypeOK, ClaimNext
<1>2. /\ UNCHANGED <<outcomes, resolutions, reclaims, reconciled>>
      /\ leases[t] = NoLease
      /\ Grant(r, p + 1, t, w, now, until)
      /\ state[r] \in {"pending", "failed"} /\ due[r] # Never
  BY <1>0 DEF ClaimNext, NewClaimToken, Eligible
<1>3. ASSUME p \in Attempts PROVE Past(r, p)'
  <2>1. p # 0
    BY <1>3, OutboxConstants DEF OutboxConstants, Attempts
  <2>2. state[r] = "failed" /\ Current(r, p)
    BY <1>0, <1>1, <1>2, <1>3, <2>1 DEF RowInv, RowCheck, History
  <2>3. Past(r, p)
    BY <1>2, <2>2 DEF Current, Past, Retry
  <2>4. QED BY <1>2, <2>3 DEF Past, Blank, Ambiguous
<1>4. QED BY <1>0, <1>1, <1>2, <1>3, GrantKeeps

\* A reclaimed attempt has no result and the authority that was asked for.
LEMMA ReclaimKeeps ==
  ASSUME OutboxInv, NEW r \in Rows, NEW k \in Attempts, NEW t \in Tokens,
         NEW w \in Workers, NEW authority \in Authorities, NEW now \in Times,
         NEW until \in Times, Reclaim(r, k, t, w, authority, now, until)
  PROVE  \A q \in Rows : RowInv(q)'
<1>1. RowInv(r) /\ k + 1 \in Attempts
  BY OutboxConstants
     DEF OutboxConstants, OutboxInv, TypeOK, Reclaim, Attempts
<1>2. /\ state[r] = "started" /\ attempt[r] = k
      /\ authority = "repeatable" => r \in Repeatable
      /\ leases[t] = NoLease
      /\ Grant(r, k + 1, t, w, now, until)
      /\ UNCHANGED <<outcomes, resolutions>>
  BY DEF Reclaim, ReclaimRequest, MayReclaim
<1>3. /\ reclaims'[r][k] = authority
      /\ \A j \in Attempts : j # k => reclaims'[r][j] = reclaims[r][j]
      /\ \A q \in Rows : q # r => /\ reclaims'[q] = reclaims[q]
                                  /\ reconciled'[q] = reconciled[q]
  BY DEF OutboxInv, TypeOK, Reclaim
<1>4. Blank(r, k)
  BY <1>1, <1>2 DEF RowInv, History, Current
<1>5. Past(r, k)'
  BY <1>2, <1>3, <1>4 DEF Past, Blank, Authorities
<1>6. QED BY <1>1, <1>2, <1>3, <1>5, GrantKeeps

\* Every step keeps the histories.
LEMMA OutboxStep == OutboxInv /\ [Next]_vars => OutboxInv'
<1> SUFFICES ASSUME OutboxInv, [Next]_vars PROVE OutboxInv'
  OBVIOUS
<1>1. TypeOK'
  BY TypeStep DEF OutboxInv
<1> SUFFICES \A q \in Rows : RowInv(q)'
  BY <1>1 DEF OutboxInv
<1>2. CASE UNCHANGED vars
  BY <1>2, SameRow DEF OutboxInv, vars, rowVars, authorityVars
<1>3. ASSUME NEW t \in Tokens, NEW kinds, NEW now \in Times,
             ClaimEmpty(t, kinds, now)
      PROVE  \A q \in Rows : RowInv(q)'
  BY <1>3, SameRow DEF OutboxInv, ClaimEmpty, rowVars
<1>4. ASSUME NEW r \in Rows, NEW k \in Attempts, NEW resolution,
             ResolveStale(r, k, resolution)
      PROVE  \A q \in Rows : RowInv(q)'
  BY <1>4, SameRow DEF OutboxInv, ResolveStale, rowVars
<1>5. ASSUME WorkerResults PROVE \A q \in Rows : RowInv(q)'
  <2>1. PICK r \in Rows, k \in Attempts, t \in Tokens, w \in Workers,
             at \in Times :
          \/ Complete(r, k, t, w, at)
          \/ MarkUnknown(r, k, t, w, at)
          \/ \E retry \in Times \cup {Never} : Fail(r, k, t, w, at, retry)
    BY <1>5 DEF WorkerResults
  <2>2. PICK outcome \in Results :
          /\ Result(r, k, t, w, outcome)
          /\ outcome.state \in {"completed", "failed", "unknown"}
          /\ outcome.state # "failed" => outcome.retry = Never
          /\ outcome.state = "unknown" => ~reconciled[r]
    <3>1. CASE Complete(r, k, t, w, at)
      <4> DEFINE o == [state |-> "completed", at |-> at, retry |-> Never]
      <4>1. o \in Results
        BY DEF Results
      <4>2. QED BY <3>1, <4>1 DEF Complete
    <3>2. CASE MarkUnknown(r, k, t, w, at)
      <4> DEFINE o == [state |-> "unknown", at |-> at, retry |-> Never]
      <4>1. o \in Results
        BY DEF Results
      <4>2. QED BY <3>2, <4>1 DEF MarkUnknown
    <3>3. ASSUME NEW retry \in Times \cup {Never}, Fail(r, k, t, w, at, retry)
          PROVE  \E o \in Results :
                   /\ Result(r, k, t, w, o)
                   /\ o.state \in {"completed", "failed", "unknown"}
                   /\ o.state # "failed" => o.retry = Never
                   /\ o.state = "unknown" => ~reconciled[r]
      <4> DEFINE o == [state |-> "failed", at |-> at, retry |-> retry]
      <4>1. o \in Results
        BY DEF Results
      <4>2. QED BY <3>3, <4>1 DEF Fail
    <3>4. QED BY <2>1, <3>1, <3>2, <3>3
  <2>3. QED BY <2>2, ResultKeeps
<1>6. QED
  BY <1>2, <1>3, <1>4, <1>5, EnqueueKeeps, ClaimKeeps, ReclaimKeeps, StaleKeeps,
     ResolveKeeps, CleanupKeeps
     DEF Next, Claims, Reclaims, Reconciliations

\* No row has a history at first.
LEMMA OutboxInitially == Init => OutboxInv
<1> SUFFICES ASSUME Init PROVE OutboxInv
  OBVIOUS
<1>1. ASSUME NEW r \in Rows PROVE RowCheck(r) /\ History(r)
  <2>1. RowCheck(r)
    BY DEF Init, RowCheck
  <2>2. History(r)
    BY OutboxConstants
       DEF OutboxConstants, Init, History, Blank, NotReclaimed, RetryLater,
           NoResult, Attempts
  <2>3. QED BY <2>1, <2>2
<1>2. QED BY <1>1, TypeInit DEF OutboxInv, RowInv

\* In every behaviour the tables tell a consistent history of each row.
THEOREM OutboxInvariant == Spec => []OutboxInv
BY OutboxInitially, OutboxStep, PTL DEF Spec

-----------------------------------------------------------------------------
(* What the invariant says of the outbox.                                  *)

\* Every row satisfies the CHECK of its state in every behaviour.
THEOREM RowChecksTheorem == Spec => []RowChecks
<1>1. OutboxInv => RowChecks
  BY DEF OutboxInv, RowInv, RowChecks
<1>2. QED BY OutboxInvariant, <1>1, PTL

\* Every attempt but the last ended in a way that permits another one.
THEOREM JustifiedAttemptsTheorem == Spec => []JustifiedAttempts
<1>1. OutboxInv => JustifiedAttempts
  BY DEF OutboxInv, RowInv, History, JustifiedAttempts, MayFollow, Past, Blank,
         Ambiguous
<1>2. QED BY OutboxInvariant, <1>1, PTL

\* A confirmed effect is recorded only for the last attempt of its row.
LEMMA ConfirmedIsLast == OutboxInv => AppliedIsFinal
<1> SUFFICES ASSUME OutboxInv, NEW r \in Rows, NEW k \in Attempts,
                    "completed" \in {outcomes[r][k].state, resolutions[r][k].state}
             PROVE  state[r] = "completed" /\ attempt[r] = k
  BY DEF AppliedIsFinal
<1>1. /\ RowCheck(r) /\ attempt[r] \in Nat /\ k \in Nat /\ k # 0
      /\ state[r] \in States
      /\ k < attempt[r] => Past(r, k)
      /\ k = attempt[r] => Current(r, k)
      /\ k > attempt[r] => Blank(r, k)
  BY OutboxConstants DEF OutboxConstants, OutboxInv, TypeOK, RowInv, History, Attempts
<1>2. ~Blank(r, k) /\ ~Past(r, k)
  BY DEF Blank, Past, Retry, Ambiguous, NoResult
<1>3. k = attempt[r] /\ Current(r, k)
  BY <1>1, <1>2
<1>4. state[r] \notin {"absent", "pending"}
  BY <1>1, <1>3 DEF RowCheck
<1>5. state[r] = "completed"
  BY <1>1, <1>2, <1>3, <1>4 DEF Current, Blank, Ambiguous, NoResult, States
<1>6. QED BY <1>3, <1>5

\* A confirmed effect is never attempted again.
THEOREM AppliedIsFinalTheorem == Spec => []AppliedIsFinal
BY OutboxInvariant, ConfirmedIsLast, PTL

\* A granted token keeps its lease row for ever.
THEOREM TokensOutliveRowsTheorem == Spec => TokensOutliveRows
<1>1. OutboxInv /\ [Next]_vars =>
        [\A t \in Tokens : leases[t] # NoLease => leases'[t] = leases[t]]_vars
  <2> SUFFICES ASSUME OutboxInv, Next, NEW t \in Tokens, leases[t] # NoLease
               PROVE  leases'[t] = leases[t]
    OBVIOUS
  <2>1. ASSUME NEW r, NEW k, NEW u \in Tokens, NEW w, NEW now, NEW until,
               Grant(r, k, u, w, now, until), leases[u] = NoLease
        PROVE  leases'[t] = leases[t]
    BY <2>1 DEF OutboxInv, TypeOK, Grant
  <2>2. CASE Claims
    BY <2>1, <2>2 DEF Claims, ClaimEmpty, ClaimNext, NewClaimToken
  <2>3. CASE Reclaims
    BY <2>1, <2>3 DEF Reclaims, Reclaim, ReclaimStale, ReclaimRequest
  <2>4. CASE WorkerResults
    BY <2>4 DEF WorkerResults, Complete, MarkUnknown, Fail, Result
  <2>5. CASE Reconciliations
    BY <2>5 DEF Reconciliations, ResolveUnknown, ResolveStale
  <2>6. ASSUME NEW r \in Rows, NEW at \in Times, Enqueue(r, at)
        PROVE  leases'[t] = leases[t]
    BY <2>6 DEF Enqueue, authorityVars
  <2>7. ASSUME NEW gone \in SUBSET Rows, CleanupTerminal(gone)
        PROVE  leases'[t] = leases[t]
    BY <2>7 DEF CleanupTerminal, KeptLeases
  <2>8. QED BY <2>2, <2>3, <2>4, <2>5, <2>6, <2>7 DEF Next
<1>2. QED BY OutboxInvariant, <1>1, PTL DEF Spec, TokensOutliveRows

\* A removed row had no attempt with a confirmed or unresolved result.
LEMMA RemovedRow ==
  ASSUME OutboxInv, NEW r \in Rows, Removable(r), NEW k \in Attempts
  PROVE  /\ outcomes[r][k].state # "completed"
         /\ outcomes[r][k].state = "unknown" =>
              resolutions[r][k].state \in {"failed", "cancelled"}
<1>1. attempt[r] \in Nat /\ k \in Nat
  BY OutboxConstants DEF OutboxConstants, OutboxInv, TypeOK, Attempts
<1>2. History(r)
  BY DEF OutboxInv, RowInv
<1>3. /\ attempt[r] \in Nat /\ k \in Nat
      /\ k < attempt[r] => Past(r, k)
      /\ k = attempt[r] => Current(r, k)
      /\ k > attempt[r] => Blank(r, k)
  BY <1>1, <1>2 DEF History
<1>4. CASE k < attempt[r]
  BY <1>3, <1>4 DEF Past, Blank, Retry, Ambiguous, NoResult
<1>5. CASE k = attempt[r]
  BY <1>3, <1>5 DEF Removable, Current, Ambiguous, NoResult
<1>6. CASE k > attempt[r]
  BY <1>3, <1>6 DEF Blank, NoResult
<1>7. QED BY <1>3, <1>4, <1>5, <1>6

\* Cleanup removes only rows whose every result was found not applied.
THEOREM EvidenceIsKeptTheorem == Spec => EvidenceIsKept
<1>1. ASSUME OutboxInv, Next, NEW r \in Rows, state[r] # "absent",
             state'[r] = "absent"
      PROVE  Removable(r)
  <2>1. ASSUME NEW q \in Rows, NEW k, NEW t, NEW w, NEW now, NEW until,
               Grant(q, k, t, w, now, until)
        PROVE  FALSE
    BY <1>1, <2>1 DEF OutboxInv, TypeOK, Grant
  <2>2. ASSUME NEW q \in Rows, NEW k, NEW t, NEW w, NEW outcome,
               Result(q, k, t, w, outcome), outcome.state # "absent"
        PROVE  FALSE
    BY <1>1, <2>2 DEF OutboxInv, TypeOK, Result
  <2>3. ~Claims
    BY <1>1, <2>1 DEF Claims, ClaimEmpty, ClaimNext, rowVars
  <2>4. ~Reclaims
    BY <1>1, <2>1 DEF Reclaims, Reclaim, ReclaimStale, rowVars
  <2>5. ~WorkerResults
    <3>1. SUFFICES ASSUME WorkerResults PROVE FALSE
      OBVIOUS
    <3>2. PICK q \in Rows, k \in Attempts, t \in Tokens, w \in Workers,
               at \in Times :
            \/ Complete(q, k, t, w, at)
            \/ MarkUnknown(q, k, t, w, at)
            \/ \E retry \in Times \cup {Never} : Fail(q, k, t, w, at, retry)
      BY <3>1 DEF WorkerResults
    <3>3. ~Complete(q, k, t, w, at)
      <4> DEFINE o == [state |-> "completed", at |-> at, retry |-> Never]
      <4>1. o.state # "absent"
        OBVIOUS
      <4>2. ~Result(q, k, t, w, o)
        BY <2>2, <4>1
      <4>3. QED BY <4>2 DEF Complete
    <3>4. ~MarkUnknown(q, k, t, w, at)
      <4> DEFINE o == [state |-> "unknown", at |-> at, retry |-> Never]
      <4>1. o.state # "absent"
        OBVIOUS
      <4>2. ~Result(q, k, t, w, o)
        BY <2>2, <4>1
      <4>3. QED BY <4>2 DEF MarkUnknown
    <3>5. ASSUME NEW retry \in Times \cup {Never} PROVE ~Fail(q, k, t, w, at, retry)
      <4> DEFINE o == [state |-> "failed", at |-> at, retry |-> retry]
      <4>1. o.state # "absent"
        OBVIOUS
      <4>2. ~Result(q, k, t, w, o)
        BY <2>2, <4>1
      <4>3. QED BY <4>2 DEF Fail
    <3>6. QED BY <3>2, <3>3, <3>4, <3>5
  <2>6. ~Reconciliations
    BY <1>1 DEF OutboxInv, TypeOK, Reconciliations, ResolveUnknown, ResolveStale,
                rowVars, Resolutions, Results
  <2>7. \A q \in Rows, at \in Times : ~Enqueue(q, at)
    BY <1>1 DEF OutboxInv, TypeOK, Enqueue
  <2>8. PICK gone \in SUBSET Rows : CleanupTerminal(gone)
    BY <1>1, <2>3, <2>4, <2>5, <2>6, <2>7 DEF Next
  <2>9. QED BY <1>1, <2>8 DEF CleanupTerminal, Without
<1>2. OutboxInv /\ [Next]_vars =>
        [\A r \in Rows : state[r] # "absent" /\ state'[r] = "absent" =>
           \A k \in Attempts :
             /\ outcomes[r][k].state # "completed"
             /\ outcomes[r][k].state = "unknown" =>
                  resolutions[r][k].state \in {"failed", "cancelled"}]_vars
  BY <1>1, RemovedRow
<1>3. QED BY OutboxInvariant, <1>2, PTL DEF Spec, EvidenceIsKept

\* A claim comes after the end of the attempt that it follows.
LEMMA ClaimAfterEnd ==
  ASSUME OutboxInv, NEW r \in Rows, 0 < attempt[r], NEW t \in Tokens,
         NEW w \in Workers, NEW kinds, NEW now \in Times, NEW until \in Times,
         ClaimNext(r, t, w, kinds, now, until)
  PROVE  AttemptEnd(r) <= now
<1> DEFINE k == attempt[r]
<1>1. /\ k \in Attempts /\ RowCheck(r) /\ now \in Nat
      /\ outcomes[r][k] \in Results \cup {NoResult}
      /\ resolutions[r][k] \in Results \cup {NoResult}
  BY OutboxConstants
     DEF OutboxConstants, OutboxInv, TypeOK, RowInv, Attempts, Times
<1>2. /\ Current(r, k)
      /\ RetryLater(outcomes[r][k]) /\ RetryLater(resolutions[r][k])
  BY <1>1 DEF OutboxInv, RowInv, History
<1>3. state[r] = "failed" /\ due[r] # Never /\ due[r] <= now
  BY <1>1 DEF ClaimNext, Eligible, RowCheck
<1>4. due[r] \in Nat
  BY <1>3, OutboxConstants DEF OutboxConstants, OutboxInv, TypeOK, Times
<1>5. CASE /\ outcomes[r][k].state = "failed" /\ outcomes[r][k].retry = due[r]
           /\ resolutions[r][k] = NoResult
  <2>1. outcomes[r][k].at \in Nat /\ outcomes[r][k].at < due[r]
    BY <1>1, <1>2, <1>3, <1>5, OutboxConstants
       DEF OutboxConstants, RetryLater, Results, NoResult, Times
  <2>2. AttemptEnd(r) = outcomes[r][k].at
    BY <1>3, <1>5 DEF AttemptEnd
  <2>3. QED BY <1>1, <1>3, <1>4, <2>1, <2>2
<1>6. CASE resolutions[r][k].state = "failed" /\ resolutions[r][k].retry = due[r]
  <2>1. resolutions[r][k].at \in Nat /\ resolutions[r][k].at < due[r]
        /\ resolutions[r][k] # NoResult
    BY <1>1, <1>2, <1>3, <1>6, OutboxConstants
       DEF OutboxConstants, RetryLater, Results, NoResult, Times
  <2>2. AttemptEnd(r) = resolutions[r][k].at
    BY <1>3, <2>1 DEF AttemptEnd
  <2>3. QED BY <1>1, <1>3, <1>4, <2>1, <2>2
<1>7. QED BY <1>2, <1>3, <1>5, <1>6 DEF Current

\* The attempts of a row never overlap in time, whatever instants and in
\* whatever order the callers send.
THEOREM LeasesDoNotOverlapTheorem == Spec => LeasesDoNotOverlap
<1>1. ASSUME OutboxInv, Next, NEW r \in Rows,
             0 < attempt[r], attempt[r] < attempt'[r]
      PROVE  AttemptEnd(r) <= leases'[holder'[r]].claimedAt
  <2>1. attempt[r] \in Nat /\ ~(attempt[r] < 0) /\ ~(attempt[r] < attempt[r])
    BY <1>1, OutboxConstants DEF OutboxConstants, OutboxInv, TypeOK
  <2>2. ASSUME NEW q \in Rows, NEW k, NEW t \in Tokens, NEW w, NEW now,
               NEW until, Grant(q, k, t, w, now, until)
        PROVE  q = r /\ leases'[holder'[r]].claimedAt = now
    <3>1. q # r => attempt'[r] = attempt[r]
      BY <1>1, <2>2 DEF OutboxInv, TypeOK, Grant
    <3>2. q = r
      BY <1>1, <2>1, <3>1
    <3>3. QED BY <1>1, <2>2, <3>2 DEF OutboxInv, TypeOK, Grant
  <2>3. ASSUME NEW q \in Rows, NEW t \in Tokens, NEW w \in Workers, NEW kinds,
               NEW now \in Times, NEW until \in Times,
               ClaimNext(q, t, w, kinds, now, until)
        PROVE  AttemptEnd(r) <= leases'[holder'[r]].claimedAt
    <3>1. q = r /\ leases'[holder'[r]].claimedAt = now
      BY <2>2, <2>3 DEF ClaimNext
    <3>2. QED BY <1>1, <2>3, <3>1, ClaimAfterEnd
  <2>4. ASSUME NEW q \in Rows, NEW k \in Attempts, NEW t \in Tokens,
               NEW w \in Workers, NEW authority, NEW now \in Times,
               NEW until \in Times, Reclaim(q, k, t, w, authority, now, until)
        PROVE  AttemptEnd(r) <= leases'[holder'[r]].claimedAt
    <3>1. q = r /\ leases'[holder'[r]].claimedAt = now
      BY <2>2, <2>4 DEF Reclaim
    <3>2. state[r] = "started" /\ now >= leases[holder[r]].expires
      BY <2>4, <3>1 DEF Reclaim, MayReclaim
    <3>3. leases[holder[r]].expires \in Nat /\ now \in Nat
      <4>1. holder[r] \in Tokens /\ leases[holder[r]] # NoLease
        BY <1>1, <3>2 DEF OutboxInv, TypeOK, RowInv, RowCheck
      <4>2. leases[holder[r]] \in Leases
        BY <1>1, <4>1 DEF OutboxInv, TypeOK
      <4>3. QED BY <4>2 DEF Leases, Times
    <3>4. QED BY <3>1, <3>2, <3>3 DEF AttemptEnd
  <2>5. \/ attempt'[r] = attempt[r]
        \/ attempt'[r] = 0
        \/ Claims /\ attempt' # attempt
        \/ Reclaims /\ attempt' # attempt
    <3>1. CASE WorkerResults
      BY <3>1 DEF WorkerResults, Complete, MarkUnknown, Fail, Result
    <3>2. CASE Reconciliations
      BY <3>2 DEF Reconciliations, ResolveUnknown, ResolveStale, rowVars
    <3>3. ASSUME NEW q \in Rows, NEW at \in Times, Enqueue(q, at)
          PROVE  attempt'[r] = attempt[r] \/ attempt'[r] = 0
      BY <1>1, <3>3 DEF OutboxInv, TypeOK, Enqueue
    <3>4. ASSUME NEW gone \in SUBSET Rows, CleanupTerminal(gone)
          PROVE  attempt'[r] = attempt[r] \/ attempt'[r] = 0
      BY <3>4 DEF CleanupTerminal, Without
    <3>5. QED BY <1>1, <3>1, <3>2, <3>3, <3>4 DEF Next
  <2>6. CASE Claims /\ attempt' # attempt
    BY <2>3, <2>6 DEF Claims, ClaimEmpty, rowVars
  <2>7. CASE Reclaims /\ attempt' # attempt
    BY <2>4, <2>7 DEF Reclaims, ReclaimStale, rowVars
  <2>8. QED BY <1>1, <2>1, <2>5, <2>6, <2>7
<1>2. OutboxInv /\ [Next]_vars =>
        [\A r \in Rows : 0 < attempt[r] /\ attempt[r] < attempt'[r] =>
           AttemptEnd(r) <= leases'[holder'[r]].claimedAt]_vars
  BY <1>1
<1>3. QED BY OutboxInvariant, <1>2, PTL DEF Spec, LeasesDoNotOverlap
=============================================================================
