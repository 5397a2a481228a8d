---------------------------- MODULE ServiceOutbox ----------------------------
(***************************************************************************)
(* The durable outbox of effects that follow a commit                      *)
(* (service-outbox-store.ts and service-outbox-schema.ts under             *)
(* runtime/src/service-effects/current-piclaw/, EF-S05): intents, the      *)
(* leases under which workers attempt them, the result of each attempt and *)
(* the reconciliation of ambiguous ones.                                   *)
(*                                                                         *)
(* Each mutation runs in one admitted write transaction and is one action. *)
(* The store has no clock: every instant is part of a request, so each     *)
(* action takes its instants as parameters and callers may disagree about  *)
(* the time.  A rejected request, a replay and a stale worker result write *)
(* nothing; a stale reclaim or resolution is recorded.  A worker may crash *)
(* at any point: it then makes no further request.                         *)
(*                                                                         *)
(* A member of Rows is an intent: its outbox id, kind, idempotency key and *)
(* content.  The worker and lease columns of a started row repeat the      *)
(* lease that the same transaction wrote and are read from it.             *)
(***************************************************************************)
EXTENDS Naturals

CONSTANTS
  Rows,        \* outbox ids, compared by <
  Kinds,       \* outbox kinds
  KindOf,      \* KindOf[r]: the kind of row r
  Repeatable,  \* the rows enqueued as "repeatable"
  Tokens,      \* lease tokens
  Workers,     \* worker ids
  MaxAttempt,  \* bound on the attempts of a row
  MaxTime,     \* bound on the instants in requests
  Never,       \* a null instant
  NoToken,     \* a null lease token
  NoLease      \* no row in the lease table

Attempts == 1..MaxAttempt
Times == 0..MaxTime

ASSUME OutboxConstants ==
  /\ Rows \subseteq Nat
  /\ KindOf \in [Rows -> Kinds]
  /\ Repeatable \subseteq Rows
  /\ MaxAttempt \in Nat \ {0}
  /\ MaxTime \in Nat
  /\ Never \notin Nat
  /\ NoToken \notin Tokens
  /\ NoLease \notin [row : Rows, attempt : Attempts, worker : Workers,
                     claimedAt : Times, expires : Times]

VARIABLES
  state,        \* outbox.state, or "absent"
  attempt,      \* outbox.attempt
  due,          \* available_at of a pending row, retry_at of a failed one
  holder,       \* outbox.lease_token
  reconciled,   \* whether outbox.reconciliation_ref is set
  leases,       \* the lease table, by token
  empty,        \* tokens whose claim was answered "empty"
  outcomes,     \* the outcome table, by row and attempt
  resolutions,  \* the resolution table, by row and attempt
  reclaims,     \* the recorded reclaim decision, by row and attempt
  resolves      \* rows and attempts with a recorded resolveUnknown decision

rowVars == <<state, attempt, due, holder, reconciled>>
authorityVars == <<leases, empty, outcomes, resolutions, reclaims, resolves>>
vars == <<rowVars, authorityVars>>

States == {"absent", "pending", "started", "completed", "failed", "unknown",
           "cancelled"}
Authorities == {"repeatable", "reconciled_absent"}
Leases == [row : Rows, attempt : Attempts, worker : Workers,
           claimedAt : Times, expires : Times]
Results == [state : {"completed", "failed", "unknown", "cancelled"},
            at : Times, retry : Times \cup {Never}]
NoResult == [state |-> "none", at |-> 0, retry |-> Never]

-----------------------------------------------------------------------------
(* Queries.                                                                *)

\* Faulty variant: an ambiguous attempt is claimed like a failed one.
EligibleWithUnknown(r, kinds, now) ==
  /\ KindOf[r] \in kinds
  /\ \/ state[r] \in {"pending", "failed"} /\ due[r] # Never /\ due[r] <= now
     \/ state[r] = "unknown"

\* selectEligible: the row can be claimed at the instant now.
Eligible(r, kinds, now) ==
  /\ KindOf[r] \in kinds
  /\ state[r] \in {"pending", "failed"}
  /\ due[r] # Never
  /\ due[r] <= now

Precedes(r, q) == due[r] < due[q] \/ (due[r] = due[q] /\ r < q)

\* The attempt that a result or a resolution was recorded for has none yet.
Undecided(table, r, k) == table[r][k] = NoResult

\* Faulty variant: trusts the lease table, which remembers every token.
OwnedOnce(r, k, t, w) ==
  /\ state[r] = "started"
  /\ leases[t] # NoLease
  /\ leases[t].row = r
  /\ leases[t].attempt = k
  /\ leases[t].worker = w

\* ownsAttempt: worker w holds the current attempt k of row r by token t.
OwnsAttempt(r, k, t, w) ==
  /\ state[r] = "started"
  /\ attempt[r] = k
  /\ holder[r] = t
  /\ leases[t].worker = w

\* temporal: the instant lies in the lease of the current attempt.
WithinLease(r, at) ==
  /\ holder[r] # NoToken
  /\ leases[holder[r]].claimedAt <= at
  /\ at < leases[holder[r]].expires

\* Faulty variant: expiry alone lets another worker take over.
ExpiredOnly(r, k, authority, now) ==
  /\ state[r] = "started"
  /\ attempt[r] = k
  /\ now >= leases[holder[r]].expires

\* authorised: attempt k may be abandoned at the instant now.
MayReclaim(r, k, authority, now) ==
  /\ state[r] = "started"
  /\ attempt[r] = k
  /\ now >= leases[holder[r]].expires
  /\ now >= leases[holder[r]].claimedAt
  /\ authority = "repeatable" => r \in Repeatable

\* Faulty variant: a retry may be due before the failure it follows.
AnyRetry(at, retry) == TRUE

\* A retry instant is null or lies after the result.
ValidRetry(at, retry) == retry # Never => retry > at

MayResolve(r, k, at, retry) ==
  /\ state[r] = "unknown"
  /\ attempt[r] = k
  /\ at >= outcomes[r][k].at
  /\ ValidRetry(at, retry)

\* Faulty variant: also removes rows whose attempt had an effect.
AnySettled(r) == state[r] \in {"cancelled", "failed", "completed"}

\* cleanupTerminal's row condition.
Removable(r) ==
  state[r] = "cancelled" \/ (state[r] = "failed" /\ due[r] = Never)

-----------------------------------------------------------------------------
(* Shared writes.                                                          *)

\* Worker w gets token t for attempt k of row r from now until the expiry.
Grant(r, k, t, w, now, until) ==
  /\ now < until
  /\ state' = [state EXCEPT ![r] = "started"]
  /\ attempt' = [attempt EXCEPT ![r] = k]
  /\ holder' = [holder EXCEPT ![r] = t]
  /\ due' = [due EXCEPT ![r] = Never]
  /\ leases' = [leases EXCEPT ![t] =
       [row |-> r, attempt |-> k, worker |-> w,
        claimedAt |-> now, expires |-> until]]

-----------------------------------------------------------------------------
(* Intents and leases.                                                     *)

\* insertEnqueue.
Enqueue(r, at) ==
  /\ state[r] = "absent"
  /\ state' = [state EXCEPT ![r] = "pending"]
  /\ attempt' = [attempt EXCEPT ![r] = 0]
  /\ due' = [due EXCEPT ![r] = at]
  /\ holder' = [holder EXCEPT ![r] = NoToken]
  /\ reconciled' = [reconciled EXCEPT ![r] = FALSE]
  /\ UNCHANGED authorityVars

\* readClaimReplay finds neither a lease nor an empty claim for the token.
NewClaimToken(t) == leases[t] = NoLease /\ t \notin empty

\* claimNext with a due row: the first by effective instant, then by id.
ClaimNext(r, t, w, kinds, now, until) ==
  /\ NewClaimToken(t)
  /\ Eligible(r, kinds, now)
  /\ \A q \in Rows \ {r} : Eligible(q, kinds, now) => Precedes(r, q)
  /\ attempt[r] < MaxAttempt
  /\ Grant(r, attempt[r] + 1, t, w, now, until)
  /\ UNCHANGED <<reconciled, empty, outcomes, resolutions, reclaims, resolves>>

\* claimNext with no due row: the answer "empty" is recorded for the token.
ClaimEmpty(t, kinds, now) ==
  /\ NewClaimToken(t)
  /\ \A r \in Rows : ~Eligible(r, kinds, now)
  /\ empty' = empty \cup {t}
  /\ UNCHANGED <<rowVars, leases, outcomes, resolutions, reclaims, resolves>>

\* reclaim passes its replay check, its token check and its row lookup.
ReclaimRequest(r, k, t) ==
  /\ reclaims[r][k] = "none"
  /\ leases[t] = NoLease
  /\ state[r] # "absent"

Reclaim(r, k, t, w, authority, now, until) ==
  /\ ReclaimRequest(r, k, t)
  /\ MayReclaim(r, k, authority, now)
  /\ k < MaxAttempt
  /\ Grant(r, k + 1, t, w, now, until)
  /\ reconciled' =
       [reconciled EXCEPT ![r] = @ \/ authority = "reconciled_absent"]
  /\ reclaims' = [reclaims EXCEPT ![r][k] = authority]
  /\ UNCHANGED <<empty, outcomes, resolutions, resolves>>

\* A reclaim without authority: the stale decision is recorded for attempt k.
ReclaimStale(r, k, t, authority, now) ==
  /\ ReclaimRequest(r, k, t)
  /\ ~MayReclaim(r, k, authority, now)
  /\ reclaims' = [reclaims EXCEPT ![r][k] = "stale"]
  /\ UNCHANGED <<rowVars, leases, empty, outcomes, resolutions, resolves>>

-----------------------------------------------------------------------------
(* Results and reconciliation.                                             *)

\* workerResult: the outcome of attempt k.  Stale outcome decisions only
\* occur in rows of earlier releases.
Result(r, k, t, w, outcome) ==
  /\ Undecided(outcomes, r, k)
  /\ WithinLease(r, outcome.at)
  /\ OwnsAttempt(r, k, t, w)
  /\ ValidRetry(outcome.at, outcome.retry)
  /\ state' = [state EXCEPT ![r] = outcome.state]
  /\ holder' = [holder EXCEPT ![r] = NoToken]
  /\ due' = [due EXCEPT ![r] = outcome.retry]
  /\ outcomes' = [outcomes EXCEPT ![r][k] = outcome]
  /\ UNCHANGED <<attempt, reconciled, leases, empty, resolutions, reclaims,
                 resolves>>

Complete(r, k, t, w, at) ==
  Result(r, k, t, w, [state |-> "completed", at |-> at, retry |-> Never])

Fail(r, k, t, w, at, retry) ==
  Result(r, k, t, w, [state |-> "failed", at |-> at, retry |-> retry])

\* The update keeps reconciliation_ref, and the row CHECK of an unknown row
\* requires it to be null: the transaction of such a row is rolled back.
MarkUnknown(r, k, t, w, at) ==
  /\ ~reconciled[r]
  /\ Result(r, k, t, w, [state |-> "unknown", at |-> at, retry |-> Never])

\* resolveUnknown passes its replay check and its row lookup.
ResolveRequest(r, k) == state[r] # "absent" /\ <<r, k>> \notin resolves

ResolveUnknown(r, k, resolution) ==
  /\ ResolveRequest(r, k)
  /\ MayResolve(r, k, resolution.at, resolution.retry)
  /\ state' = [state EXCEPT ![r] = resolution.state]
  /\ due' = [due EXCEPT ![r] = resolution.retry]
  /\ reconciled' = [reconciled EXCEPT ![r] = TRUE]
  /\ resolutions' = [resolutions EXCEPT ![r][k] = resolution]
  /\ resolves' = resolves \cup {<<r, k>>}
  /\ UNCHANGED <<attempt, holder, leases, empty, outcomes, reclaims>>

\* A resolution of another attempt, another state or an earlier instant: the
\* stale decision is recorded for attempt k.
ResolveStale(r, k, resolution) ==
  /\ ResolveRequest(r, k)
  /\ ~MayResolve(r, k, resolution.at, resolution.retry)
  /\ resolves' = resolves \cup {<<r, k>>}
  /\ UNCHANGED <<rowVars, leases, empty, outcomes, resolutions, reclaims>>

\* Lease tokens outlive the rows they were granted for.
KeptLeases(gone) == leases

\* The rows in gone have the value of an absent row.
Without(f, gone, absent) == [r \in Rows |-> IF r \in gone THEN absent ELSE f[r]]

\* cleanupTerminal: cutoff, cursor and limit select the rows.
CleanupTerminal(gone) ==
  /\ gone # {}
  /\ \A r \in gone : Removable(r)
  /\ state' = Without(state, gone, "absent")
  /\ attempt' = Without(attempt, gone, 0)
  /\ due' = Without(due, gone, Never)
  /\ holder' = Without(holder, gone, NoToken)
  /\ reconciled' = Without(reconciled, gone, FALSE)
  /\ outcomes' = Without(outcomes, gone, [k \in Attempts |-> NoResult])
  /\ resolutions' = Without(resolutions, gone, [k \in Attempts |-> NoResult])
  /\ reclaims' = Without(reclaims, gone, [k \in Attempts |-> "none"])
  /\ resolves' = {d \in resolves : d[1] \notin gone}
  /\ leases' = KeptLeases(gone)
  /\ UNCHANGED empty

-----------------------------------------------------------------------------
Init ==
  /\ state = [r \in Rows |-> "absent"]
  /\ attempt = [r \in Rows |-> 0]
  /\ due = [r \in Rows |-> Never]
  /\ holder = [r \in Rows |-> NoToken]
  /\ reconciled = [r \in Rows |-> FALSE]
  /\ leases = [t \in Tokens |-> NoLease]
  /\ empty = {}
  /\ outcomes = [r \in Rows |-> [k \in Attempts |-> NoResult]]
  /\ resolutions = [r \in Rows |-> [k \in Attempts |-> NoResult]]
  /\ reclaims = [r \in Rows |-> [k \in Attempts |-> "none"]]
  /\ resolves = {}

Claims ==
  \E t \in Tokens, kinds \in SUBSET Kinds \ {{}}, now \in Times :
    \/ ClaimEmpty(t, kinds, now)
    \/ \E r \in Rows, w \in Workers, until \in Times :
         ClaimNext(r, t, w, kinds, now, until)

Reclaims ==
  \E r \in Rows, k \in Attempts, t \in Tokens, authority \in Authorities,
     now \in Times :
    \/ ReclaimStale(r, k, t, authority, now)
    \/ \E w \in Workers, until \in Times :
         Reclaim(r, k, t, w, authority, now, until)

WorkerResults ==
  \E r \in Rows, k \in Attempts, t \in Tokens, w \in Workers, at \in Times :
    \/ Complete(r, k, t, w, at)
    \/ MarkUnknown(r, k, t, w, at)
    \/ \E retry \in Times \cup {Never} : Fail(r, k, t, w, at, retry)

\* Faulty variant: the kind of the resolution is stored as the row state.
ResolutionKinds ==
  [state : {"applied", "not_applied", "cancelled"}, at : Times,
   retry : {Never}]

\* Applied, not applied with or without a retry, cancelled.
Resolutions ==
  {x \in Results : /\ x.state # "unknown"
                   /\ x.retry # Never => x.state = "failed"}

Reconciliations ==
  \E r \in Rows, k \in Attempts, resolution \in Resolutions :
    \/ ResolveUnknown(r, k, resolution)
    \/ ResolveStale(r, k, resolution)

Next ==
  \/ \E r \in Rows, at \in Times : Enqueue(r, at)
  \/ Claims
  \/ Reclaims
  \/ WorkerResults
  \/ Reconciliations
  \/ \E gone \in SUBSET Rows : CleanupTerminal(gone)

Spec == Init /\ [][Next]_vars

-----------------------------------------------------------------------------
(* Invariants.                                                             *)

Decision == {"none", "stale"} \cup Authorities

\* Every column and table holds values of its range.
TypeOK ==
  /\ state \in [Rows -> States]
  /\ attempt \in [Rows -> 0..MaxAttempt]
  /\ due \in [Rows -> Times \cup {Never}]
  /\ holder \in [Rows -> Tokens \cup {NoToken}]
  /\ reconciled \in [Rows -> BOOLEAN]
  /\ leases \in [Tokens -> Leases \cup {NoLease}]
  /\ empty \subseteq Tokens
  /\ outcomes \in [Rows -> [Attempts -> Results \cup {NoResult}]]
  /\ resolutions \in [Rows -> [Attempts -> Results \cup {NoResult}]]
  /\ reclaims \in [Rows -> [Attempts -> Decision]]
  /\ resolves \subseteq Rows \X Attempts

\* The CHECK of the row's state, and what its lease and due instant say.
RowCheck(r) ==
  /\ holder[r] # NoToken <=> state[r] = "started"
  /\ attempt[r] = 0 <=> state[r] \in {"absent", "pending"}
  /\ state[r] \in {"absent", "pending", "unknown"} => ~reconciled[r]
  /\ state[r] = "cancelled" => reconciled[r]
  /\ due[r] # Never => state[r] \in {"pending", "failed"}
  /\ state[r] = "started" =>
       /\ leases[holder[r]] # NoLease
       /\ leases[holder[r]].claimedAt < leases[holder[r]].expires

\* Every row satisfies the CHECK of its state: apart from markUnknown of a
\* reconciled row, no legal request is ever rolled back as corrupt.
RowChecks == \A r \in Rows : RowCheck(r)

\* An effect that was confirmed, by its worker or by reconciliation, is never
\* attempted again: its attempt stays the last one and its row completed.
\* Workers whose lease was taken over may still report, and rows are
\* reclaimed, retried and reconciled in the meantime.
AppliedIsFinal ==
  \A r \in Rows, k \in Attempts :
    "completed" \in {outcomes[r][k].state, resolutions[r][k].state} =>
      state[r] = "completed" /\ attempt[r] = k

Retry(result) == result.state = "failed" /\ result.retry # Never

\* Why attempt k of row r may be followed by another one.
MayFollow(r, k) ==
  \/ Retry(outcomes[r][k])
  \/ outcomes[r][k].state = "unknown" /\ Retry(resolutions[r][k])
  \/ /\ outcomes[r][k] = NoResult
     /\ \/ reclaims[r][k] = "repeatable" /\ r \in Repeatable
        \/ reclaims[r][k] = "reconciled_absent"

\* Every attempt before the current one ended in a way that permits another:
\* a failure with a retry, an ambiguous result that reconciliation found not
\* applied, or a lapse of a repeatable or reconciled-absent effect.  Expiry
\* alone or an ambiguous result never leads to a second attempt.
JustifiedAttempts ==
  \A r \in Rows, k \in Attempts : k < attempt[r] => MayFollow(r, k)

-----------------------------------------------------------------------------
(* Action properties.                                                      *)

\* When the current attempt of row r ended.
AttemptEnd(r) ==
  LET k == attempt[r] IN
    IF state[r] = "started" THEN leases[holder[r]].expires
    ELSE IF resolutions[r][k] # NoResult THEN resolutions[r][k].at
    ELSE outcomes[r][k].at

\* By the instants in the requests, the lease of an attempt starts no earlier
\* than the previous attempt of the row ended, whatever order and however
\* late the requests arrive in: no two workers hold a row at one instant.
LeasesDoNotOverlap ==
  [][\A r \in Rows : 0 < attempt[r] /\ attempt[r] < attempt'[r] =>
       AttemptEnd(r) <= leases'[holder'[r]].claimedAt]_vars

\* A token that was granted keeps its meaning for ever, although the row it
\* was granted for may be cleaned up and its intent enqueued again.
TokensOutliveRows ==
  [][\A t \in Tokens : leases[t] # NoLease => leases'[t] = leases[t]]_vars

\* Cleanup never forgets an effect that is known or suspected to have been
\* applied: every attempt of a removed row with a result was found not to be.
EvidenceIsKept ==
  [][\A r \in Rows : state[r] # "absent" /\ state'[r] = "absent" =>
       \A k \in Attempts :
         /\ outcomes[r][k].state # "completed"
         /\ outcomes[r][k].state = "unknown" =>
              resolutions[r][k].state \in {"failed", "cancelled"}]_vars

-----------------------------------------------------------------------------
(* What the documentation says of the store and the code does not do.      *)

\* The current worker can record within its lease that the result is not
\* known, whatever happened to the row before.
UnknownIsRecordable ==
  \A r \in Rows : state[r] = "started" =>
    LET lease == leases[holder[r]] IN
      ENABLED MarkUnknown(r, attempt[r], holder[r], lease.worker,
                          lease.claimedAt)

\* A repeatable row whose worker is gone can be reclaimed by a new token once
\* its lease has expired.
ExpiredIsReclaimable ==
  \A r \in Repeatable, t \in Tokens, w \in Workers :
    /\ state[r] = "started"
    /\ attempt[r] < MaxAttempt
    /\ leases[t] = NoLease
    /\ leases[holder[r]].expires < MaxTime
    => ENABLED Reclaim(r, attempt[r], t, w, "repeatable",
                       leases[holder[r]].expires, MaxTime)
=============================================================================
