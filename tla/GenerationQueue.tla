-------------------------- MODULE GenerationQueue --------------------------
(***************************************************************************)
(* The durable generation queue (repository/jobs.rs): jobs, their attempts *)
(* and leases, retries, the publication slot of an illustration and the    *)
(* budget reservation, as the documents one transaction changes together.  *)
(*                                                                         *)
(* Each repository operation is one action: a MongoDB snapshot transaction *)
(* that writes the job conflicts with every other write of that job, so it *)
(* takes effect at one point.  The heartbeat is no transaction: the caller *)
(* reads its clock, then sends one update, which the server may apply      *)
(* later.  The environment is any set of callers that may present any      *)
(* lease that was ever granted, in any order; GenerationWorkers restricts  *)
(* it to the programs that really call the queue.                          *)
(*                                                                         *)
(* Time is kept relative: a stored deadline is the number of ticks left.   *)
(***************************************************************************)
EXTENDS GenerationBudget

CONSTANTS
    Purpose,            \* [Jobs -> Purposes]
    MaxAttempts,        \* [Jobs -> AttemptNumbers], fixed when a job is enqueued
    ConcurrencyLimit,   \* [Jobs -> Nat \ {0}], the campaign limit stored with a job
    LeaseDuration,      \* ticks a claim or a heartbeat extends a lease by
    RetryBase,          \* ticks of the first retry delay
    MaxDelay,           \* bound: ticks between a heartbeat's clock read and its update
    UsageReports,       \* the usages providers report
    ImagesPerTurn, ImagesPerDay, ImagesPerLifetime, Day

Purposes == {"intent_parsing", "gm_planning", "narration", "illustration"}
AttemptNumbers == 1..5
DefaultMaxAttempts ==
    [p \in Purposes |-> CASE p = "intent_parsing" -> 1 [] p = "gm_planning" -> 2
                          [] p = "narration" -> 3      [] OTHER -> 5]

FailureClasses == {"transient", "permanent"}
OpenStates == {"queued", "running"}
TerminalStates == {"succeeded", "failed", "cancelled"}
JobStates == {"absent"} \cup OpenStates \cup TerminalStates
AttemptStates == {"none", "running", "succeeded", "failed", "cancelled"}

\* The attempt number stands for the fresh lease token of that attempt.
NoLease == 0

AssetStates == {"none", "staged", "published", "superseded"}
NoAsset == [state |-> "none", from |-> NoLease]

ASSUME QueueAssumption ==
    /\ Purpose \in [Jobs -> Purposes]
    /\ MaxAttempts \in [Jobs -> AttemptNumbers]
    /\ ConcurrencyLimit \in [Jobs -> Nat \ {0}]
    /\ LeaseDuration \in Nat \ {0} /\ RetryBase \in Nat \ {0}
    /\ MaxDelay \in Nat /\ Day \in Nat \ {0}
    /\ UsageReports \subseteq Usage
    /\ {j \in Jobs : Purpose[j] = "illustration"} \subseteq Governed
    /\ {ImagesPerTurn, ImagesPerDay, ImagesPerLifetime} \subseteq Nat

VARIABLES
    state,          \* [Jobs -> JobStates]
    attempt,        \* [Jobs -> [AttemptNumbers -> AttemptStates]]
    attemptCount,   \* [Jobs -> 0..5]
    lease,          \* [Jobs -> token or NoLease]: lease_token_digest
    leaseLeft,      \* [Jobs -> Int]: lease_expires_at - now
    wait,           \* [Jobs -> Nat]: available_at - now
    pending,        \* [Jobs -> BOOLEAN]: pending_artifact_id is set
    asset,          \* [Jobs -> generated asset and the attempt its bytes are from]
    reservation,    \* [Jobs -> Reservation]
    sinceEnqueue,   \* [Jobs -> 0..Day]: age of the enqueue receipt
    heartbeats      \* heartbeat updates sent and not yet applied

leaseVars == <<lease, leaseLeft>>
artifactVars == <<pending, asset>>
vars == <<state, attempt, attemptCount, lease, leaseLeft, wait, pending, asset,
          reservation, sinceEnqueue, heartbeats>>

Heartbeat == [job : Jobs, token : AttemptNumbers, age : 0..MaxDelay]

TypeOK ==
    /\ state \in [Jobs -> JobStates]
    /\ attempt \in [Jobs -> [AttemptNumbers -> AttemptStates]]
    /\ attemptCount \in [Jobs -> 0..5]
    /\ lease \in [Jobs -> 0..5]
    /\ leaseLeft \in [Jobs -> Int]
    /\ wait \in [Jobs -> Nat]
    /\ pending \in [Jobs -> BOOLEAN]
    /\ asset \in [Jobs -> [state : AssetStates, from : 0..5]]
    /\ reservation \in [Jobs -> Reservation]
    /\ sinceEnqueue \in [Jobs -> 0..Day]
    /\ heartbeats \subseteq Heartbeat

Init ==
    /\ state = [j \in Jobs |-> "absent"]
    /\ attempt = [j \in Jobs |-> [n \in AttemptNumbers |-> "none"]]
    /\ attemptCount = [j \in Jobs |-> 0]
    /\ lease = [j \in Jobs |-> NoLease]
    /\ leaseLeft = [j \in Jobs |-> 0]
    /\ wait = [j \in Jobs |-> 0]
    /\ pending = [j \in Jobs |-> FALSE]
    /\ asset = [j \in Jobs |-> NoAsset]
    /\ reservation = [j \in Jobs |-> NoReservation]
    /\ sinceEnqueue = [j \in Jobs |-> 0]
    /\ heartbeats = {}

----------------------------------------------------------------------------
(* Enqueue *)

Illustrations(c) == {k \in Jobs : /\ CampaignOf[k] = c
                                  /\ Purpose[k] = "illustration"
                                  /\ state[k] # "absent"}

\* preflight_illustration_request_limits, over the receipts of earlier requests.
WithinImageLimits(j) ==
    LET receipts == Illustrations(CampaignOf[j])
    IN  /\ Cardinality(receipts) < ImagesPerLifetime
        /\ Cardinality({k \in receipts : sinceEnqueue[k] < Day}) < ImagesPerDay
        /\ Cardinality({k \in receipts : TurnScopeOf[k] = TurnScopeOf[j]}) < ImagesPerTurn

\* A first request.  A repeat of the same request returns the job unchanged, and
\* a refused one leaves the queue as it was.
Enqueue(j) ==
    /\ state[j] = "absent"
    /\ Purpose[j] = "illustration" => WithinImageLimits(j)
    /\ j \in Governed => WithinBudget(j, reservation, ConcurrencyLimit[j])
    /\ state' = [state EXCEPT ![j] = "queued"]
    /\ reservation' = [reservation EXCEPT ![j] = Reserve(j)]
    /\ UNCHANGED <<attempt, attemptCount, lease, leaseLeft, wait, pending, asset,
                   sinceEnqueue, heartbeats>>

----------------------------------------------------------------------------
(* Claim *)

LeaseExpired(j) == state[j] = "running" /\ leaseLeft[j] <= 0

ClaimableQueued(j) == state[j] = "queued" /\ wait[j] = 0     \* mutant: nothing is reclaimed
Claimable(j) == (state[j] = "queued" /\ wait[j] = 0) \/ LeaseExpired(j)

\* The other jobs of the campaign a claim sees running under an unexpired lease.
ActiveOthers(j) == {k \in Jobs \ {j} : /\ CampaignOf[k] = CampaignOf[j]
                                       /\ state[k] = "running"
                                       /\ leaseLeft[k] > 0}

AdmissibleUnderLimit(j) ==          \* mutant: illustrations have no rule of their own
    Cardinality(ActiveOthers(j)) < ConcurrencyLimit[j]
Admissible(j) ==
    /\ Cardinality(ActiveOthers(j)) < ConcurrencyLimit[j]
    /\ Purpose[j] = "illustration"
         => \A k \in ActiveOthers(j) : Purpose[k] # "illustration"

AttemptsLeftOffByOne(j) == attemptCount[j] <= MaxAttempts[j]        \* mutant
AttemptsLeft(j) == attemptCount[j] < MaxAttempts[j]

\* A claim appends an attempt, with a fresh lease token.
SameAttempt(j) == Larger(1, attemptCount[j])        \* mutant: a reclaim resumes the attempt
NextAttempt(j) == attemptCount[j] + 1

\* Every attempt of j, with the last one closed as the given state.
LastAttemptStays(j, s) == attempt[j]                \* mutant: the attempt is not closed
LastAttemptBecomes(j, s) == [attempt[j] EXCEPT ![attemptCount[j]] = s]

\* retire_pending_artifact: a staged artifact of a job that failed is withdrawn.
\* Without its precondition the whole transaction aborts.
Retirable(j) == pending[j] => asset[j].state = "staged"
KeepPendingArtifact(j) == asset' = asset            \* mutant: it is left staged
RetirePendingArtifact(j) ==
    asset' = IF pending[j] THEN [asset EXCEPT ![j].state = "superseded"] ELSE asset

\* The claim of a job that is due, or whose lease ran out with attempts to spare.
ClaimGrants(j) ==
    /\ Claimable(j) /\ Admissible(j)
    /\ AttemptsLeft(j)
    /\ LET n == NextAttempt(j)
           earlier == IF LeaseExpired(j) THEN LastAttemptBecomes(j, "failed") ELSE attempt[j]
       IN  /\ attempt' = [attempt EXCEPT ![j] = [earlier EXCEPT ![n] = "running"]]
           /\ attemptCount' = [attemptCount EXCEPT ![j] = n]
           /\ lease' = [lease EXCEPT ![j] = n]
    /\ state' = [state EXCEPT ![j] = "running"]
    /\ leaseLeft' = [leaseLeft EXCEPT ![j] = LeaseDuration]
    /\ wait' = [wait EXCEPT ![j] = 0]
    /\ IF LeaseExpired(j)
       THEN /\ Chargeable(reservation[j])
            /\ reservation' = [reservation EXCEPT ![j] =
                                  RecordAttemptUsage(j, @, NoUsage, FALSE)]
       ELSE UNCHANGED reservation
    /\ UNCHANGED <<pending, asset, sinceEnqueue, heartbeats>>

\* The claim that finds the lease of a last attempt run out fails the job and
\* hands out nothing.
ClaimExhausts(j) ==
    /\ LeaseExpired(j) /\ Admissible(j)
    /\ ~ AttemptsLeft(j)
    /\ Chargeable(reservation[j]) /\ Retirable(j)
    /\ attempt' = [attempt EXCEPT ![j] = LastAttemptBecomes(j, "failed")]
    /\ state' = [state EXCEPT ![j] = "failed"]
    /\ lease' = [lease EXCEPT ![j] = NoLease]
    /\ leaseLeft' = [leaseLeft EXCEPT ![j] = 0]
    /\ RetirePendingArtifact(j)
    /\ reservation' = [reservation EXCEPT ![j] = RecordAttemptUsage(j, @, NoUsage, TRUE)]
    /\ UNCHANGED <<attemptCount, wait, pending, sinceEnqueue, heartbeats>>

----------------------------------------------------------------------------
(* Heartbeat: the clock is read here, and the update applied there. *)

Granted(j, n) == n \in 1..attemptCount[j]

SendHeartbeat(j, n) ==
    /\ Granted(j, n)
    /\ \A h \in heartbeats : h.job # j \/ h.token # n
    /\ heartbeats' = heartbeats \cup {[job |-> j, token |-> n, age |-> 0]}
    /\ UNCHANGED <<state, attempt, attemptCount, lease, leaseLeft, wait, pending,
                   asset, reservation, sinceEnqueue>>

\* The filter of the update compares the lease with the clock the caller read.
Renews(h) ==
    /\ state[h.job] = "running"
    /\ lease[h.job] = h.token
    /\ attempt[h.job][h.token] = "running"
    /\ leaseLeft[h.job] + h.age > 0

ApplyHeartbeat(h) ==
    /\ h \in heartbeats
    /\ heartbeats' = heartbeats \ {h}
    /\ leaseLeft' = IF Renews(h) THEN [leaseLeft EXCEPT ![h.job] = LeaseDuration - h.age]
                                 ELSE leaseLeft
    /\ UNCHANGED <<state, attempt, attemptCount, lease, wait, pending, asset,
                   reservation, sinceEnqueue>>

LoseHeartbeat(h) ==
    /\ h \in heartbeats
    /\ heartbeats' = heartbeats \ {h}
    /\ UNCHANGED <<state, attempt, attemptCount, lease, leaseLeft, wait, pending,
                   asset, reservation, sinceEnqueue>>

----------------------------------------------------------------------------
(* The publication slot (images.rs, upsert_scene_image_artifact) *)

\* The job must be running and its artifact not yet out of the slot; whose lease
\* the caller had is not looked at.
MayStage(j) ==
    /\ state[j] = "running" /\ attempt[j][attemptCount[j]] = "running"
    /\ asset[j].state \in {"none", "staged"}

\* The caller presents the bytes of its attempt n.
StageArtifact(j, n) ==
    /\ Purpose[j] = "illustration" /\ Granted(j, n) /\ MayStage(j)
    /\ asset' = [asset EXCEPT ![j] = [state |-> "staged", from |-> n]]
    /\ pending' = [pending EXCEPT ![j] = TRUE]
    /\ UNCHANGED <<state, attempt, attemptCount, lease, leaseLeft, wait,
                   reservation, sinceEnqueue, heartbeats>>

----------------------------------------------------------------------------
(* complete_leased_job_in_transaction, under the lease with token n *)

HoldsLease(j, n) ==
    /\ state[j] = "running" /\ lease[j] = n /\ leaseLeft[j] > 0
    /\ attempt[j][n] = "running"

Succeed(j, n, usage) ==
    /\ Granted(j, n) /\ HoldsLease(j, n) /\ Chargeable(reservation[j])
    /\ Purpose[j] = "illustration" => pending[j] /\ asset[j].state = "staged"
    /\ state' = [state EXCEPT ![j] = "succeeded"]
    /\ attempt' = [attempt EXCEPT ![j][n] = "succeeded"]
    /\ lease' = [lease EXCEPT ![j] = NoLease]
    /\ leaseLeft' = [leaseLeft EXCEPT ![j] = 0]
    /\ pending' = [pending EXCEPT ![j] = FALSE]
    /\ asset' = IF Purpose[j] = "illustration"
                THEN [asset EXCEPT ![j].state = "published"] ELSE asset
    /\ reservation' = [reservation EXCEPT ![j] = RecordAttemptUsage(j, @, usage, TRUE)]
    /\ UNCHANGED <<attemptCount, wait, sinceEnqueue, heartbeats>>

\* GenerationPurpose::retry_delay, which doubles with each attempt.
Retries(j, class) ==
    /\ class = "transient"
    /\ Purpose[j] # "intent_parsing"
    /\ attemptCount[j] < DefaultMaxAttempts[Purpose[j]]
    /\ AttemptsLeft(j)
RetryDelay(n) == RetryBase * (CASE n = 1 -> 1 [] n = 2 -> 2 [] n = 3 -> 4 [] OTHER -> 8)

FailAndRetry(j, n, class, usage) ==
    /\ Granted(j, n) /\ HoldsLease(j, n) /\ Chargeable(reservation[j])
    /\ Retries(j, class)
    /\ state' = [state EXCEPT ![j] = "queued"]
    /\ attempt' = [attempt EXCEPT ![j][n] = "failed"]
    /\ wait' = [wait EXCEPT ![j] = RetryDelay(attemptCount[j])]
    /\ lease' = [lease EXCEPT ![j] = NoLease]
    /\ leaseLeft' = [leaseLeft EXCEPT ![j] = 0]
    /\ reservation' = [reservation EXCEPT ![j] = RecordAttemptUsage(j, @, usage, FALSE)]
    /\ UNCHANGED <<attemptCount, pending, asset, sinceEnqueue, heartbeats>>

FailForGood(j, n, class, usage) ==
    /\ Granted(j, n) /\ HoldsLease(j, n) /\ Chargeable(reservation[j])
    /\ ~ Retries(j, class) /\ Retirable(j)
    /\ state' = [state EXCEPT ![j] = "failed"]
    /\ attempt' = [attempt EXCEPT ![j][n] = "failed"]
    /\ lease' = [lease EXCEPT ![j] = NoLease]
    /\ leaseLeft' = [leaseLeft EXCEPT ![j] = 0]
    /\ RetirePendingArtifact(j)
    /\ reservation' = [reservation EXCEPT ![j] = RecordAttemptUsage(j, @, usage, TRUE)]
    /\ UNCHANGED <<attemptCount, wait, pending, sinceEnqueue, heartbeats>>

----------------------------------------------------------------------------
(* cancel_generation_job *)

Cancellable(j) ==
    /\ state[j] \in OpenStates
    /\ state[j] = "running" => attempt[j][attemptCount[j]] = "running"

Cancel(j) ==
    /\ Cancellable(j) /\ Retirable(j)
    /\ state' = [state EXCEPT ![j] = "cancelled"]
    /\ IF state[j] = "running"
       THEN /\ attempt' = [attempt EXCEPT ![j] = LastAttemptBecomes(j, "cancelled")]
            /\ reservation' = [reservation EXCEPT ![j] = SettleUnknownUsage(j, @)]
       ELSE /\ reservation' = [reservation EXCEPT ![j] = ReleaseBudget(@)]
            /\ UNCHANGED attempt
    /\ lease' = [lease EXCEPT ![j] = NoLease]
    /\ leaseLeft' = [leaseLeft EXCEPT ![j] = 0]
    /\ RetirePendingArtifact(j)
    /\ UNCHANGED <<attemptCount, wait, pending, sinceEnqueue, heartbeats>>

----------------------------------------------------------------------------
\* One tick.  A heartbeat older than MaxDelay has been applied or lost, and a
\* lease is not counted further down than any heartbeat could tell.
Tick ==
    /\ \A h \in heartbeats : h.age < MaxDelay
    /\ heartbeats' = {[h EXCEPT !.age = @ + 1] : h \in heartbeats}
    /\ leaseLeft' = [j \in Jobs |-> IF state[j] = "running" /\ leaseLeft[j] > -MaxDelay
                                    THEN leaseLeft[j] - 1 ELSE leaseLeft[j]]
    /\ wait' = [j \in Jobs |-> IF wait[j] > 0 THEN wait[j] - 1 ELSE 0]
    /\ sinceEnqueue' = [j \in Jobs |->
                          IF Purpose[j] = "illustration" /\ state[j] # "absent"
                             /\ sinceEnqueue[j] < Day
                          THEN sinceEnqueue[j] + 1 ELSE sinceEnqueue[j]]
    /\ UNCHANGED <<state, attempt, attemptCount, lease, pending, asset, reservation>>

Next ==
    \/ \E j \in Jobs :
         \/ Enqueue(j) \/ ClaimGrants(j) \/ ClaimExhausts(j) \/ Cancel(j)
         \/ \E n \in AttemptNumbers :
              \/ SendHeartbeat(j, n)
              \/ StageArtifact(j, n)
              \/ \E usage \in UsageReports :
                   \/ Succeed(j, n, usage)
                   \/ \E class \in FailureClasses :
                        FailAndRetry(j, n, class, usage) \/ FailForGood(j, n, class, usage)
    \/ \E h \in heartbeats : ApplyHeartbeat(h) \/ LoseHeartbeat(h)
    \/ Tick

Spec == Init /\ [][Next]_vars
=============================================================================
