---------------------- MODULE GenerationQueueProperties ----------------------
(***************************************************************************)
(* What the durable generation queue must and must not do.                 *)
(***************************************************************************)
EXTENDS GenerationQueue

Open(j) == state[j] \in OpenStates
Ended(j) == state[j] \in TerminalStates

\* At any time at most one attempt of a job is running: the last one, and
\* exactly while the job is running under that attempt's lease token.  Claims of
\* expired leases, late completions, retries and cancellations all rewrite the
\* attempt list and the lease (jobs.rs:1156-1991); a mismatch is the state the
\* code calls "expired job attempt does not match its lease".
LeaseFitsAttempts(j) ==
    /\ lease[j] # NoLease <=> state[j] = "running"
    /\ state[j] = "running" => lease[j] = attemptCount[j]
    /\ \A n \in AttemptNumbers :
          /\ attempt[j][n] = "running" <=> state[j] = "running" /\ n = attemptCount[j]
          /\ attempt[j][n] # "none" <=> n <= attemptCount[j]
OneLeasedAttempt == \A j \in Jobs : LeaseFitsAttempts(j)

\* A job never makes more attempts than it was enqueued with, succeeds through the
\* last of them alone, and never waits without an attempt left: such a job would
\* fail every claim that meets it with NumericRange, and so hold up the whole
\* queue (jobs.rs:1373-1376).
AttemptsAreBounded(j) ==
    /\ attemptCount[j] <= MaxAttempts[j]
    /\ state[j] = "queued" => AttemptsLeft(j)
    /\ \A n \in AttemptNumbers : attempt[j][n] = "succeeded" =>
          state[j] = "succeeded" /\ n = attemptCount[j]
    /\ state[j] = "succeeded" => attempt[j][attemptCount[j]] = "succeeded"
AttemptsWithinBound == \A j \in Jobs : AttemptsAreBounded(j)

\* The publication slot follows the job through every retry and takeover: an
\* artifact is staged while its job may still publish it, published by success
\* and by nothing else, and withdrawn when the job fails or is cancelled.  When
\* it fails, retirement aborts its transaction ("pending generation artifact is
\* missing or no longer staged", jobs.rs:2053) and the job cannot end.
SlotFits(j) ==
    /\ asset[j].state = "published" <=> state[j] = "succeeded" /\ Purpose[j] = "illustration"
    /\ asset[j].state = "staged" <=> pending[j] /\ Open(j)
    /\ asset[j].state = "superseded" <=> pending[j] /\ Ended(j)
SlotFollowsJob == \A j \in Jobs : SlotFits(j)

\* The budget held for a job is open exactly while the job is: no terminal path
\* leaks a reservation, and no settlement finds it closed already ("generation
\* governance receipt was already settled", governance.rs:502-508).
BudgetFits(j) ==
    /\ reservation[j].state = "none" <=> state[j] = "absent"
    /\ reservation[j].state = "reserved" <=> Open(j)
    /\ state[j] \in {"succeeded", "failed"} => reservation[j].state = "settled"
BudgetFollowsJob == \A j \in Governed : BudgetFits(j)

\* A cancelled, failed or succeeded job is never touched again, whatever stale
\* leases, late heartbeats or claims arrive (jobs.rs:1646-1670, 1757-1781).
EndedJobsStay ==
    [][\A j \in Jobs : Ended(j) =>
          UNCHANGED <<state[j], attempt[j], attemptCount[j], lease[j], pending[j],
                      asset[j], reservation[j]>>]_vars

\* Only the caller with the newest token settles an attempt, and a token that was
\* replaced never becomes valid again (the fencing of jobs.rs:1753-1767).
TokensOnlyAdvance ==
    [][\A j \in Jobs :
          /\ attemptCount'[j] >= attemptCount[j]
          /\ lease'[j] # NoLease => lease'[j] = attemptCount'[j]
          /\ \A n \in AttemptNumbers :
                attempt[j][n] \in {"succeeded", "failed", "cancelled"}
                   => attempt'[j][n] = attempt[j][n]]_vars

\* The callers of a campaign never hold more unexpired leases than the limits
\* stored with its jobs allow, and never two for illustrations (jobs.rs:1224-1266).
Leased(j) == state[j] = "running" /\ leaseLeft[j] > 0
LeasedJobs(c) == {j \in Jobs : CampaignOf[j] = c /\ Leased(j)}
OneIllustrationAtATime ==
    \A j, k \in Jobs :
        /\ Leased(j) /\ Purpose[j] = "illustration"
        /\ Leased(k) /\ Purpose[k] = "illustration"
        /\ CampaignOf[j] = CampaignOf[k]
        => j = k
LeasesWithinLimit ==
    \A c \in Campaigns : \A j \in LeasedJobs(c) :
        \E k \in LeasedJobs(c) : Cardinality(LeasedJobs(c)) <= ConcurrencyLimit[k]

\* What the jobs of a campaign, and of one of its turns, hold and have spent
\* within their estimates never exceeds the allowance: admission counts the open
\* reservations of other jobs, so that requests decided side by side do not both
\* take the last of it (governance.rs:352-418).  Only the recorded overage of an
\* attempt above its own estimate may push a total further.
WithinEstimate(j, d) == IF Counted(j, reservation[j], d) <= Reserved[j][d]
                        THEN Counted(j, reservation[j], d) ELSE Reserved[j][d]
Estimates(S, d) == SumFunction([j \in S |-> WithinEstimate(j, d)])
AllowanceHonoured ==
    \A c \in Campaigns, d \in Dimensions :
        LET InCampaign == {j \in Governed : CampaignOf[j] = c}
        IN  /\ Estimates(InCampaign, d) <= Allowance["campaign"][d]
            /\ \A t \in {TurnScopeOf[j] : j \in InCampaign} :
                  Estimates({j \in InCampaign : TurnScopeOf[j] = t}, d)
                    <= Allowance["turn"][d]

\* Neither the leased jobs of a campaign nor its open requests exceed the concurrency limit
\* that one of them was admitted under, whatever order they are admitted, claimed and end in
\* (governance.rs:368-383, jobs.rs:1224-1266).
SlotsWithinLimit ==
    \A c \in Campaigns :
        LET active == ActiveReservations(c, reservation)
        IN  active # {} => \E k \in active : Cardinality(active) <= ConcurrencyLimit[k]
CapacityWithinLimits == LeasesWithinLimit /\ SlotsWithinLimit

-----------------------------------------------------------------------------
(* Two that do not hold, and that no standing run checks. *)

\* A settled reservation counts every provider request its job made, and what a
\* job has been charged is never forgotten (CHECKLIST.md:278: "Enforce
\* per-turn/per-campaign token, request, latency, and cost budgets").  The charge is
\* read from the cost document, and a requeued job is released like a new one.
RequestsAreCounted ==
    \A j \in Governed : reservation[j].state = "settled" /\ Reserved[j]["requests"] > 0 =>
        reservation[j].spent["requests"] >= attemptCount[j]
ReleasedSpentNothing ==
    \A j \in Governed : reservation[j].state = "released" =>
        reservation[j].spent = NothingSpent

-----------------------------------------------------------------------------
\* The queue keeps the promise of JobLifecycle.
PhaseOf(j) == CASE state[j] = "queued" -> "waiting"
                [] state[j] = "running" -> "granted"
                [] OTHER -> state[j]
HoldOf(j) == CASE reservation[j].state = "none" -> "none"
               [] reservation[j].state = "reserved" -> "open"
               [] OTHER -> "closed"
Life == INSTANCE JobLifecycle WITH
            Limit <- MaxAttempts, Metered <- Governed,
            phase <- [j \in Jobs |-> PhaseOf(j)], epoch <- attemptCount,
            hold <- [j \in Jobs |-> HoldOf(j)]
ImplementsJobLifecycle == Life!LifeSpec
=============================================================================
