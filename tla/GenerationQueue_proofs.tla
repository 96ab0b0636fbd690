----------------------- MODULE GenerationQueue_proofs -----------------------
(***************************************************************************)
(* Proofs about the durable generation queue and the workers and inline    *)
(* requests that drive it, for any jobs, campaigns, budgets, lease         *)
(* lengths, heartbeat delays and any number of workers.                    *)
(***************************************************************************)
EXTENDS GenerationQueueProperties, GenerationWorkersProperties, SumTheorems, FiniteSetTheorems,
        TLAPS

USE DEF NoLease, Unknown, AttemptNumbers, AttemptsLeft, NextAttempt, Cancellable

\* Only a governed job has a reservation document.
OnlyGovernedReserve == \A j \in Jobs : reservation[j].state # "none" => j \in Governed

TypeInv == TypeOK /\ OnlyGovernedReserve

\* What a settlement writes is a reservation again.
LEMMA GovernedSettlement ==
    ASSUME NEW j \in Governed, NEW r \in Reservation, NEW usage \in Usage,
           NEW terminal \in BOOLEAN
    PROVE  /\ RecordAttemptUsage(j, r, usage, terminal) \in Reservation
           /\ SettleUnknownUsage(j, r) \in Reservation
<1>1. Reserved[j] \in [Dimensions -> Nat] /\ r.spent \in [Dimensions -> Nat]
  BY BudgetAssumption DEF Reservation
<1>2. ASSUME NEW d \in Dimensions PROVE Charge(j, usage, d) \in Nat \cup {-1}
  BY <1>1 DEF Charge, Usage, Dimensions
<1>3. SpentAfter(j, r.spent, usage) \in [Dimensions -> Nat]
  BY <1>1, <1>2 DEF SpentAfter, Larger
<1>4. [d \in Dimensions |-> Larger(r.spent[d], Reserved[j][d])] \in [Dimensions -> Nat]
  BY <1>1 DEF Larger
<1>5. QED
  BY <1>1, <1>3, <1>4 DEF RecordAttemptUsage, SettleUnknownUsage, Reservation,
     ReservationStates

LEMMA SettlementType ==
    ASSUME NEW j \in Jobs, NEW r \in Reservation, NEW usage \in Usage,
           NEW terminal \in BOOLEAN, r.state # "none" => j \in Governed
    PROVE  /\ RecordAttemptUsage(j, r, usage, terminal) \in Reservation
           /\ SettleUnknownUsage(j, r) \in Reservation
           /\ ReleaseBudget(r) \in Reservation
<1>1. ReleaseBudget(r) \in Reservation
  BY DEF ReleaseBudget, Reservation, ReservationStates
<1>2. CASE r.state = "none"
  BY <1>1, <1>2 DEF RecordAttemptUsage, SettleUnknownUsage
<1>3. CASE j \in Governed
  BY <1>1, <1>3, GovernedSettlement
<1>4. QED
  BY <1>2, <1>3

\* The state a settlement leaves a reservation in.
LEMMA SettlementState ==
    ASSUME NEW j \in Jobs, NEW r \in Reservation, NEW usage
    PROVE  /\ RecordAttemptUsage(j, r, usage, TRUE).state =
                 IF r.state = "none" THEN "none" ELSE "settled"
           /\ RecordAttemptUsage(j, r, usage, FALSE).state =
                 IF r.state = "none" THEN "none" ELSE "reserved"
           /\ SettleUnknownUsage(j, r).state =
                 IF r.state = "reserved" THEN "settled" ELSE r.state
           /\ ReleaseBudget(r).state =
                 IF r.state = "reserved" THEN "released" ELSE r.state
<1>1. r.state \in {"none", "reserved", "settled", "released"}
  BY DEF Reservation, ReservationStates
<1>2. RecordAttemptUsage(j, r, usage, TRUE).state =
         IF r.state = "none" THEN "none" ELSE "settled"
  BY <1>1 DEF RecordAttemptUsage
<1>3. RecordAttemptUsage(j, r, usage, FALSE).state =
         IF r.state = "none" THEN "none" ELSE "reserved"
  BY <1>1 DEF RecordAttemptUsage
<1>4. SettleUnknownUsage(j, r).state = IF r.state = "reserved" THEN "settled" ELSE r.state
  BY <1>1 DEF SettleUnknownUsage
<1>5. ReleaseBudget(r).state = IF r.state = "reserved" THEN "released" ELSE r.state
  BY <1>1 DEF ReleaseBudget, Reservation
<1>6. QED
  BY <1>2, <1>3, <1>4, <1>5

LEMMA UnreportedUsage == NoUsage \in Usage
  BY DEF NoUsage, Usage

LEMMA TypeInit == Init => TypeInv
  BY QueueAssumption DEF Init, TypeInv, TypeOK, OnlyGovernedReserve, JobStates, AttemptStates,
     AssetStates, NoAsset, NoReservation, NothingSpent, Reservation, ReservationStates,
     Heartbeat

LEMMA TypeStep == TypeInv /\ [Next]_vars => TypeInv'
<1> SUFFICES ASSUME TypeInv, [Next]_vars PROVE TypeInv'
  OBVIOUS
<1>s. state \in [Jobs -> JobStates]
  BY DEF TypeInv, TypeOK
<1>a. attempt \in [Jobs -> [1..5 -> AttemptStates]]
  BY DEF TypeInv, TypeOK
<1>c. attemptCount \in [Jobs -> 0..5] /\ MaxAttempts \in [Jobs -> 1..5]
  BY QueueAssumption DEF TypeInv, TypeOK
<1>l. lease \in [Jobs -> 0..5] /\ leaseLeft \in [Jobs -> Int] /\ wait \in [Jobs -> Nat]
  BY DEF TypeInv, TypeOK
<1>d. LeaseDuration \in Nat /\ RetryBase \in Nat /\ MaxDelay \in Nat /\ Day \in Nat
  BY QueueAssumption
<1>p. pending \in [Jobs -> BOOLEAN] /\ asset \in [Jobs -> [state : AssetStates, from : 0..5]]
  BY DEF TypeInv, TypeOK
<1>r. /\ reservation \in [Jobs -> Reservation]
      /\ \A j \in Jobs : /\ reservation[j] \in Reservation
                        /\ reservation[j].state # "none" => j \in Governed
  BY DEF TypeInv, TypeOK, OnlyGovernedReserve
<1>h. heartbeats \subseteq Heartbeat /\ sinceEnqueue \in [Jobs -> 0..Day]
  BY DEF TypeInv, TypeOK
\* A reservation replaced by what a settlement writes.
<1>w. ASSUME NEW j \in Jobs, NEW r \in Reservation, r.state # "none" => j \in Governed,
             \/ reservation' = [reservation EXCEPT ![j] = r]
             \/ reservation' = reservation
      PROVE  reservation' \in [Jobs -> Reservation] /\ OnlyGovernedReserve'
  BY <1>r, <1>w DEF OnlyGovernedReserve
<1>u. ASSUME NEW j \in Jobs, NEW usage \in UsageReports \cup {NoUsage}, NEW terminal \in BOOLEAN,
             NEW r, \/ r = RecordAttemptUsage(j, reservation[j], usage, terminal)
                    \/ r = SettleUnknownUsage(j, reservation[j])
                    \/ r = ReleaseBudget(reservation[j])
      PROVE  r \in Reservation /\ (r.state # "none" => j \in Governed)
  <2>1. usage \in Usage
    BY UnreportedUsage, QueueAssumption
  <2>2. reservation[j] \in Reservation /\ (reservation[j].state # "none" => j \in Governed)
    BY <1>r
  <2>3. r \in Reservation
    BY <1>u, <2>1, <2>2, SettlementType
  <2>4. r.state # "none" => reservation[j].state # "none"
    BY <1>u, <2>2 DEF RecordAttemptUsage, SettleUnknownUsage, ReleaseBudget
  <2>5. QED
    BY <2>2, <2>3, <2>4
<1>1. ASSUME NEW j \in Jobs, Enqueue(j) PROVE TypeInv'
  <2>1. state' \in [Jobs -> JobStates]
    BY <1>1, <1>s DEF Enqueue, JobStates, OpenStates
  <2>2. reservation' \in [Jobs -> Reservation] /\ OnlyGovernedReserve'
    <3>1. Reserve(j) \in Reservation /\ (Reserve(j).state # "none" => j \in Governed)
      BY DEF Reserve, NoReservation, NothingSpent, Reservation, ReservationStates
    <3>2. QED
      BY <1>w, <1>1, <3>1 DEF Enqueue
  <2>3. UNCHANGED <<attempt, attemptCount, lease, leaseLeft, wait, pending, asset, sinceEnqueue, heartbeats>>
    BY <1>1 DEF Enqueue
  <2>4. QED
    BY <2>1, <2>2, <2>3 DEF TypeInv, TypeOK, OnlyGovernedReserve, Heartbeat
<1>2. ASSUME NEW j \in Jobs, ClaimGrants(j) PROVE TypeInv'
  <2>1. state' \in [Jobs -> JobStates]
    BY <1>2, <1>s DEF ClaimGrants, JobStates, OpenStates
  <2>2. attemptCount[j] + 1 \in 1..5
    <3>1. attemptCount[j] < MaxAttempts[j]
      BY <1>2 DEF ClaimGrants
    <3>2. attemptCount[j] \in 0..5 /\ MaxAttempts[j] \in 1..5
      BY <1>c
    <3>3. QED
      BY <3>1, <3>2
  <2>3. attempt' \in [Jobs -> [1..5 -> AttemptStates]]
    BY <1>2, <1>a, <2>2 DEF ClaimGrants, LastAttemptBecomes, AttemptStates
  <2>4. attemptCount' \in [Jobs -> 0..5]
    BY <1>2, <1>c, <2>2 DEF ClaimGrants
  <2>5. lease' \in [Jobs -> 0..5]
    BY <1>2, <1>l, <2>2 DEF ClaimGrants
  <2>6. leaseLeft' \in [Jobs -> Int]
    BY <1>2, <1>l, <1>d DEF ClaimGrants
  <2>7. wait' \in [Jobs -> Nat]
    BY <1>2, <1>l DEF ClaimGrants
  <2>8. reservation' \in [Jobs -> Reservation] /\ OnlyGovernedReserve'
    <3> DEFINE r == RecordAttemptUsage(j, reservation[j], NoUsage, FALSE)
    <3>1. reservation' = [reservation EXCEPT ![j] = r] \/ reservation' = reservation
      BY <1>2 DEF ClaimGrants
    <3>2. r \in Reservation /\ (r.state # "none" => j \in Governed)
      BY <1>u
    <3> HIDE DEF r
    <3>3. QED
      BY <1>w, <3>1, <3>2
  <2>9. UNCHANGED <<pending, asset, sinceEnqueue, heartbeats>>
    BY <1>2 DEF ClaimGrants
  <2>10. QED
    BY <2>1, <2>2, <2>3, <2>4, <2>5, <2>6, <2>7, <2>8, <2>9 DEF TypeInv, TypeOK, OnlyGovernedReserve, Heartbeat
<1>3. ASSUME NEW j \in Jobs, ClaimExhausts(j) PROVE TypeInv'
  <2>1. state' \in [Jobs -> JobStates]
    BY <1>3, <1>s DEF ClaimExhausts, JobStates, TerminalStates
  <2>2. attempt' \in [Jobs -> [1..5 -> AttemptStates]]
    BY <1>3, <1>a DEF ClaimExhausts, LastAttemptBecomes, AttemptStates
  <2>3. lease' \in [Jobs -> 0..5]
    BY <1>3, <1>l DEF ClaimExhausts
  <2>4. leaseLeft' \in [Jobs -> Int]
    BY <1>3, <1>l DEF ClaimExhausts
  <2>5. asset' \in [Jobs -> [state : AssetStates, from : 0..5]]
    BY <1>3, <1>p DEF ClaimExhausts, RetirePendingArtifact, AssetStates
  <2>6. reservation' \in [Jobs -> Reservation] /\ OnlyGovernedReserve'
    <3> DEFINE r == RecordAttemptUsage(j, reservation[j], NoUsage, TRUE)
    <3>1. reservation' = [reservation EXCEPT ![j] = r]
      BY <1>3 DEF ClaimExhausts
    <3>2. r \in Reservation /\ (r.state # "none" => j \in Governed)
      BY <1>u
    <3> HIDE DEF r
    <3>3. QED
      BY <1>w, <3>1, <3>2
  <2>7. UNCHANGED <<attemptCount, wait, pending, sinceEnqueue, heartbeats>>
    BY <1>3 DEF ClaimExhausts
  <2>8. QED
    BY <2>1, <2>2, <2>3, <2>4, <2>5, <2>6, <2>7 DEF TypeInv, TypeOK, OnlyGovernedReserve, Heartbeat
<1>4. ASSUME NEW j \in Jobs, Cancel(j) PROVE TypeInv'
  <2>1. state' \in [Jobs -> JobStates]
    BY <1>4, <1>s DEF Cancel, JobStates, TerminalStates
  <2>2. attempt' \in [Jobs -> [1..5 -> AttemptStates]]
    BY <1>4, <1>a DEF Cancel, LastAttemptBecomes, AttemptStates
  <2>3. lease' \in [Jobs -> 0..5]
    BY <1>4, <1>l DEF Cancel
  <2>4. leaseLeft' \in [Jobs -> Int]
    BY <1>4, <1>l DEF Cancel
  <2>5. asset' \in [Jobs -> [state : AssetStates, from : 0..5]]
    BY <1>4, <1>p DEF Cancel, RetirePendingArtifact, AssetStates
  <2>6. reservation' \in [Jobs -> Reservation] /\ OnlyGovernedReserve'
    <3>1. PICK r \in {SettleUnknownUsage(j, reservation[j]), ReleaseBudget(reservation[j])} :
             reservation' = [reservation EXCEPT ![j] = r]
      BY <1>4 DEF Cancel
    <3>2. r \in Reservation /\ (r.state # "none" => j \in Governed)
      BY <1>u
    <3>3. QED
      BY <1>w, <3>1, <3>2
  <2>7. UNCHANGED <<attemptCount, wait, pending, sinceEnqueue, heartbeats>>
    BY <1>4 DEF Cancel
  <2>8. QED
    BY <2>1, <2>2, <2>3, <2>4, <2>5, <2>6, <2>7 DEF TypeInv, TypeOK, OnlyGovernedReserve, Heartbeat
<1>5. ASSUME NEW j \in Jobs, NEW n \in 1..5, SendHeartbeat(j, n) PROVE TypeInv'
  <2>1. heartbeats' \subseteq Heartbeat
    BY <1>5, <1>h, <1>d DEF SendHeartbeat, Heartbeat
  <2>2. UNCHANGED <<state, attempt, attemptCount, lease, leaseLeft, wait, pending, asset, reservation, sinceEnqueue>>
    BY <1>5 DEF SendHeartbeat
  <2>3. QED
    BY <2>1, <2>2 DEF TypeInv, TypeOK, OnlyGovernedReserve, Heartbeat
<1>6. ASSUME NEW j \in Jobs, NEW n \in 1..5, StageArtifact(j, n) PROVE TypeInv'
  <2>1. asset' \in [Jobs -> [state : AssetStates, from : 0..5]]
    BY <1>6, <1>p DEF StageArtifact, AssetStates
  <2>2. pending' \in [Jobs -> BOOLEAN]
    BY <1>6, <1>p DEF StageArtifact
  <2>3. UNCHANGED <<state, attempt, attemptCount, lease, leaseLeft, wait, reservation, sinceEnqueue, heartbeats>>
    BY <1>6 DEF StageArtifact
  <2>4. QED
    BY <2>1, <2>2, <2>3 DEF TypeInv, TypeOK, OnlyGovernedReserve, Heartbeat
<1>7. ASSUME NEW j \in Jobs, NEW n \in 1..5, NEW usage \in UsageReports,
            Succeed(j, n, usage)
      PROVE TypeInv'
  <2>1. state' \in [Jobs -> JobStates]
    BY <1>7, <1>s DEF Succeed, JobStates, TerminalStates
  <2>2. attempt' \in [Jobs -> [1..5 -> AttemptStates]]
    BY <1>7, <1>a DEF Succeed, LastAttemptBecomes, AttemptStates
  <2>3. lease' \in [Jobs -> 0..5]
    BY <1>7, <1>l DEF Succeed
  <2>4. leaseLeft' \in [Jobs -> Int]
    BY <1>7, <1>l DEF Succeed
  <2>5. asset' \in [Jobs -> [state : AssetStates, from : 0..5]]
    BY <1>7, <1>p DEF Succeed, AssetStates
  <2>6. pending' \in [Jobs -> BOOLEAN]
    BY <1>7, <1>p DEF Succeed
  <2>7. reservation' \in [Jobs -> Reservation] /\ OnlyGovernedReserve'
    <3> DEFINE r == RecordAttemptUsage(j, reservation[j], usage, TRUE)
    <3>1. reservation' = [reservation EXCEPT ![j] = r]
      BY <1>7 DEF Succeed
    <3>2. r \in Reservation /\ (r.state # "none" => j \in Governed)
      BY <1>u
    <3> HIDE DEF r
    <3>3. QED
      BY <1>w, <3>1, <3>2
  <2>8. UNCHANGED <<attemptCount, wait, sinceEnqueue, heartbeats>>
    BY <1>7 DEF Succeed
  <2>9. QED
    BY <2>1, <2>2, <2>3, <2>4, <2>5, <2>6, <2>7, <2>8 DEF TypeInv, TypeOK, OnlyGovernedReserve, Heartbeat
<1>8. ASSUME NEW j \in Jobs, NEW n \in 1..5, NEW usage \in UsageReports,
            NEW class \in FailureClasses, FailAndRetry(j, n, class, usage)
      PROVE TypeInv'
  <2>1. state' \in [Jobs -> JobStates]
    BY <1>8, <1>s DEF FailAndRetry, JobStates, OpenStates
  <2>2. attempt' \in [Jobs -> [1..5 -> AttemptStates]]
    BY <1>8, <1>a DEF FailAndRetry, LastAttemptBecomes, AttemptStates
  <2>3. lease' \in [Jobs -> 0..5]
    BY <1>8, <1>l DEF FailAndRetry
  <2>4. leaseLeft' \in [Jobs -> Int]
    BY <1>8, <1>l DEF FailAndRetry
  <2>5. wait' \in [Jobs -> Nat]
    <3>1. RetryDelay(attemptCount[j]) \in Nat
      BY <1>d DEF RetryDelay
    <3>2. QED
      BY <1>8, <1>l, <3>1 DEF FailAndRetry
  <2>6. reservation' \in [Jobs -> Reservation] /\ OnlyGovernedReserve'
    <3> DEFINE r == RecordAttemptUsage(j, reservation[j], usage, FALSE)
    <3>1. reservation' = [reservation EXCEPT ![j] = r]
      BY <1>8 DEF FailAndRetry
    <3>2. r \in Reservation /\ (r.state # "none" => j \in Governed)
      BY <1>u
    <3> HIDE DEF r
    <3>3. QED
      BY <1>w, <3>1, <3>2
  <2>7. UNCHANGED <<attemptCount, pending, asset, sinceEnqueue, heartbeats>>
    BY <1>8 DEF FailAndRetry
  <2>8. QED
    BY <2>1, <2>2, <2>3, <2>4, <2>5, <2>6, <2>7 DEF TypeInv, TypeOK, OnlyGovernedReserve, Heartbeat
<1>9. ASSUME NEW j \in Jobs, NEW n \in 1..5, NEW usage \in UsageReports,
            NEW class \in FailureClasses, FailForGood(j, n, class, usage)
      PROVE TypeInv'
  <2>1. state' \in [Jobs -> JobStates]
    BY <1>9, <1>s DEF FailForGood, JobStates, TerminalStates
  <2>2. attempt' \in [Jobs -> [1..5 -> AttemptStates]]
    BY <1>9, <1>a DEF FailForGood, LastAttemptBecomes, AttemptStates
  <2>3. lease' \in [Jobs -> 0..5]
    BY <1>9, <1>l DEF FailForGood
  <2>4. leaseLeft' \in [Jobs -> Int]
    BY <1>9, <1>l DEF FailForGood
  <2>5. asset' \in [Jobs -> [state : AssetStates, from : 0..5]]
    BY <1>9, <1>p DEF FailForGood, RetirePendingArtifact, AssetStates
  <2>6. reservation' \in [Jobs -> Reservation] /\ OnlyGovernedReserve'
    <3> DEFINE r == RecordAttemptUsage(j, reservation[j], usage, TRUE)
    <3>1. reservation' = [reservation EXCEPT ![j] = r]
      BY <1>9 DEF FailForGood
    <3>2. r \in Reservation /\ (r.state # "none" => j \in Governed)
      BY <1>u
    <3> HIDE DEF r
    <3>3. QED
      BY <1>w, <3>1, <3>2
  <2>7. UNCHANGED <<attemptCount, wait, pending, sinceEnqueue, heartbeats>>
    BY <1>9 DEF FailForGood
  <2>8. QED
    BY <2>1, <2>2, <2>3, <2>4, <2>5, <2>6, <2>7 DEF TypeInv, TypeOK, OnlyGovernedReserve, Heartbeat
<1>10. ASSUME NEW h \in heartbeats, ApplyHeartbeat(h) PROVE TypeInv'
  <2>1. leaseLeft' \in [Jobs -> Int]
    <3>1. h.age \in Nat
      BY <1>h, <1>d DEF Heartbeat
    <3>2. LeaseDuration - h.age \in Int
      BY <1>d, <3>1
    <3>3. \/ leaseLeft' = leaseLeft
          \/ leaseLeft' = [leaseLeft EXCEPT ![h.job] = LeaseDuration - h.age]
      BY <1>10 DEF ApplyHeartbeat
    <3>4. QED
      BY <1>l, <3>2, <3>3
  <2>2. heartbeats' \subseteq Heartbeat
    BY <1>10, <1>h DEF ApplyHeartbeat
  <2>3. UNCHANGED <<state, attempt, attemptCount, lease, wait, pending, asset, reservation, sinceEnqueue>>
    BY <1>10 DEF ApplyHeartbeat
  <2>4. QED
    BY <2>1, <2>2, <2>3 DEF TypeInv, TypeOK, OnlyGovernedReserve, Heartbeat
<1>11. ASSUME NEW h \in heartbeats, LoseHeartbeat(h) PROVE TypeInv'
  <2>1. heartbeats' \subseteq Heartbeat
    BY <1>11, <1>h DEF LoseHeartbeat
  <2>2. UNCHANGED <<state, attempt, attemptCount, lease, leaseLeft, wait, pending, asset, reservation, sinceEnqueue>>
    BY <1>11 DEF LoseHeartbeat
  <2>3. QED
    BY <2>1, <2>2 DEF TypeInv, TypeOK, OnlyGovernedReserve, Heartbeat
<1>12. ASSUME Tick PROVE TypeInv'
  <2>1. heartbeats' \subseteq Heartbeat
    <3>1. ASSUME NEW h \in heartbeats PROVE [h EXCEPT !.age = @ + 1] \in Heartbeat
      <4>1. h \in Heartbeat /\ h.age < MaxDelay
        BY <1>12, <1>h DEF Tick
      <4>2. QED
        BY <4>1, <1>d DEF Heartbeat
    <3>2. QED
      BY <1>12, <3>1 DEF Tick
  <2>2. leaseLeft' \in [Jobs -> Int]
    BY <1>12, <1>l DEF Tick
  <2>3. wait' \in [Jobs -> Nat]
    BY <1>12, <1>l DEF Tick
  <2>4. sinceEnqueue' \in [Jobs -> 0..Day]
    BY <1>12, <1>h, <1>d DEF Tick
  <2>5. UNCHANGED <<state, attempt, attemptCount, lease, pending, asset, reservation>>
    BY <1>12 DEF Tick
  <2>6. QED
    BY <2>1, <2>2, <2>3, <2>4, <2>5 DEF TypeInv, TypeOK, OnlyGovernedReserve, Heartbeat
<1>13. CASE UNCHANGED vars
  BY <1>13 DEF vars, TypeInv, TypeOK, OnlyGovernedReserve
<1>14. QED
  BY <1>1, <1>2, <1>3, <1>4, <1>5, <1>6, <1>7, <1>8, <1>9, <1>10, <1>11, <1>12, <1>13
  DEF Next

\* Every variable of the queue keeps its type (the document schema of jobs.rs,
\* governance.rs and images.rs), whatever callers do in whatever order.
THEOREM TypeCorrect == Spec => []TypeOK
<1>1. Init => TypeInv
  BY TypeInit
<1>2. TypeInv /\ [Next]_vars => TypeInv'
  BY TypeStep
<1>3. TypeInv => TypeOK
  BY DEF TypeInv
<1>4. QED
  BY <1>1, <1>2, <1>3, PTL DEF Spec

----------------------------------------------------------------------------
(* Every step of the queue changes the durable state of at most one job, and *)
(* in one of seven ways.  The invariants are proved over these effects.      *)

Same(k) ==
    /\ state'[k] = state[k] /\ attempt'[k] = attempt[k]
    /\ attemptCount'[k] = attemptCount[k] /\ lease'[k] = lease[k]
    /\ pending'[k] = pending[k] /\ asset'[k] = asset[k]
    /\ reservation'[k] = reservation[k]

SubmitEffect(j) ==
    /\ state[j] = "absent" /\ state'[j] = "queued"
    /\ attempt'[j] = attempt[j] /\ attemptCount'[j] = attemptCount[j]
    /\ lease'[j] = lease[j] /\ pending'[j] = pending[j] /\ asset'[j] = asset[j]
    /\ reservation'[j].state = IF j \in Governed THEN "reserved" ELSE "none"

GrantEffect(j) ==
    /\ state[j] \in {"queued", "running"} /\ attemptCount[j] < MaxAttempts[j]
    /\ state'[j] = "running"
    /\ attemptCount'[j] = attemptCount[j] + 1 /\ lease'[j] = attemptCount[j] + 1
    /\ \A n \in 1..5 : attempt'[j][n] =
          IF n = attemptCount[j] + 1 THEN "running"
          ELSE IF n = attemptCount[j] /\ state[j] = "running" THEN "failed"
          ELSE attempt[j][n]
    /\ pending'[j] = pending[j] /\ asset'[j] = asset[j]
    /\ reservation'[j].state = reservation[j].state

StageEffect(j) ==
    /\ state[j] = "running" /\ Purpose[j] = "illustration"
    /\ asset[j].state \in {"none", "staged"}
    /\ state'[j] = state[j] /\ attempt'[j] = attempt[j]
    /\ attemptCount'[j] = attemptCount[j] /\ lease'[j] = lease[j]
    /\ pending'[j] = TRUE /\ asset'[j].state = "staged"
    /\ reservation'[j] = reservation[j]

\* An attempt is closed as s, and the job leaves its lease.
Closes(j, s) ==
    /\ lease'[j] = 0 /\ attemptCount'[j] = attemptCount[j]
    /\ \E m \in {attemptCount[j], lease[j]} : \A n \in 1..5 :
          attempt'[j][n] = IF n = m THEN s ELSE attempt[j][n]

SucceedEffect(j) ==
    /\ state[j] = "running" /\ state'[j] = "succeeded"
    /\ Closes(j, "succeeded")
    /\ pending'[j] = FALSE
    /\ Purpose[j] = "illustration" => pending[j]
    /\ asset'[j].state = IF Purpose[j] = "illustration" THEN "published" ELSE asset[j].state
    /\ reservation[j].state \in {"none", "reserved"}
    /\ reservation'[j].state = IF reservation[j].state = "none" THEN "none" ELSE "settled"

RequeueEffect(j) ==
    /\ state[j] = "running" /\ state'[j] = "queued"
    /\ attemptCount[j] < MaxAttempts[j]
    /\ Closes(j, "failed")
    /\ pending'[j] = pending[j] /\ asset'[j] = asset[j]
    /\ reservation'[j].state = reservation[j].state

FailEffect(j) ==
    /\ state[j] = "running" /\ state'[j] = "failed"
    /\ Closes(j, "failed")
    /\ pending'[j] = pending[j]
    /\ asset'[j].state = IF pending[j] THEN "superseded" ELSE asset[j].state
    /\ reservation[j].state \in {"none", "reserved"}
    /\ reservation'[j].state = IF reservation[j].state = "none" THEN "none" ELSE "settled"

CancelEffect(j) ==
    /\ state[j] \in {"queued", "running"} /\ state'[j] = "cancelled"
    /\ IF state[j] = "running" THEN Closes(j, "cancelled")
       ELSE /\ lease'[j] = 0 /\ attemptCount'[j] = attemptCount[j]
            /\ attempt'[j] = attempt[j]
    /\ pending'[j] = pending[j]
    /\ asset'[j].state = IF pending[j] THEN "superseded" ELSE asset[j].state
    /\ reservation'[j].state =
          IF reservation[j].state # "reserved" THEN reservation[j].state
          ELSE IF state[j] = "running" THEN "settled" ELSE "released"

Effect(j) ==
    \/ SubmitEffect(j) \/ GrantEffect(j) \/ StageEffect(j) \/ SucceedEffect(j)
    \/ RequeueEffect(j) \/ FailEffect(j) \/ CancelEffect(j)

LocalStep ==
    \/ \A k \in Jobs : Same(k)
    \/ \E j \in Jobs : Effect(j) /\ \A k \in Jobs \ {j} : Same(k)

\* Each action of the queue has one of the effects on its job, and no other.
LEMMA StepsAreLocal == TypeInv /\ [Next]_vars => LocalStep
<1> SUFFICES ASSUME TypeInv, [Next]_vars PROVE LocalStep
  OBVIOUS
<1>t. /\ state \in [Jobs -> JobStates] /\ attempt \in [Jobs -> [1..5 -> AttemptStates]]
      /\ attemptCount \in [Jobs -> 0..5] /\ lease \in [Jobs -> 0..5]
      /\ pending \in [Jobs -> BOOLEAN]
  BY DEF TypeInv, TypeOK
<1>s. asset \in [Jobs -> [state : AssetStates, from : 0..5]]
  BY DEF TypeInv, TypeOK
<1>r. reservation \in [Jobs -> Reservation]
  BY DEF TypeInv, TypeOK
<1>1. ASSUME NEW j \in Jobs, Enqueue(j) PROVE  SubmitEffect(j) /\ \A k \in Jobs \ {j} : Same(k)
  <2>1. \A k \in Jobs \ {j} : Same(k)
    BY <1>1, <1>t, <1>s, <1>r DEF Enqueue, Same
  <2>2. reservation'[j].state = IF j \in Governed THEN "reserved" ELSE "none"
    BY <1>1, <1>r DEF Enqueue, Reserve, NoReservation
  <2>5. state[j] = "absent" /\ state'[j] = "queued"
    BY <1>1, <1>t DEF Enqueue
  <2>6. /\ attempt'[j] = attempt[j] /\ attemptCount'[j] = attemptCount[j] /\ lease'[j] = lease[j]
        /\ pending'[j] = pending[j] /\ asset'[j] = asset[j]
    BY <1>1 DEF Enqueue
  <2>7. QED
    BY <2>1, <2>2, <2>5, <2>6 DEF SubmitEffect
<1>2. ASSUME NEW j \in Jobs, ClaimGrants(j) PROVE  GrantEffect(j) /\ \A k \in Jobs \ {j} : Same(k)
  <2>1. \A k \in Jobs \ {j} : Same(k)
    BY <1>2, <1>t, <1>s, <1>r DEF ClaimGrants, Same
  <2>2. reservation'[j].state = reservation[j].state
    <3>1. reservation[j] \in Reservation
      BY <1>r
    <3>2. CASE LeaseExpired(j)
      <4> DEFINE r == RecordAttemptUsage(j, reservation[j], NoUsage, FALSE)
      <4>1. Chargeable(reservation[j]) /\ reservation' = [reservation EXCEPT ![j] = r]
        BY <1>2, <3>2 DEF ClaimGrants
      <4>2. r.state = IF reservation[j].state = "none" THEN "none" ELSE "reserved"
        BY <3>1, SettlementState
      <4> HIDE DEF r
      <4>3. QED
        BY <1>r, <4>1, <4>2 DEF Chargeable
    <3>3. CASE ~ LeaseExpired(j)
      BY <1>2, <3>3 DEF ClaimGrants
    <3>4. QED
      BY <3>2, <3>3
  <2>3. \A n \in 1..5 : attempt'[j][n] =
           IF n = attemptCount[j] + 1 THEN "running"
           ELSE IF n = attemptCount[j] /\ state[j] = "running" THEN "failed"
           ELSE attempt[j][n]
    <3>1. state[j] = "running" => LeaseExpired(j)
      BY <1>2 DEF ClaimGrants, Claimable
    <3>2. CASE LeaseExpired(j)
      BY <1>2, <1>t, <3>2 DEF ClaimGrants, LastAttemptBecomes, LeaseExpired
    <3>3. CASE ~ LeaseExpired(j)
      BY <1>2, <1>t, <3>1, <3>3 DEF ClaimGrants
    <3>4. QED
      BY <3>2, <3>3
  <2>5. /\ state[j] \in {"queued", "running"} /\ attemptCount[j] < MaxAttempts[j]
        /\ state'[j] = "running" /\ attemptCount'[j] = attemptCount[j] + 1
        /\ lease'[j] = attemptCount[j] + 1
    BY <1>2, <1>t DEF ClaimGrants, Claimable, LeaseExpired
  <2>6. pending'[j] = pending[j] /\ asset'[j] = asset[j]
    BY <1>2 DEF ClaimGrants
  <2>7. QED
    BY <2>1, <2>2, <2>3, <2>5, <2>6 DEF GrantEffect
<1>3. ASSUME NEW j \in Jobs, ClaimExhausts(j) PROVE  FailEffect(j) /\ \A k \in Jobs \ {j} : Same(k)
  <2>1. \A k \in Jobs \ {j} : Same(k)
    BY <1>3, <1>t, <1>s, <1>r DEF ClaimExhausts, Same, RetirePendingArtifact
  <2>2. /\ reservation[j].state \in {"none", "reserved"}
        /\ reservation'[j].state = IF reservation[j].state = "none" THEN "none" ELSE "settled"
    <3> DEFINE r == RecordAttemptUsage(j, reservation[j], NoUsage, TRUE)
    <3>1. Chargeable(reservation[j]) /\ reservation' = [reservation EXCEPT ![j] = r]
      BY <1>3 DEF ClaimExhausts
    <3>2. r.state = IF reservation[j].state = "none" THEN "none" ELSE "settled"
      <4>1. reservation[j] \in Reservation
        BY <1>r
      <4>2. QED
        BY <4>1, SettlementState
    <3> HIDE DEF r
    <3>3. QED
      BY <1>r, <3>1, <3>2 DEF Chargeable
  <2>3. asset'[j].state = IF pending[j] THEN "superseded" ELSE asset[j].state
    BY <1>3, <1>s DEF ClaimExhausts, RetirePendingArtifact
  <2>4. Closes(j, "failed")
    <3>1. \A n_1 \in 1..5 : attempt'[j][n_1] = IF n_1 = attemptCount[j] THEN "failed" ELSE attempt[j][n_1]
      BY <1>3, <1>t DEF ClaimExhausts, LastAttemptBecomes
    <3>2. lease'[j] = 0 /\ attemptCount'[j] = attemptCount[j]
      BY <1>3, <1>t DEF ClaimExhausts
    <3>3. QED
      BY <3>1, <3>2 DEF Closes
  <2>5. state[j] = "running" /\ state'[j] = "failed"
    BY <1>3, <1>t DEF ClaimExhausts, LeaseExpired
  <2>6. pending'[j] = pending[j]
    BY <1>3 DEF ClaimExhausts
  <2>7. QED
    BY <2>1, <2>2, <2>3, <2>4, <2>5, <2>6 DEF FailEffect
<1>4. ASSUME NEW j \in Jobs, Cancel(j) PROVE  CancelEffect(j) /\ \A k \in Jobs \ {j} : Same(k)
  <2>1. \A k \in Jobs \ {j} : Same(k)
    BY <1>4, <1>t, <1>s, <1>r DEF Cancel, Same, RetirePendingArtifact
  <2>2. reservation'[j].state =
          IF reservation[j].state # "reserved" THEN reservation[j].state
          ELSE IF state[j] = "running" THEN "settled" ELSE "released"
    <3>1. reservation[j] \in Reservation
      BY <1>r
    <3>2. CASE state[j] = "running"
      <4> DEFINE r == SettleUnknownUsage(j, reservation[j])
      <4>1. reservation' = [reservation EXCEPT ![j] = r]
        BY <1>4, <3>2 DEF Cancel
      <4>2. r.state = IF reservation[j].state = "reserved" THEN "settled" ELSE reservation[j].state
        BY <3>1, SettlementState
      <4> HIDE DEF r
      <4>3. QED
        BY <1>r, <3>2, <4>1, <4>2
    <3>3. CASE state[j] # "running"
      <4> DEFINE r == ReleaseBudget(reservation[j])
      <4>1. reservation' = [reservation EXCEPT ![j] = r]
        BY <1>4, <3>3 DEF Cancel
      <4>2. r.state = IF reservation[j].state = "reserved" THEN "released" ELSE reservation[j].state
        BY <3>1, SettlementState
      <4> HIDE DEF r
      <4>3. QED
        BY <1>r, <3>3, <4>1, <4>2
    <3>4. QED
      BY <3>2, <3>3
  <2>3. asset'[j].state = IF pending[j] THEN "superseded" ELSE asset[j].state
    BY <1>4, <1>s DEF Cancel, RetirePendingArtifact
  <2>4. IF state[j] = "running" THEN Closes(j, "cancelled")
        ELSE /\ lease'[j] = 0 /\ attemptCount'[j] = attemptCount[j]
             /\ attempt'[j] = attempt[j]
    <3>1. lease'[j] = 0 /\ attemptCount'[j] = attemptCount[j]
      BY <1>4, <1>t DEF Cancel
    <3>2. CASE state[j] = "running"
      <4>1. \A n \in 1..5 : attempt'[j][n] =
               IF n = attemptCount[j] THEN "cancelled" ELSE attempt[j][n]
        BY <1>4, <1>t, <3>2 DEF Cancel, LastAttemptBecomes
      <4>2. QED
        BY <3>1, <3>2, <4>1 DEF Closes
    <3>3. CASE state[j] # "running"
      BY <1>4, <3>1, <3>3 DEF Cancel
    <3>4. QED
      BY <3>2, <3>3
  <2>5. state[j] \in {"queued", "running"} /\ state'[j] = "cancelled"
    BY <1>4, <1>t DEF Cancel, OpenStates
  <2>6. pending'[j] = pending[j]
    BY <1>4 DEF Cancel
  <2>7. QED
    BY <2>1, <2>2, <2>3, <2>4, <2>5, <2>6 DEF CancelEffect
<1>5. ASSUME NEW j \in Jobs, NEW n \in 1..5, StageArtifact(j, n) PROVE  StageEffect(j) /\ \A k \in Jobs \ {j} : Same(k)
  <2>1. \A k \in Jobs \ {j} : Same(k)
    BY <1>5, <1>t, <1>s, <1>r DEF StageArtifact, Same
  <2>2. asset'[j].state = "staged" /\ asset[j].state \in {"none", "staged"}
    BY <1>5, <1>s DEF StageArtifact, MayStage
  <2>5. state[j] = "running" /\ Purpose[j] = "illustration" /\ pending'[j] = TRUE
    BY <1>5, <1>t DEF StageArtifact, MayStage
  <2>6. /\ state'[j] = state[j] /\ attempt'[j] = attempt[j] /\ attemptCount'[j] = attemptCount[j]
        /\ lease'[j] = lease[j] /\ reservation'[j] = reservation[j]
    BY <1>5 DEF StageArtifact
  <2>7. QED
    BY <2>1, <2>2, <2>5, <2>6 DEF StageEffect
<1>6. ASSUME NEW j \in Jobs, NEW n \in 1..5, NEW usage \in UsageReports,
            Succeed(j, n, usage)
      PROVE  SucceedEffect(j) /\ \A k \in Jobs \ {j} : Same(k)
  <2>1. \A k \in Jobs \ {j} : Same(k)
    BY <1>6, <1>t, <1>s, <1>r DEF Succeed, Same
  <2>2. /\ reservation[j].state \in {"none", "reserved"}
        /\ reservation'[j].state = IF reservation[j].state = "none" THEN "none" ELSE "settled"
    <3> DEFINE r == RecordAttemptUsage(j, reservation[j], usage, TRUE)
    <3>1. Chargeable(reservation[j]) /\ reservation' = [reservation EXCEPT ![j] = r]
      BY <1>6 DEF Succeed
    <3>2. r.state = IF reservation[j].state = "none" THEN "none" ELSE "settled"
      <4>1. reservation[j] \in Reservation
        BY <1>r
      <4>2. QED
        BY <4>1, SettlementState
    <3> HIDE DEF r
    <3>3. QED
      BY <1>r, <3>1, <3>2 DEF Chargeable
  <2>3. asset'[j].state = IF Purpose[j] = "illustration" THEN "published" ELSE asset[j].state
    BY <1>6, <1>s DEF Succeed
  <2>4. Closes(j, "succeeded")
    <3>1. \A n_1 \in 1..5 : attempt'[j][n_1] = IF n_1 = lease[j] THEN "succeeded" ELSE attempt[j][n_1]
      BY <1>6, <1>t DEF Succeed, HoldsLease
    <3>2. lease'[j] = 0 /\ attemptCount'[j] = attemptCount[j]
      BY <1>6, <1>t DEF Succeed
    <3>3. QED
      BY <3>1, <3>2 DEF Closes
  <2>5. /\ state[j] = "running" /\ state'[j] = "succeeded" /\ pending'[j] = FALSE
        /\ Purpose[j] = "illustration" => pending[j]
    BY <1>6, <1>t DEF Succeed, HoldsLease
  <2>7. QED
    BY <2>1, <2>2, <2>3, <2>4, <2>5 DEF SucceedEffect
<1>7. ASSUME NEW j \in Jobs, NEW n \in 1..5, NEW usage \in UsageReports,
            NEW class \in FailureClasses, FailAndRetry(j, n, class, usage)
      PROVE  RequeueEffect(j) /\ \A k \in Jobs \ {j} : Same(k)
  <2>1. \A k \in Jobs \ {j} : Same(k)
    BY <1>7, <1>t, <1>s, <1>r DEF FailAndRetry, Same
  <2>2. /\ reservation[j].state \in {"none", "reserved"}
        /\ reservation'[j].state = reservation[j].state
    <3> DEFINE r == RecordAttemptUsage(j, reservation[j], usage, FALSE)
    <3>1. Chargeable(reservation[j]) /\ reservation' = [reservation EXCEPT ![j] = r]
      BY <1>7 DEF FailAndRetry
    <3>2. r.state = IF reservation[j].state = "none" THEN "none" ELSE "reserved"
      <4>1. reservation[j] \in Reservation
        BY <1>r
      <4>2. QED
        BY <4>1, SettlementState
    <3> HIDE DEF r
    <3>3. QED
      BY <1>r, <3>1, <3>2 DEF Chargeable
  <2>4. Closes(j, "failed")
    <3>1. \A n_1 \in 1..5 : attempt'[j][n_1] = IF n_1 = lease[j] THEN "failed" ELSE attempt[j][n_1]
      BY <1>7, <1>t DEF FailAndRetry, HoldsLease
    <3>2. lease'[j] = 0 /\ attemptCount'[j] = attemptCount[j]
      BY <1>7, <1>t DEF FailAndRetry
    <3>3. QED
      BY <3>1, <3>2 DEF Closes
  <2>5. /\ state[j] = "running" /\ state'[j] = "queued"
        /\ attemptCount[j] < MaxAttempts[j]
    BY <1>7, <1>t DEF FailAndRetry, HoldsLease, Retries
  <2>6. pending'[j] = pending[j] /\ asset'[j] = asset[j]
    BY <1>7 DEF FailAndRetry
  <2>7. QED
    BY <2>1, <2>2, <2>4, <2>5, <2>6 DEF RequeueEffect
<1>8. ASSUME NEW j \in Jobs, NEW n \in 1..5, NEW usage \in UsageReports,
            NEW class \in FailureClasses, FailForGood(j, n, class, usage)
      PROVE  FailEffect(j) /\ \A k \in Jobs \ {j} : Same(k)
  <2>1. \A k \in Jobs \ {j} : Same(k)
    BY <1>8, <1>t, <1>s, <1>r DEF FailForGood, Same, RetirePendingArtifact
  <2>2. /\ reservation[j].state \in {"none", "reserved"}
        /\ reservation'[j].state = IF reservation[j].state = "none" THEN "none" ELSE "settled"
    <3> DEFINE r == RecordAttemptUsage(j, reservation[j], usage, TRUE)
    <3>1. Chargeable(reservation[j]) /\ reservation' = [reservation EXCEPT ![j] = r]
      BY <1>8 DEF FailForGood
    <3>2. r.state = IF reservation[j].state = "none" THEN "none" ELSE "settled"
      <4>1. reservation[j] \in Reservation
        BY <1>r
      <4>2. QED
        BY <4>1, SettlementState
    <3> HIDE DEF r
    <3>3. QED
      BY <1>r, <3>1, <3>2 DEF Chargeable
  <2>3. asset'[j].state = IF pending[j] THEN "superseded" ELSE asset[j].state
    BY <1>8, <1>s DEF FailForGood, RetirePendingArtifact
  <2>4. Closes(j, "failed")
    <3>1. \A n_1 \in 1..5 : attempt'[j][n_1] = IF n_1 = lease[j] THEN "failed" ELSE attempt[j][n_1]
      BY <1>8, <1>t DEF FailForGood, HoldsLease
    <3>2. lease'[j] = 0 /\ attemptCount'[j] = attemptCount[j]
      BY <1>8, <1>t DEF FailForGood
    <3>3. QED
      BY <3>1, <3>2 DEF Closes
  <2>5. state[j] = "running" /\ state'[j] = "failed"
    BY <1>8, <1>t DEF FailForGood, HoldsLease
  <2>6. pending'[j] = pending[j]
    BY <1>8 DEF FailForGood
  <2>7. QED
    BY <2>1, <2>2, <2>3, <2>4, <2>5, <2>6 DEF FailEffect
<1>9. ASSUME NEW j \in Jobs, NEW n \in 1..5, SendHeartbeat(j, n) PROVE \A k \in Jobs : Same(k)
  BY <1>9 DEF SendHeartbeat, Same
<1>10. ASSUME NEW h \in heartbeats, ApplyHeartbeat(h) \/ LoseHeartbeat(h)
       PROVE  \A k \in Jobs : Same(k)
  BY <1>10 DEF ApplyHeartbeat, LoseHeartbeat, Same
<1>11. ASSUME Tick \/ UNCHANGED vars PROVE \A k \in Jobs : Same(k)
  BY <1>11 DEF Tick, vars, Same
<1>12. QED
  BY <1>1, <1>2, <1>3, <1>4, <1>5, <1>6, <1>7, <1>8, <1>9, <1>10, <1>11
  DEF Next, LocalStep, Effect
----------------------------------------------------------------------------
(* The inductive invariant.  What is not in the properties: the slot of a    *)
(* job is pending only while the job may still use it, and only for an       *)
(* illustration; and a job that was never submitted made no attempt.  Without *)
(* the one a submission could meet a slot that is already taken, without the *)
(* other it could queue a job with no attempt left.                          *)

PendingFits(j) == pending[j] =>
    Purpose[j] = "illustration" /\ state[j] \notin {"absent", "succeeded"}

Unused(j) == state[j] = "absent" => attemptCount[j] = 0

JobCore(j) ==
    /\ LeaseFitsAttempts(j) /\ AttemptsAreBounded(j)
    /\ PendingFits(j) /\ Unused(j)
    /\ j \in Governed => BudgetFits(j)

JobInv(j) == JobCore(j) /\ SlotFits(j)

QueueCore == TypeInv /\ \A j \in Jobs : JobCore(j)
QueueInv == TypeInv /\ \A j \in Jobs : JobInv(j)

\* The part of TypeInv about one job.
Typed(j) ==
    /\ state[j] \in JobStates /\ attempt[j] \in [1..5 -> AttemptStates]
    /\ attemptCount[j] \in 0..5 /\ lease[j] \in 0..5 /\ pending[j] \in BOOLEAN
    /\ asset[j].state \in AssetStates /\ reservation[j].state \in ReservationStates

LEMMA TypedJobs == TypeInv => \A j \in Jobs : Typed(j)
<1> SUFFICES ASSUME TypeInv, NEW j \in Jobs PROVE Typed(j)
  OBVIOUS
<1>1. asset[j] \in [state : AssetStates, from : 0..5] /\ reservation[j] \in Reservation
  BY DEF TypeInv, TypeOK
<1>2. QED
  BY <1>1 DEF TypeInv, TypeOK, Typed, Reservation

\* A job that a step leaves alone keeps what holds of it.
LEMMA SameKeepsCore == ASSUME NEW k, JobCore(k), Same(k) PROVE JobCore(k)'
  BY DEF JobCore, Same, LeaseFitsAttempts, AttemptsAreBounded, PendingFits, Unused, BudgetFits,
     Open

LEMMA SameKeepsSlot == ASSUME NEW k, SlotFits(k), Same(k) PROVE SlotFits(k)'
  BY DEF Same, SlotFits, Open, Ended

\* Each effect keeps the lease in step with the attempts.
LEMMA LeaseStep ==
    ASSUME NEW j \in Jobs, Typed(j), Typed(j)', JobCore(j), Effect(j)
    PROVE  LeaseFitsAttempts(j)' /\ AttemptsAreBounded(j)' /\ Unused(j)'
<1> USE DEF JobCore, Typed, LeaseFitsAttempts, AttemptsAreBounded, Unused, JobStates, OpenStates,
            TerminalStates, AttemptStates
<1>a. MaxAttempts[j] \in 1..5
  BY QueueAssumption
<1>1. CASE SubmitEffect(j)
  BY <1>1, <1>a DEF SubmitEffect
<1>2. CASE GrantEffect(j)
  BY <1>2, <1>a DEF GrantEffect
<1>3. CASE StageEffect(j)
  BY <1>3, <1>a DEF StageEffect
<1>4. CASE SucceedEffect(j)
  BY <1>4, <1>a DEF SucceedEffect, Closes
<1>5. CASE RequeueEffect(j)
  BY <1>5, <1>a DEF RequeueEffect, Closes
<1>6. CASE FailEffect(j)
  BY <1>6, <1>a DEF FailEffect, Closes
<1>7. CASE CancelEffect(j)
  BY <1>7, <1>a DEF CancelEffect, Closes
<1>8. QED
  BY <1>1, <1>2, <1>3, <1>4, <1>5, <1>6, <1>7 DEF Effect

\* Each effect keeps the budget in step with the job, and the slot pending for no other.
LEMMA BudgetStep ==
    ASSUME NEW j \in Jobs, Typed(j), Typed(j)', JobCore(j), Effect(j)
    PROVE  PendingFits(j)' /\ (j \in Governed => BudgetFits(j)')
<1> USE DEF JobCore, Typed, PendingFits, BudgetFits, Open, JobStates, OpenStates,
            TerminalStates, ReservationStates
<1>1. CASE SubmitEffect(j)
  BY <1>1 DEF SubmitEffect
<1>2. CASE GrantEffect(j)
  BY <1>2 DEF GrantEffect
<1>3. CASE StageEffect(j)
  BY <1>3 DEF StageEffect
<1>4. CASE SucceedEffect(j)
  BY <1>4 DEF SucceedEffect
<1>5. CASE RequeueEffect(j)
  BY <1>5 DEF RequeueEffect
<1>6. CASE FailEffect(j)
  BY <1>6 DEF FailEffect
<1>7. CASE CancelEffect(j)
  BY <1>7 DEF CancelEffect
<1>8. QED
  BY <1>1, <1>2, <1>3, <1>4, <1>5, <1>6, <1>7 DEF Effect

\* Each effect keeps the publication slot in step with the job.
LEMMA SlotStep ==
    ASSUME NEW j \in Jobs, Typed(j), Typed(j)', JobInv(j), Effect(j)
    PROVE  SlotFits(j)'
<1> USE DEF JobInv, JobCore, Typed, SlotFits, PendingFits, Open, Ended, JobStates, OpenStates,
            TerminalStates, AssetStates
<1>1. CASE SubmitEffect(j)
  BY <1>1 DEF SubmitEffect
<1>2. CASE GrantEffect(j)
  BY <1>2 DEF GrantEffect
<1>3. CASE StageEffect(j)
  BY <1>3 DEF StageEffect
<1>4. CASE SucceedEffect(j)
  BY <1>4 DEF SucceedEffect
<1>5. CASE RequeueEffect(j)
  BY <1>5 DEF RequeueEffect
<1>6. CASE FailEffect(j)
  BY <1>6 DEF FailEffect
<1>7. CASE CancelEffect(j)
  BY <1>7 DEF CancelEffect
<1>8. QED
  BY <1>1, <1>2, <1>3, <1>4, <1>5, <1>6, <1>7 DEF Effect

LEMMA QueueInvInit == Init => QueueInv
<1> SUFFICES ASSUME Init PROVE QueueInv
  OBVIOUS
<1>1. TypeInv
  BY TypeInit
<1>2. ASSUME NEW j \in Jobs PROVE JobInv(j)
  <2>1. /\ state[j] = "absent" /\ attemptCount[j] = 0 /\ lease[j] = 0 /\ pending[j] = FALSE
        /\ asset[j].state = "none" /\ reservation[j].state = "none"
        /\ \A n \in 1..5 : attempt[j][n] = "none"
    BY DEF Init, NoAsset, NoReservation
  <2>2. MaxAttempts[j] \in 1..5
    BY QueueAssumption
  <2>3. QED
    BY <2>1, <2>2 DEF JobInv, JobCore, LeaseFitsAttempts, AttemptsAreBounded, SlotFits, PendingFits, Unused,
       BudgetFits, Open, Ended, OpenStates, TerminalStates
<1>3. QED
  BY <1>1, <1>2 DEF QueueInv

LEMMA TypedJobsNext == TypeInv' => \A j \in Jobs : Typed(j)'
<1> SUFFICES ASSUME TypeInv', NEW j \in Jobs PROVE Typed(j)'
  OBVIOUS
<1>1. asset'[j] \in [state : AssetStates, from : 0..5] /\ reservation'[j] \in Reservation
  BY DEF TypeInv, TypeOK
<1>2. QED
  BY <1>1 DEF TypeInv, TypeOK, Typed, Reservation

LEMMA QueueCoreStep == QueueCore /\ [Next]_vars => QueueCore'
<1> SUFFICES ASSUME QueueCore, [Next]_vars PROVE QueueCore'
  OBVIOUS
<1>1. TypeInv /\ TypeInv'
  BY TypeStep DEF QueueCore
<1>2. \A j \in Jobs : Typed(j) /\ JobCore(j) /\ Typed(j)'
  BY <1>1, TypedJobs, TypedJobsNext DEF QueueCore
<1>3. ASSUME NEW j \in Jobs, Effect(j) PROVE JobCore(j)'
  BY <1>2, <1>3, LeaseStep, BudgetStep DEF JobCore
<1>4. ASSUME NEW k \in Jobs, Same(k) PROVE JobCore(k)'
  BY <1>2, <1>4, SameKeepsCore
<1>5. \A k \in Jobs : Effect(k) \/ Same(k)
  BY <1>1, StepsAreLocal DEF LocalStep
<1>6. QED
  BY <1>1, <1>3, <1>4, <1>5 DEF QueueCore

LEMMA QueueInvStep == QueueInv /\ [Next]_vars => QueueInv'
<1> SUFFICES ASSUME QueueInv, [Next]_vars PROVE QueueInv'
  OBVIOUS
<1>1. QueueCore /\ QueueCore' /\ TypeInv /\ TypeInv'
  BY QueueCoreStep DEF QueueInv, QueueCore, JobInv
<1>2. \A j \in Jobs : Typed(j) /\ JobInv(j) /\ Typed(j)'
  BY <1>1, TypedJobs, TypedJobsNext DEF QueueInv
<1>3. ASSUME NEW j \in Jobs, Effect(j) PROVE SlotFits(j)'
  BY <1>2, <1>3, SlotStep
<1>4. ASSUME NEW k \in Jobs, Same(k) PROVE SlotFits(k)'
  BY <1>2, <1>4, SameKeepsSlot DEF JobInv
<1>5. \A k \in Jobs : Effect(k) \/ Same(k)
  BY <1>1, StepsAreLocal DEF LocalStep
<1>6. QED
  BY <1>1, <1>3, <1>4, <1>5 DEF QueueInv, QueueCore, JobInv

LEMMA QueueInvariant == Spec => []QueueInv
  BY QueueInvInit, QueueInvStep, PTL DEF Spec

----------------------------------------------------------------------------
\* At any time at most one attempt of a job is running, under the lease the job
\* records: what claims, late completions, retries and cancellations of
\* jobs.rs:1128-1991 preserve together.
THEOREM LeaseSafety == Spec => []OneLeasedAttempt
<1>1. QueueInv => OneLeasedAttempt
  BY DEF QueueInv, JobInv, JobCore, OneLeasedAttempt
<1>2. QED
  BY <1>1, QueueInvariant, PTL

\* No job makes more attempts than it was enqueued with, succeeds but through its
\* last, or waits without one left and so fails every claim (jobs.rs:1373-1376).
THEOREM AttemptSafety == Spec => []AttemptsWithinBound
<1>1. QueueInv => AttemptsWithinBound
  BY DEF QueueInv, JobInv, JobCore, AttemptsWithinBound
<1>2. QED
  BY <1>1, QueueInvariant, PTL

\* The publication slot never falls out of step with its job, so retiring a
\* pending artifact (jobs.rs:2021-2059) never aborts the end of a job.
THEOREM SlotSafety == Spec => []SlotFollowsJob
<1>1. QueueInv => SlotFollowsJob
  BY DEF QueueInv, JobInv, SlotFollowsJob
<1>2. QED
  BY <1>1, QueueInvariant, PTL

\* A budget reservation is open exactly while its job is, so no settlement of
\* governance.rs:489-662 finds it closed and no terminal path leaks it.
THEOREM BudgetSafety == Spec => []BudgetFollowsJob
<1>1. QueueInv => BudgetFollowsJob
  <2>1. Governed \subseteq Jobs
    BY BudgetAssumption
  <2>2. QED
    BY <2>1 DEF QueueInv, JobInv, JobCore, BudgetFollowsJob
<1>2. QED
  BY <1>1, QueueInvariant, PTL

\* A job that ended is never touched again, whatever stale leases, late
\* heartbeats or claims arrive (jobs.rs:1646-1670, 1757-1781).
THEOREM EndedJobsAreFinal == Spec => EndedJobsStay
<1>1. ASSUME QueueInv, [Next]_vars, NEW j \in Jobs, Ended(j)
      PROVE  UNCHANGED <<state[j], attempt[j], attemptCount[j], lease[j], pending[j],
                         asset[j], reservation[j]>>
  <2>1. Effect(j) \/ Same(j)
    BY <1>1, StepsAreLocal DEF QueueInv, LocalStep
  <2>2. ~ Effect(j)
    BY <1>1 DEF Ended, TerminalStates, Effect, SubmitEffect, GrantEffect, StageEffect,
       SucceedEffect, RequeueEffect, FailEffect, CancelEffect
  <2>3. QED
    BY <2>1, <2>2 DEF Same
<1>2. QueueInv /\ [Next]_vars => [\A j \in Jobs : Ended(j) =>
          UNCHANGED <<state[j], attempt[j], attemptCount[j], lease[j], pending[j],
                      asset[j], reservation[j]>>]_vars
  BY <1>1
<1>3. QED
  BY <1>2, QueueInvariant, PTL DEF Spec, EndedJobsStay

\* Tokens only advance and a closed attempt stays closed: a caller that was fenced
\* off once is fenced off for good (jobs.rs:1753-1767).
THEOREM TokensAdvance == Spec => TokensOnlyAdvance
<1> DEFINE Advance == \A j \in Jobs :
              /\ attemptCount'[j] >= attemptCount[j]
              /\ lease'[j] # NoLease => lease'[j] = attemptCount'[j]
              /\ \A n \in AttemptNumbers :
                    attempt[j][n] \in {"succeeded", "failed", "cancelled"}
                       => attempt'[j][n] = attempt[j][n]
<1>1. ASSUME QueueInv, [Next]_vars PROVE Advance
  <2> SUFFICES ASSUME NEW j \in Jobs
               PROVE  /\ attemptCount'[j] >= attemptCount[j]
                      /\ lease'[j] # NoLease => lease'[j] = attemptCount'[j]
                      /\ \A n \in AttemptNumbers :
                            attempt[j][n] \in {"succeeded", "failed", "cancelled"}
                               => attempt'[j][n] = attempt[j][n]
    OBVIOUS
  <2>1. Effect(j) \/ Same(j)
    BY <1>1, StepsAreLocal DEF QueueInv, LocalStep
  <2>2. Typed(j) /\ LeaseFitsAttempts(j)
    BY <1>1, TypedJobs DEF QueueInv, JobInv, JobCore
  <2>3. LeaseFitsAttempts(j)'
    BY <1>1, QueueInvStep DEF QueueInv, JobInv, JobCore
  <2>4. attemptCount'[j] >= attemptCount[j]
    BY <2>1, <2>2 DEF Typed, Same, Effect, SubmitEffect, GrantEffect, StageEffect,
       SucceedEffect, RequeueEffect, FailEffect, CancelEffect, Closes
  <2>5. lease'[j] # NoLease => lease'[j] = attemptCount'[j]
    BY <2>3 DEF LeaseFitsAttempts
  <2>6. ASSUME NEW n \in 1..5, attempt[j][n] \in {"succeeded", "failed", "cancelled"}
        PROVE  attempt'[j][n] = attempt[j][n]
    BY <2>1, <2>2, <2>6 DEF Typed, LeaseFitsAttempts, Same, Effect, SubmitEffect,
       GrantEffect, StageEffect, SucceedEffect, RequeueEffect, FailEffect, CancelEffect,
       Closes
  <2>7. QED
    BY <2>4, <2>5, <2>6
<1>2. QueueInv /\ [Next]_vars => [Advance]_vars
  BY <1>1
<1>3. QED
  BY <1>2, QueueInvariant, PTL DEF Spec, TokensOnlyAdvance
----------------------------------------------------------------------------
(* The queue implements JobLifecycle. *)

\* Every effect on a job is a step of its life, or none at all.
LEMMA EffectsAreLifeSteps ==
    ASSUME NEW j \in Jobs, Typed(j), Typed(j)', JobCore(j), JobCore(j)', Effect(j),
           j \notin Governed => reservation[j].state = "none" /\ reservation'[j].state = "none"
    PROVE  \/ PhaseOf(j) = "absent" /\ PhaseOf(j)' = "waiting"
              /\ HoldOf(j)' = (IF j \in Governed THEN "open" ELSE "none")
              /\ attemptCount'[j] = attemptCount[j]
           \/ PhaseOf(j) \in {"waiting", "granted"} /\ attemptCount[j] < MaxAttempts[j]
              /\ PhaseOf(j)' = "granted" /\ HoldOf(j)' = HoldOf(j)
              /\ attemptCount'[j] = attemptCount[j] + 1
           \/ PhaseOf(j) = "granted" /\ attemptCount[j] < MaxAttempts[j]
              /\ PhaseOf(j)' = "waiting" /\ HoldOf(j)' = HoldOf(j)
              /\ attemptCount'[j] = attemptCount[j]
           \/ PhaseOf(j)' \in {"succeeded", "failed"} /\ PhaseOf(j) = "granted"
              /\ HoldOf(j)' = (IF j \in Governed THEN "closed" ELSE "none")
              /\ attemptCount'[j] = attemptCount[j]
           \/ PhaseOf(j)' = "cancelled" /\ PhaseOf(j) \in {"waiting", "granted"}
              /\ HoldOf(j)' = (IF j \in Governed THEN "closed" ELSE "none")
              /\ attemptCount'[j] = attemptCount[j]
           \/ PhaseOf(j)' = PhaseOf(j) /\ HoldOf(j)' = HoldOf(j)
              /\ attemptCount'[j] = attemptCount[j]
<1> USE DEF JobCore, Typed, BudgetFits, Open, PhaseOf, HoldOf, JobStates, OpenStates,
            TerminalStates, ReservationStates
<1>1. CASE SubmitEffect(j)
  BY <1>1 DEF SubmitEffect
<1>2. CASE GrantEffect(j)
  BY <1>2 DEF GrantEffect
<1>3. CASE StageEffect(j)
  BY <1>3 DEF StageEffect
<1>4. CASE SucceedEffect(j)
  BY <1>4 DEF SucceedEffect, Closes
<1>5. CASE RequeueEffect(j)
  BY <1>5 DEF RequeueEffect, Closes
<1>6. CASE FailEffect(j)
  BY <1>6 DEF FailEffect, Closes
<1>7. CASE CancelEffect(j)
  BY <1>7 DEF CancelEffect, Closes
<1>8. QED
  BY <1>1, <1>2, <1>3, <1>4, <1>5, <1>6, <1>7 DEF Effect

LEMMA RefinementInit == Init => Life!LifeInit
<1> SUFFICES ASSUME Init PROVE Life!LifeInit
  OBVIOUS
<1>1. \A j \in Jobs : PhaseOf(j) = "absent" /\ HoldOf(j) = "none"
  BY DEF Init, PhaseOf, HoldOf, NoReservation
<1>2. attemptCount = [j \in Jobs |-> 0]
  BY DEF Init
<1>3. QED
  BY <1>1, <1>2 DEF Life!LifeInit

LEMMA RefinementStep ==
    ASSUME QueueCore, QueueCore', [Next]_vars
    PROVE  [Life!LifeNext]_Life!lifeVars
<1> DEFINE phase == [j \in Jobs |-> PhaseOf(j)]
           hold == [j \in Jobs |-> HoldOf(j)]
<1>1. TypeInv /\ TypeInv' /\ LocalStep
  BY StepsAreLocal DEF QueueCore
<1>2. attemptCount \in [Jobs -> 0..5] /\ attemptCount' \in [Jobs -> 0..5]
  BY <1>1 DEF TypeInv, TypeOK
<1>3. ASSUME NEW k \in Jobs, Same(k)
      PROVE  PhaseOf(k)' = PhaseOf(k) /\ HoldOf(k)' = HoldOf(k)
             /\ attemptCount'[k] = attemptCount[k]
  BY <1>3 DEF Same, PhaseOf, HoldOf
<1>4. CASE \A k \in Jobs : Same(k)
  <2>1. phase' = phase /\ hold' = hold
    BY <1>3, <1>4
  <2>2. attemptCount' = attemptCount
    BY <1>2, <1>3, <1>4
  <2>3. QED
    BY <2>1, <2>2 DEF Life!lifeVars
<1>5. ASSUME NEW j \in Jobs, Effect(j), \A k \in Jobs \ {j} : Same(k)
      PROVE  [Life!LifeNext]_Life!lifeVars
  <2>1. phase' = [phase EXCEPT ![j] = PhaseOf(j)'] /\ hold' = [hold EXCEPT ![j] = HoldOf(j)']
    BY <1>3, <1>5
  <2>2. attemptCount' = [attemptCount EXCEPT ![j] = attemptCount'[j]]
    BY <1>2, <1>3, <1>5
  <2>3. JobCore(j) /\ JobCore(j)' /\ Typed(j)
    BY <1>1, TypedJobs DEF QueueCore
  <2>4. Typed(j)'
    BY <1>1, TypedJobsNext
  <2>5. j \notin Governed => reservation[j].state = "none" /\ reservation'[j].state = "none"
    BY <1>1 DEF TypeInv, OnlyGovernedReserve
  <2>6. phase[j] = PhaseOf(j) /\ hold[j] = HoldOf(j)
    OBVIOUS
  <2>7. CASE /\ PhaseOf(j) = "absent" /\ PhaseOf(j)' = "waiting"
             /\ HoldOf(j)' = (IF j \in Governed THEN "open" ELSE "none")
             /\ attemptCount'[j] = attemptCount[j]
    <3>1. attemptCount' = attemptCount
      BY <1>2, <2>2, <2>7
    <3>2. Life!Submit(j)
      BY <2>1, <2>6, <2>7, <3>1 DEF Life!Submit
    <3>3. QED
      BY <3>2 DEF Life!LifeNext
  <2>8. CASE /\ PhaseOf(j) \in {"waiting", "granted"} /\ attemptCount[j] < MaxAttempts[j]
             /\ PhaseOf(j)' = "granted" /\ HoldOf(j)' = HoldOf(j)
             /\ attemptCount'[j] = attemptCount[j] + 1
    <3>1. hold' = hold
      BY <2>1, <2>6, <2>8
    <3>2. Life!Grant(j)
      BY <2>1, <2>2, <2>6, <2>8, <3>1 DEF Life!Grant
    <3>3. QED
      BY <3>2 DEF Life!LifeNext
  <2>9. CASE /\ PhaseOf(j) = "granted" /\ attemptCount[j] < MaxAttempts[j]
             /\ PhaseOf(j)' = "waiting" /\ HoldOf(j)' = HoldOf(j)
             /\ attemptCount'[j] = attemptCount[j]
    <3>1. hold' = hold /\ attemptCount' = attemptCount
      BY <1>2, <2>1, <2>2, <2>6, <2>9
    <3>2. Life!GiveBack(j)
      BY <2>1, <2>6, <2>9, <3>1 DEF Life!GiveBack
    <3>3. QED
      BY <3>2 DEF Life!LifeNext
  <2>10. CASE /\ \/ PhaseOf(j)' \in {"succeeded", "failed"} /\ PhaseOf(j) = "granted"
                 \/ PhaseOf(j)' = "cancelled" /\ PhaseOf(j) \in {"waiting", "granted"}
              /\ HoldOf(j)' = (IF j \in Governed THEN "closed" ELSE "none")
              /\ attemptCount'[j] = attemptCount[j]
    <3>1. attemptCount' = attemptCount
      BY <1>2, <2>2, <2>10
    <3>2. PICK outcome \in {"succeeded", "failed", "cancelled"} : outcome = PhaseOf(j)'
      BY <2>10
    <3>3. Life!End(j, outcome)
      BY <2>1, <2>6, <2>10, <3>1, <3>2 DEF Life!End
    <3>4. QED
      BY <3>3 DEF Life!LifeNext, Life!Ended
  <2>11. CASE /\ PhaseOf(j)' = PhaseOf(j) /\ HoldOf(j)' = HoldOf(j)
              /\ attemptCount'[j] = attemptCount[j]
    <3>1. phase' = phase /\ hold' = hold /\ attemptCount' = attemptCount
      BY <1>2, <2>1, <2>2, <2>6, <2>11
    <3>2. QED
      BY <3>1 DEF Life!lifeVars
  <2>12. QED
    BY <1>5, <2>3, <2>4, <2>5, <2>7, <2>8, <2>9, <2>10, <2>11, EffectsAreLifeSteps
<1>6. QED
  BY <1>1, <1>4, <1>5 DEF LocalStep

\* The queue keeps the promise of JobLifecycle: one epoch at a time holds a job, at
\* most Limit times, it ends once, and its budget is open exactly until then.
THEOREM ImplementsLifecycle == Spec => ImplementsJobLifecycle
<1>1. Init => Life!LifeInit
  BY RefinementInit
<1>2. QueueInv /\ QueueInv' /\ [Next]_vars => [Life!LifeNext]_Life!lifeVars
  BY RefinementStep DEF QueueInv, QueueCore, JobInv
<1>3. QED
  BY <1>1, <1>2, QueueInvariant, PTL DEF Spec, ImplementsJobLifecycle, Life!LifeSpec
----------------------------------------------------------------------------
(* One illustration of a campaign at a time, provided that a heartbeat takes *)
(* effect at the clock its caller read.                                      *)

\* Without delay only a claim leases a job that was not leased.
LEMMA OnlyClaimsLease ==
    ASSUME TypeInv, MaxDelay = 0, [Next]_vars, NEW k \in Jobs, Leased(k)', ~ Leased(k)
    PROVE  ClaimGrants(k)
<1>t. /\ state \in [Jobs -> JobStates] /\ leaseLeft \in [Jobs -> Int]
      /\ \A h \in heartbeats : h.age = 0 /\ h.job \in Jobs
  BY DEF TypeInv, TypeOK, Heartbeat
<1>0. SUFFICES ASSUME ~ ClaimGrants(k) PROVE Leased(k)' => Leased(k)
  OBVIOUS
<1> USE DEF Leased
<1>1. ASSUME NEW j \in Jobs, Enqueue(j) PROVE Leased(k)' => Leased(k)
  BY <1>1, <1>t DEF Enqueue
<1>2. ASSUME NEW j \in Jobs, ClaimGrants(j) PROVE Leased(k)' => Leased(k)
  BY <1>0, <1>2, <1>t DEF ClaimGrants
<1>3. ASSUME NEW j \in Jobs, ClaimExhausts(j) PROVE Leased(k)' => Leased(k)
  BY <1>3, <1>t DEF ClaimExhausts
<1>4. ASSUME NEW j \in Jobs, Cancel(j) PROVE Leased(k)' => Leased(k)
  BY <1>4, <1>t DEF Cancel
<1>5. ASSUME NEW j \in Jobs, NEW n \in 1..5, SendHeartbeat(j, n) \/ StageArtifact(j, n)
      PROVE  Leased(k)' => Leased(k)
  BY <1>5, <1>t DEF SendHeartbeat, StageArtifact
<1>6. ASSUME NEW j \in Jobs, NEW n \in 1..5, NEW usage \in UsageReports,
             Succeed(j, n, usage)
      PROVE  Leased(k)' => Leased(k)
  BY <1>6, <1>t DEF Succeed
<1>7. ASSUME NEW j \in Jobs, NEW n \in 1..5, NEW usage \in UsageReports,
             NEW class \in FailureClasses,
             FailAndRetry(j, n, class, usage) \/ FailForGood(j, n, class, usage)
      PROVE  Leased(k)' => Leased(k)
  BY <1>7, <1>t DEF FailAndRetry, FailForGood
<1>8. ASSUME NEW h \in heartbeats, ApplyHeartbeat(h) PROVE Leased(k)' => Leased(k)
  <2>1. state' = state
    BY <1>8 DEF ApplyHeartbeat
  <2>2. CASE Renews(h)
    BY <1>8, <1>t, <2>1, <2>2 DEF ApplyHeartbeat, Renews
  <2>3. CASE ~ Renews(h)
    BY <1>8, <2>1, <2>3 DEF ApplyHeartbeat
  <2>4. QED
    BY <2>2, <2>3
<1>9. ASSUME NEW h \in heartbeats, LoseHeartbeat(h) PROVE Leased(k)' => Leased(k)
  BY <1>9 DEF LoseHeartbeat
<1>10. CASE Tick
  BY <1>10, <1>t DEF Tick
<1>11. CASE UNCHANGED vars
  BY <1>11 DEF vars
<1>12. QED
  BY <1>1, <1>2, <1>3, <1>4, <1>5, <1>6, <1>7, <1>8, <1>9, <1>10, <1>11 DEF Next

\* A claim of one job leaves the others as they were, and it has seen no other
\* illustration of the campaign under an unexpired lease.
LEMMA ClaimsSeeTheOthers ==
    ASSUME TypeInv, NEW j \in Jobs, ClaimGrants(j), NEW k \in Jobs \ {j}
    PROVE  /\ Leased(k)' <=> Leased(k)
           /\ Leased(k) /\ CampaignOf[k] = CampaignOf[j] /\ Purpose[j] = "illustration"
                => Purpose[k] # "illustration"
<1>1. state \in [Jobs -> JobStates] /\ leaseLeft \in [Jobs -> Int]
  BY DEF TypeInv, TypeOK
<1>2. state'[k] = state[k] /\ leaseLeft'[k] = leaseLeft[k]
  BY <1>1 DEF ClaimGrants
<1>3. Admissible(j)
  BY DEF ClaimGrants
<1>4. QED
  BY <1>2, <1>3 DEF Leased, Admissible, ActiveOthers

\* So no claim leases a second illustration of a campaign.
LEMMA PromptInit == Init => OneIllustrationAtATime
  BY DEF Init, OneIllustrationAtATime, Leased

LEMMA PromptStep ==
    ASSUME MaxDelay = 0, TypeInv, OneIllustrationAtATime, [Next]_vars
    PROVE  OneIllustrationAtATime'
<1> SUFFICES ASSUME NEW j \in Jobs, NEW k \in Jobs, j # k, Leased(j)', Leased(k)',
                    Purpose[j] = "illustration", Purpose[k] = "illustration",
                    CampaignOf[j] = CampaignOf[k]
             PROVE  FALSE
  BY DEF OneIllustrationAtATime, Leased
<1>1. CASE Leased(j) /\ Leased(k)
  BY <1>1 DEF OneIllustrationAtATime
<1>2. CASE ~ Leased(j)
  <2>1. ClaimGrants(j)
    BY <1>2, OnlyClaimsLease
  <2>2. QED
    BY <2>1, ClaimsSeeTheOthers
<1>3. CASE ~ Leased(k)
  <2>1. ClaimGrants(k)
    BY <1>3, OnlyClaimsLease
  <2>2. QED
    BY <2>1, ClaimsSeeTheOthers
<1>4. QED
  BY <1>1, <1>2, <1>3

\* docs/planning/04-ai-generation.md:125 ("one running job per campaign") holds as
\* long as no heartbeat is applied later than the clock its caller read.  It fails
\* otherwise: a late update can revive a lease that another claim took for expired.
THEOREM PromptHeartbeatsSuffice ==
    ASSUME MaxDelay = 0 PROVE Spec => []OneIllustrationAtATime
<1>1. QueueInv => TypeInv
  BY DEF QueueInv
<1>2. QED
  BY <1>1, PromptInit, PromptStep, QueueInvariant, PTL DEF Spec

----------------------------------------------------------------------------
(* The workers and the inline requests that drive the queue.                 *)

\* A published artifact that another one of its turn has replaced.
Replaced(j) ==
    /\ state[j] = "succeeded" /\ Purpose[j] = "illustration"
    /\ asset[j].state = "superseded" /\ ~ pending[j]

SlotsFitOrReplaced == \A j \in Jobs : SlotFits(j) \/ Replaced(j)

\* An agent has the token of an attempt that was granted, and no other agent has it.
TokensAreGranted ==
    \A a \in Agents : agent[a] # Idle => agent[a].token <= attemptCount[agent[a].job]
TokensAreOwn ==
    \A a, b \in Agents :
        /\ agent[a] # Idle /\ agent[b] # Idle
        /\ agent[a].job = agent[b].job /\ agent[a].token = agent[b].token
        /\ agent[a].token # NoLease
        => a = b

\* What has been staged, and may be selected, is an illustration.
StagedAreImages ==
    /\ \A a \in Agents : agent[a].doing \in {"completing", "selecting"} => agent[a].job \in Images
    /\ selected \subseteq Images

WorkerTypes ==
    /\ agent \in [Agents -> AgentState]
    /\ files \in [Jobs -> 0..5]
    /\ selected \subseteq Jobs

WorkersInv ==
    /\ QueueCore /\ SlotsFitOrReplaced
    /\ WorkerTypes /\ TokensAreGranted /\ TokensAreOwn /\ StagedAreImages
    /\ SelectedIsSingular

LEMMA AgentTypes ==
    ASSUME WorkerTypes, NEW a \in Agents
    PROVE  /\ agent[a] \in AgentState
           /\ agent[a] # Idle => /\ agent[a].doing \in Doings /\ agent[a].job \in Jobs
                                 /\ agent[a].token \in 0..5
           /\ agent[a] = Idle => agent[a].doing = "idle"
           /\ agent[a].doing # "idle" => agent[a] # Idle
<1>1. agent[a] \in AgentState
  BY DEF WorkerTypes
<1>2. QED
  BY <1>1 DEF AgentState, Idle, Doings

(***************************************************************************)
(* What a step does to the agents: none takes a job, or one does.          *)
(***************************************************************************)
Keeps(a) ==
    \/ agent'[a] = Idle
    \/ /\ agent[a] # Idle /\ agent'[a] \in AgentState
       /\ agent'[a].job = agent[a].job /\ agent'[a].token = agent[a].token
       /\ \/ agent'[a].doing = agent[a].doing
          \/ agent'[a].doing \notin {"completing", "selecting"}
          \/ agent'[a].job \in Images

KeepAgents == agent' \in [Agents -> AgentState] /\ \A a \in Agents : Keeps(a)

Grants(j, n) ==
    n = NoLease \/ (n = attemptCount[j] + 1 /\ attemptCount' = [attemptCount EXCEPT ![j] = n])

Takes(a, j, n) ==
    /\ agent' \in [Agents -> AgentState]
    /\ agent'[a].job = j /\ agent'[a].token = n
    /\ agent'[a].doing \in {"claiming", "generating"}
    /\ \A b \in Agents \ {a} : agent'[b] = agent[b]
    /\ Grants(j, n)

LEMMA BecomesKeeps ==
    ASSUME WorkerTypes, NEW a \in Agents, agent[a] # Idle, NEW what \in Doings,
           Becomes(a, what),
           what \in {"completing", "selecting"} => agent[a].job \in Images
    PROVE  KeepAgents
<1>1. agent \in [Agents -> AgentState] /\ agent[a] \in [doing : Doings, job : Jobs, token : 0..5]
  BY DEF WorkerTypes, AgentState
<1>2. /\ agent'[a] = [agent[a] EXCEPT !.doing = what]
      /\ \A b \in Agents \ {a} : agent'[b] = agent[b]
      /\ DOMAIN agent' = Agents /\ agent' = [b \in Agents |-> agent'[b]]
  BY <1>1 DEF Becomes
<1>3. /\ agent'[a] \in AgentState /\ agent'[a].job = agent[a].job
      /\ agent'[a].token = agent[a].token /\ agent'[a].doing = what
  BY <1>1, <1>2 DEF AgentState
<1>4. agent' \in [Agents -> AgentState]
  BY <1>1, <1>2, <1>3
<1>5. \A b \in Agents \ {a} : Keeps(b)
  BY <1>1, <1>2 DEF Keeps
<1>6. Keeps(a)
  BY <1>3 DEF Keeps
<1>7. QED
  BY <1>4, <1>5, <1>6 DEF KeepAgents

LEMMA StopsKeeps ==
    ASSUME WorkerTypes, NEW a \in Agents, Stops(a)
    PROVE  KeepAgents
<1>1. agent \in [Agents -> AgentState]
  BY DEF WorkerTypes
<1>2. /\ agent' \in [Agents -> AgentState]
      /\ agent'[a] = Idle /\ \A b \in Agents \ {a} : agent'[b] = agent[b]
  BY <1>1 DEF Stops, AgentState
<1>3. QED
  BY <1>1, <1>2 DEF KeepAgents, Keeps

LEMMA SameAgents == ASSUME WorkerTypes, UNCHANGED agent PROVE KeepAgents
  BY DEF WorkerTypes, KeepAgents, Keeps

LEMMA StartsTakes ==
    ASSUME WorkerTypes, NEW a \in Agents, NEW what \in {"claiming", "generating"},
           NEW j \in Jobs, NEW n \in 0..5, Starts(a, what, j, n),
           \/ n = NoLease
           \/ n = attemptCount[j] + 1 /\ attemptCount' = [attemptCount EXCEPT ![j] = n]
    PROVE  Takes(a, j, n)
<1>1. agent \in [Agents -> AgentState] /\ [doing |-> what, job |-> j, token |-> n] \in AgentState
  BY DEF WorkerTypes, AgentState, Doings
<1>2. /\ agent' \in [Agents -> AgentState]
      /\ agent'[a] = [doing |-> what, job |-> j, token |-> n]
      /\ \A b \in Agents \ {a} : agent'[b] = agent[b]
  BY <1>1 DEF Starts
<1>3. QED
  BY <1>2 DEF Takes, Grants

\* An answer to a heartbeat moves on the agents that wait for it, or stops them.
LEMMA AnsweredKeeps ==
    ASSUME WorkerTypes, NEW h, HeartbeatAnswered(h) \/ HeartbeatErred(h)
    PROVE  KeepAgents
<1>1. \A a \in Agents : \/ agent'[a] = agent[a] \/ agent'[a] = Idle
                        \/ Awaits(a, h) /\ \E d \in {"generating", "publishing", "aborting"} :
                                agent'[a] = [agent[a] EXCEPT !.doing = d]
  BY DEF HeartbeatAnswered, HeartbeatErred
<1>2. DOMAIN agent' = Agents /\ agent' = [a \in Agents |-> agent'[a]]
  BY DEF HeartbeatAnswered, HeartbeatErred
<1>3. ASSUME NEW a \in Agents PROVE agent'[a] \in AgentState /\ Keeps(a)
  <2>1. agent[a] \in AgentState /\ Idle \in AgentState
    BY DEF WorkerTypes, AgentState
  <2>2. CASE agent'[a] = agent[a] \/ agent'[a] = Idle
    BY <2>1, <2>2 DEF Keeps
  <2>3. ASSUME Awaits(a, h), NEW d \in {"generating", "publishing", "aborting"},
               agent'[a] = [agent[a] EXCEPT !.doing = d]
        PROVE  agent'[a] \in AgentState /\ Keeps(a)
    <3>1. agent[a] # Idle /\ agent[a] \in [doing : Doings, job : Jobs, token : 0..5]
      BY <2>1, <2>3 DEF Awaits, AgentState, Idle
    <3>2. /\ agent'[a] \in AgentState /\ agent'[a].job = agent[a].job
          /\ agent'[a].token = agent[a].token /\ agent'[a].doing = d
      BY <3>1, <2>3 DEF AgentState, Doings
    <3>3. QED
      BY <3>1, <3>2 DEF Keeps
  <2>4. QED
    BY <1>1, <2>2, <2>3
<1>4. QED
  BY <1>2, <1>3 DEF KeepAgents

(***************************************************************************)
(* What a step of the workers does: a step of the queue, or the selection  *)
(* of an artifact; and what it does to the agents.                         *)
(***************************************************************************)
QueueStep == [Next]_vars /\ UNCHANGED selected
AgentStep == KeepAgents \/ \E a \in Agents, j \in Jobs, n \in 0..5 : Takes(a, j, n)
FilesStep == files' \in [Jobs -> 0..5]

LEMMA QueueSteps ==
    /\ \A j \in Jobs : Enqueue(j) \/ ClaimGrants(j) \/ ClaimExhausts(j) \/ Cancel(j) => Next
    /\ \A j \in Jobs, n \in 1..5 : SendHeartbeat(j, n) \/ StageArtifact(j, n) => Next
    /\ \A j \in Jobs, n \in 1..5, usage \in UsageReports : Succeed(j, n, usage) => Next
    /\ \A j \in Jobs, n \in 1..5, usage \in UsageReports, class \in FailureClasses :
           FailAndRetry(j, n, class, usage) \/ FailForGood(j, n, class, usage) => Next
    /\ \A h \in heartbeats : ApplyHeartbeat(h) \/ LoseHeartbeat(h) => Next
    /\ Tick => Next
  BY DEF Next

\* An attempt that was granted has one of the numbers of attempts.
LEMMA GrantedNumbers ==
    ASSUME QueueCore, NEW j \in Jobs, NEW n \in 0..5, Granted(j, n)
    PROVE  n \in 1..5
  BY DEF Granted, QueueCore, TypeInv, TypeOK

LEMMA FilesStay == ASSUME WorkerTypes, UNCHANGED files PROVE FilesStep
  BY DEF WorkerTypes, FilesStep

LEMMA StillQueue == UNCHANGED <<vars, selected>> => QueueStep
  BY DEF QueueStep

LEMMA ClaimTakes ==
    ASSUME WorkersInv, NEW a \in Agents, NEW j \in Jobs, ClaimGrants(j),
           Starts(a, "generating", j, NextAttempt(j)), UNCHANGED <<files, selected>>
    PROVE  QueueStep /\ AgentStep /\ FilesStep
<1>1. attemptCount[j] + 1 \in 0..5
  <2>1. attemptCount[j] \in 0..5 /\ MaxAttempts[j] \in 1..5
    BY QueueAssumption DEF WorkersInv, QueueCore, TypeInv, TypeOK
  <2>2. QED
    BY <2>1 DEF ClaimGrants
<1>2. attemptCount' = [attemptCount EXCEPT ![j] = attemptCount[j] + 1]
  BY DEF ClaimGrants
<1>3. Takes(a, j, attemptCount[j] + 1)
  BY <1>1, <1>2, StartsTakes DEF WorkersInv
<1>4. QED
  BY <1>1, <1>3, QueueSteps, FilesStay DEF QueueStep, AgentStep, WorkersInv

LEMMA ImageRequestSteps ==
    ASSUME WorkersInv, NEW j \in Jobs, RequestImage(j) \/ CancelImage(j)
    PROVE  QueueStep /\ AgentStep /\ FilesStep
<1>1. UNCHANGED <<agent, files, selected>> /\ Next
  BY QueueSteps DEF RequestImage, CancelImage, workerVars
<1>2. QED
  BY <1>1, SameAgents, FilesStay DEF QueueStep, AgentStep, WorkersInv

LEMMA ClaimImageSteps ==
    ASSUME WorkersInv, NEW w \in Workers, NEW j \in Jobs, ClaimImage(w, j)
    PROVE  QueueStep /\ AgentStep /\ FilesStep
<1>1. w \in Agents
  BY DEF Agents
<1>2. CASE ClaimGrants(j) /\ Starts(w, "generating", j, NextAttempt(j))
  BY <1>1, <1>2, ClaimTakes DEF ClaimImage
<1>3. CASE ClaimExhausts(j) /\ UNCHANGED agent
  BY <1>3, QueueSteps, SameAgents, FilesStay DEF ClaimImage, QueueStep, AgentStep, WorkersInv
<1>4. QED
  BY <1>2, <1>3 DEF ClaimImage

LEMMA HeartbeatSteps ==
    ASSUME WorkersInv, NEW w \in Workers, SendRenewal(w) \/ ProviderAnswers(w)
    PROVE  QueueStep /\ AgentStep /\ FilesStep
<1>1. /\ w \in Agents /\ agent[w] # Idle /\ agent[w].job \in Jobs /\ agent[w].token \in 0..5
  BY AgentTypes DEF SendRenewal, ProviderAnswers, At, Agents, WorkersInv
<1>2. SendHeartbeat(agent[w].job, agent[w].token) /\ UNCHANGED <<files, selected>>
  BY DEF SendRenewal, ProviderAnswers
<1>3. Next
  <2>1. agent[w].token \in 1..5
    BY <1>1, <1>2, GrantedNumbers DEF SendHeartbeat, WorkersInv
  <2>2. QED
    BY <1>1, <1>2, <2>1, QueueSteps
<1>4. KeepAgents
  BY <1>1, BecomesKeeps DEF SendRenewal, ProviderAnswers, Doings, WorkersInv
<1>5. QED
  BY <1>2, <1>3, <1>4, FilesStay DEF QueueStep, AgentStep, WorkersInv

LEMMA AnswerSteps ==
    ASSUME WorkersInv, NEW h \in heartbeats, HeartbeatAnswered(h) \/ HeartbeatErred(h)
    PROVE  QueueStep /\ AgentStep /\ FilesStep
<1>1. Next /\ UNCHANGED <<files, selected>>
  BY QueueSteps DEF HeartbeatAnswered, HeartbeatErred
<1>2. KeepAgents
  BY AnsweredKeeps DEF WorkersInv
<1>3. QED
  BY <1>1, <1>2, FilesStay DEF QueueStep, AgentStep, WorkersInv

LEMMA FailureSteps ==
    ASSUME WorkersInv, NEW a \in Agents, NEW class \in FailureClasses, FailAttempt(a, class)
    PROVE  QueueStep /\ AgentStep /\ FilesStep
<1> DEFINE j == agent[a].job
           n == agent[a].token
<1>1. j \in Jobs /\ n \in 0..5
  BY AgentTypes DEF FailAttempt, At, WorkersInv
<1>2. KeepAgents /\ UNCHANGED <<files, selected>>
  BY StopsKeeps DEF FailAttempt, WorkersInv
<1>3. CASE UNCHANGED vars
  BY <1>2, <1>3, FilesStay, StillQueue DEF AgentStep, WorkersInv
<1>4. ASSUME NEW usage \in UsageReports,
             FailAndRetry(j, n, class, usage) \/ FailForGood(j, n, class, usage)
      PROVE  Next
  <2>1. n \in 1..5
    BY <1>1, <1>4, GrantedNumbers DEF FailAndRetry, FailForGood, WorkersInv
  <2>2. QED
    BY <1>1, <1>4, <2>1, QueueSteps
<1>5. Next \/ UNCHANGED vars
  BY <1>4 DEF FailAttempt, queueVars
<1>6. QED
  BY <1>2, <1>3, <1>5, FilesStay DEF QueueStep, AgentStep, WorkersInv

LEMMA PublicationSteps ==
    ASSUME WorkersInv, NEW w \in Workers,
           PublishFiles(w) \/ RegisterArtifact(w) \/ CompleteImage(w)
    PROVE  QueueStep /\ AgentStep /\ FilesStep
<1> DEFINE j == agent[w].job
           n == agent[w].token
<1>1. w \in Agents /\ agent[w] # Idle /\ j \in Jobs /\ n \in 0..5
  BY AgentTypes DEF PublishFiles, RegisterArtifact, CompleteImage, At, Agents, WorkersInv
<1>2. CASE PublishFiles(w)
  <2>1. KeepAgents
    BY <1>1, <1>2, BecomesKeeps DEF PublishFiles, Doings, WorkersInv
  <2>2. FilesStep
    BY <1>1, <1>2 DEF PublishFiles, FilesStep, WorkersInv, WorkerTypes
  <2>3. QED
    BY <1>2, <2>1, <2>2, StillQueue DEF PublishFiles, queueVars, AgentStep
<1>3. CASE RegisterArtifact(w)
  <2>1. CASE StageArtifact(j, n) /\ Becomes(w, "completing")
    <3>1. n \in 1..5 /\ j \in Images
      BY <1>1, <2>1, GrantedNumbers DEF StageArtifact, WorkersInv, Images
    <3>2. KeepAgents
      BY <1>1, <2>1, <3>1, BecomesKeeps DEF Doings, WorkersInv
    <3>3. Next
      BY <1>1, <2>1, <3>1, QueueSteps
    <3>4. QED
      BY <1>3, <3>2, <3>3, FilesStay DEF RegisterArtifact, QueueStep, AgentStep, WorkersInv
  <2>2. CASE UNCHANGED vars /\ Stops(w)
    BY <1>1, <1>3, <2>2, StopsKeeps, FilesStay, StillQueue
       DEF RegisterArtifact, AgentStep, WorkersInv
  <2>3. QED
    BY <1>3, <2>1, <2>2 DEF RegisterArtifact, queueVars
<1>4. CASE CompleteImage(w)
  <2>1. ASSUME NEW usage \in UsageReports, Succeed(j, n, usage), Becomes(w, "selecting")
        PROVE  QueueStep /\ AgentStep /\ FilesStep
    <3>1. n \in 1..5
      BY <1>1, <2>1, GrantedNumbers DEF Succeed, WorkersInv
    <3>2. j \in Images
      BY <1>1, <1>4 DEF CompleteImage, At, WorkersInv, StagedAreImages
    <3>3. KeepAgents
      BY <1>1, <2>1, <3>2, BecomesKeeps DEF Doings, WorkersInv
    <3>4. Next
      BY <1>1, <2>1, <3>1, QueueSteps
    <3>5. QED
      BY <1>4, <3>3, <3>4, FilesStay DEF CompleteImage, QueueStep, AgentStep, WorkersInv
  <2>2. CASE UNCHANGED vars /\ Stops(w)
    BY <1>1, <1>4, <2>2, StopsKeeps, FilesStay, StillQueue
       DEF CompleteImage, AgentStep, WorkersInv
  <2>3. QED
    BY <1>4, <2>1, <2>2 DEF CompleteImage, queueVars
<1>5. QED
  BY <1>2, <1>3, <1>4

LEMMA TextSteps ==
    ASSUME WorkersInv, NEW c \in Callers,
           ClaimText(c) \/ FinishText(c) \/ \E j \in Jobs : BeginText(c, j)
    PROVE  QueueStep /\ AgentStep /\ FilesStep
<1>1. c \in Agents
  BY DEF Agents
<1>2. ASSUME NEW j \in Jobs, BeginText(c, j) PROVE QueueStep /\ AgentStep /\ FilesStep
  <2>1. QueueStep
    BY <1>2, QueueSteps, StillQueue DEF BeginText, QueueStep, queueVars
  <2>2. Takes(c, j, NoLease)
    BY <1>1, <1>2, StartsTakes DEF BeginText, WorkersInv
  <2>3. QED
    BY <1>1, <1>2, <2>1, <2>2, FilesStay DEF BeginText, AgentStep, WorkersInv
<1>3. CASE ClaimText(c)
  <2> DEFINE j == agent[c].job
  <2>1. j \in Jobs
    BY <1>1, <1>3, AgentTypes DEF ClaimText, At, WorkersInv
  <2>2. CASE ClaimGrants(j) /\ Starts(c, "generating", j, NextAttempt(j))
    BY <1>1, <1>3, <2>1, <2>2, ClaimTakes DEF ClaimText
  <2>3. CASE (ClaimExhausts(j) \/ UNCHANGED vars) /\ Stops(c)
    <3>1. KeepAgents
      BY <1>1, <2>3, StopsKeeps DEF WorkersInv
    <3>2. QED
      BY <1>3, <2>1, <2>3, <3>1, QueueSteps, FilesStay
         DEF ClaimText, QueueStep, AgentStep, WorkersInv
  <2>4. QED
    BY <1>3, <2>2, <2>3 DEF ClaimText, queueVars
<1>4. CASE FinishText(c)
  <2> DEFINE j == agent[c].job
             n == agent[c].token
  <2>1. j \in Jobs /\ n \in 0..5
    BY <1>1, <1>4, AgentTypes DEF FinishText, At, WorkersInv
  <2>2. ASSUME NEW usage \in UsageReports, Succeed(j, n, usage) PROVE Next
    <3>1. n \in 1..5
      BY <2>1, <2>2, GrantedNumbers DEF Succeed, WorkersInv
    <3>2. QED
      BY <2>1, <2>2, <3>1, QueueSteps
  <2>3. Next \/ UNCHANGED vars
    BY <1>4, <2>2 DEF FinishText, queueVars
  <2>4. KeepAgents
    BY <1>1, <1>4, StopsKeeps DEF FinishText, WorkersInv
  <2>5. QED
    BY <1>4, <2>3, <2>4, FilesStay DEF FinishText, QueueStep, AgentStep, WorkersInv
<1>5. QED
  BY <1>2, <1>3, <1>4

LEMMA WorkerSteps ==
    ASSUME WorkersInv, [WorkersNext]_allVars
    PROVE  \/ QueueStep /\ AgentStep /\ FilesStep
           \/ \E w \in Workers : SelectArtifact(w)
<1>1. ASSUME NEW w \in Workers, NEW j \in Jobs, ClaimImage(w, j)
      PROVE  QueueStep /\ AgentStep /\ FilesStep
  BY <1>1, ClaimImageSteps
<1>2. ASSUME NEW w \in Workers, ProviderEnds(w) \/ WorkerProceeds(w)
      PROVE  \/ QueueStep /\ AgentStep /\ FilesStep
             \/ SelectArtifact(w)
  <2>1. w \in Agents /\ "permanent" \in FailureClasses
    BY DEF Agents, FailureClasses
  <2>2. QED
    BY <1>2, <2>1, HeartbeatSteps, FailureSteps, PublicationSteps
       DEF ProviderEnds, WorkerProceeds
<1>3. ASSUME NEW c \in Callers, CallerProceeds(c)
      PROVE  QueueStep /\ AgentStep /\ FilesStep
  <2>1. c \in Agents
    BY DEF Agents
  <2>2. QED
    BY <1>3, <2>1, FailureSteps, TextSteps DEF CallerProceeds
<1>4. ASSUME NEW a \in Agents, Abandon(a) PROVE QueueStep /\ AgentStep /\ FilesStep
  BY <1>4, StopsKeeps, FilesStay, StillQueue DEF Abandon, queueVars, AgentStep, WorkersInv
<1>5. CASE TimePasses
  BY <1>5, QueueSteps, SameAgents, FilesStay
     DEF TimePasses, workerVars, QueueStep, AgentStep, WorkersInv
<1>6. CASE UNCHANGED allVars
  BY <1>6, SameAgents, FilesStay, StillQueue
     DEF allVars, vars, workerVars, AgentStep, WorkersInv
<1>7. QED
  BY <1>1, <1>2, <1>3, <1>4, <1>5, <1>6, ImageRequestSteps, HeartbeatSteps, AnswerSteps, TextSteps
     DEF WorkersNext

(***************************************************************************)
(* A step of the queue counts attempts up and leaves the jobs that ended   *)
(* alone, so it keeps what holds of agents and selections.                 *)
(***************************************************************************)
LEMMA QueueStepsSpare ==
    ASSUME QueueCore, [Next]_vars, NEW j \in Jobs
    PROVE  /\ attemptCount'[j] >= attemptCount[j]
           /\ Ended(j) => Same(j)
           /\ Effect(j) \/ Same(j)
<1>1. Effect(j) \/ Same(j)
  BY StepsAreLocal DEF QueueCore, LocalStep
<1>2. Typed(j)
  BY TypedJobs DEF QueueCore
<1>3. attemptCount'[j] >= attemptCount[j]
  BY <1>1, <1>2 DEF Typed, Same, Effect, SubmitEffect, GrantEffect, StageEffect,
     SucceedEffect, RequeueEffect, FailEffect, CancelEffect, Closes
<1>4. Ended(j) => ~ Effect(j)
  BY DEF Ended, TerminalStates, Effect, SubmitEffect, GrantEffect, StageEffect,
     SucceedEffect, RequeueEffect, FailEffect, CancelEffect
<1>5. QED
  BY <1>1, <1>3, <1>4

LEMMA SlotsStep ==
    ASSUME QueueCore, QueueCore', SlotsFitOrReplaced, [Next]_vars
    PROVE  SlotsFitOrReplaced'
<1> SUFFICES ASSUME NEW j \in Jobs PROVE SlotFits(j)' \/ Replaced(j)'
  BY DEF SlotsFitOrReplaced, SlotFits, Replaced
<1>1. Typed(j) /\ Typed(j)' /\ JobCore(j)
  BY TypedJobs, TypedJobsNext DEF QueueCore
<1>2. CASE Same(j)
  BY <1>2, SameKeepsSlot DEF SlotsFitOrReplaced, Replaced, Same
<1>3. CASE Effect(j)
  <2>1. ~ Replaced(j)
    BY <1>3, QueueStepsSpare DEF Replaced, Ended, TerminalStates, Effect, SubmitEffect, GrantEffect,
       StageEffect, SucceedEffect, RequeueEffect, FailEffect, CancelEffect
  <2>2. JobInv(j)
    BY <2>1, <1>1 DEF SlotsFitOrReplaced, JobInv
  <2>3. QED
    BY <2>2, <1>1, <1>3, SlotStep
<1>4. QED
  BY <1>2, <1>3, QueueStepsSpare

LEMMA SelectionStays ==
    ASSUME QueueCore, WorkerTypes, SelectedIsSingular, QueueStep
    PROVE  SelectedIsSingular'
<1>1. ASSUME NEW j \in selected PROVE state'[j] = "succeeded" /\ asset'[j].state = "published"
  <2>1. j \in Jobs /\ state[j] = "succeeded" /\ asset[j].state = "published"
    BY <1>1 DEF WorkerTypes, SelectedIsSingular
  <2>2. Same(j)
    BY <2>1, QueueStepsSpare DEF QueueStep, Ended, TerminalStates
  <2>3. QED
    BY <2>1, <2>2 DEF Same
<1>2. QED
  BY <1>1 DEF SelectedIsSingular, QueueStep, SameTurn

LEMMA TokensStay ==
    ASSUME QueueCore, QueueCore', WorkerTypes, TokensAreGranted, TokensAreOwn, QueueStep, AgentStep
    PROVE  TokensAreGranted' /\ TokensAreOwn' /\ agent' \in [Agents -> AgentState]
<1>1. \A j \in Jobs : /\ attemptCount[j] \in 0..5 /\ attemptCount'[j] \in 0..5
                      /\ attemptCount'[j] >= attemptCount[j]
  BY QueueStepsSpare DEF QueueStep, QueueCore, TypeInv, TypeOK
<1>2. \A a \in Agents : agent[a] # Idle =>
          /\ agent[a].job \in Jobs /\ agent[a].token \in 0..5
          /\ agent[a].token <= attemptCount[agent[a].job]
  BY AgentTypes DEF TokensAreGranted
<1>3. CASE KeepAgents
  <2>1. ASSUME NEW a \in Agents, agent'[a] # Idle
        PROVE  /\ agent[a] # Idle
               /\ agent'[a].job = agent[a].job /\ agent'[a].token = agent[a].token
    BY <1>3, <2>1 DEF KeepAgents, Keeps
  <2>2. ASSUME NEW a \in Agents, agent'[a] # Idle
        PROVE  agent'[a].token <= attemptCount'[agent'[a].job]
    <3>1. PICK j \in Jobs : j = agent[a].job
      BY <1>2, <2>1, <2>2
    <3>2. PICK n \in 0..5 : n = agent[a].token
      BY <1>2, <2>1, <2>2
    <3>3. n <= attemptCount[j]
      BY <3>1, <3>2, <1>2, <2>1, <2>2
    <3>4. n <= attemptCount'[j]
      BY <3>3, <1>1
    <3>5. QED
      BY <3>1, <3>2, <3>4, <2>1, <2>2
  <2>3. TokensAreOwn'
    BY <2>1 DEF TokensAreOwn, Idle
  <2>4. QED
    BY <1>3, <2>2, <2>3 DEF TokensAreGranted, KeepAgents, Idle
<1>4. ASSUME NEW a \in Agents, NEW j \in Jobs, NEW n \in 0..5, Takes(a, j, n)
      PROVE  TokensAreGranted' /\ TokensAreOwn' /\ agent' \in [Agents -> AgentState]
  <2>1. n = NoLease \/ (n = attemptCount[j] + 1 /\ attemptCount'[j] = n)
    <3>1. attemptCount \in [Jobs -> 0..5]
      BY DEF QueueCore, TypeInv, TypeOK
    <3>2. Grants(j, n)
      BY <1>4 DEF Takes
    <3>3. QED
      BY <3>1, <3>2 DEF Grants
  <2>2. ASSUME NEW b \in Agents \ {a}, agent'[b] # Idle
        PROVE  /\ agent'[b] = agent[b]
               /\ agent'[b].token <= attemptCount[agent'[b].job]
               /\ agent'[b].token <= attemptCount'[agent'[b].job]
    <3>1. agent'[b] = agent[b] /\ agent[b] # Idle
      BY <1>4, <2>2 DEF Takes
    <3>2. PICK k \in Jobs : k = agent[b].job
      BY <1>2, <3>1
    <3>3. PICK m \in 0..5 : m = agent[b].token
      BY <1>2, <3>1
    <3>4. m <= attemptCount[k]
      BY <1>2, <3>1, <3>2, <3>3
    <3>5. m <= attemptCount'[k]
      BY <3>4, <1>1
    <3>6. QED
      BY <3>1, <3>2, <3>3, <3>4, <3>5
  <2>3. agent'[a].job = j /\ agent'[a].token = n /\ n <= attemptCount'[j]
    BY <1>1, <1>4, <2>1 DEF Takes
  <2>4. ASSUME NEW b \in Agents \ {a}, agent'[b] # Idle, agent'[b].job = j, n # NoLease
        PROVE  agent'[b].token # n
    <3>1. agent'[b].token <= attemptCount[j] /\ agent'[b].token \in 0..5
      BY <2>2, <2>4, <1>2
    <3>2. QED
      BY <3>1, <2>1, <2>4, <1>1
  <2>5. TokensAreGranted'
    BY <2>2, <2>3 DEF TokensAreGranted, Idle
  <2>6. TokensAreOwn'
    <3>1. ASSUME NEW b \in Agents, NEW c \in Agents, agent'[b] # Idle, agent'[c] # Idle,
                 agent'[b].job = agent'[c].job, agent'[b].token = agent'[c].token,
                 agent'[b].token # NoLease
          PROVE  b = c
      <4>1. CASE b = a \/ c = a
        BY <3>1, <4>1, <2>3, <2>4
      <4>2. CASE b # a /\ c # a
        BY <3>1, <4>2, <2>2 DEF TokensAreOwn
      <4>3. QED
        BY <4>1, <4>2
    <3>2. QED
      BY <3>1 DEF TokensAreOwn, Idle
  <2>7. QED
    BY <1>4, <2>5, <2>6 DEF Takes
<1>5. QED
  BY <1>3, <1>4 DEF AgentStep

LEMMA StagedStay ==
    ASSUME WorkerTypes, StagedAreImages, QueueStep, AgentStep
    PROVE  StagedAreImages'
<1>1. selected' \subseteq Images
  BY DEF QueueStep, StagedAreImages
<1>2. ASSUME NEW a \in Agents, agent'[a].doing \in {"completing", "selecting"}
      PROVE  agent'[a].job \in Images
  <2>1. CASE KeepAgents
    <3>1. agent'[a] # Idle
      BY <1>2 DEF Idle
    <3>2. QED
      BY <1>2, <2>1, <3>1 DEF KeepAgents, Keeps, StagedAreImages
  <2>2. ASSUME NEW b \in Agents, NEW j \in Jobs, NEW n \in 0..5, Takes(b, j, n)
        PROVE  agent'[a].job \in Images
    BY <1>2, <2>2 DEF Takes, StagedAreImages
  <2>3. QED
    BY <2>1, <2>2 DEF AgentStep
<1>3. QED
  BY <1>1, <1>2 DEF StagedAreImages, Images

(***************************************************************************)
(* A selection publishes its artifact and supersedes the one that its turn *)
(* had before.                                                             *)
(***************************************************************************)
LEMMA SelectionKeeps ==
    ASSUME WorkersInv, NEW w \in Workers, SelectArtifact(w)
    PROVE  WorkersInv'
<1>0. PICK j \in Jobs : j = agent[w].job
  BY AgentTypes DEF SelectArtifact, At, Agents, WorkersInv
<1> DEFINE earlier == SelectedEarlier(j)
<1>1. w \in Agents /\ j \in Images /\ state[j] = "succeeded"
  BY <1>0 DEF SelectArtifact, At, Agents, WorkersInv, StagedAreImages
<1>2. /\ UNCHANGED <<state, attempt, attemptCount, lease, leaseLeft, wait, pending, reservation,
                     sinceEnqueue, heartbeats, files>>
      /\ selected' = (selected \ earlier) \cup {j} /\ Stops(w)
  BY <1>0 DEF SelectArtifact, leaseVars
<1>3. earlier \subseteq selected /\ j \notin earlier /\ earlier \subseteq Jobs
  BY DEF SelectedEarlier, WorkersInv, WorkerTypes
<1>4. asset \in [Jobs -> [state : AssetStates, from : 0..5]]
  BY DEF WorkersInv, QueueCore, TypeInv, TypeOK
<1>5. /\ asset' = [k \in Jobs |-> asset'[k]] /\ DOMAIN asset' = Jobs
      /\ \A k \in earlier : asset'[k] = [asset[k] EXCEPT !.state = "superseded"]
      /\ asset'[j] = [asset[j] EXCEPT !.state = "published"]
      /\ \A k \in Jobs : k \notin earlier /\ k # j => asset'[k] = asset[k]
  BY <1>0, <1>1, <1>3 DEF SelectArtifact
<1>6. ASSUME NEW k \in Jobs
      PROVE  /\ asset'[k] \in [state : AssetStates, from : 0..5]
             /\ k \in earlier => asset'[k].state = "superseded"
             /\ k = j => asset'[k].state = "published"
  <2>1. asset[k] \in [state : AssetStates, from : 0..5]
    BY <1>4
  <2>2. /\ [asset[k] EXCEPT !.state = "superseded"] \in [state : AssetStates, from : 0..5]
        /\ [asset[k] EXCEPT !.state = "published"] \in [state : AssetStates, from : 0..5]
        /\ [asset[k] EXCEPT !.state = "superseded"].state = "superseded"
        /\ [asset[k] EXCEPT !.state = "published"].state = "published"
    BY <2>1 DEF AssetStates
  <2>3. QED
    BY <1>5, <2>1, <2>2
<1>7. asset' \in [Jobs -> [state : AssetStates, from : 0..5]]
  BY <1>5, <1>6
<1>8. QueueCore'
  <2>1. TypeInv'
    BY <1>2, <1>7 DEF WorkersInv, QueueCore, TypeInv, TypeOK, OnlyGovernedReserve
  <2>2. \A k \in Jobs : JobCore(k)'
    BY <1>2 DEF WorkersInv, QueueCore, JobCore, LeaseFitsAttempts, AttemptsAreBounded, PendingFits,
       Unused, BudgetFits, Open
  <2>3. QED
    BY <2>1, <2>2 DEF QueueCore
<1>9. \A k \in Jobs : /\ k \in earlier => /\ state[k] = "succeeded" /\ k \in Images
                                          /\ asset[k].state = "published"
                      /\ state[k] = "succeeded" => ~ pending[k]
  BY <1>3 DEF WorkersInv, SelectedIsSingular, StagedAreImages, QueueCore, JobCore, PendingFits
<1>10. SlotsFitOrReplaced'
  <2>1. ASSUME NEW k \in earlier PROVE Replaced(k)'
    BY <2>1, <1>2, <1>3, <1>6, <1>9 DEF Replaced, Images
  <2>2. SlotFits(j)'
    <3>1. ~ pending[j]
      BY <1>1, <1>9
    <3>2. QED
      BY <3>1, <1>1, <1>2, <1>6 DEF SlotFits, Images, Open, OpenStates, Ended
  <2>3. ASSUME NEW k \in Jobs, k \notin earlier, k # j PROVE SlotFits(k)' \/ Replaced(k)'
    <3>1. SlotFits(k) \/ Replaced(k)
      BY DEF WorkersInv, SlotsFitOrReplaced
    <3>2. asset'[k] = asset[k]
      BY <1>5, <2>3
    <3>3. QED
      BY <3>1, <3>2, <1>2 DEF SlotFits, Replaced, Open, Ended
  <2>4. QED
    BY <2>1, <2>2, <2>3 DEF SlotsFitOrReplaced, SlotFits, Replaced
<1>11. KeepAgents
  BY <1>1, <1>2, StopsKeeps DEF WorkersInv
<1>12. agent' \in [Agents -> AgentState] /\ TokensAreGranted' /\ TokensAreOwn'
  BY <1>2, <1>11 DEF KeepAgents, Keeps, WorkersInv, TokensAreGranted, TokensAreOwn, Idle
<1>13. StagedAreImages'
  <2>1. selected' \subseteq Images
    BY <1>1, <1>2 DEF WorkersInv, StagedAreImages
  <2>2. ASSUME NEW a \in Agents, agent'[a].doing \in {"completing", "selecting"}
        PROVE  agent'[a].job \in Images
    BY <1>1, <1>2, <2>2 DEF Stops, Idle, WorkersInv, WorkerTypes, StagedAreImages
  <2>3. QED
    BY <2>1, <2>2 DEF StagedAreImages, Images
<1>14. SelectedIsSingular'
  <2>1. ASSUME NEW k \in selected' PROVE state'[k] = "succeeded" /\ asset'[k].state = "published"
    <3>1. CASE k = j
      BY <3>1, <1>1, <1>2, <1>6
    <3>2. CASE k # j
      <4>1. k \in selected /\ k \notin earlier /\ k \in Jobs
        BY <2>1, <3>2, <1>2 DEF WorkersInv, WorkerTypes
      <4>2. QED
        BY <4>1, <3>2, <1>2, <1>5 DEF WorkersInv, SelectedIsSingular
    <3>3. QED
      BY <3>1, <3>2
  <2>2. ASSUME NEW k \in selected', NEW m \in selected', SameTurn(k, m) PROVE k = m
    <3>1. CASE k = j \/ m = j
      BY <3>1, <2>2, <1>2 DEF SelectedEarlier, SameTurn
    <3>2. CASE k # j /\ m # j
      BY <3>2, <2>2, <1>2 DEF WorkersInv, SelectedIsSingular
    <3>3. QED
      BY <3>1, <3>2
  <2>3. QED
    BY <2>1, <2>2 DEF SelectedIsSingular, SameTurn
<1>15. WorkerTypes'
  BY <1>1, <1>2, <1>12 DEF WorkersInv, WorkerTypes
<1>16. QED
  BY <1>8, <1>10, <1>12, <1>13, <1>14, <1>15 DEF WorkersInv

LEMMA WorkersInvInit == WorkersInit => WorkersInv
<1> SUFFICES ASSUME WorkersInit PROVE WorkersInv
  OBVIOUS
<1>1. QueueInv
  BY QueueInvInit DEF WorkersInit
<1>2. \A a \in Agents : agent[a] = Idle
  BY DEF WorkersInit
<1>3. \A a \in Agents : agent[a].doing = "idle"
  BY <1>2 DEF Idle
<1>4. WorkerTypes /\ selected = {}
  BY DEF WorkersInit, WorkerTypes, AgentState
<1>5. TokensAreGranted /\ TokensAreOwn
  BY <1>2 DEF TokensAreGranted, TokensAreOwn
<1>6. StagedAreImages /\ SelectedIsSingular
  BY <1>3, <1>4 DEF StagedAreImages, SelectedIsSingular
<1>7. QED
  BY <1>1, <1>4, <1>5, <1>6 DEF WorkersInv, QueueInv, QueueCore, JobInv, SlotsFitOrReplaced

LEMMA WorkersInvStep == WorkersInv /\ [WorkersNext]_allVars => WorkersInv'
<1> SUFFICES ASSUME WorkersInv, [WorkersNext]_allVars PROVE WorkersInv'
  OBVIOUS
<1>1. CASE QueueStep /\ AgentStep /\ FilesStep
  <2>1. QueueCore /\ QueueCore'
    BY <1>1, QueueCoreStep DEF QueueStep, WorkersInv
  <2>2. TokensAreGranted' /\ TokensAreOwn' /\ agent' \in [Agents -> AgentState]
    BY <1>1, <2>1, TokensStay DEF WorkersInv
  <2>3. WorkerTypes'
    BY <1>1, <2>2 DEF WorkersInv, WorkerTypes, QueueStep, FilesStep
  <2>4. SlotsFitOrReplaced'
    BY <1>1, <2>1, SlotsStep DEF WorkersInv, QueueStep
  <2>5. StagedAreImages' /\ SelectedIsSingular'
    BY <1>1, <2>1, StagedStay, SelectionStays DEF WorkersInv
  <2>6. QED
    BY <2>1, <2>2, <2>3, <2>4, <2>5 DEF WorkersInv
<1>2. QED
  BY <1>1, WorkerSteps, SelectionKeeps

LEMMA WorkersInvariant == WorkersSpec => []WorkersInv
  BY WorkersInvInit, WorkersInvStep, PTL DEF WorkersSpec


----------------------------------------------------------------------------
\* The state of the queue and of its workers has its declared type.
THEOREM WorkersTypeCorrect == WorkersSpec => []WorkersTypeOK
<1>1. WorkersInv => WorkersTypeOK
  BY DEF WorkersInv, QueueCore, TypeInv, WorkerTypes, WorkersTypeOK
<1>2. QED
  BY <1>1, WorkersInvariant, PTL

\* However agents die and leases are taken over, one live agent at most holds the
\* unexpired lease of a job, and it is the one that the job's last claim answered:
\* no agent ever gets a token that another one has (jobs.rs:1128-1484, 1753-1781).
THEOREM LeasesHaveOneHolder == WorkersSpec => []OneHolder
<1>1. ASSUME WorkersInv, NEW j \in Jobs, NEW holders,
             holders = {a \in Agents : /\ agent[a] # Idle /\ agent[a].job = j
                                       /\ agent[a].token # NoLease
                                       /\ HoldsLease(j, agent[a].token)}
      PROVE  /\ Cardinality(holders) <= 1
             /\ \A a \in holders : agent[a].token = attemptCount[j]
  <2>1. LeaseFitsAttempts(j)
    BY <1>1 DEF WorkersInv, QueueCore, JobCore
  <2>2. ASSUME NEW a \in holders PROVE agent[a].token = attemptCount[j]
    BY <1>1, <2>1, <2>2 DEF HoldsLease, LeaseFitsAttempts
  <2>3. ASSUME NEW a \in holders, NEW b \in holders PROVE a = b
    <3>1. agent[a].token = agent[b].token /\ agent[a].job = agent[b].job
      BY <1>1, <2>2, <2>3
    <3>2. QED
      BY <1>1, <2>3, <3>1 DEF WorkersInv, TokensAreOwn
  <2>4. CASE holders = {}
    BY <2>2, <2>4, FS_EmptySet
  <2>5. CASE holders # {}
    <3>1. PICK a \in holders : TRUE
      BY <2>5
    <3>2. holders = {a}
      BY <2>3, <3>1
    <3>3. QED
      BY <2>2, <3>2, FS_Singleton
  <2>6. QED
    BY <2>4, <2>5
<1>2. WorkersInv => OneHolder
  BY <1>1 DEF OneHolder
<1>3. QED
  BY <1>2, WorkersInvariant, PTL

\* The artifacts of a turn that are selected are one at most, and it is published by a
\* job that succeeded, whatever else staged an artifact meanwhile (images.rs:488-674;
\* release-operations.md:54).
THEOREM SelectionIsSingular == WorkersSpec => []SelectedIsSingular
<1>1. WorkersInv => SelectedIsSingular
  BY DEF WorkersInv
<1>2. QED
  BY <1>1, WorkersInvariant, PTL

\* A budget reservation is open exactly while its job is, under the workers as well:
\* neither a selection nor an abandoned claim touches it (governance.rs:489-662).
THEOREM WorkersKeepBudgets == WorkersSpec => []BudgetFollowsJob
<1>1. WorkersInv => BudgetFollowsJob
  <2>1. Governed \subseteq Jobs
    BY BudgetAssumption
  <2>2. QED
    BY <2>1 DEF WorkersInv, QueueCore, JobCore, BudgetFollowsJob
<1>2. QED
  BY <1>1, WorkersInvariant, PTL

\* A step of the workers is a step of the queue, or leaves the life of its jobs alone.
LEMMA WorkersStepQueue ==
    ASSUME WorkersInv, [WorkersNext]_allVars
    PROVE  [Next]_vars \/ UNCHANGED <<state, attemptCount, leaseVars, reservation>>
<1>1. CASE QueueStep
  BY <1>1 DEF QueueStep
<1>2. ASSUME NEW w \in Workers, SelectArtifact(w)
      PROVE  UNCHANGED <<state, attemptCount, leaseVars, reservation>>
  BY <1>2 DEF SelectArtifact
<1>3. QED
  BY <1>1, <1>2, WorkerSteps

\* The queue keeps the promise of JobLifecycle under the workers that drive it: one
\* epoch at a time holds a job, at most Limit times, and it ends once.
THEOREM WorkersImplementLifecycle == WorkersSpec => ImplementsJobLifecycle
<1>1. WorkersInit => Life!LifeInit
  BY RefinementInit DEF WorkersInit
<1>2. WorkersInv /\ WorkersInv' /\ [WorkersNext]_allVars => [Life!LifeNext]_Life!lifeVars
  <2> SUFFICES ASSUME WorkersInv, WorkersInv', [WorkersNext]_allVars
               PROVE  [Life!LifeNext]_Life!lifeVars
    OBVIOUS
  <2>1. CASE [Next]_vars
    BY <2>1, RefinementStep DEF WorkersInv
  <2>2. CASE UNCHANGED <<state, attemptCount, leaseVars, reservation>>
    BY <2>2 DEF Life!lifeVars, PhaseOf, HoldOf
  <2>3. QED
    BY <2>1, <2>2, WorkersStepQueue
<1>3. QED
  BY <1>1, <1>2, WorkersInvariant, PTL DEF WorkersSpec, ImplementsJobLifecycle, Life!LifeSpec

\* With prompt heartbeats the workers, too, never illustrate two turns of a campaign at
\* once (docs/planning/04-ai-generation.md:125), however many of them claim.
THEOREM PromptWorkersTakeTurns ==
    ASSUME MaxDelay = 0 PROVE WorkersSpec => []OneIllustrationAtATime
<1>1. WorkersInit => OneIllustrationAtATime
  BY PromptInit DEF WorkersInit
<1>2. ASSUME WorkersInv, OneIllustrationAtATime, [WorkersNext]_allVars
      PROVE  OneIllustrationAtATime'
  <2>1. CASE [Next]_vars
    BY <1>2, <2>1, PromptStep DEF WorkersInv, QueueCore
  <2>2. CASE UNCHANGED <<state, attemptCount, leaseVars, reservation>>
    BY <1>2, <2>2 DEF leaseVars, OneIllustrationAtATime, Leased
  <2>3. QED
    BY <1>2, <2>1, <2>2, WorkersStepQueue
<1>3. QED
  BY <1>1, <1>2, WorkersInvariant, PTL DEF WorkersSpec

----------------------------------------------------------------------------
(* The allowance and the provider slots.  Admission weighs the totals of the *)
(* reservations; every other step eases them.                                *)

\* What a reservation counts for, up to the estimate it was made with.
Capped(j, r, d) == IF Counted(j, r, d) <= Reserved[j][d] THEN Counted(j, r, d)
                                                         ELSE Reserved[j][d]
Eased(j, r, s) ==
    /\ s.state = "reserved" => r.state = "reserved"
    /\ \A d \in Dimensions : Capped(j, s, d) <= Capped(j, r, d)
Eases == \A k \in Governed : Eased(k, reservation[k], reservation'[k])

LEMMA CountedTypes ==
    ASSUME NEW j \in Governed, NEW r \in Reservation, NEW d \in Dimensions
    PROVE  /\ Counted(j, r, d) \in Nat /\ Reserved[j][d] \in Nat
           /\ Capped(j, r, d) \in Nat
           /\ Capped(j, r, d) <= Counted(j, r, d) /\ Capped(j, r, d) <= Reserved[j][d]
           /\ r.state = "reserved" => Capped(j, r, d) = Reserved[j][d]
<1>1. /\ Reserved[j][d] \in Nat /\ r.spent[d] \in Nat
      /\ r.state \in {"none", "reserved", "settled", "released"}
  BY BudgetAssumption DEF Reservation, ReservationStates
<1>2. /\ r.state = "reserved" =>
              Counted(j, r, d) = IF Reserved[j][d] >= r.spent[d] THEN Reserved[j][d] ELSE r.spent[d]
      /\ r.state = "settled" => Counted(j, r, d) = r.spent[d]
      /\ r.state \in {"none", "released"} => Counted(j, r, d) = 0
  BY <1>1 DEF Counted, Larger
<1>3. QED
  BY <1>1, <1>2 DEF Capped

\* A charge, a settlement and a release ease a reservation.
LEMMA OpenIsEased ==
    ASSUME NEW j \in Governed, NEW r \in Reservation, r.state = "reserved", NEW s \in Reservation
    PROVE  Eased(j, r, s)
  BY CountedTypes DEF Eased

LEMMA SameIsEased ==
    ASSUME NEW j \in Governed, NEW r \in Reservation
    PROVE  Eased(j, r, r)
  BY CountedTypes DEF Eased

LEMMA SettlementEases ==
    ASSUME NEW j \in Governed, NEW r \in Reservation, NEW usage \in Usage, NEW terminal \in BOOLEAN
    PROVE  /\ Chargeable(r) => Eased(j, r, RecordAttemptUsage(j, r, usage, terminal))
           /\ Eased(j, r, SettleUnknownUsage(j, r))
           /\ Eased(j, r, ReleaseBudget(r))
<1>1. /\ RecordAttemptUsage(j, r, usage, terminal) \in Reservation
      /\ SettleUnknownUsage(j, r) \in Reservation
      /\ ReleaseBudget(r) \in Reservation
  BY SettlementType, BudgetAssumption
<1>2. CASE r.state = "reserved"
  BY <1>1, <1>2, OpenIsEased
<1>3. CASE r.state # "reserved"
  <2>1. /\ Chargeable(r) => RecordAttemptUsage(j, r, usage, terminal) = r
        /\ SettleUnknownUsage(j, r) = r
        /\ ReleaseBudget(r) = r
    BY <1>3 DEF Chargeable, RecordAttemptUsage, SettleUnknownUsage, ReleaseBudget
  <2>2. QED
    BY <2>1, SameIsEased
<1>4. QED
  BY <1>2, <1>3

LEMMA ChangeEases ==
    ASSUME TypeInv, NEW j \in Jobs, NEW r, reservation' = [reservation EXCEPT ![j] = r],
           j \in Governed => Eased(j, reservation[j], r)
    PROVE  Eases
<1> SUFFICES ASSUME NEW k \in Governed PROVE Eased(k, reservation[k], reservation'[k])
  BY DEF Eases
<1>1. k \in Jobs /\ reservation[k] \in Reservation /\ reservation \in [Jobs -> Reservation]
  BY BudgetAssumption DEF TypeInv, TypeOK
<1>2. CASE k = j
  BY <1>1, <1>2
<1>3. CASE k # j
  BY <1>1, <1>3, SameIsEased
<1>4. QED
  BY <1>2, <1>3

LEMMA SameEases == ASSUME TypeInv, UNCHANGED reservation PROVE Eases
  BY BudgetAssumption, SameIsEased DEF Eases, TypeInv, TypeOK

\* Only an admission takes from the budget.
LEMMA StepsEase ==
    ASSUME TypeInv, [Next]_vars
    PROVE  Eases \/ \E j \in Jobs : Enqueue(j)
<1>1. ASSUME NEW j \in Jobs
      PROVE  /\ j \in Governed => reservation[j] \in Reservation
             /\ NoUsage \in Usage /\ UsageReports \subseteq Usage
  BY UnreportedUsage, QueueAssumption DEF TypeInv, TypeOK
<1>2. ASSUME NEW j \in Jobs, NEW usage \in Usage, NEW terminal \in BOOLEAN,
             Chargeable(reservation[j]),
             reservation' = [reservation EXCEPT ![j] = RecordAttemptUsage(j, @, usage, terminal)]
      PROVE  Eases
  BY <1>1, <1>2, SettlementEases, ChangeEases
<1>3. ASSUME NEW j \in Jobs, ClaimGrants(j) PROVE Eases
  <2>1. CASE LeaseExpired(j)
    BY <1>1, <1>2, <1>3, <2>1 DEF ClaimGrants
  <2>2. CASE ~ LeaseExpired(j)
    BY <1>3, <2>2, SameEases DEF ClaimGrants
  <2>3. QED
    BY <2>1, <2>2
<1>4. ASSUME NEW j \in Jobs, ClaimExhausts(j) PROVE Eases
  BY <1>1, <1>2, <1>4 DEF ClaimExhausts
<1>5. ASSUME NEW j \in Jobs, Cancel(j) PROVE Eases
  <2>1. CASE state[j] = "running"
    <3>1. reservation' = [reservation EXCEPT ![j] = SettleUnknownUsage(j, reservation[j])]
      BY <1>5, <2>1 DEF Cancel
    <3>2. QED
      BY <1>1, <3>1, SettlementEases, ChangeEases
  <2>2. CASE state[j] # "running"
    <3>1. reservation' = [reservation EXCEPT ![j] = ReleaseBudget(reservation[j])]
      BY <1>5, <2>2 DEF Cancel
    <3>2. QED
      BY <1>1, <3>1, SettlementEases, ChangeEases
  <2>3. QED
    BY <2>1, <2>2
<1>6. ASSUME NEW j \in Jobs, NEW n, NEW usage \in UsageReports, Succeed(j, n, usage) PROVE Eases
  BY <1>1, <1>2, <1>6 DEF Succeed
<1>7. ASSUME NEW j \in Jobs, NEW n, NEW usage \in UsageReports, NEW class,
             FailAndRetry(j, n, class, usage)
      PROVE  Eases
  BY <1>1, <1>2, <1>7 DEF FailAndRetry
<1>8. ASSUME NEW j \in Jobs, NEW n, NEW usage \in UsageReports, NEW class,
             FailForGood(j, n, class, usage)
      PROVE  Eases
  BY <1>1, <1>2, <1>8 DEF FailForGood
<1>9. ASSUME NEW j \in Jobs, NEW n, SendHeartbeat(j, n) \/ StageArtifact(j, n) PROVE Eases
  BY <1>9, SameEases DEF SendHeartbeat, StageArtifact
<1>10. ASSUME NEW h \in heartbeats, ApplyHeartbeat(h) \/ LoseHeartbeat(h) PROVE Eases
  BY <1>10, SameEases DEF ApplyHeartbeat, LoseHeartbeat
<1>11. CASE Tick \/ UNCHANGED vars
  BY <1>11, SameEases DEF Tick, vars
<1>12. QED
  BY <1>3, <1>4, <1>5, <1>6, <1>7, <1>8, <1>9, <1>10, <1>11 DEF Next

----------------------------------------------------------------------------
(* The allowance *)

\* The estimates of a set of jobs, summed.
LEMMA EstimatesSummed ==
    ASSUME NEW S, NEW d
    PROVE  /\ Estimates(S, d) = SumFunctionOnSet([k \in S |-> WithinEstimate(k, d)], S)
           /\ Estimates(S, d)' = SumFunctionOnSet([k \in S |-> WithinEstimate(k, d)'], S)
           /\ Total(S, reservation, d) =
                 SumFunctionOnSet([k \in S |-> Counted(k, reservation[k], d)], S)
  BY DEF Estimates, Total, SumFunction

LEMMA EstimateCapped ==
    ASSUME NEW j, NEW d
    PROVE  /\ WithinEstimate(j, d) = Capped(j, reservation[j], d)
           /\ WithinEstimate(j, d)' = Capped(j, reservation'[j], d)
  BY DEF WithinEstimate, Capped

LEMMA SmallerEstimates ==
    ASSUME TypeInv, TypeInv', Eases, NEW S \in SUBSET Governed, NEW d \in Dimensions
    PROVE  /\ Estimates(S, d) \in Int /\ Estimates(S, d)' \in Int
           /\ Estimates(S, d)' <= Estimates(S, d)
<1> DEFINE f == [k \in S |-> WithinEstimate(k, d)']
           g == [k \in S |-> WithinEstimate(k, d)]
<1>1. IsFiniteSet(S)
  BY FS_Subset, BudgetAssumption
<1>2. ASSUME NEW k \in S PROVE f[k] \in Int /\ g[k] \in Int /\ f[k] <= g[k]
  <2>1. k \in Governed /\ reservation[k] \in Reservation /\ reservation'[k] \in Reservation
    BY BudgetAssumption DEF TypeInv, TypeOK
  <2>2. f[k] = Capped(k, reservation'[k], d) /\ g[k] = Capped(k, reservation[k], d)
    BY EstimateCapped
  <2>3. QED
    BY <2>1, <2>2, CountedTypes DEF Eases, Eased
<1> HIDE DEF f, g
<1>3. SumFunctionOnSet(f, S) <= SumFunctionOnSet(g, S)
  BY <1>1, <1>2, SumOrdered
<1>4. SumFunctionOnSet(f, S) \in Int /\ SumFunctionOnSet(g, S) \in Int
  BY <1>1, <1>2, SumOfIntegers
<1>5. QED
  BY <1>3, <1>4, EstimatesSummed DEF f, g

\* What is admitted adds its estimate to the totals that the admission weighed.
LEMMA AdmittedEstimates ==
    ASSUME TypeInv, NEW j \in Governed, reservation' = [reservation EXCEPT ![j] = Reserve(j)],
           NEW S \in SUBSET Governed, NEW d \in Dimensions, j \in S
    PROVE  /\ Estimates(S, d)' \in Int /\ Total(S, reservation, d) \in Int
           /\ Estimates(S, d)' <= Total(S, reservation, d) + Reserved[j][d]
<1> DEFINE f == [k \in S |-> WithinEstimate(k, d)']
           g == [k \in S |-> Counted(k, reservation[k], d)]
           T == S \ {j}
<1>1. IsFiniteSet(S) /\ IsFiniteSet(T)
  BY FS_Subset, BudgetAssumption
<1>2. ASSUME NEW k \in S
      PROVE  /\ f[k] = Capped(k, reservation'[k], d) /\ g[k] = Counted(k, reservation[k], d)
             /\ reservation[k] \in Reservation /\ k \in Governed
             /\ reservation'[k] = IF k = j THEN Reserve(j) ELSE reservation[k]
  BY EstimateCapped, BudgetAssumption DEF TypeInv, TypeOK
<1>3. Reserve(j) \in Reservation
  BY DEF Reserve, Reservation, ReservationStates, NothingSpent
<1>4. ASSUME NEW k \in S
      PROVE  f[k] \in Int /\ g[k] \in Int /\ (k # j => f[k] <= g[k])
  BY <1>2, <1>3, CountedTypes
<1>5. f[j] <= Reserved[j][d] /\ Reserved[j][d] \in Int /\ 0 <= g[j]
  BY <1>2, <1>3, CountedTypes
<1> HIDE DEF f, g
<1>6. /\ SumFunctionOnSet(f, S) = f[j] + SumFunctionOnSet(f, T)
      /\ SumFunctionOnSet(g, S) = g[j] + SumFunctionOnSet(g, T)
  BY <1>1, <1>4, SumWithout
<1>7. SumFunctionOnSet(f, T) <= SumFunctionOnSet(g, T)
  BY <1>1, <1>4, SumOrdered
<1>8. SumFunctionOnSet(f, T) \in Int /\ SumFunctionOnSet(g, T) \in Int
  BY <1>1, <1>4, SumOfIntegers
<1>9. /\ SumFunctionOnSet(f, S) \in Int /\ SumFunctionOnSet(g, S) \in Int
      /\ SumFunctionOnSet(f, S) <= SumFunctionOnSet(g, S) + Reserved[j][d]
  BY <1>4, <1>5, <1>6, <1>7, <1>8
<1>10. QED
  BY <1>9, EstimatesSummed DEF f, g

\* The scopes that a budget is given to.
InCampaign(c) == {k \in Governed : CampaignOf[k] = c}
InTurn(c, t) == {k \in InCampaign(c) : TurnScopeOf[k] = t}
ScopesWithinAllowance ==
    \A c \in Campaigns, d \in Dimensions :
        /\ Estimates(InCampaign(c), d) <= Allowance["campaign"][d]
        /\ \A t \in {TurnScopeOf[k] : k \in InCampaign(c)} :
              Estimates(InTurn(c, t), d) <= Allowance["turn"][d]

LEMMA AllowanceInScopes == AllowanceHonoured <=> ScopesWithinAllowance
  BY DEF AllowanceHonoured, ScopesWithinAllowance, InCampaign, InTurn
LEMMA AllowanceInScopesNext == AllowanceHonoured' <=> ScopesWithinAllowance'
  BY AllowanceInScopes, PTL

LEMMA AllowanceInit == Init => AllowanceHonoured
<1> SUFFICES ASSUME Init PROVE ScopesWithinAllowance
  BY AllowanceInScopes
<1>0. \A k \in Jobs : reservation[k] = NoReservation
  BY DEF Init
<1>1. ASSUME NEW S \in SUBSET Governed, NEW d \in Dimensions
      PROVE  Estimates(S, d) = 0
  <2> DEFINE f == [k \in S |-> WithinEstimate(k, d)]
  <2>1. ASSUME NEW k \in S PROVE f[k] = 0
    <3>1. k \in Governed /\ k \in Jobs
      BY BudgetAssumption
    <3>2. Counted(k, reservation[k], d) = 0
      BY <1>0, <3>1 DEF Counted, NoReservation
    <3>3. Reserved[k][d] \in Nat
      BY <3>1, BudgetAssumption
    <3>4. QED
      BY <3>2, <3>3 DEF WithinEstimate
  <2> HIDE DEF f
  <2>2. SumFunctionOnSet(f, S) = 0
    BY <2>1, FS_Subset, BudgetAssumption, SumOfZeros
  <2>3. QED
    BY <2>2, EstimatesSummed DEF f
<1>2. ASSUME NEW c, NEW t PROVE InCampaign(c) \in SUBSET Governed /\ InTurn(c, t) \in SUBSET Governed
  BY DEF InCampaign, InTurn
<1>3. \A d \in Dimensions : Allowance["campaign"][d] \in Nat /\ Allowance["turn"][d] \in Nat
  BY BudgetAssumption
<1>4. QED
  BY <1>1, <1>2, <1>3 DEF ScopesWithinAllowance

LEMMA AllowanceStep ==
    ASSUME TypeInv, TypeInv', AllowanceHonoured, Eases \/ \E j \in Jobs : Enqueue(j)
    PROVE  AllowanceHonoured'
<1>1. ScopesWithinAllowance
  BY AllowanceInScopes
<1>2. ASSUME NEW c, NEW t PROVE InCampaign(c) \in SUBSET Governed /\ InTurn(c, t) \in SUBSET Governed
  BY DEF InCampaign, InTurn
<1>3. \A d \in Dimensions : Allowance["campaign"][d] \in Int /\ Allowance["turn"][d] \in Int
  BY BudgetAssumption
<1> SUFFICES ASSUME NEW c \in Campaigns, NEW d \in Dimensions
             PROVE  /\ Estimates(InCampaign(c), d)' <= Allowance["campaign"][d]
                    /\ \A t \in {TurnScopeOf[k] : k \in InCampaign(c)} :
                          Estimates(InTurn(c, t), d)' <= Allowance["turn"][d]
  BY AllowanceInScopesNext DEF ScopesWithinAllowance, InCampaign, InTurn
<1>4. ASSUME NEW S \in SUBSET Governed, NEW limit \in Int, Estimates(S, d) <= limit, Eases
      PROVE  Estimates(S, d)' <= limit
  <2>1. /\ Estimates(S, d) \in Int /\ Estimates(S, d)' \in Int
        /\ Estimates(S, d)' <= Estimates(S, d)
    BY <1>4, SmallerEstimates
  <2>2. QED
    BY <1>4, <2>1
<1>5. CASE Eases
  BY <1>1, <1>2, <1>3, <1>4, <1>5 DEF ScopesWithinAllowance
<1>6. ASSUME NEW j \in Jobs, Enqueue(j), j \notin Governed
      PROVE  Eases
  <2>1. reservation' = [reservation EXCEPT ![j] = Reserve(j)]
    BY <1>6 DEF Enqueue
  <2>2. QED
    BY <1>6, <2>1, ChangeEases
<1>7. ASSUME NEW j \in Governed, Enqueue(j)
      PROVE  /\ Estimates(InCampaign(c), d)' <= Allowance["campaign"][d]
             /\ \A t \in {TurnScopeOf[k] : k \in InCampaign(c)} :
                   Estimates(InTurn(c, t), d)' <= Allowance["turn"][d]
  <2>1. /\ reservation' = [reservation EXCEPT ![j] = Reserve(j)]
        /\ WithinBudget(j, reservation, ConcurrencyLimit[j])
    BY <1>7 DEF Enqueue
  <2>2. /\ Total(InCampaign(CampaignOf[j]), reservation, d) + Reserved[j][d] <= Allowance["campaign"][d]
        /\ Total(InTurn(CampaignOf[j], TurnScopeOf[j]), reservation, d) + Reserved[j][d]
              <= Allowance["turn"][d]
    BY <2>1 DEF WithinBudget, InCampaign, InTurn
  <2>3. j \in Jobs /\ Reserved[j][d] \in Int
    BY BudgetAssumption
  <2>4. ASSUME NEW S \in SUBSET Governed, NEW limit \in Int, j \in S,
               Total(S, reservation, d) + Reserved[j][d] <= limit
        PROVE  Estimates(S, d)' <= limit
    <3>1. /\ Estimates(S, d)' \in Int /\ Total(S, reservation, d) \in Int
          /\ Estimates(S, d)' <= Total(S, reservation, d) + Reserved[j][d]
      BY <2>1, <2>4, AdmittedEstimates
    <3>2. QED
      BY <2>3, <2>4, <3>1
  <2>5. ASSUME NEW S \in SUBSET Governed, NEW limit \in Int, j \notin S, Estimates(S, d) <= limit
        PROVE  Estimates(S, d)' <= limit
    <3>1. \A k \in S : reservation'[k] = reservation[k]
      <4>1. reservation \in [Jobs -> Reservation] /\ Governed \subseteq Jobs
        BY BudgetAssumption DEF TypeInv, TypeOK
      <4>2. QED
        BY <2>1, <2>5, <4>1
    <3>2. \A k \in S : WithinEstimate(k, d)' = WithinEstimate(k, d)
      BY <3>1, EstimateCapped
    <3>3. [k \in S |-> WithinEstimate(k, d)'] = [k \in S |-> WithinEstimate(k, d)]
      BY <3>2
    <3>4. Estimates(S, d)' = Estimates(S, d)
      <4>1. Estimates(S, d)' = SumFunctionOnSet([k \in S |-> WithinEstimate(k, d)'], S)
        BY EstimatesSummed
      <4>2. Estimates(S, d) = SumFunctionOnSet([k \in S |-> WithinEstimate(k, d)], S)
        BY EstimatesSummed
      <4>3. QED
        BY <3>3, <4>1, <4>2, Zenon
    <3>5. QED
      BY <2>5, <3>4
  <2>6. Estimates(InCampaign(c), d)' <= Allowance["campaign"][d]
    <3>1. CASE j \in InCampaign(c)
      <4>1. c = CampaignOf[j]
        BY <3>1 DEF InCampaign
      <4>2. QED
        BY <1>2, <1>3, <2>2, <2>4, <3>1, <4>1
    <3>2. CASE j \notin InCampaign(c)
      BY <1>1, <1>2, <1>3, <2>5, <3>2 DEF ScopesWithinAllowance
    <3>3. QED
      BY <3>1, <3>2
  <2>7. ASSUME NEW t \in {TurnScopeOf[k] : k \in InCampaign(c)}
        PROVE  Estimates(InTurn(c, t), d)' <= Allowance["turn"][d]
    <3>1. CASE j \in InTurn(c, t)
      <4>1. c = CampaignOf[j] /\ t = TurnScopeOf[j]
        BY <3>1 DEF InTurn, InCampaign
      <4>2. QED
        BY <1>2, <1>3, <2>2, <2>4, <3>1, <4>1
    <3>2. CASE j \notin InTurn(c, t)
      BY <1>1, <1>2, <1>3, <2>5, <2>7, <3>2 DEF ScopesWithinAllowance
    <3>3. QED
      BY <3>1, <3>2
  <2>8. QED
    BY <2>6, <2>7
<1>8. QED
  BY <1>5, <1>6, <1>7

----------------------------------------------------------------------------
(* The slots.  What was admitted last of any part of the active ones was     *)
(* admitted beside all the others, and so the limit it was admitted under    *)
(* covers them; that part may be all that is left.                           *)

Covered(T) == T # {} => \E k \in T : Cardinality(T) <= ConcurrencyLimit[k]
LeasesCovered == \A c \in Campaigns : \A T \in SUBSET LeasedJobs(c) : Covered(T)
OpenRequests(c) == ActiveReservations(c, reservation)
SlotsCovered == \A c \in Campaigns : \A T \in SUBSET OpenRequests(c) : Covered(T)

LEMMA CapacityCovered ==
    /\ LeasesCovered => LeasesWithinLimit
    /\ SlotsCovered => SlotsWithinLimit
  BY DEF LeasesCovered, SlotsCovered, OpenRequests, Covered, LeasesWithinLimit, SlotsWithinLimit

\* One more is admitted beside fewer than its limit.
LEMMA OneMoreCovered ==
    ASSUME NEW j \in Jobs, NEW S \in SUBSET Jobs, Cardinality(S) < ConcurrencyLimit[j],
           NEW T \in SUBSET (S \cup {j}), j \in T
    PROVE  Covered(T)
<1>1. IsFiniteSet(Jobs) /\ ConcurrencyLimit[j] \in Nat
  BY BudgetAssumption, QueueAssumption
<1>2. IsFiniteSet(S) /\ Cardinality(S) \in Nat
  BY <1>1, FS_Subset, FS_CardinalityType
<1>3. IsFiniteSet(S \cup {j})
      /\ (Cardinality(S \cup {j}) = Cardinality(S) \/ Cardinality(S \cup {j}) = Cardinality(S) + 1)
  BY <1>2, FS_AddElement
<1>4. Cardinality(T) <= Cardinality(S \cup {j}) /\ Cardinality(T) \in Nat
  BY <1>3, FS_Subset, FS_CardinalityType
<1>5. Cardinality(T) <= ConcurrencyLimit[j]
  BY <1>1, <1>2, <1>3, <1>4
<1>6. QED
  BY <1>5 DEF Covered

LEMMA CoveredInit == Init => LeasesCovered /\ SlotsCovered
<1> SUFFICES ASSUME Init PROVE LeasesCovered /\ SlotsCovered
  OBVIOUS
<1>1. ASSUME NEW c PROVE LeasedJobs(c) = {}
  BY DEF Init, LeasedJobs, Leased
<1>2. ASSUME NEW c PROVE OpenRequests(c) = {}
  BY BudgetAssumption DEF Init, OpenRequests, ActiveReservations, NoReservation
<1>3. QED
  BY <1>1, <1>2 DEF LeasesCovered, SlotsCovered, Covered

\* A claim sees the other leases of its campaign.
LEMMA LeasesStep ==
    ASSUME MaxDelay = 0, TypeInv, LeasesCovered, [Next]_vars
    PROVE  LeasesCovered'
<1> SUFFICES ASSUME NEW c \in Campaigns, NEW T \in SUBSET LeasedJobs(c)' PROVE Covered(T)
  BY DEF LeasesCovered, Covered
<1>1. CASE T \subseteq LeasedJobs(c)
  BY <1>1 DEF LeasesCovered
<1>2. ASSUME NEW j \in T, j \notin LeasedJobs(c)
      PROVE  Covered(T)
  <2>1. j \in Jobs /\ CampaignOf[j] = c /\ Leased(j)' /\ ~ Leased(j)
    BY <1>2 DEF LeasedJobs
  <2>2. ClaimGrants(j)
    BY <2>1, OnlyClaimsLease
  <2>3. Cardinality(ActiveOthers(j)) < ConcurrencyLimit[j] /\ ActiveOthers(j) \in SUBSET Jobs
    BY <2>2 DEF ClaimGrants, Admissible, ActiveOthers
  <2>4. ASSUME NEW k \in T, k # j PROVE k \in ActiveOthers(j)
    <3>1. k \in Jobs \ {j} /\ CampaignOf[k] = c /\ Leased(k)'
      BY <2>4 DEF LeasedJobs
    <3>2. Leased(k)
      BY <2>1, <2>2, <3>1, ClaimsSeeTheOthers
    <3>3. QED
      BY <2>1, <3>1, <3>2 DEF ActiveOthers, Leased
  <2>5. T \in SUBSET (ActiveOthers(j) \cup {j})
    BY <2>4
  <2>6. QED
    BY <1>2, <2>1, <2>3, <2>5, OneMoreCovered
<1>3. QED
  BY <1>1, <1>2

\* An admission counts the open requests of its campaign.
LEMMA OpenRequestsStep ==
    ASSUME TypeInv, SlotsCovered, Eases \/ \E j \in Jobs : Enqueue(j)
    PROVE  SlotsCovered'
<1> SUFFICES ASSUME NEW c \in Campaigns, NEW T \in SUBSET OpenRequests(c)' PROVE Covered(T)
  BY DEF SlotsCovered, Covered
<1>1. OpenRequests(c) \in SUBSET Jobs
  BY BudgetAssumption DEF OpenRequests, ActiveReservations
<1>2. CASE Eases
  <2>1. T \subseteq OpenRequests(c)
    BY <1>2 DEF Eases, Eased, OpenRequests, ActiveReservations
  <2>2. QED
    BY <2>1 DEF SlotsCovered
<1>3. ASSUME NEW j \in Jobs, Enqueue(j)
      PROVE  Covered(T)
  <2>1. reservation' = [reservation EXCEPT ![j] = Reserve(j)] /\ reservation \in [Jobs -> Reservation]
    BY <1>3 DEF Enqueue, TypeInv, TypeOK
  <2>2. T \subseteq OpenRequests(c) \cup {j}
    BY <2>1, BudgetAssumption DEF OpenRequests, ActiveReservations
  <2>3. CASE j \in T
    <3>1. j \in Governed /\ CampaignOf[j] = c /\ Reserved[j]["requests"] > 0
      BY <2>3 DEF OpenRequests, ActiveReservations
    <3>2. Cardinality(OpenRequests(c)) < ConcurrencyLimit[j]
      BY <1>3, <3>1 DEF Enqueue, WithinBudget, SlotFree, OpenRequests
    <3>3. QED
      BY <1>1, <2>2, <2>3, <3>2, OneMoreCovered
  <2>4. CASE j \notin T
    BY <2>2, <2>4 DEF SlotsCovered
  <2>5. QED
    BY <2>3, <2>4
<1>4. QED
  BY <1>2, <1>3

----------------------------------------------------------------------------
\* However requests are admitted, retried, cancelled and settled side by side, what the
\* jobs of a campaign and of a turn hold and have spent within their estimates stays within
\* the allowance, whoever drives the queue (governance.rs:352-418).
THEOREM BudgetsAreHonoured ==
    (Spec => []AllowanceHonoured) /\ (WorkersSpec => []AllowanceHonoured)
<1>1. /\ QueueInv => TypeInv
      /\ WorkersInv => TypeInv
  BY DEF QueueInv, WorkersInv, QueueCore
<1>2. TypeInv /\ TypeInv' /\ AllowanceHonoured /\ [Next]_vars => AllowanceHonoured'
  BY AllowanceStep, StepsEase
<1>3. WorkersInit => AllowanceHonoured
  BY AllowanceInit DEF WorkersInit
<1>4. ASSUME WorkersInv, WorkersInv', AllowanceHonoured, [WorkersNext]_allVars
      PROVE  AllowanceHonoured'
  <2>1. CASE [Next]_vars
    BY <1>2, <1>4, <2>1 DEF WorkersInv, QueueCore
  <2>2. CASE UNCHANGED <<state, attemptCount, leaseVars, reservation>>
    <3>1. TypeInv /\ TypeInv' /\ Eases
      BY <1>4, <2>2, SameEases DEF WorkersInv, QueueCore
    <3>2. QED
      BY <1>4, <3>1, AllowanceStep
  <2>3. QED
    BY <1>4, <2>1, <2>2, WorkersStepQueue
<1>5. Spec => []AllowanceHonoured
  BY <1>1, <1>2, AllowanceInit, QueueInvariant, PTL DEF Spec
<1>6. WorkersSpec => []AllowanceHonoured
  BY <1>3, <1>4, WorkersInvariant, PTL DEF WorkersSpec
<1>7. QED
  BY <1>5, <1>6

\* The open requests of a campaign never exceed the limit that one of them was admitted
\* under (governance.rs:368-383), nor, with prompt heartbeats, do its leased jobs
\* (jobs.rs:1224-1266), in whatever order they are admitted, claimed and end.
THEOREM CapacityIsKept ==
    ASSUME MaxDelay = 0 PROVE WorkersSpec => []CapacityWithinLimits
<1>1. WorkersInit => LeasesCovered /\ SlotsCovered
  BY CoveredInit DEF WorkersInit
<1>2. ASSUME WorkersInv, LeasesCovered, SlotsCovered, [WorkersNext]_allVars
      PROVE  LeasesCovered' /\ SlotsCovered'
  <2>1. TypeInv
    BY <1>2 DEF WorkersInv, QueueCore
  <2>2. CASE [Next]_vars
    BY <1>2, <2>1, <2>2, LeasesStep, OpenRequestsStep, StepsEase
  <2>3. CASE UNCHANGED <<state, attemptCount, leaseVars, reservation>>
    <3>1. SlotsCovered'
      BY <1>2, <2>1, <2>3, SameEases, OpenRequestsStep
    <3>2. \A c : LeasedJobs(c)' = LeasedJobs(c)
      BY <2>3 DEF leaseVars, LeasedJobs, Leased
    <3>3. QED
      BY <1>2, <3>1, <3>2 DEF LeasesCovered, Covered
  <2>4. QED
    BY <1>2, <2>2, <2>3, WorkersStepQueue
<1>3. LeasesCovered /\ SlotsCovered => CapacityWithinLimits
  BY CapacityCovered DEF CapacityWithinLimits
<1>4. QED
  BY <1>1, <1>2, <1>3, WorkersInvariant, PTL DEF WorkersSpec
=============================================================================
