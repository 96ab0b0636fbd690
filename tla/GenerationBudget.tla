------------------------- MODULE GenerationBudget -------------------------
(***************************************************************************)
(* The budget reservation of a generation job (repository/governance.rs).  *)
(*                                                                         *)
(* A governed job owns four documents, one per dimension, that always      *)
(* change state together; they are one record here.  The operators say     *)
(* what each settlement function writes into it and what the admission     *)
(* check of a later job reads from it.                                     *)
(***************************************************************************)
EXTENDS Integers, FiniteSets, Functions

CONSTANTS
    Jobs,           \* generation jobs, each requested under one idempotency key
    Campaigns,
    CampaignOf,     \* the campaign a job belongs to
    TurnScopeOf,    \* the turn (or campaign revision) its budget is scoped to
    Governed,       \* the jobs enqueued with a governance receipt
    Reserved,       \* [Governed jobs -> [Dimensions -> Nat]], the estimates held
    Allowance       \* [campaign |-> limits, turn |-> limits] of the configuration

\* Listed in the order load_reservations sorts them by.
Dimensions == {"cost", "latency", "requests", "tokens"}

\* A provider that does not report a measure leaves it unknown.
Unknown == -1
Usage == [Dimensions \ {"requests"} -> Nat \cup {Unknown}]
NoUsage == [d \in Dimensions \ {"requests"} |-> Unknown]

ReservationStates == {"none", "reserved", "settled", "released"}
Reservation == [state : ReservationStates, spent : [Dimensions -> Nat]]

NothingSpent == [d \in Dimensions |-> 0]
NoReservation == [state |-> "none", spent |-> NothingSpent]

ASSUME BudgetAssumption ==
    /\ IsFiniteSet(Jobs)
    /\ CampaignOf \in [Jobs -> Campaigns]
    /\ Governed \subseteq Jobs
    /\ Reserved \in [Governed -> [Dimensions -> Nat]]
    /\ Allowance \in [{"campaign", "turn"} -> [Dimensions -> Nat]]

----------------------------------------------------------------------------
Larger(a, b) == IF a >= b THEN a ELSE b

\* insert_generation_governance_receipt: the hold taken when a job is enqueued.
Reserve(j) ==
    IF j \in Governed THEN [state |-> "reserved", spent |-> NothingSpent]
                      ELSE NoReservation

\* One attempt's charge in one dimension.  The request count is read from the
\* first document in dimension order, which is the cost document.
Charge(j, usage, d) ==
    IF d = "requests" THEN (IF Reserved[j]["cost"] > 0 THEN 1 ELSE 0)
                      ELSE usage[d]

\* Known usage accumulates over the attempts of a job; unknown usage is charged
\* as the estimate that was reserved.
SpentAfter(j, spent, usage) ==
    [d \in Dimensions |->
        IF Charge(j, usage, d) = Unknown THEN Larger(spent[d], Reserved[j][d])
                                         ELSE spent[d] + Charge(j, usage, d)]

\* record_generation_attempt_usage, whose precondition is Chargeable.
Chargeable(r) == r.state \in {"none", "reserved"}
RecordAttemptUsage(j, r, usage, terminal) ==
    IF r.state = "none" THEN r
    ELSE [state |-> IF terminal THEN "settled" ELSE "reserved",
          spent |-> SpentAfter(j, r.spent, usage)]

\* settle_unknown_generation_usage: a running job is cancelled.
SettleNothing(j, r) == r                        \* mutant: the hold stays open
SettleUnknownUsage(j, r) ==
    IF r.state # "reserved" THEN r
    ELSE [state |-> "settled",
          spent |-> [d \in Dimensions |-> Larger(r.spent[d], Reserved[j][d])]]

\* release_generation_budget: a queued job is cancelled.
ReleaseBudget(r) == IF r.state # "reserved" THEN r ELSE [r EXCEPT !.state = "released"]

----------------------------------------------------------------------------
\* totals_from_documents: what one reservation counts for.
Counted(j, r, d) ==
    CASE r.state = "reserved" -> Larger(Reserved[j][d], r.spent[d])
      [] r.state = "settled"  -> r.spent[d]
      [] OTHER                -> 0

\* load_totals, over the reservations of one scope.
TotalSettled(S, reservation, d) ==              \* mutant: open holds are not counted
    SumFunction([k \in {h \in S : reservation[h].state = "settled"} |->
                     Counted(k, reservation[k], d)])
Total(S, reservation, d) == SumFunction([k \in S |-> Counted(k, reservation[k], d)])

\* The reservations that hold a provider slot of campaign c.
ActiveReservations(c, reservation) ==
    {k \in Governed : /\ CampaignOf[k] = c
                      /\ reservation[k].state = "reserved"
                      /\ Reserved[k]["requests"] > 0}

SlotFreeOffByOne(j, reservation, maxConcurrency) ==         \* mutant: <= for <
    Cardinality(ActiveReservations(CampaignOf[j], reservation)) <= maxConcurrency
SlotFree(j, reservation, maxConcurrency) ==
    Cardinality(ActiveReservations(CampaignOf[j], reservation)) < maxConcurrency

\* preflight_generation_governance, for a request with the given concurrency limit.
WithinBudget(j, reservation, maxConcurrency) ==
    LET SameCampaign == {k \in Governed : CampaignOf[k] = CampaignOf[j]}
        SameTurn     == {k \in SameCampaign : TurnScopeOf[k] = TurnScopeOf[j]}
        Fits(S, scope) == \A d \in Dimensions :
            Total(S, reservation, d) + Reserved[j][d] <= Allowance[scope][d]
    IN  /\ Reserved[j]["requests"] > 0 => SlotFree(j, reservation, maxConcurrency)
        /\ Fits(SameCampaign, "campaign")
        /\ Fits(SameTurn, "turn")
=============================================================================
