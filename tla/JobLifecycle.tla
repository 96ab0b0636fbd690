--------------------------- MODULE JobLifecycle ---------------------------
(***************************************************************************)
(* What the generation queue promises of each job: it is granted to one    *)
(* epoch at a time, at most Limit[j] times; it ends once; and the budget   *)
(* held for it is open exactly from its submission to its end.             *)
(***************************************************************************)
EXTENDS Integers

CONSTANTS Jobs, Limit, Metered

VARIABLES phase, epoch, hold

lifeVars == <<phase, epoch, hold>>

Phases == {"absent", "waiting", "granted", "succeeded", "failed", "cancelled"}
Ended == {"succeeded", "failed", "cancelled"}

LifeInit ==
    /\ phase = [j \in Jobs |-> "absent"]
    /\ epoch = [j \in Jobs |-> 0]
    /\ hold = [j \in Jobs |-> "none"]

Submit(j) ==
    /\ phase[j] = "absent"
    /\ phase' = [phase EXCEPT ![j] = "waiting"]
    /\ hold' = [hold EXCEPT ![j] = IF j \in Metered THEN "open" ELSE "none"]
    /\ UNCHANGED epoch

\* A waiting job, or one whose grant is revoked, goes to the next epoch.
Grant(j) ==
    /\ phase[j] \in {"waiting", "granted"}
    /\ epoch[j] < Limit[j]
    /\ phase' = [phase EXCEPT ![j] = "granted"]
    /\ epoch' = [epoch EXCEPT ![j] = @ + 1]
    /\ UNCHANGED hold

\* A failed grant may be given back only while another epoch is left.
GiveBack(j) ==
    /\ phase[j] = "granted"
    /\ epoch[j] < Limit[j]
    /\ phase' = [phase EXCEPT ![j] = "waiting"]
    /\ UNCHANGED <<epoch, hold>>

End(j, outcome) ==
    /\ outcome \in {"succeeded", "failed"} => phase[j] = "granted"
    /\ outcome = "cancelled" => phase[j] \in {"waiting", "granted"}
    /\ phase' = [phase EXCEPT ![j] = outcome]
    /\ hold' = [hold EXCEPT ![j] = IF j \in Metered THEN "closed" ELSE "none"]
    /\ UNCHANGED epoch

LifeNext == \E j \in Jobs :
    \/ Submit(j) \/ Grant(j) \/ GiveBack(j)
    \/ \E outcome \in Ended : End(j, outcome)

LifeSpec == LifeInit /\ [][LifeNext]_lifeVars
=============================================================================
