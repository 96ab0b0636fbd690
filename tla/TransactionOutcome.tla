------------------------- MODULE TransactionOutcome -------------------------
(***************************************************************************)
(* What with_transaction promises its caller of one effect: it is          *)
(* installed at most once; a success means that it was, a refusal that it  *)
(* never will be, and after every other error the caller cannot tell, for  *)
(* the effect may even be installed later.                                 *)
(***************************************************************************)
VARIABLES effect, answer

outcomeVars == <<effect, answer>>

OutcomeInit == effect = "absent" /\ answer = "none"

Install ==
    /\ effect = "absent"
    /\ answer \in {"none", "unknown"}
    /\ effect' = "installed"
    /\ UNCHANGED answer

Succeed ==
    /\ effect = "installed" /\ answer = "none"
    /\ answer' = "success"
    /\ UNCHANGED effect

Refuse ==
    /\ effect = "absent" /\ answer = "none"
    /\ answer' = "refused"
    /\ UNCHANGED effect

LeaveUnknown ==
    /\ answer = "none"
    /\ answer' = "unknown"
    /\ UNCHANGED effect

OutcomeNext == Install \/ Succeed \/ Refuse \/ LeaveUnknown

OutcomeSpec == OutcomeInit /\ [][OutcomeNext]_outcomeVars
=============================================================================
