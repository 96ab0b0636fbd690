----------------------------- MODULE MCNarration -----------------------------
(***************************************************************************)
(* The texts of a small campaign.                                          *)
(***************************************************************************)
EXTENDS NarrationProperties, TLC

CONSTANTS k1, k2, k3, c1, c2, i1

\* Narrations of a turn and a recap, or intents with a recap and a turn beside them.
MCIntents == {{i1, c1, c2}}
MCChanges == {{k1, k2, c1}} \cup MCIntents
MCUses == {{k1, k2, k3, c1, c2}} \cup MCChanges

\* What was answered guards nothing, nor who left a job that has ended, nor for which of the
\* reasons that excuse it.
Unanswered == <<settings, campaignVars, textVars, job, request,
                {j \in JobIds : job[j] = "leased" /\ Excused(j)}>>

MCSymmetry == Permutations(Requests) \cup Permutations(Keys) \cup Permutations({c1, c2})
=============================================================================
