------------------------- MODULE MCCampaignLifecycle -------------------------
(* Small instances of the life of a campaign. *)
EXTENDS CampaignLifecycleProperties, TLC

Symmetry == Permutations(Keys)
=============================================================================
