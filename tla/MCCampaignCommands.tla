------------------------- MODULE MCCampaignCommands -------------------------
(* Small instances of the commands of a campaign. *)
EXTENDS CampaignCommandsProperties, TLC

AllKinds == CampaignKinds \cup HeroKinds

\* What clients were told guards no action: states that differ in nothing else are
\* one state for an invariant that does not mention it.
Untold == <<databaseVars, sittings, server, inDoubt>>

Symmetry == Permutations(Servers) \cup Permutations(Keys)
=============================================================================
