-------------------------- MODULE EncounterProperties --------------------------
(***************************************************************************)
(* What holds of the encounter.                                            *)
(***************************************************************************)
EXTENDS Encounter

\* The state has its type: counters stay within their pools and durations, positions on
\* the battlefield (resolve_encounter, encounter.rs).
EncounterTypeOK ==
    LET e == encounter
    IN  /\ e.status \in {"ready", "active", "victory", "defeat"}
        /\ e.first \in Actors \cup {"none"} /\ e.actor \in Actors \cup {"none"}
        /\ e.hero.position \in Positions /\ e.creature.position \in Positions
        /\ e.hero.hp \in 0..HeroMaximum /\ e.creature.hp \in 0..CreatureMaximum
        /\ \A p \in DOMAIN e.pools : e.pools[p] \in 0..FullPools(e.class)[p]
        /\ e.turn.movement \in 0..Higher(HeroSpeed, CreatureSpeed)
        /\ \A o \in Objects : e.lights[o] \in 0..LightRounds
        /\ e.hand.rounds \in 0..HandRounds /\ e.sleep \in 0..SleepRounds
        /\ e.pending \in {"none", "hit", "critical"}
        /\ e.rest \in {"none", "resting", "recovered"} /\ e.time \in 0..MaxTime

\* Whatever is offered can be done: no action that the engine offers to the player or that
\* its policy picks is refused, and no roll of the dice for it makes a state that fails
\* validation.  Offers, resolution and validation are written apart (legal_actions,
\* the resolve functions and validate).
OffersAreHonoured ==
    \A i \in PlayerOffered(encounter) \cup PolicyIntents(encounter) :
        /\ Outcomes(encounter, i) # {}
        /\ \A t \in Outcomes(encounter, i) : Valid(t)

\* The encounter never waits for nobody or for two: while it is active, either the player
\* has something to choose, or the policy has, exactly one thing, and never both.
SomeoneActs ==
    encounter.status = "active" =>
        IF PlayerOffered(encounter) = {} THEN Cardinality(PolicyIntents(encounter)) = 1
        ELSE PolicyIntents(encounter) = {}

\* While the wight sleeps it neither moves nor hurts the hero: the functions that resolve
\* a move and an attack do not look at sleep, and rely on what the policy was offered.
SleepersLieStill ==
    [][encounter.sleep > 0 =>
           /\ encounter'.creature.position = encounter.creature.position
           /\ encounter'.pending = "none"
           /\ encounter'.hero.hp >= encounter.hero.hp]_encounter

\* A player's command never moves the wight: "a creature turn never exposes attack, target,
\* movement, or end-turn choices to a client" (encounter.rs:3073).
CreatureTurnIsNotThePlayers ==
    [][(\E i \in Intents : PlayerCommand(i)) =>
           encounter'.creature.position = encounter.creature.position]_encounter
=============================================================================
