--------------------------- MODULE HeroesProperties ---------------------------
(***************************************************************************)
(* What the creation and the progression of a hero must get right.         *)
(***************************************************************************)
EXTENDS Heroes, Functions

\* Whatever is pinned is pinned to the theme the campaign is sealed to, also when drafts of
\* different themes are pinned at once (seal_campaign_pins_in_transaction); and the reads of
\* resolve_campaign_pin_status, of three moments, never quarantine a campaign whose theme is
\* chosen between two of them.
PinsNeverDisagree ==
    /\ \A d \in Pinned : drafts[d].choices.theme = pins
    /\ \A h \in heroes : h.hero.choices.theme = pins
    /\ \A s \in Servers : server[s].reply # "quarantined"

\* The owner has one hero at most, made of the choices of the one draft that was committed
\* (the index of active characters).
CreatedOnce ==
    /\ Cardinality(heroes) <= 1
    /\ \A d \in Drafts : Stored(d) =>
          (drafts[d].step = Committed
              <=> \E h \in heroes : h.draft = d /\ h.hero.choices = drafts[d].choices)

\* Rewards and the level-up are what the audits say, one audit per command, and the reward
\* of the encounter is claimed once (commit_hero_character_mutation).
ProgressIsAccounted ==
    /\ \A h \in heroes :
          /\ h.hero.experience = SumFunction([a \in audits |-> a.experience])
          /\ h.hero.level = 2 <=> \E a \in audits : a.kind = "levelUp"
    /\ Cardinality(audits) = Cardinality({c \in receipts : Scope(c) = Hero})
    /\ Cardinality({a \in audits : a.kind = "claim"}) = Cardinality(claims)
    /\ Cardinality(claims) <= 1

\* However commands are repeated and raced, drafts, audits, receipts and the claim explain
\* the hero (commit_hero_creation_transition, commit_hero_character_mutation).
RecordsExplainHero == CreatedOnce /\ ProgressIsAccounted

\* The hero stays one that its own validation accepts and, unless it fell, one the rules of
\* combat accept, at either level (HeroCharacter::validate, encounter_profile_from_hero).
HeroIsPlayable ==
    \A h \in heroes : HeroIsValid(h.hero) /\ (h.hero.hitPoints > 0 => CanFight(h.hero))

\* Whatever was chosen so far, a step that is offered can be taken (apply_trusted).
NoDeadEnd ==
    \A d \in Drafts :
        drafts[d].age = "live" /\ drafts[d].step < CommitStep =>
            \E offer \in UNION {Offers[e] : e \in Drafts} :
                SelectionAllowed(drafts[d].step,
                                 Chosen(drafts[d].choices, Selection(drafts[d].step, offer)))

\* A level-up gives back neither lost hit points nor spent resources (level_up).
SpentStaysSpent ==
    [][\A h \in heroes, g \in heroes' :
          g.hero.level > h.hero.level =>
              /\ FullHitPoints(g.hero) - g.hero.hitPoints = FullHitPoints(h.hero) - h.hero.hitPoints
              /\ \A p \in DOMAIN h.hero.pools :
                    FullPools(g.hero)[p] - g.hero.pools[p]
                        = FullPools(h.hero)[p] - h.hero.pools[p]]_heroesVars

\* "Complete the guided hero creator": a commit that no other hero stands in the way of is
\* not refused (README.md, finalize_hero_creation).
HeroCanBeCreated ==
    \A s \in Servers : At(s, "duplicate") /\ server[s].command.kind = "create" => heroes # {}
=============================================================================
