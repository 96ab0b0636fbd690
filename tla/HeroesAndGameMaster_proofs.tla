--------------------- MODULE HeroesAndGameMaster_proofs -----------------------
(***************************************************************************)
(* Proofs about the hero: its rules, for every choice the creation         *)
(* accepts, and its creation and progression, for any number of servers,   *)
(* clients, drafts and themes.                                             *)
(*                                                                         *)
(* The last section proves what the circuit and the permits of the game    *)
(* master service keep to, for any number of requests and permits, any     *)
(* threshold and any provider.                                             *)
(***************************************************************************)
EXTENDS HeroesProperties, GameMasterProperties, SumTheorems, FiniteSetTheorems, TLAPS

-----------------------------------------------------------------------------
(* Types                                                                   *)

Ages == {"absent", "live", "expired", "retired"}
DraftStates == [age : Ages, step : 0..Committed, choices : HeroChoices]
FighterPools == [hit_dice : Nat, second_wind : Nat]
SurgingPools == [hit_dice : Nat, second_wind : Nat, action_surge : Nat]
WizardPools == [hit_dice : Nat, spell_slots : Nat, arcane_recovery : Nat]
PoolStates == FighterPools \cup SurgingPools \cup WizardPools
HeroStates == [choices : HeroChoices, revision : Nat, level : {1, 2}, experience : Nat,
               hitPoints : Nat, pools : PoolStates]
HeroDocuments == [hero : HeroStates, draft : Drafts]

Selections(d, step) == {Selection(step, offer) : offer \in Offers[d]}
StartCommands == [kind : {"start"}, draft : Drafts]
IntentCommands(d, i) ==
    [kind : {"create"}, client : Clients, draft : {d}, expected : 0..Committed, intent : {i},
     selection : Selections(d, i)]
CreateCommands == UNION {UNION {IntentCommands(d, i) : i \in 0..CommitStep} : d \in Drafts}
RewardCommands == [kind : {"reward"}, client : Clients, expected : Nat, tier : Tiers]
OtherCommands == [kind : {"levelUp", "claim"}, client : Clients, expected : Nat]
ToHero == RewardCommands \cup OtherCommands
Audits == [kind : {"reward", "levelUp", "claim"}, client : Clients, before : Nat,
           experience : Int]
ServerStates == [step : Steps, command : StartCommands \cup CreateCommands \cup ToHero \cup {NoCommand},
                 selected : Themes \cup {Unpinned},
                 successor : DraftStates \cup HeroStates \cup {NoCommand}, reply : Replies]

DatabaseTypeOK ==
    /\ pins \in Themes \cup {Unpinned}
    /\ encounter \in {"open", "victory"}
    /\ drafts \in [Drafts -> DraftStates]
    /\ heroes \subseteq HeroDocuments
    /\ receipts \subseteq CreateCommands \cup ToHero
    /\ audits \subseteq Audits
    /\ claims \subseteq ToHero

HeroesTypeOK == DatabaseTypeOK /\ server \in [Servers -> ServerStates]

-----------------------------------------------------------------------------
(* The invariant                                                           *)

\* What a draft has chosen agrees with the seal, and it has chosen a theme at its first step.
DraftsAgree ==
    \A d \in Drafts : Stored(d) =>
        /\ drafts[d].step > 0 => drafts[d].choices.theme # Unpinned
        /\ drafts[d].choices.theme # Unpinned => drafts[d].choices.theme = pins

\* There is one hero at most, of the sealed theme, valid, and made of the choices of the one
\* draft that was committed.
HeroStands ==
    /\ \A g, h \in heroes : g = h
    /\ \A h \in heroes :
          /\ pins # Unpinned /\ h.hero.choices.theme = pins
          /\ HeroIsValid(h.hero)
          /\ drafts[h.draft].age # "absent"
          /\ Stored(h.draft) => drafts[h.draft].step = Committed
                                /\ drafts[h.draft].choices = h.hero.choices
    /\ \A d \in Drafts : Stored(d) /\ drafts[d].step = Committed => \E h \in heroes : h.draft = d

\* A draft that a server has derived: the choices of its step are allowed, of a theme that
\* is sealed unless it is what the command selects.
DerivedDraft(n, c) ==
    /\ n \in DraftStates
    /\ n.step = c.expected + 1 /\ c.intent = c.expected
    /\ SelectionAllowed(c.intent, n.choices)
    /\ IF c.intent = ThemeStep THEN n.choices.theme = c.selection.theme
       ELSE pins # Unpinned /\ n.choices.theme = pins

\* A hero that a server has read: the present one, or of an older revision.
ReadHeroOf(n) ==
    /\ n \in HeroStates /\ HeroIsValid(n)
    /\ heroes # {}
    /\ \A h \in heroes :
          /\ n.choices = h.hero.choices
          /\ n.revision <= h.hero.revision
          /\ n.revision = h.hero.revision => n = h.hero

\* A hero that a server has derived comes of the revision its command expects.
DerivedHero(n, c) ==
    /\ n \in HeroStates /\ HeroIsValid(n)
    /\ n.revision = c.expected + 1
    /\ heroes # {}
    /\ \A h \in heroes :
          /\ n.choices = h.hero.choices
          /\ c.expected <= h.hero.revision
          /\ c.expected = h.hero.revision =>
                HeroCommandAllowed(h.hero, c) /\ n = HeroSuccessor(h.hero, c)

\* What a server holds of the command it serves.
Holds(r) ==
    LET c == r.command
        n == r.successor
    IN  /\ r.selected \in {Unpinned, pins}
        /\ r.reply # "quarantined"
        /\ r.step # "idle" => c \in StartCommands \cup CreateCommands \cup ToHero
        /\ r.step = "create" => c \in StartCommands
        /\ r.step \in {"receipt", "apply", "claim", "commit"} => c \notin StartCommands
        /\ r.step = "claim" => c \in OtherCommands /\ c.kind = "claim" /\ ReadHeroOf(n)
        /\ r.step = "commit" /\ c \in CreateCommands => DerivedDraft(n, c)
        /\ r.step = "commit" /\ c \in ToHero => DerivedHero(n, c)

\* The encounter's reward was claimed once.
ClaimsAgree ==
    /\ claims = {} => \A a \in audits : a.kind # "claim"
    /\ \A a, b \in audits : a.kind = "claim" /\ b.kind = "claim" => a = b
    /\ \A a, b \in claims : a = b

\* The hero's level is what the audits say.
LevelAgrees ==
    \A h \in heroes : h.hero.level = 2 <=> \E a \in audits : a.kind = "levelUp"

DatabaseInv ==
    /\ DatabaseTypeOK
    /\ encounter # "open" => pins # Unpinned
    /\ heroes = {} => audits = {}
    /\ DraftsAgree /\ HeroStands /\ ClaimsAgree /\ LevelAgrees

HeroesInv ==
    /\ DatabaseInv
    /\ server \in [Servers -> ServerStates]
    /\ \A s \in Servers : Holds(server[s])

-----------------------------------------------------------------------------
(* The rules of a hero                                                     *)

LEMMA RulesTypes ==
    ASSUME NEW c \in HeroChoices
    PROVE  /\ c.theme \in Themes \cup {Unpinned} /\ c.class \in Classes \cup {NoClass}
           /\ c.assignment \in [Abilities -> Nat] /\ c.equipment \in Equipment
           /\ c.prepared \in SUBSET Spells
BY DEF HeroChoices

LEMMA HeroFields ==
    ASSUME NEW h \in HeroStates
    PROVE  /\ h.choices \in HeroChoices /\ h.revision \in Nat /\ h.level \in {1, 2}
           /\ h.experience \in Nat /\ h.hitPoints \in Nat /\ h.pools \in PoolStates
BY DEF HeroStates

LEMMA ClassFacts ==
    ASSUME NEW c \in Classes
    PROVE  /\ c.class \in {"fighter", "wizard"}
           /\ c.style \in {"defense", "dueling", "none"}
BY DEF Classes

\* A human's scores are from nine to sixteen.
LEMMA ModifierFacts ==
    ASSUME NEW assignment, IsAssignment(assignment), NEW a \in Abilities
    PROVE  /\ assignment[a] \in 8..15
           /\ HumanScore(assignment, a) \in 9..16
           /\ Modifier(assignment, a) \in -1..3
<1>1. assignment[a] \in StandardArray
  BY DEF IsAssignment
<1>2. assignment[a] \in 8..15
  BY <1>1 DEF StandardArray
<1>3. HumanScore(assignment, a) \in 9..16
  BY <1>2 DEF HumanScore
<1>4. Modifier(assignment, a) \in -1..3
  <2> DEFINE score == HumanScore(assignment, a)
  <2> HIDE DEF score
  <2>1. score \in 9..16
    BY <1>3 DEF score
  <2>2. (score - 10) \div 2 \in -1..3
    BY <2>1
  <2>3. QED
    BY <2>2 DEF Modifier, score
<1>5. QED
  BY <1>2, <1>3, <1>4

LEMMA MaximumFacts ==
    ASSUME NEW c, ChoicesAllowed(c)
    PROVE  /\ MaximumHitPoints(c, 1) \in Nat \ {0} /\ MaximumHitPoints(c, 2) \in Nat
           /\ MaximumHitPoints(c, 2) >= MaximumHitPoints(c, 1)
<1>1. c.class \in Classes /\ IsAssignment(c.assignment)
  BY DEF ChoicesAllowed
<1>2. Modifier(c.assignment, "constitution") \in -1..3
  BY <1>1, ModifierFacts DEF Abilities
<1>3. HitDie(c.class) \in {6, 10}
  BY DEF HitDie
<1> DEFINE constitution == Modifier(c.assignment, "constitution")
           average == IF c.class.class = "fighter" THEN 6 ELSE 4
<1>4. average \in {4, 6}
  OBVIOUS
<1>5. \A level : MaximumHitPoints(c, level) =
          AtLeast(1, HitDie(c.class) + constitution)
              + (IF level = 2 THEN AtLeast(1, average + constitution) ELSE 0)
  BY DEF MaximumHitPoints
<1> HIDE DEF constitution, average
<1>6. constitution \in Int
  BY <1>2 DEF constitution
<1>7. QED
  BY <1>3, <1>4, <1>5, <1>6 DEF AtLeast

LEMMA PoolFacts ==
    ASSUME NEW c \in Classes, NEW level \in {1, 2}
    PROVE  /\ Pools(c, level) \in PoolStates
           /\ Pools(c, level) = CombatPools(c, level)
           /\ \A p \in DOMAIN Pools(c, level) : Pools(c, level)[p] \in Nat
<1>1. CASE c.class = "fighter" /\ level = 1
  BY <1>1 DEF Pools, CombatPools, PoolStates, FighterPools
<1>2. CASE c.class = "fighter" /\ level = 2
  BY <1>2 DEF Pools, CombatPools, PoolStates, SurgingPools
<1>3. CASE c.class = "wizard"
  BY <1>3 DEF Pools, CombatPools, PoolStates, WizardPools
<1>4. QED
  BY <1>1, <1>2, <1>3, ClassFacts

\* The second level keeps every pool and takes nothing from it.
LEMMA PoolsGrow ==
    ASSUME NEW c \in Classes
    PROVE  \A p \in DOMAIN Pools(c, 1) :
               p \in DOMAIN Pools(c, 2) /\ Pools(c, 1)[p] <= Pools(c, 2)[p]
<1>1. CASE c.class = "fighter"
  BY <1>1 DEF Pools
<1>2. CASE c.class = "wizard"
  BY <1>2 DEF Pools
<1>3. QED
  BY <1>1, <1>2, ClassFacts

LEMMA PoolsAreNumbers ==
    ASSUME NEW pools \in PoolStates
    PROVE  \A p \in DOMAIN pools : pools[p] \in Nat
BY DEF PoolStates, FighterPools, SurgingPools, WizardPools

\* A hero's own validation, but for what its choices allow, which nothing changes.
LEMMA ValidHeroFacts ==
    ASSUME NEW h \in HeroStates, HeroIsValid(h)
    PROVE  /\ ChoicesAllowed(h.choices) /\ h.choices.class \in Classes
           /\ FullHitPoints(h) \in Nat \ {0}
           /\ FullPools(h) \in PoolStates
           /\ \A p \in DOMAIN FullPools(h) : FullPools(h)[p] \in Nat
<1>1. ChoicesAllowed(h.choices) /\ h.level \in {1, 2}
  BY HeroFields DEF HeroIsValid
<1>2. h.choices.class \in Classes
  BY <1>1 DEF ChoicesAllowed
<1>3. QED
  BY <1>1, <1>2, MaximumFacts, PoolFacts DEF FullHitPoints, FullPools

LEMMA CreatedHeroGood ==
    ASSUME NEW c \in HeroChoices, ChoicesAllowed(c)
    PROVE  /\ CreatedHero(c) \in HeroStates /\ HeroIsValid(CreatedHero(c))
           /\ CreatedHero(c).choices = c /\ CreatedHero(c).level = 1
<1> DEFINE h == CreatedHero(c)
<1>1. c.class \in Classes
  BY DEF ChoicesAllowed
<1>2. /\ h.choices = c /\ h.level = 1 /\ h.experience = 0 /\ h.revision = 0
      /\ h.hitPoints = MaximumHitPoints(c, 1) /\ h.pools = Pools(c.class, 1)
  BY DEF CreatedHero
<1>3. MaximumHitPoints(c, 1) \in Nat /\ Pools(c.class, 1) \in PoolStates
      /\ \A p \in DOMAIN Pools(c.class, 1) : Pools(c.class, 1)[p] \in Nat
  BY <1>1, MaximumFacts, PoolFacts
<1>4. h \in HeroStates
  BY <1>3 DEF CreatedHero, HeroStates
<1>5. HeroIsValid(h)
  <2> HIDE DEF h
  <2>1. FullHitPoints(h) = h.hitPoints /\ FullPools(h) = h.pools
    BY <1>2 DEF FullHitPoints, FullPools
  <2>2. QED
    BY <1>2, <1>3, <2>1 DEF HeroIsValid, LevelTwoExperience, LevelThreeExperience
<1>6. QED
  BY <1>2, <1>4, <1>5

LEMMA ExperienceIsNumber ==
    ASSUME NEW tier \in Tiers
    PROVE  Experience(tier) \in Nat \ {0}
BY DEF Tiers, Experience, LevelTwoExperience

LEMMA RewardedGood ==
    ASSUME NEW h \in HeroStates, HeroIsValid(h), NEW tier \in Tiers, RewardAllowed(h, tier)
    PROVE  LET t == Rewarded(h, tier)
           IN  /\ t \in HeroStates /\ HeroIsValid(t)
               /\ t.choices = h.choices /\ t.level = h.level /\ t.revision = h.revision + 1
<1> DEFINE t == Rewarded(h, tier)
           experience == h.experience + Experience(tier)
<1>1. h.experience \in Nat /\ Experience(tier) \in Nat
  BY ExperienceIsNumber, HeroFields
<1>2. experience \in Nat /\ experience >= h.experience /\ experience < LevelThreeExperience
  BY <1>1 DEF RewardAllowed
<1>3. t = [h EXCEPT !.experience = experience, !.revision = h.revision + 1]
  BY DEF Rewarded
<1> HIDE DEF experience, t
<1>4. /\ t \in HeroStates /\ t.choices = h.choices /\ t.level = h.level
      /\ t.revision = h.revision + 1 /\ t.experience = experience
      /\ t.hitPoints = h.hitPoints /\ t.pools = h.pools
  <2>1. experience \in Nat /\ h.revision + 1 \in Nat
    BY <1>2, HeroFields
  <2> DEFINE revision == h.revision + 1
  <2> HIDE DEF revision
  <2>2. t = [h EXCEPT !.experience = experience, !.revision = revision]
    BY <1>3 DEF revision
  <2>3. t \in HeroStates /\ t.choices = h.choices /\ t.level = h.level
        /\ t.revision = revision /\ t.experience = experience
        /\ t.hitPoints = h.hitPoints /\ t.pools = h.pools
    BY <2>1, <2>2 DEF HeroStates, revision
  <2>4. QED
    BY <2>3 DEF revision
<1>5. FullHitPoints(t) = FullHitPoints(h) /\ FullPools(t) = FullPools(h)
  BY <1>4 DEF FullHitPoints, FullPools
<1>6. HeroIsValid(t)
  BY <1>1, <1>2, <1>4, <1>5 DEF HeroIsValid, LevelTwoExperience
<1>7. QED
  BY <1>4, <1>6 DEF t

\* The level-up adds to what is left what the level adds to the maximum.
LEMMA LeveledUpGood ==
    ASSUME NEW h \in HeroStates, HeroIsValid(h), LevelUpAllowed(h)
    PROVE  LET t == LeveledUp(h)
           IN  /\ t \in HeroStates /\ HeroIsValid(t)
               /\ t.choices = h.choices /\ t.level = 2 /\ t.revision = h.revision + 1
               /\ FullHitPoints(t) - t.hitPoints = FullHitPoints(h) - h.hitPoints
               /\ \A p \in DOMAIN h.pools :
                      FullPools(t)[p] - t.pools[p] = FullPools(h)[p] - h.pools[p]
<1> DEFINE advanced == [h EXCEPT !.level = 2, !.revision = @ + 1]
           before == FullPools(h)
           after == FullPools(advanced)
           least == FullHitPoints(h)
           maximum == FullHitPoints(advanced)
           hitPoints == AtMost(maximum, h.hitPoints + maximum - least)
           pools == [p \in DOMAIN after |->
                       IF p \in DOMAIN h.pools THEN Carried(h.pools[p], before[p], after[p])
                       ELSE after[p]]
           t == [advanced EXCEPT !.hitPoints = hitPoints, !.pools = pools]
<1>1. LeveledUp(h) = t
  BY DEF LeveledUp
<1>2. /\ ChoicesAllowed(h.choices) /\ h.choices.class \in Classes /\ h.level = 1
      /\ h.experience >= LevelTwoExperience /\ h.experience < LevelThreeExperience
      /\ h.hitPoints \in Nat /\ h.hitPoints <= least /\ DOMAIN h.pools = DOMAIN before
      /\ \A p \in DOMAIN h.pools : h.pools[p] <= before[p]
      /\ \A p \in DOMAIN h.pools : h.pools[p] \in Nat
  BY ValidHeroFacts, HeroFields, PoolsAreNumbers DEF HeroIsValid, LevelUpAllowed
<1>3. /\ advanced \in HeroStates /\ advanced.choices = h.choices /\ advanced.level = 2
      /\ advanced.experience = h.experience /\ advanced.revision = h.revision + 1
  <2> DEFINE revision == h.revision + 1
  <2>1. revision \in Nat
    BY HeroFields
  <2> HIDE DEF revision
  <2>2. advanced = [h EXCEPT !.level = 2, !.revision = revision]
    BY DEF advanced, revision
  <2>3. advanced \in HeroStates /\ advanced.choices = h.choices /\ advanced.level = 2
        /\ advanced.experience = h.experience /\ advanced.revision = revision
    BY <2>1, <2>2 DEF HeroStates
  <2>4. QED
    BY <2>3 DEF revision
<1> HIDE DEF advanced
<1>4. /\ least = MaximumHitPoints(h.choices, 1) /\ maximum = MaximumHitPoints(h.choices, 2)
      /\ before = Pools(h.choices.class, 1) /\ after = Pools(h.choices.class, 2)
  BY <1>2, <1>3 DEF FullHitPoints, FullPools
<1>5. least \in Nat /\ maximum \in Nat /\ least <= maximum
  BY <1>2, <1>4, MaximumFacts
<1>6. /\ after \in PoolStates
      /\ \A p \in DOMAIN after : after[p] \in Nat
      /\ \A p \in DOMAIN before : before[p] \in Nat
      /\ \A p \in DOMAIN before : p \in DOMAIN after /\ before[p] <= after[p]
  BY <1>2, <1>4, PoolFacts, PoolsGrow
<1> HIDE DEF least, maximum, before, after
<1>7. hitPoints = h.hitPoints + maximum - least /\ hitPoints \in Nat /\ hitPoints <= maximum
  BY <1>2, <1>5 DEF AtMost
<1>8. \A p \in DOMAIN h.pools :
          /\ Carried(h.pools[p], before[p], after[p]) \in Nat
          /\ Carried(h.pools[p], before[p], after[p]) = h.pools[p] + (after[p] - before[p])
          /\ Carried(h.pools[p], before[p], after[p]) <= after[p]
  BY <1>2, <1>6 DEF Carried, AtMost, AtLeast
<1>9. /\ DOMAIN pools = DOMAIN after
      /\ \A p \in DOMAIN after : pools[p] \in Nat /\ pools[p] <= after[p]
      /\ \A p \in DOMAIN h.pools : pools[p] = h.pools[p] + (after[p] - before[p])
  BY <1>2, <1>6, <1>8
<1>10. pools \in PoolStates
  <2>1. pools = [p \in DOMAIN after |-> pools[p]]
    OBVIOUS
  <2> HIDE DEF pools
  <2>2. pools \in [DOMAIN after -> Nat]
    BY <1>9, <2>1
  <2>3. CASE after \in FighterPools
    BY <2>2, <2>3 DEF FighterPools, PoolStates
  <2>4. CASE after \in SurgingPools
    BY <2>2, <2>4 DEF SurgingPools, PoolStates
  <2>5. CASE after \in WizardPools
    BY <2>2, <2>5 DEF WizardPools, PoolStates
  <2>6. QED
    BY <1>6, <2>3, <2>4, <2>5 DEF PoolStates
<1> HIDE DEF hitPoints, pools
<1>11. /\ t \in HeroStates /\ t.choices = h.choices /\ t.level = 2
       /\ t.revision = h.revision + 1 /\ t.experience = h.experience
       /\ t.hitPoints = hitPoints /\ t.pools = pools
  BY <1>3, <1>7, <1>10 DEF HeroStates
<1> HIDE DEF t
<1>12. FullHitPoints(t) = maximum /\ FullPools(t) = after
  BY <1>3, <1>11 DEF FullHitPoints, FullPools, maximum, after
<1>13. HeroIsValid(t)
  <2>1. t.experience < LevelThreeExperience
        /\ (t.level = 2 => t.experience >= LevelTwoExperience)
        /\ t.hitPoints <= FullHitPoints(t)
    BY <1>2, <1>7, <1>11, <1>12
  <2>2. DOMAIN t.pools = DOMAIN FullPools(t)
        /\ \A p \in DOMAIN t.pools : t.pools[p] <= FullPools(t)[p]
    BY <1>9, <1>11, <1>12
  <2>3. QED
    BY <1>2, <1>11, <2>1, <2>2 DEF HeroIsValid
<1>14. FullHitPoints(t) - t.hitPoints = FullHitPoints(h) - h.hitPoints
  BY <1>2, <1>5, <1>7, <1>11, <1>12 DEF least
<1>15. \A p \in DOMAIN h.pools : FullPools(t)[p] - t.pools[p] = FullPools(h)[p] - h.pools[p]
  <2>1. ASSUME NEW p \in DOMAIN h.pools
        PROVE  after[p] - pools[p] = before[p] - h.pools[p]
    <3>1. after[p] \in Nat /\ before[p] \in Nat /\ h.pools[p] \in Nat
          /\ pools[p] = h.pools[p] + (after[p] - before[p])
      BY <1>2, <1>6, <1>9
    <3>2. QED
      BY <3>1
  <2>2. QED
    BY <1>11, <1>12, <2>1 DEF before
<1>16. QED
  BY <1>1, <1>11, <1>13, <1>14, <1>15

\* Nothing an encounter leaves of the hero is more than its maximum.
LEMMA LeftByEncounterGood ==
    ASSUME NEW h \in HeroStates, HeroIsValid(h),
           NEW end \in {"fallen", "spent", "rested"}
    PROVE  LET t == LeftByEncounter(h, end)
           IN  /\ t \in HeroStates /\ HeroIsValid(t)
               /\ t.choices = h.choices /\ t.level = h.level /\ t.experience = h.experience
               /\ t = h \/ t.revision = h.revision + 1
<1> DEFINE none == [p \in DOMAIN h.pools |-> 0]
           hitPoints == IF end = "rested" THEN FullHitPoints(h) ELSE IF end = "spent" THEN 1 ELSE 0
           pools == IF end = "rested" THEN FullPools(h) ELSE none
           t == Synchronized(h, hitPoints, pools)
<1>1. LeftByEncounter(h, end) = t
  BY DEF LeftByEncounter
<1>2. /\ FullHitPoints(h) \in Nat \ {0} /\ FullPools(h) \in PoolStates
      /\ \A p \in DOMAIN FullPools(h) : FullPools(h)[p] \in Nat
      /\ DOMAIN h.pools = DOMAIN FullPools(h)
  BY ValidHeroFacts DEF HeroIsValid
<1>3. none \in PoolStates /\ DOMAIN none = DOMAIN h.pools /\ \A p \in DOMAIN none : none[p] = 0
  <2>1. CASE h.pools \in FighterPools
    BY <2>1 DEF FighterPools, PoolStates
  <2>2. CASE h.pools \in SurgingPools
    BY <2>2 DEF SurgingPools, PoolStates
  <2>3. CASE h.pools \in WizardPools
    BY <2>3 DEF WizardPools, PoolStates
  <2>4. QED
    BY <2>1, <2>2, <2>3, HeroFields DEF PoolStates
<1> HIDE DEF none
<1>4. hitPoints \in Nat /\ hitPoints <= FullHitPoints(h)
  BY <1>2
<1>5. /\ pools \in PoolStates /\ DOMAIN pools = DOMAIN FullPools(h)
      /\ \A p \in DOMAIN pools : pools[p] <= FullPools(h)[p]
  BY <1>2, <1>3
<1> HIDE DEF hitPoints, pools
<1>6. CASE h.hitPoints = hitPoints /\ h.pools = pools
  BY <1>1, <1>6 DEF Synchronized
<1>7. CASE ~(h.hitPoints = hitPoints /\ h.pools = pools)
  <2> DEFINE revision == h.revision + 1
  <2>1. revision \in Nat
    BY HeroFields
  <2> HIDE DEF revision
  <2>2. t = [h EXCEPT !.hitPoints = hitPoints, !.pools = pools, !.revision = revision]
    BY <1>7 DEF Synchronized, revision
  <2> HIDE DEF t
  <2>3. /\ t \in HeroStates /\ t.choices = h.choices /\ t.level = h.level
        /\ t.experience = h.experience /\ t.revision = revision
        /\ t.hitPoints = hitPoints /\ t.pools = pools
    BY <1>4, <1>5, <2>1, <2>2 DEF HeroStates
  <2>4. FullHitPoints(t) = FullHitPoints(h) /\ FullPools(t) = FullPools(h)
    BY <2>3 DEF FullHitPoints, FullPools
  <2>5. HeroIsValid(t)
    BY <1>4, <1>5, <2>3, <2>4 DEF HeroIsValid
  <2>6. QED
    BY <1>1, <2>3, <2>5 DEF revision
<1>8. QED
  BY <1>6, <1>7

-----------------------------------------------------------------------------
(* A valid hero that stands can fight                                      *)

\* Each attack is one the rules of combat explain by an ability.
LEMMA AttacksExplained ==
    ASSUME NEW c \in HeroChoices, ChoicesAllowed(c), NEW a \in Attacks(c)
    PROVE  CombatAttack(c, a)
<1> DEFINE strength == Modifier(c.assignment, "strength")
           dexterity == Modifier(c.assignment, "dexterity")
<1>1. strength \in -1..3 /\ dexterity \in -1..3
  BY ModifierFacts DEF ChoicesAllowed, Abilities
<1>2. c.equipment.simple \in SimpleWeapons \cup {"none"}
  BY DEF HeroChoices, Equipment
<1> HIDE DEF strength, dexterity
<1>3. CASE c.equipment.simple # "none" /\ a = SimpleAttack(c)
  <2> DEFINE weapon == c.equipment.simple
             bonus == IF weapon \in Finesse THEN AtLeast(strength, dexterity) ELSE strength
             extra == IF weapon \in TwoHanded THEN 0 ELSE Dueling(c)
  <2>1. a = Attack(weapon, bonus, SimpleDie[weapon], extra, 5)
    BY <1>3 DEF SimpleAttack, strength, dexterity
  <2>2. SimpleDie[weapon] \in {4, 6, 8}
    BY <1>2, <1>3 DEF SimpleDie
  <2>3. bonus = strength \/ bonus = dexterity
    BY <1>1 DEF AtLeast
  <2> HIDE DEF bonus, extra, weapon
  <2>4. a.range = 5 /\ a.die \in {4, 6, 8} /\ a.bonus = bonus + Proficiency
    BY <2>1, <2>2 DEF Attack
  <2>5. QED
    BY <2>3, <2>4 DEF CombatAttack, strength, dexterity
<1>4. CASE a = LongswordAttack(c)
  <2>1. a.range = 5 /\ a.die \in {8, 10} /\ a.bonus = strength + Proficiency
    BY <1>4 DEF LongswordAttack, Attack, strength
  <2>2. QED
    BY <2>1 DEF CombatAttack, strength
<1>5. CASE a = CrossbowAttack(c)
  <2>1. a.range = 80 /\ a.die = 8 /\ a.bonus = dexterity + Proficiency
    BY <1>5 DEF CrossbowAttack, Attack, dexterity
  <2>2. QED
    BY <2>1 DEF CombatAttack, dexterity
<1>6. QED
  BY <1>3, <1>4, <1>5 DEF Attacks

\* A hero has from one to three attacks, each with another weapon.
LEMMA AttacksCounted ==
    ASSUME NEW c \in HeroChoices, ChoicesAllowed(c)
    PROVE  /\ Cardinality(Attacks(c)) \in 1..8
           /\ \A a, b \in Attacks(c) : a.weapon = b.weapon => a = b
<1> DEFINE three == {SimpleAttack(c), LongswordAttack(c), CrossbowAttack(c)}
<1>1. c.equipment.simple \in SimpleWeapons \cup {"none"}
  BY DEF HeroChoices, Equipment
<1>2. IsFiniteSet(three) /\ Cardinality(three) <= 3
  <2>1. IsFiniteSet({}) /\ Cardinality({}) = 0
    BY FS_EmptySet
  <2>2. /\ IsFiniteSet({SimpleAttack(c)}) /\ Cardinality({SimpleAttack(c)}) = 1
    BY FS_Singleton
  <2> DEFINE two == {SimpleAttack(c)} \cup {LongswordAttack(c)}
  <2>3. IsFiniteSet(two) /\ Cardinality(two) \in 1..2
    BY <2>2, FS_AddElement
  <2> HIDE DEF two
  <2>4. IsFiniteSet(two \cup {CrossbowAttack(c)}) /\ Cardinality(two \cup {CrossbowAttack(c)}) <= 3
    BY <2>3, FS_AddElement
  <2>5. three = two \cup {CrossbowAttack(c)}
    BY DEF two
  <2>6. QED
    BY <2>4, <2>5
<1>3. Attacks(c) \in SUBSET three
  BY DEF Attacks
<1>4. Attacks(c) # {}
  <2>1. c.class \in Classes /\ EquipmentAllowed(c.class, c.equipment)
    BY DEF ChoicesAllowed
  <2>2. CASE c.class.class = "fighter"
    <3>1. "light_crossbow" \in c.equipment.carried
      BY <2>1, <2>2 DEF EquipmentAllowed, FighterEquipment
    <3>2. CrossbowAttack(c) \in Attacks(c)
      BY <3>1 DEF Attacks
    <3>3. QED
      BY <3>2
  <2>3. CASE c.class.class # "fighter"
    <3>1. c.equipment.simple # "none"
      BY <2>1, <2>3 DEF EquipmentAllowed, WizardEquipment, WizardWeapons
    <3>2. SimpleAttack(c) \in Attacks(c)
      BY <3>1 DEF Attacks
    <3>3. QED
      BY <3>2
  <2>4. QED
    BY <2>2, <2>3
<1>5. Cardinality(Attacks(c)) \in 1..8
  <2>1. IsFiniteSet(Attacks(c)) /\ Cardinality(Attacks(c)) <= Cardinality(three)
    BY <1>2, <1>3, FS_Subset
  <2>2. Cardinality(Attacks(c)) \in Nat /\ Cardinality(three) \in Nat
    BY <1>2, <2>1, FS_CardinalityType
  <2>3. Cardinality(Attacks(c)) # 0
    BY <1>4, <2>1, FS_EmptySet
  <2>4. QED
    BY <1>2, <2>1, <2>2, <2>3
<1>6. ASSUME NEW a \in Attacks(c), NEW b \in Attacks(c), a.weapon = b.weapon
      PROVE  a = b
  <2>1. \A x \in Attacks(c) : \/ c.equipment.simple # "none" /\ x = SimpleAttack(c)
                              \/ x = LongswordAttack(c) \/ x = CrossbowAttack(c)
    BY DEF Attacks
  <2>2. /\ SimpleAttack(c).weapon = c.equipment.simple
        /\ LongswordAttack(c).weapon = "longsword"
        /\ CrossbowAttack(c).weapon = "light_crossbow"
    BY DEF SimpleAttack, LongswordAttack, CrossbowAttack, Attack
  <2>3. c.equipment.simple # "longsword" /\ c.equipment.simple # "light_crossbow"
    BY <1>1 DEF SimpleWeapons, D4Weapons, TwoHanded
  <2>4. QED
    BY <1>6, <2>1, <2>2, <2>3
<1>7. QED
  BY <1>5, <1>6

LEMMA SpellcastingReady ==
    ASSUME NEW c \in HeroChoices, ChoicesAllowed(c), c.class.class = "wizard"
    PROVE  CombatSpellcasting(Spellcasting(c))
<1> DEFINE intelligence == Modifier(c.assignment, "intelligence")
<1>1. intelligence \in -1..3
  BY ModifierFacts DEF ChoicesAllowed, Abilities
<1>2. /\ c.prepared \subseteq LevelOneSpells
      /\ Cardinality(c.prepared) = PreparedCapacity(1, intelligence)
  BY DEF ChoicesAllowed, SpellsAllowed
<1>3. Spellcasting(c).prepared = c.prepared
      /\ Spellcasting(c).attack = intelligence + Proficiency
      /\ Spellcasting(c).dc = 8 + intelligence + Proficiency
  BY DEF Spellcasting
<1> HIDE DEF intelligence
<1>4. PreparedCapacity(1, intelligence) # 0
  BY <1>1 DEF PreparedCapacity, AtMost, AtLeast
<1>5. c.prepared # {}
  BY <1>2, <1>4, FS_EmptySet
<1>6. QED
  BY <1>1, <1>2, <1>3, <1>5 DEF CombatSpellcasting, Proficiency

\* encounter_profile_from_hero accepts every hero that validate accepts and that stands.
LEMMA ValidHeroCanFight ==
    ASSUME NEW h \in HeroStates, HeroIsValid(h), h.hitPoints > 0
    PROVE  CanFight(h)
<1> DEFINE c == h.choices
           sheet == HeroSheet(h)
<1>1. c \in HeroChoices /\ ChoicesAllowed(c) /\ c.class \in Classes /\ h.level \in {1, 2}
  BY ValidHeroFacts, HeroFields
<1>2. /\ sheet.armorClass = ArmorClass(c) /\ sheet.speed = Speed(c)
      /\ sheet.attacks = Attacks(c) /\ sheet.pools = Pools(c.class, h.level)
      /\ sheet.spellcasting = IF c.class.class = "wizard" THEN {Spellcasting(c)} ELSE {}
  BY DEF HeroSheet, Sheet
<1> HIDE DEF sheet
<1>3. ArmorClass(c) > 0
  <2> DEFINE dexterity == Modifier(c.assignment, "dexterity")
  <2>1. dexterity \in -1..3
    BY <1>1, ModifierFacts DEF ChoicesAllowed, Abilities
  <2>2. c.equipment.armor \in {"chain_mail", "leather_armor", "none"}
    BY <1>1 DEF HeroChoices, Equipment, Armor
  <2> DEFINE base == CASE c.equipment.armor = "chain_mail" -> 16
                       [] c.equipment.armor = "leather_armor" -> 11 + dexterity
                       [] OTHER -> 10 + dexterity
  <2> HIDE DEF dexterity
  <2>3. base \in 9..16
    <3>1. CASE c.equipment.armor = "chain_mail"
      BY <3>1
    <3>2. CASE c.equipment.armor = "leather_armor"
      BY <2>1, <3>2
    <3>3. CASE c.equipment.armor = "none"
      BY <2>1, <3>3
    <3>4. QED
      BY <2>2, <3>1, <3>2, <3>3
  <2>4. ArmorClass(c) = base + (IF c.equipment.shield THEN 2 ELSE 0)
                             + (IF c.class.style = "defense" THEN 1 ELSE 0)
    BY DEF ArmorClass, dexterity
  <2> HIDE DEF base
  <2>5. QED
    BY <2>3, <2>4
<1>4. Speed(c) > 0 /\ Speed(c) % 5 = 0
  <2>1. Speed(c) \in {20, 30}
    BY DEF Speed
  <2>2. 20 % 5 = 0 /\ 30 % 5 = 0
    OBVIOUS
  <2>3. QED
    BY <2>1, <2>2
<1>5. Modifier(c.assignment, "constitution") \in (-5)..10
  <2>1. Modifier(c.assignment, "constitution") \in -1..3
    BY <1>1, ModifierFacts DEF ChoicesAllowed, Abilities
  <2>2. QED
    BY <2>1
<1>6. sheet.pools = CombatPools(c.class, h.level)
  BY <1>1, <1>2, PoolFacts
<1>7. /\ Cardinality(sheet.attacks) \in 1..8
      /\ \A a \in sheet.attacks : CombatAttack(c, a)
      /\ \A a, b \in sheet.attacks : a.weapon = b.weapon => a = b
  BY <1>1, <1>2, AttacksExplained, AttacksCounted
<1>8. /\ c.class.class = "wizard" <=> sheet.spellcasting # {}
      /\ \A s \in sheet.spellcasting : CombatSpellcasting(s)
  BY <1>1, <1>2, SpellcastingReady
<1>9. sheet.armorClass > 0 /\ sheet.speed > 0 /\ sheet.speed % 5 = 0
  BY <1>2, <1>3, <1>4
<1>10. QED
  BY <1>5, <1>6, <1>7, <1>8, <1>9 DEF CanFight, sheet

-----------------------------------------------------------------------------
(* What a server holds stays true                                          *)

\* How the pins and the hero change while servers work.
Grows ==
    /\ pins # Unpinned => pins' = pins
    /\ heroes # {} => heroes' # {}
    /\ \A h \in heroes, g \in heroes' :
          /\ g.hero.choices = h.hero.choices
          /\ g.hero = h.hero \/ g.hero.revision = h.hero.revision + 1

LEMMA StandingGrows ==
    ASSUME pins' = pins, heroes' = heroes, HeroStands
    PROVE  Grows
BY DEF Grows, HeroStands

LEMMA HeroRevision ==
    ASSUME DatabaseTypeOK
    PROVE  \A h \in heroes : h.hero \in HeroStates /\ h.hero.revision \in Nat /\ h.draft \in Drafts
BY HeroFields DEF DatabaseTypeOK, HeroDocuments

LEMMA HeroesAreNext ==
    ASSUME DatabaseTypeOK, DatabaseTypeOK', Grows, NEW n \in Nat,
           NEW h \in heroes, NEW g \in heroes'
    PROVE  /\ n <= h.hero.revision => n <= g.hero.revision
           /\ n <= h.hero.revision /\ n = g.hero.revision => g.hero = h.hero
<1>1. h.hero.revision \in Nat /\ g.hero.revision \in Nat
  BY HeroFields DEF DatabaseTypeOK, HeroDocuments
<1>2. CASE g.hero = h.hero
  BY <1>2
<1>3. CASE g.hero.revision = h.hero.revision + 1
  BY <1>1, <1>3
<1>4. QED
  BY <1>2, <1>3 DEF Grows

\* The hero read, if it is still the present one, and the hero derived from it.
LEMMA ReadHeroKept ==
    ASSUME DatabaseTypeOK, DatabaseTypeOK', Grows, NEW n, ReadHeroOf(n)
    PROVE  ReadHeroOf(n)'
<1>1. n \in HeroStates /\ HeroIsValid(n) /\ n.revision \in Nat /\ heroes # {} /\ heroes' # {}
  BY HeroFields DEF ReadHeroOf, Grows
<1>2. ASSUME NEW g \in heroes'
      PROVE  /\ n.choices = g.hero.choices
             /\ n.revision <= g.hero.revision
             /\ n.revision = g.hero.revision => n = g.hero
  <2>1. PICK h \in heroes : TRUE
    BY <1>1
  <2>2. /\ n.choices = h.hero.choices /\ n.revision <= h.hero.revision
        /\ n.revision = h.hero.revision => n = h.hero
    BY DEF ReadHeroOf
  <2>3. /\ n.revision <= g.hero.revision
        /\ n.revision = g.hero.revision => g.hero = h.hero
    BY <1>1, <2>2, HeroesAreNext
  <2>4. g.hero.choices = h.hero.choices
    BY DEF Grows
  <2>5. QED
    BY <2>2, <2>3, <2>4
<1>3. QED
  BY <1>1, <1>2 DEF ReadHeroOf

LEMMA DerivedHeroKept ==
    ASSUME DatabaseTypeOK, DatabaseTypeOK', Grows, NEW n, NEW c \in ToHero, DerivedHero(n, c)
    PROVE  DerivedHero(n, c)'
<1>1. c.expected \in Nat
  BY DEF ToHero, RewardCommands, OtherCommands
<1>2. /\ n \in HeroStates /\ HeroIsValid(n) /\ n.revision = c.expected + 1
      /\ heroes # {} /\ heroes' # {}
  BY DEF DerivedHero, Grows
<1>3. ASSUME NEW g \in heroes'
      PROVE  /\ n.choices = g.hero.choices
             /\ c.expected <= g.hero.revision
             /\ c.expected = g.hero.revision =>
                   HeroCommandAllowed(g.hero, c) /\ n = HeroSuccessor(g.hero, c)
  <2>1. PICK h \in heroes : TRUE
    BY <1>2
  <2>2. /\ n.choices = h.hero.choices /\ c.expected <= h.hero.revision
        /\ c.expected = h.hero.revision =>
              HeroCommandAllowed(h.hero, c) /\ n = HeroSuccessor(h.hero, c)
    BY DEF DerivedHero
  <2>3. /\ c.expected <= g.hero.revision
        /\ c.expected = g.hero.revision => g.hero = h.hero
    BY <1>1, <2>2, HeroesAreNext
  <2>4. g.hero.choices = h.hero.choices
    BY DEF Grows
  <2>5. QED
    BY <2>2, <2>3, <2>4
<1>4. QED
  BY <1>2, <1>3 DEF DerivedHero

LEMMA HoldsKept ==
    ASSUME DatabaseTypeOK, DatabaseTypeOK', Grows, NEW r, Holds(r)
    PROVE  Holds(r)'
<1> DEFINE c == r.command
           n == r.successor
<1>1. /\ r.selected \in {Unpinned, pins} /\ r.reply # "quarantined"
      /\ r.step # "idle" => c \in StartCommands \cup CreateCommands \cup ToHero
      /\ r.step = "create" => c \in StartCommands
      /\ r.step \in {"receipt", "apply", "claim", "commit"} => c \notin StartCommands
  BY DEF Holds
<1>2. r.selected \in {Unpinned, pins'}
  BY <1>1 DEF Grows
<1>3. r.step = "claim" => c \in OtherCommands /\ c.kind = "claim" /\ ReadHeroOf(n)'
  BY ReadHeroKept DEF Holds
<1>4. r.step = "commit" /\ c \in CreateCommands => DerivedDraft(n, c)'
  BY DEF Holds, DerivedDraft, Grows
<1>5. r.step = "commit" /\ c \in ToHero => DerivedHero(n, c)'
  BY DerivedHeroKept DEF Holds
<1>6. QED
  BY <1>1, <1>2, <1>3, <1>4, <1>5 DEF Holds

LEMMA HoldsOfServer ==
    ASSUME NEW s, NEW r, server'[s] = r, Holds(r)'
    PROVE  Holds(server[s])'
BY DEF Holds, ReadHeroOf, DerivedDraft, DerivedHero

\* A step of the database, by which at most one server goes on.
LEMMA ServersKept ==
    ASSUME HeroesInv, DatabaseInv', Grows, NEW s \in Servers, NEW r \in ServerStates, Holds(r)',
           server' = [server EXCEPT ![s] = r]
    PROVE  HeroesInv'
<1>1. DatabaseTypeOK /\ DatabaseTypeOK'
  BY DEF HeroesInv, DatabaseInv
<1>2. server' \in [Servers -> ServerStates]
  BY DEF HeroesInv
<1>3. ASSUME NEW t \in Servers
      PROVE  Holds(server[t])'
  <2>1. CASE server'[t] = r
    BY <2>1, HoldsOfServer
  <2>2. CASE server'[t] = server[t]
    <3>1. PICK q : q = server[t]
      OBVIOUS
    <3>2. Holds(server[t])
      BY DEF HeroesInv
    <3>3. Holds(q)
      BY <3>1, <3>2 DEF Holds, ReadHeroOf, DerivedDraft, DerivedHero
    <3>4. Holds(q)'
      BY <1>1, <3>3, HoldsKept
    <3>5. QED
      BY <2>2, <3>1, <3>4, HoldsOfServer
  <2>3. QED
    BY <2>1, <2>2 DEF HeroesInv
<1>4. QED
  BY <1>2, <1>3 DEF HeroesInv

\* A step of the database alone.
LEMMA ServersStand ==
    ASSUME HeroesInv, DatabaseInv', Grows, server' = server
    PROVE  HeroesInv'
<1>1. server' \in [Servers -> ServerStates]
  BY DEF HeroesInv
<1>2. ASSUME NEW t \in Servers
      PROVE  Holds(server[t])'
  <2>1. PICK q : q = server[t]
    OBVIOUS
  <2>2. Holds(server[t])
    BY DEF HeroesInv
  <2>3. Holds(q)
    BY <2>1, <2>2 DEF Holds, ReadHeroOf, DerivedDraft, DerivedHero
  <2>4. Holds(q)'
    BY <2>3, HoldsKept DEF HeroesInv, DatabaseInv
  <2>5. QED
    BY <2>1, <2>4, HoldsOfServer
<1>3. QED
  BY <1>1, <1>2 DEF HeroesInv

-----------------------------------------------------------------------------
(* Commands and what a server may hold                                     *)

LEMMA KindsOfCommands ==
    /\ \A c \in StartCommands : c.kind = "start" /\ c.draft \in Drafts
    /\ \A c \in CreateCommands :
          /\ c.kind = "create" /\ c.draft \in Drafts /\ c.client \in Clients
          /\ c.expected \in 0..Committed /\ c.intent \in 0..CommitStep
          /\ \E offer \in Offers[c.draft] : c.selection = Selection(c.intent, offer)
    /\ \A c \in RewardCommands :
          /\ c.kind = "reward" /\ c.client \in Clients /\ c.expected \in Nat /\ c.tier \in Tiers
    /\ \A c \in OtherCommands :
          /\ c.kind \in {"levelUp", "claim"} /\ c.client \in Clients /\ c.expected \in Nat
<1>1. ASSUME NEW c \in CreateCommands
      PROVE  /\ c.kind = "create" /\ c.draft \in Drafts /\ c.client \in Clients
             /\ c.expected \in 0..Committed /\ c.intent \in 0..CommitStep
             /\ \E offer \in Offers[c.draft] : c.selection = Selection(c.intent, offer)
  <2>1. PICK d \in Drafts, i \in 0..CommitStep : c \in IntentCommands(d, i)
    BY DEF CreateCommands
  <2>2. c.selection \in Selections(c.draft, c.intent)
    BY <2>1 DEF IntentCommands
  <2>3. QED
    BY <2>1, <2>2 DEF IntentCommands, Selections
<1>2. QED
  BY <1>1 DEF StartCommands, RewardCommands, OtherCommands

LEMMA ServerFields ==
    ASSUME NEW r \in ServerStates
    PROVE  /\ r.step \in Steps /\ r.selected \in Themes \cup {Unpinned} /\ r.reply \in Replies
           /\ r.command \in StartCommands \cup CreateCommands \cup ToHero \cup {NoCommand}
           /\ r.successor \in DraftStates \cup HeroStates \cup {NoCommand}
BY DEF ServerStates

LEMMA ServerAdvances ==
    ASSUME NEW r \in ServerStates, NEW step \in Steps, NEW selected \in Themes \cup {Unpinned},
           NEW successor \in DraftStates \cup HeroStates \cup {NoCommand}
    PROVE  /\ [r EXCEPT !.step = step] \in ServerStates
           /\ [r EXCEPT !.step = step, !.selected = selected] \in ServerStates
           /\ [r EXCEPT !.step = step, !.successor = successor] \in ServerStates
BY DEF ServerStates

LEMMA IdleHolds ==
    /\ Idle("answered") \in ServerStates
    /\ Holds(Idle("answered")) /\ Holds(Idle("answered"))'
BY DEF Idle, ServerStates, Steps, Replies, Holds

LEMMA HeldFacts ==
    ASSUME HeroesInv, NEW s \in Servers
    PROVE  /\ server \in [Servers -> ServerStates] /\ server[s] \in ServerStates
           /\ Holds(server[s])
           /\ server[s].selected \in {Unpinned, pins} /\ server[s].reply # "quarantined"
           /\ ~At(s, "idle") => server[s].command \in StartCommands \cup CreateCommands \cup ToHero
           /\ At(s, "create") => server[s].command \in StartCommands
           /\ At(s, "receipt") \/ At(s, "apply") \/ At(s, "claim") \/ At(s, "commit") =>
                 server[s].command \notin StartCommands
           /\ At(s, "claim") => /\ server[s].command \in OtherCommands
                                /\ server[s].command.kind = "claim"
                                /\ ReadHeroOf(server[s].successor)
           /\ At(s, "commit") /\ server[s].command \in CreateCommands =>
                 DerivedDraft(server[s].successor, server[s].command)
           /\ At(s, "commit") /\ server[s].command \in ToHero =>
                 DerivedHero(server[s].successor, server[s].command)
<1>1. server \in [Servers -> ServerStates] /\ Holds(server[s])
  BY DEF HeroesInv
<1>2. QED
  BY <1>1 DEF Holds, At

-----------------------------------------------------------------------------
(* The reads of a command                                                  *)

LEMMA QuietStep ==
    ASSUME HeroesInv, NEW s \in Servers, UNCHANGED databaseVars,
           NEW r \in ServerStates, Holds(r),
           server' = [server EXCEPT ![s] = r]
    PROVE  HeroesInv'
<1>1. DatabaseInv
  BY DEF HeroesInv
<1>2. DatabaseInv'
  BY <1>1 DEF DatabaseInv, databaseVars, DatabaseTypeOK, DraftsAgree, HeroStands, ClaimsAgree,
              LevelAgrees, Stored
<1>3. Grows
  BY <1>1, StandingGrows DEF DatabaseInv, databaseVars
<1>4. Holds(r)'
  BY <1>1, <1>2, <1>3, HoldsKept DEF DatabaseInv
<1>5. QED
  BY <1>2, <1>3, <1>4, ServersKept

LEMMA AnsweredStep ==
    ASSUME HeroesInv, NEW s \in Servers, UNCHANGED databaseVars, Answer(s, "answered")
    PROVE  HeroesInv'
BY IdleHolds, QuietStep DEF Answer

LEMMA GotoStep ==
    ASSUME HeroesInv, NEW s \in Servers, UNCHANGED databaseVars, ~At(s, "idle"),
           NEW step \in {"hero", "draft", "pins", "apply", "duplicate", "recheck"},
           Goto(s, step),
           step = "apply" => server[s].command \notin StartCommands
    PROVE  HeroesInv'
<1>1. PICK r : r = [server[s] EXCEPT !.step = step]
  OBVIOUS
<1>2. r \in ServerStates
  BY <1>1, HeldFacts, ServerAdvances DEF Steps
<1>3. server' = [server EXCEPT ![s] = r]
  BY <1>1 DEF Goto
<1>4. r.step = step /\ r.selected = server[s].selected /\ r.command = server[s].command
      /\ r.successor = server[s].successor /\ r.reply = server[s].reply
  BY <1>1, HeldFacts, ServerFields DEF ServerStates
<1>5. Holds(r)
  BY <1>4, HeldFacts DEF Holds, At
<1>6. QED
  BY <1>2, <1>3, <1>5, QuietStep

LEMMA ReadHeroKeepsInv ==
    ASSUME HeroesInv, NEW s \in Servers, ReadHero(s)
    PROVE  HeroesInv'
<1>1. UNCHANGED databaseVars /\ ~At(s, "idle")
  BY DEF ReadHero, At
<1>2. CASE heroes = {}
  BY <1>1, <1>2, GotoStep DEF ReadHero
<1>3. CASE heroes # {}
  <2>1. PICK h \in heroes :
            server' = [server EXCEPT ![s].step = "pins", ![s].selected = h.hero.choices.theme]
    BY <1>3 DEF ReadHero
  <2>2. PICK r : r = [server[s] EXCEPT !.step = "pins", !.selected = h.hero.choices.theme]
    OBVIOUS
  <2>3. h.hero.choices.theme = pins /\ pins \in Themes \cup {Unpinned}
    BY DEF HeroesInv, DatabaseInv, DatabaseTypeOK, HeroStands
  <2>4. r \in ServerStates
    BY <2>2, <2>3, HeldFacts, ServerAdvances, ServerFields DEF Steps
  <2>5. server' = [server EXCEPT ![s] = r]
    BY <2>1, <2>2, HeldFacts
  <2>6. r.step = "pins" /\ r.selected = pins /\ r.command = server[s].command
        /\ r.reply = server[s].reply
    BY <2>2, <2>3, HeldFacts DEF ServerStates
  <2>7. Holds(r)
    BY <1>1, <2>6, HeldFacts DEF Holds, At
  <2>8. QED
    BY <1>1, <2>4, <2>5, <2>7, QuietStep
<1>4. QED
  BY <1>2, <1>3

LEMMA ReadPinnedDraftKeepsInv ==
    ASSUME HeroesInv, NEW s \in Servers, ReadPinnedDraft(s)
    PROVE  HeroesInv'
<1>1. UNCHANGED databaseVars /\ ~At(s, "idle")
  BY DEF ReadPinnedDraft, At
<1>2. CASE Pinned = {}
  BY <1>1, <1>2, GotoStep DEF ReadPinnedDraft
<1>3. CASE Pinned # {}
  <2>1. PICK d \in Pinned :
            server' = [server EXCEPT ![s].step = "pins", ![s].selected = drafts[d].choices.theme]
    BY <1>3 DEF ReadPinnedDraft
  <2>2. PICK r : r = [server[s] EXCEPT !.step = "pins", !.selected = drafts[d].choices.theme]
    OBVIOUS
  <2>3. drafts[d].choices.theme = pins /\ pins \in Themes \cup {Unpinned}
    BY DEF HeroesInv, DatabaseInv, DatabaseTypeOK, DraftsAgree, Pinned
  <2>4. r \in ServerStates
    BY <2>2, <2>3, HeldFacts, ServerAdvances, ServerFields DEF Steps
  <2>5. server' = [server EXCEPT ![s] = r]
    BY <2>1, <2>2, HeldFacts
  <2>6. r.step = "pins" /\ r.selected = pins /\ r.command = server[s].command
        /\ r.reply = server[s].reply
    BY <2>2, <2>3, HeldFacts DEF ServerStates
  <2>7. Holds(r)
    BY <1>1, <2>6, HeldFacts DEF Holds, At
  <2>8. QED
    BY <1>1, <2>4, <2>5, <2>7, QuietStep
<1>4. QED
  BY <1>2, <1>3

\* Nothing is ever quarantined, so that the read of the pins answers or goes on.
LEMMA NeverQuarantined ==
    ASSUME HeroesInv, NEW s \in Servers
    PROVE  ~Quarantined(server[s].selected)
BY HeldFacts DEF HeroesInv, DatabaseInv, Quarantined

LEMMA ReadPinsKeepsInv ==
    ASSUME HeroesInv, NEW s \in Servers, ReadPins(s)
    PROVE  HeroesInv'
<1> DEFINE c == server[s].command
<1>1. UNCHANGED databaseVars /\ ~At(s, "idle") /\ ~Quarantined(server[s].selected)
  BY NeverQuarantined DEF ReadPins, At
<1>2. CASE Answer(s, "answered")
  BY <1>1, <1>2, AnsweredStep
<1>3. CASE server' = [server EXCEPT ![s].step = AfterPins(c), ![s].selected = Unpinned]
  <2>1. c \in StartCommands \cup CreateCommands \cup ToHero
    BY <1>1, HeldFacts
  <2>2. PICK step : step = AfterPins(c)
    OBVIOUS
  <2>3. step \in {"create", "apply", "receipt"} /\ (step = "create" <=> c \in StartCommands)
    BY <2>1, <2>2, KindsOfCommands DEF AfterPins, ToHero
  <2>4. PICK r : r = [server[s] EXCEPT !.step = step, !.selected = Unpinned]
    OBVIOUS
  <2>5. r \in ServerStates
    BY <2>3, <2>4, HeldFacts, ServerAdvances DEF Steps
  <2>6. server' = [server EXCEPT ![s] = r]
    BY <1>3, <2>2, <2>4, HeldFacts
  <2>7. r.step = step /\ r.selected = Unpinned /\ r.command = c /\ r.reply = server[s].reply
    BY <2>4, HeldFacts DEF ServerStates
  <2>8. Holds(r)
    BY <2>1, <2>3, <2>7, HeldFacts DEF Holds
  <2>9. QED
    BY <1>1, <2>5, <2>6, <2>8, QuietStep
<1>4. QED
  BY <1>1, <1>2, <1>3 DEF ReadPins

LEMMA ReadReceiptKeepsInv ==
    ASSUME HeroesInv, NEW s \in Servers, ReadReceipt(s)
    PROVE  HeroesInv'
<1>1. UNCHANGED databaseVars /\ ~At(s, "idle") /\ server[s].command \notin StartCommands
  BY HeldFacts DEF ReadReceipt, At
<1>2. CASE Answer(s, "answered")
  BY <1>1, <1>2, AnsweredStep
<1>3. CASE Goto(s, "hero") \/ Goto(s, "apply")
  BY <1>1, <1>3, GotoStep
<1>4. QED
  BY <1>2, <1>3 DEF ReadReceipt

LEMMA ExplainDuplicateKeepsInv ==
    ASSUME HeroesInv, NEW s \in Servers, ExplainDuplicate(s) \/ Recheck(s)
    PROVE  HeroesInv'
<1>1. UNCHANGED databaseVars /\ ~At(s, "idle")
  BY DEF ExplainDuplicate, Recheck, At
<1>2. CASE Answer(s, "answered")
  BY <1>1, <1>2, AnsweredStep
<1>3. CASE Goto(s, "recheck")
  BY <1>1, <1>3, GotoStep
<1>4. QED
  BY <1>2, <1>3 DEF ExplainDuplicate, Recheck

\* A command is received only as a client may send it.
LEMMA ReceiveKeepsInv ==
    ASSUME HeroesInv, NEW s \in Servers, Receive(s)
    PROVE  HeroesInv'
<1>1. UNCHANGED databaseVars /\ DatabaseTypeOK
  BY DEF Receive, HeroesInv, DatabaseInv
<1>2. ASSUME NEW c \in StartCommands \cup CreateCommands \cup ToHero, Accept(s, c)
      PROVE  HeroesInv'
  <2>1. PICK r : r = [Idle("answered") EXCEPT
                         !.step = IF c.kind = "create" THEN "receipt" ELSE "hero", !.command = c]
    OBVIOUS
  <2>2. /\ r.step = IF c.kind = "create" THEN "receipt" ELSE "hero"
        /\ r.selected = Unpinned /\ r.command = c /\ r.reply = "answered"
        /\ r \in ServerStates
    BY <2>1 DEF Idle, ServerStates, Steps, Replies
  <2>3. server' = [server EXCEPT ![s] = r]
    BY <1>2, <2>1 DEF Accept
  <2>4. r.step = "receipt" => c \notin StartCommands
    BY <2>2, KindsOfCommands
  <2>5. Holds(r)
    BY <2>2, <2>4 DEF Holds
  <2>6. QED
    BY <1>1, <2>2, <2>3, <2>5, QuietStep
<1>3. ASSUME NEW d \in Drafts, Accept(s, [kind |-> "start", draft |-> d])
      PROVE  HeroesInv'
  <2>1. [kind |-> "start", draft |-> d] \in StartCommands
    BY DEF StartCommands
  <2>2. QED
    BY <1>2, <1>3, <2>1
<1>4. ASSUME NEW d \in Started, NEW c \in Intents(d), Accept(s, c)
      PROVE  HeroesInv'
  <2>1. d \in Drafts /\ drafts[d].step \in 0..Committed
    BY <1>1 DEF Started, DatabaseTypeOK, DraftStates
  <2>2. PICK i \in NextIntents(drafts[d].step) :
            c \in [kind : {"create"}, client : Clients, draft : {d}, expected : {drafts[d].step},
                   intent : {i}, selection : {Selection(i, offer) : offer \in Offers[d]}]
    BY <1>4 DEF Intents
  <2>3. i \in 0..CommitStep
    BY <2>1 DEF NextIntents, Committed, CommitStep, ReviewStep
  <2>4. c \in IntentCommands(d, i)
    BY <2>1, <2>2 DEF IntentCommands, Selections
  <2>5. c \in CreateCommands
    BY <2>1, <2>3, <2>4 DEF CreateCommands
  <2>6. QED
    BY <1>2, <1>4, <2>5
<1>5. ASSUME NEW c \in HeroCommands, Accept(s, c)
      PROVE  HeroesInv'
  <2>1. {h.hero.revision : h \in heroes} \subseteq Nat
    BY <1>1, HeroRevision
  <2>2. OfferedTiers \subseteq Tiers
    BY HeroesAssumption
  <2>3. c \in ToHero
    BY <1>5, <2>1, <2>2 DEF HeroCommands, ToHero, RewardCommands, OtherCommands
  <2>4. QED
    BY <1>2, <1>5, <2>3
<1>6. ASSUME NEW c \in receipts, Accept(s, c)
      PROVE  HeroesInv'
  BY <1>1, <1>2, <1>6 DEF DatabaseTypeOK
<1>7. QED
  BY <1>3, <1>4, <1>5, <1>6 DEF Receive

-----------------------------------------------------------------------------
(* What a command derives                                                  *)

LEMMA ChosenGood ==
    ASSUME NEW choices \in HeroChoices, NEW offer \in HeroChoices, NEW step \in 0..Committed
    PROVE  /\ Chosen(choices, Selection(step, offer)) \in HeroChoices
           /\ step # ThemeStep => Chosen(choices, Selection(step, offer)).theme = choices.theme
           /\ step = ThemeStep => /\ Chosen(choices, Selection(step, offer)).theme = offer.theme
                                  /\ Selection(step, offer).theme = offer.theme
<1> DEFINE t == Chosen(choices, Selection(step, offer))
           parts == {"theme", "class", "assignment", "background", "equipment", "prepared"}
<1>1. DOMAIN choices = parts
  BY DEF HeroChoices
<1>2. t = [part \in parts |-> IF part \in SelectedBy(step) THEN offer[part] ELSE choices[part]]
  BY <1>1 DEF Chosen, Selection
<1>3. /\ t.theme \in {offer.theme, choices.theme} /\ t.class \in {offer.class, choices.class}
      /\ t.assignment \in {offer.assignment, choices.assignment}
      /\ t.background \in {offer.background, choices.background}
      /\ t.equipment \in {offer.equipment, choices.equipment}
      /\ t.prepared \in {offer.prepared, choices.prepared}
  BY <1>2
<1>4. t = [theme |-> t.theme, class |-> t.class, assignment |-> t.assignment,
           background |-> t.background, equipment |-> t.equipment, prepared |-> t.prepared]
  BY <1>2
<1> HIDE DEF t
<1>5. t \in HeroChoices
  BY <1>3, <1>4 DEF HeroChoices
<1>6. step # ThemeStep => "theme" \notin SelectedBy(step)
  BY DEF SelectedBy, ThemeStep, RulesStep, AbilitiesStep, BackgroundStep, EquipmentStep
<1>7. step # ThemeStep => t.theme = choices.theme
  BY <1>2, <1>6
<1>8. "theme" \in SelectedBy(ThemeStep)
  BY DEF SelectedBy, ThemeStep, RulesStep, AbilitiesStep, BackgroundStep, EquipmentStep
<1>9. Selection(ThemeStep, offer).theme = offer.theme /\ "theme" \in DOMAIN Selection(ThemeStep, offer)
  BY <1>8 DEF Selection
<1>10. Chosen(choices, Selection(ThemeStep, offer)).theme = offer.theme
  BY <1>1, <1>9 DEF Chosen
<1>11. QED
  BY <1>5, <1>7, <1>9, <1>10 DEF t

\* What a server derives goes to its transaction.
LEMMA DerivedStep ==
    ASSUME HeroesInv, NEW s \in Servers, UNCHANGED databaseVars,
           ~At(s, "idle"), server[s].command \notin StartCommands,
           NEW step \in {"claim", "commit"}, NEW n \in DraftStates \cup HeroStates,
           Derived(s, step, n),
           step = "claim" => /\ server[s].command \in OtherCommands
                             /\ server[s].command.kind = "claim" /\ ReadHeroOf(n),
           step = "commit" /\ server[s].command \in CreateCommands =>
               DerivedDraft(n, server[s].command),
           step = "commit" /\ server[s].command \in ToHero => DerivedHero(n, server[s].command)
    PROVE  HeroesInv'
<1>1. PICK r : r = [server[s] EXCEPT !.step = step, !.successor = n]
  OBVIOUS
<1>2. r \in ServerStates
  BY <1>1, HeldFacts, ServerAdvances, ServerFields DEF Steps
<1>3. server' = [server EXCEPT ![s] = r]
  BY <1>1, HeldFacts DEF Derived
<1>4. r.step = step /\ r.selected = server[s].selected /\ r.command = server[s].command
      /\ r.successor = n /\ r.reply = server[s].reply
  BY <1>1, HeldFacts DEF ServerStates
<1>5. Holds(r)
  BY <1>4, HeldFacts DEF Holds
<1>6. QED
  BY <1>2, <1>3, <1>5, QuietStep

LEMMA DraftFacts ==
    ASSUME DatabaseTypeOK, NEW d \in Drafts
    PROVE  /\ drafts[d] \in DraftStates /\ drafts[d].age \in Ages
           /\ drafts[d].step \in 0..Committed /\ drafts[d].choices \in HeroChoices
BY DEF DatabaseTypeOK, DraftStates

LEMMA OfferFacts ==
    ASSUME NEW c \in CreateCommands
    PROVE  \E offer \in HeroChoices : offer.theme \in Themes /\ c.selection = Selection(c.intent, offer)
BY KindsOfCommands, HeroesAssumption

LEMMA SuccessorGood ==
    ASSUME DatabaseInv, NEW c \in CreateCommands, IntentAllowed(drafts[c.draft], c)
    PROVE  DerivedDraft(Successor(drafts[c.draft], c), c)
<1> DEFINE d == c.draft
           n == Successor(drafts[d], c)
<1>1. /\ d \in Drafts /\ drafts[d] \in DraftStates /\ drafts[d].step \in 0..Committed
      /\ drafts[d].choices \in HeroChoices
      /\ c.expected = drafts[d].step /\ c.intent = drafts[d].step /\ drafts[d].step # Committed
      /\ drafts[d].age = "live" /\ SelectionAllowed(drafts[d].step, n.choices)
  BY KindsOfCommands, DraftFacts DEF IntentAllowed, DatabaseInv
<1>2. PICK offer \in HeroChoices : offer.theme \in Themes /\ c.selection = Selection(c.intent, offer)
  BY OfferFacts
<1> DEFINE choices == Chosen(drafts[d].choices, c.selection)
<1>3. /\ choices \in HeroChoices
      /\ c.intent # ThemeStep => choices.theme = drafts[d].choices.theme
      /\ c.intent = ThemeStep => choices.theme = offer.theme /\ c.selection.theme = offer.theme
  <2>1. choices = Chosen(drafts[d].choices, Selection(c.intent, offer)) /\ c.intent \in 0..Committed
    BY <1>1, <1>2
  <2> HIDE DEF choices
  <2>2. choices \in HeroChoices /\ (c.intent # ThemeStep => choices.theme = drafts[d].choices.theme)
    BY <1>1, <2>1, ChosenGood
  <2>3. c.intent = ThemeStep =>
            /\ Chosen(drafts[d].choices, Selection(c.intent, offer)).theme = offer.theme
            /\ Selection(c.intent, offer).theme = offer.theme
    <3> HIDE DEF d
    <3>1. drafts[d].choices \in HeroChoices /\ c.intent \in 0..Committed
      BY <1>1, <2>1 DEF d
    <3>2. QED
      BY <3>1, ChosenGood
  <2>4. QED
    BY <1>2, <2>1, <2>2, <2>3
<1> HIDE DEF choices
<1>4. n = [drafts[d] EXCEPT !.step = drafts[d].step + 1, !.choices = choices]
  BY DEF Successor, choices
<1>5. drafts[d].step + 1 \in 0..Committed
  BY <1>1 DEF Committed
<1>6. n \in DraftStates /\ n.step = drafts[d].step + 1 /\ n.choices = choices
  BY <1>1, <1>3, <1>4, <1>5 DEF DraftStates
<1>7. c.intent # ThemeStep => pins # Unpinned /\ choices.theme = pins
  <2>1. SUFFICES ASSUME c.intent # ThemeStep PROVE pins # Unpinned /\ choices.theme = pins
    OBVIOUS
  <2>2. drafts[d].step > 0 /\ Stored(d)
    BY <1>1, <2>1 DEF ThemeStep, Stored
  <2>3. QED
    BY <1>1, <1>3, <2>1, <2>2 DEF DatabaseInv, DraftsAgree
<1>8. QED
  BY <1>1, <1>3, <1>6, <1>7 DEF DerivedDraft

LEMMA ApplyIntentKeepsInv ==
    ASSUME HeroesInv, NEW s \in Servers, ApplyIntent(s)
    PROVE  HeroesInv'
<1> DEFINE c == server[s].command
<1>1. /\ UNCHANGED databaseVars /\ ~At(s, "idle") /\ c \notin StartCommands
      /\ c \in CreateCommands /\ DatabaseInv
  BY HeldFacts, KindsOfCommands DEF ApplyIntent, At, ToHero, HeroesInv
<1>2. CASE Answer(s, "answered")
  BY <1>1, <1>2, AnsweredStep
<1>3. CASE IntentAllowed(drafts[c.draft], c) /\ Derived(s, "commit", Successor(drafts[c.draft], c))
  <2>1. PICK n : n = Successor(drafts[c.draft], c)
    OBVIOUS
  <2>2. DerivedDraft(Successor(drafts[c.draft], c), c)
    BY <1>1, <1>3, SuccessorGood
  <2>3. DerivedDraft(n, c) /\ n \in DraftStates
    BY <2>1, <2>2 DEF DerivedDraft
  <2>4. c \notin ToHero
    BY <1>1, KindsOfCommands DEF ToHero
  <2>5. QED
    BY <1>1, <1>3, <2>1, <2>3, <2>4, DerivedStep
<1>4. QED
  BY <1>2, <1>3 DEF ApplyIntent

LEMMA HeroSuccessorGood ==
    ASSUME NEW h \in HeroStates, NEW c \in ToHero, HeroCommandAllowed(h, c)
    PROVE  LET t == HeroSuccessor(h, c)
           IN  /\ t \in HeroStates /\ HeroIsValid(t)
               /\ t.choices = h.choices /\ t.revision = h.revision + 1
               /\ t.level = IF c.kind = "levelUp" THEN 2 ELSE h.level
<1>1. HeroIsValid(h) /\ c.kind \in {"reward", "levelUp", "claim"}
  BY KindsOfCommands DEF HeroCommandAllowed, ToHero
<1>2. CASE c.kind = "reward"
  <2>1. c.tier \in Tiers
    BY <1>2, KindsOfCommands DEF ToHero
  <2>2. RewardAllowed(h, c.tier) /\ HeroSuccessor(h, c) = Rewarded(h, c.tier)
    BY <1>2 DEF HeroCommandAllowed, HeroSuccessor
  <2>3. QED
    BY <1>1, <1>2, <2>1, <2>2, RewardedGood
<1>3. CASE c.kind = "claim"
  <2>1. "major" \in Tiers
    BY DEF Tiers
  <2>2. RewardAllowed(h, "major") /\ HeroSuccessor(h, c) = Rewarded(h, "major")
    BY <1>3 DEF HeroCommandAllowed, HeroSuccessor
  <2>3. QED
    BY <1>1, <1>3, <2>1, <2>2, RewardedGood
<1>4. CASE c.kind = "levelUp"
  <2>1. LevelUpAllowed(h) /\ HeroSuccessor(h, c) = LeveledUp(h)
    BY <1>4 DEF HeroCommandAllowed, HeroSuccessor
  <2>2. QED
    BY <1>1, <1>4, <2>1, LeveledUpGood
<1>5. QED
  BY <1>1, <1>2, <1>3, <1>4

\* What is derived from a hero read before.
LEMMA DerivedFromRead ==
    ASSUME DatabaseInv, NEW m, ReadHeroOf(m), NEW c \in ToHero, HeroCommandAllowed(m, c)
    PROVE  DerivedHero(HeroSuccessor(m, c), c)
<1>1. m \in HeroStates /\ heroes # {} /\ m.revision \in Nat /\ c.expected = m.revision
  BY HeroFields DEF ReadHeroOf, HeroCommandAllowed
<1> DEFINE t == HeroSuccessor(m, c)
<1>2. /\ t \in HeroStates /\ HeroIsValid(t)
      /\ t.choices = m.choices /\ t.revision = m.revision + 1
  BY <1>1, HeroSuccessorGood
<1> HIDE DEF t
<1>3. ASSUME NEW h \in heroes
      PROVE  /\ t.choices = h.hero.choices
             /\ c.expected <= h.hero.revision
             /\ c.expected = h.hero.revision => m = h.hero
  BY <1>1, <1>2 DEF ReadHeroOf
<1>4. QED
  BY <1>1, <1>2, <1>3 DEF DerivedHero, t

LEMMA PresentHeroRead ==
    ASSUME DatabaseInv, NEW h \in heroes
    PROVE  ReadHeroOf(h.hero)
<1>1. h.hero \in HeroStates /\ h.hero.revision \in Nat
  BY HeroRevision DEF DatabaseInv
<1>2. HeroIsValid(h.hero) /\ \A g \in heroes : g = h
  BY DEF DatabaseInv, HeroStands
<1>3. QED
  BY <1>1, <1>2 DEF ReadHeroOf

LEMMA ApplyToHeroKeepsInv ==
    ASSUME HeroesInv, NEW s \in Servers, ApplyToHero(s)
    PROVE  HeroesInv'
<1> DEFINE c == server[s].command
<1>1. /\ UNCHANGED databaseVars /\ ~At(s, "idle") /\ c \notin StartCommands
      /\ c \in ToHero /\ c \notin CreateCommands /\ DatabaseInv
  BY HeldFacts, KindsOfCommands DEF ApplyToHero, At, HeroesInv
<1>2. PICK h \in heroes :
          IF c.kind = "claim"
          THEN IF CanFight(h.hero) /\ encounter = "victory"
               THEN Derived(s, "claim", h.hero) ELSE Answer(s, "answered")
          ELSE IF HeroCommandAllowed(h.hero, c)
               THEN Derived(s, "commit", HeroSuccessor(h.hero, c)) ELSE Answer(s, "answered")
  BY DEF ApplyToHero
<1>3. ReadHeroOf(h.hero) /\ h.hero \in HeroStates
  BY <1>1, PresentHeroRead DEF ReadHeroOf
<1>4. CASE Answer(s, "answered")
  BY <1>1, <1>4, AnsweredStep
<1>5. CASE c.kind = "claim" /\ Derived(s, "claim", h.hero)
  <2>1. PICK n : n = h.hero
    OBVIOUS
  <2>2. c \in OtherCommands
    BY <1>1, <1>5, KindsOfCommands DEF ToHero
  <2>3. ReadHeroOf(n) /\ n \in HeroStates
    BY <1>3, <2>1 DEF ReadHeroOf
  <2>4. QED
    BY <1>1, <1>5, <2>1, <2>2, <2>3, DerivedStep
<1>6. CASE HeroCommandAllowed(h.hero, c) /\ Derived(s, "commit", HeroSuccessor(h.hero, c))
  <2>1. PICK n : n = HeroSuccessor(h.hero, c)
    OBVIOUS
  <2>2. PICK m : m = h.hero
    OBVIOUS
  <2>3. PICK x : x = c
    OBVIOUS
  <2>4. ReadHeroOf(m) /\ HeroCommandAllowed(m, x) /\ x \in ToHero
    BY <1>1, <1>3, <1>6, <2>2, <2>3 DEF ReadHeroOf
  <2>5. DerivedHero(HeroSuccessor(m, x), x)
    BY <1>1, <2>4, DerivedFromRead
  <2>6. DerivedHero(n, c) /\ n \in HeroStates
    BY <2>1, <2>2, <2>3, <2>5 DEF DerivedHero
  <2>7. QED
    BY <1>1, <1>6, <2>1, <2>6, DerivedStep
<1>7. QED
  BY <1>2, <1>4, <1>5, <1>6

LEMMA ReadClaimKeepsInv ==
    ASSUME HeroesInv, NEW s \in Servers, ReadClaim(s)
    PROVE  HeroesInv'
<1> DEFINE c == server[s].command
<1>1. /\ UNCHANGED databaseVars /\ ~At(s, "idle") /\ c \notin StartCommands
      /\ c \in ToHero /\ c \notin CreateCommands /\ DatabaseInv
      /\ ReadHeroOf(server[s].successor)
  BY HeldFacts, KindsOfCommands DEF ReadClaim, At, HeroesInv, ToHero
<1>2. CASE Answer(s, "answered")
  BY <1>1, <1>2, AnsweredStep
<1>3. CASE HeroCommandAllowed(server[s].successor, c)
           /\ Derived(s, "commit", HeroSuccessor(server[s].successor, c))
  <2>1. PICK m : m = server[s].successor
    OBVIOUS
  <2>2. PICK x : x = c
    OBVIOUS
  <2>3. PICK n : n = HeroSuccessor(m, x)
    OBVIOUS
  <2>4. ReadHeroOf(m) /\ HeroCommandAllowed(m, x) /\ x \in ToHero
    BY <1>1, <1>3, <2>1, <2>2 DEF ReadHeroOf
  <2>5. DerivedHero(HeroSuccessor(m, x), x)
    BY <1>1, <2>4, DerivedFromRead
  <2>6. DerivedHero(n, c) /\ n \in HeroStates
    BY <2>2, <2>3, <2>5 DEF DerivedHero
  <2>7. QED
    BY <1>1, <1>3, <2>1, <2>2, <2>3, <2>6, DerivedStep
<1>4. QED
  BY <1>2, <1>3 DEF ReadClaim

-----------------------------------------------------------------------------
(* The transactions                                                        *)

LEMMA AbortStep ==
    ASSUME HeroesInv, NEW s \in Servers, ~At(s, "idle"), NEW step \in {"recheck", "duplicate"},
           Abort(s, step)
    PROVE  HeroesInv'
<1>1. UNCHANGED databaseVars
  BY DEF Abort
<1>2. PICK r : r = [server[s] EXCEPT !.step = step, !.successor = NoCommand]
  OBVIOUS
<1>3. r \in ServerStates
  BY <1>2, HeldFacts, ServerAdvances DEF Steps
<1>4. server' = [server EXCEPT ![s] = r]
  BY <1>2, HeldFacts DEF Abort
<1>5. r.step = step /\ r.selected = server[s].selected /\ r.command = server[s].command
      /\ r.reply = server[s].reply
  BY <1>2, HeldFacts DEF ServerStates
<1>6. Holds(r)
  BY <1>5, HeldFacts DEF Holds, At
<1>7. QED
  BY <1>1, <1>3, <1>4, <1>6, QuietStep

LEMMA NoChoicesTyped == NoChoices \in HeroChoices
<1>1. NoAssignment \in [Abilities -> Nat]
  BY DEF NoAssignment
<1>2. NoEquipment \in Equipment
  BY DEF NoEquipment, Equipment
<1>3. QED
  BY <1>1, <1>2 DEF NoChoices, HeroChoices

\* A draft that is started, expires or is deleted has chosen nothing new.
LEMMA DraftChanges ==
    ASSUME DatabaseInv, NEW d \in Drafts, NEW n \in DraftStates,
           drafts' = [drafts EXCEPT ![d] = n],
           UNCHANGED <<pins, encounter, heroes, receipts, audits, claims>>,
           \/ n = NewDraft /\ drafts[d] = Absent
           \/ n = Retired
           \/ /\ drafts[d].age = "live" /\ n.age = "expired"
              /\ n.step = drafts[d].step /\ n.choices = drafts[d].choices
    PROVE  DatabaseInv' /\ Grows
<1>1. DatabaseTypeOK'
  BY DEF DatabaseInv, DatabaseTypeOK
<1>2. \/ n.age = "live" /\ n.step = 0 /\ n.choices.theme = Unpinned /\ drafts[d].age = "absent"
      \/ n.age = "retired"
      \/ /\ drafts[d].age = "live" /\ n.age = "expired"
         /\ n.step = drafts[d].step /\ n.choices = drafts[d].choices
  BY DEF NewDraft, Absent, Retired, NoChoices
<1>3. drafts \in [Drafts -> DraftStates] /\ drafts' \in [Drafts -> DraftStates]
      /\ drafts'[d] = n /\ \A e \in Drafts \ {d} : drafts'[e] = drafts[e]
  BY <1>1 DEF DatabaseInv, DatabaseTypeOK
<1>4. DraftsAgree'
  BY <1>2, <1>3 DEF DatabaseInv, DraftsAgree, Stored
<1>5. HeroStands'
  <2>1. \A h \in heroes : h.draft \in Drafts
    BY HeroRevision DEF DatabaseInv
  <2>2. ASSUME NEW h \in heroes
        PROVE  /\ drafts'[h.draft].age # "absent"
               /\ Stored(h.draft)' => drafts'[h.draft].step = Committed
                                      /\ drafts'[h.draft].choices = h.hero.choices
    <3>1. /\ drafts[h.draft].age # "absent"
          /\ Stored(h.draft) => drafts[h.draft].step = Committed
                                /\ drafts[h.draft].choices = h.hero.choices
      BY DEF DatabaseInv, HeroStands
    <3>2. QED
      BY <1>2, <1>3, <2>1, <3>1 DEF Stored
  <2>3. ASSUME NEW e \in Drafts, Stored(e)', drafts'[e].step = Committed
        PROVE  \E h \in heroes : h.draft = e
    <3>1. Stored(e) /\ drafts[e].step = Committed
      BY <1>2, <1>3, <2>3 DEF Stored, Committed
    <3>2. QED
      BY <3>1 DEF DatabaseInv, HeroStands
  <2>4. QED
    BY <2>2, <2>3 DEF DatabaseInv, HeroStands
<1>6. Grows
  BY StandingGrows DEF DatabaseInv
<1>7. QED
  BY <1>1, <1>4, <1>5, <1>6 DEF DatabaseInv, ClaimsAgree, LevelAgrees

LEMMA CreateDraftKeepsInv ==
    ASSUME HeroesInv, NEW s \in Servers, CreateDraft(s)
    PROVE  HeroesInv'
<1> DEFINE d == server[s].command.draft
<1>1. d \in Drafts /\ DatabaseInv
  BY HeldFacts, KindsOfCommands DEF CreateDraft, HeroesInv
<1>2. CASE drafts[d] = Absent
  <2>1. NewDraft \in DraftStates
    <3>1. Absent \in DraftStates
      BY <1>1, <1>2 DEF DatabaseInv, DatabaseTypeOK
    <3>2. QED
      BY <3>1 DEF NewDraft, DraftStates, Ages
  <2>2. drafts' = [drafts EXCEPT ![d] = NewDraft]
    BY <1>2 DEF CreateDraft
  <2>3. DatabaseInv' /\ Grows
    BY <1>1, <1>2, <2>1, <2>2, DraftChanges DEF CreateDraft
  <2>4. QED
    BY <2>3, IdleHolds, ServersKept DEF CreateDraft, Answer
<1>3. CASE drafts[d] # Absent
  BY <1>3, AnsweredStep DEF CreateDraft, databaseVars
<1>4. QED
  BY <1>2, <1>3

LEMMA AgeingKeepsInv ==
    ASSUME HeroesInv, NEW d \in Drafts, Expire(d) \/ Retire(d)
    PROVE  HeroesInv'
<1>1. DatabaseInv /\ drafts \in [Drafts -> DraftStates]
  BY DEF HeroesInv, DatabaseInv, DatabaseTypeOK
<1>2. PICK n : n = IF Expire(d) THEN [drafts[d] EXCEPT !.age = "expired"] ELSE Retired
  OBVIOUS
<1>3. drafts' = [drafts EXCEPT ![d] = n]
  BY <1>1, <1>2 DEF Expire, Retire
<1>4. Retired \in DraftStates
  <2>1. NoChoices \in HeroChoices
    BY NoChoicesTyped
  <2>2. QED
    BY <2>1 DEF Retired, Absent, DraftStates, Ages, Committed
<1>5. /\ n \in DraftStates
      /\ \/ n = Retired
         \/ /\ drafts[d].age = "live" /\ n.age = "expired"
            /\ n.step = drafts[d].step /\ n.choices = drafts[d].choices
  BY <1>1, <1>2, <1>4 DEF Expire, DraftStates, Ages
<1>6. DatabaseInv' /\ Grows
  BY <1>1, <1>3, <1>5, DraftChanges DEF Expire, Retire
<1>7. QED
  BY <1>6, ServersStand DEF Expire, Retire

\* The choices of a draft advance, and the first seals the campaign.
LEMMA DraftAdvances ==
    ASSUME DatabaseInv, NEW c \in CreateCommands, NEW n, DerivedDraft(n, c),
           Stored(c.draft), drafts[c.draft].step = c.expected,
           c.intent = ThemeStep => Sealed(c.selection.theme),
           drafts' = [drafts EXCEPT ![c.draft] = [n EXCEPT !.age = drafts[c.draft].age]],
           pins' = IF c.intent = ThemeStep THEN c.selection.theme ELSE pins
    PROVE  /\ c.draft \in Drafts /\ c.intent = c.expected /\ c.expected \in 0..CommitStep
           /\ n.choices \in HeroChoices /\ SelectionAllowed(c.intent, n.choices)
           /\ drafts' \in [Drafts -> DraftStates] /\ pins' \in Themes \cup {Unpinned}
           /\ drafts'[c.draft].age = drafts[c.draft].age
           /\ drafts'[c.draft].step = c.expected + 1
           /\ drafts'[c.draft].choices = n.choices
           /\ \A d \in Drafts \ {c.draft} : drafts'[d] = drafts[d]
           /\ n.choices.theme = pins' /\ pins' # Unpinned
           /\ pins # Unpinned => pins' = pins
           /\ DraftsAgree'
<1> DEFINE d == c.draft
           m == [n EXCEPT !.age = drafts[d].age]
<1>1. /\ d \in Drafts /\ c.expected \in 0..Committed /\ c.intent \in 0..CommitStep
      /\ drafts \in [Drafts -> DraftStates] /\ drafts[d].age \in Ages
      /\ pins \in Themes \cup {Unpinned}
  BY KindsOfCommands, DraftFacts DEF DatabaseInv, DatabaseTypeOK
<1>2. /\ n \in DraftStates /\ n.step = c.expected + 1 /\ c.intent = c.expected
      /\ SelectionAllowed(c.intent, n.choices)
      /\ c.intent = ThemeStep => n.choices.theme = c.selection.theme
      /\ c.intent # ThemeStep => pins # Unpinned /\ n.choices.theme = pins
  BY DEF DerivedDraft
<1>3. n.choices \in HeroChoices /\ m \in DraftStates /\ m.age = drafts[d].age
      /\ m.step = n.step /\ m.choices = n.choices
  BY <1>1, <1>2 DEF DraftStates
<1>4. PICK offer \in HeroChoices : offer.theme \in Themes /\ c.selection = Selection(c.intent, offer)
  BY OfferFacts
<1>5. c.intent = ThemeStep => c.selection.theme \in Themes /\ c.selection.theme # Unpinned
  <2>1. c.intent \in 0..Committed
    BY <1>1, <1>2
  <2>2. c.intent = ThemeStep => Selection(c.intent, offer).theme = offer.theme
    BY <2>1, ChosenGood
  <2>3. QED
    BY <1>4, <2>2, HeroesAssumption
<1>6. /\ pins' \in Themes \cup {Unpinned} /\ n.choices.theme = pins' /\ pins' # Unpinned
      /\ pins # Unpinned => pins' = pins
  BY <1>1, <1>2, <1>5 DEF Sealed
<1> HIDE DEF m
<1>7. /\ drafts' \in [Drafts -> DraftStates] /\ drafts'[d] = m
      /\ \A e \in Drafts \ {d} : drafts'[e] = drafts[e]
  BY <1>1, <1>3 DEF m
<1>8. DraftsAgree'
  <2>1. ASSUME NEW e \in Drafts, Stored(e)'
        PROVE  /\ drafts'[e].step > 0 => drafts'[e].choices.theme # Unpinned
               /\ drafts'[e].choices.theme # Unpinned => drafts'[e].choices.theme = pins'
    <3>1. CASE e = d
      BY <1>3, <1>6, <1>7, <3>1
    <3>2. CASE e # d
      <4>1. drafts'[e] = drafts[e] /\ Stored(e)
        BY <1>7, <2>1, <3>2 DEF Stored
      <4>2. /\ drafts[e].step > 0 => drafts[e].choices.theme # Unpinned
            /\ drafts[e].choices.theme # Unpinned => drafts[e].choices.theme = pins
        BY <4>1 DEF DatabaseInv, DraftsAgree
      <4>3. QED
        BY <1>6, <4>1, <4>2
    <3>3. QED
      BY <3>1, <3>2
  <2>2. QED
    BY <2>1 DEF DraftsAgree
<1>9. QED
  BY <1>1, <1>2, <1>3, <1>6, <1>7, <1>8

LEMMA CommitIntentKeepsInv ==
    ASSUME HeroesInv, NEW s \in Servers, CommitIntent(s)
    PROVE  HeroesInv'
<1> DEFINE c == server[s].command
           d == c.draft
           next == server[s].successor
<1>1. /\ ~At(s, "idle") /\ c \in CreateCommands /\ DerivedDraft(next, c) /\ DatabaseInv
  BY HeldFacts, KindsOfCommands DEF CommitIntent, At, ToHero, HeroesInv
<1>2. CASE Refuse(s)
  BY <1>2, AnsweredStep DEF Refuse
<1>3. CASE Abort(s, "recheck") \/ Abort(s, "duplicate")
  BY <1>1, <1>3, AbortStep
<1>4. CASE /\ Stored(d) /\ drafts[d].step = c.expected
           /\ ~(c.intent = CommitStep /\ AccountHasCharacter)
           /\ ~(c.intent = ThemeStep /\ ~Sealed(c.selection.theme))
           /\ drafts' = [drafts EXCEPT ![d] = [next EXCEPT !.age = drafts[d].age]]
           /\ heroes' = IF c.intent # CommitStep THEN heroes
                        ELSE heroes \cup {[hero |-> CreatedHero(next.choices), draft |-> d]}
           /\ pins' = IF c.intent = ThemeStep THEN c.selection.theme ELSE pins
           /\ Commit(s, c)
           /\ UNCHANGED <<encounter, audits, claims>>
  <2>1. PICK x \in CreateCommands : x = c
    BY <1>1
  <2>2. PICK n : n = next
    OBVIOUS
  <2>3. /\ DerivedDraft(n, x) /\ Stored(x.draft) /\ drafts[x.draft].step = x.expected
        /\ x.intent = ThemeStep => Sealed(x.selection.theme)
        /\ drafts' = [drafts EXCEPT ![x.draft] = [n EXCEPT !.age = drafts[x.draft].age]]
        /\ pins' = IF x.intent = ThemeStep THEN x.selection.theme ELSE pins
    BY <1>1, <1>4, <2>1, <2>2 DEF DerivedDraft, Stored
  <2>4. /\ x.draft \in Drafts /\ x.intent = x.expected /\ x.expected \in 0..CommitStep
        /\ n.choices \in HeroChoices /\ SelectionAllowed(x.intent, n.choices)
        /\ drafts' \in [Drafts -> DraftStates] /\ pins' \in Themes \cup {Unpinned}
        /\ drafts'[x.draft].age = drafts[x.draft].age
        /\ drafts'[x.draft].step = x.expected + 1
        /\ drafts'[x.draft].choices = n.choices
        /\ \A e \in Drafts \ {x.draft} : drafts'[e] = drafts[e]
        /\ n.choices.theme = pins' /\ pins' # Unpinned
        /\ pins # Unpinned => pins' = pins
        /\ DraftsAgree'
    <3> HIDE DEF c, d, next
    <3>1. QED
      BY <1>1, <2>3, DraftAdvances
  <2>5. /\ receipts' = receipts \cup {x} /\ audits' = audits /\ claims' = claims
        /\ encounter' = encounter /\ server' = [server EXCEPT ![s] = Idle("answered")]
        /\ Stored(x.draft) /\ drafts[x.draft].step = x.expected
    BY <1>4, <2>1 DEF Commit, Answer
  <2>6. Stored(x.draft)' /\ \A e \in Drafts \ {x.draft} : Stored(e)' <=> Stored(e)
    BY <2>4, <2>5 DEF Stored
  <2>7. DatabaseTypeOK /\ HeroStands /\ ClaimsAgree /\ LevelAgrees
        /\ (encounter # "open" => pins # Unpinned) /\ (heroes = {} => audits = {})
    BY <1>1 DEF DatabaseInv
  <2>8. CASE x.intent # CommitStep
    <3>1. heroes' = heroes
      BY <1>4, <2>1, <2>8
    <3>2. DatabaseTypeOK'
      BY <2>1, <2>4, <2>5, <2>7, <3>1 DEF DatabaseTypeOK
    <3>3. x.expected # Committed /\ x.expected + 1 # Committed
      BY <2>4, <2>8 DEF CommitStep, Committed
    <3>4. \A h \in heroes : h.draft \in Drafts /\ h.draft # x.draft
      BY <2>5, <2>7, <3>3, HeroRevision DEF HeroStands
    <3>5. HeroStands'
      <4>1. ASSUME NEW h \in heroes
            PROVE  /\ pins' # Unpinned /\ h.hero.choices.theme = pins'
                   /\ HeroIsValid(h.hero) /\ drafts'[h.draft].age # "absent"
                   /\ Stored(h.draft)' => drafts'[h.draft].step = Committed
                                          /\ drafts'[h.draft].choices = h.hero.choices
        BY <2>4, <2>6, <2>7, <3>4 DEF HeroStands
      <4>2. ASSUME NEW e \in Drafts, Stored(e)', drafts'[e].step = Committed
            PROVE  \E h \in heroes : h.draft = e
        <5>1. e # x.draft
          BY <2>4, <3>3, <4>2
        <5>2. Stored(e) /\ drafts[e].step = Committed
          BY <2>4, <2>6, <4>2, <5>1
        <5>3. QED
          BY <2>7, <5>2 DEF HeroStands
      <4>3. QED
        BY <2>7, <3>1, <4>1, <4>2 DEF HeroStands
    <3>6. DatabaseInv'
      BY <2>4, <2>5, <2>7, <3>1, <3>2, <3>5 DEF DatabaseInv, ClaimsAgree, LevelAgrees
    <3>7. Grows
      BY <2>4, <2>7, <3>1 DEF Grows, HeroStands
    <3>8. QED
      BY <2>5, <3>6, <3>7, IdleHolds, ServersKept
  <2>9. CASE x.intent = CommitStep
    <3>1. heroes = {}
      BY <1>4, <2>1, <2>9 DEF AccountHasCharacter
    <3>2. ChoicesAllowed(n.choices)
      BY <2>4, <2>9 DEF SelectionAllowed, CommitStep, RulesStep, AbilitiesStep, BackgroundStep,
                        EquipmentStep, PresentationStep
    <3>3. PICK g : g = [hero |-> CreatedHero(n.choices), draft |-> x.draft]
      OBVIOUS
    <3>4. heroes' = {g}
      BY <1>4, <2>1, <2>2, <2>9, <3>1, <3>3
    <3>5. /\ g \in HeroDocuments /\ HeroIsValid(g.hero) /\ g.hero.choices = n.choices
          /\ g.hero.level = 1 /\ g.draft = x.draft
      <4>1. /\ CreatedHero(n.choices) \in HeroStates /\ HeroIsValid(CreatedHero(n.choices))
            /\ CreatedHero(n.choices).choices = n.choices /\ CreatedHero(n.choices).level = 1
        BY <2>4, <3>2, CreatedHeroGood
      <4>2. QED
        BY <2>4, <3>3, <4>1 DEF HeroDocuments
    <3>6. DatabaseTypeOK'
      BY <2>1, <2>4, <2>5, <2>7, <3>4, <3>5 DEF DatabaseTypeOK
    <3>7. drafts'[x.draft].step = Committed /\ drafts'[x.draft].age # "absent"
      BY <2>4, <2>5, <2>9 DEF CommitStep, Committed, Stored
    <3>8. HeroStands'
      <4>1. ASSUME NEW e \in Drafts, Stored(e)', drafts'[e].step = Committed
            PROVE  e = x.draft
        <5>1. SUFFICES ASSUME e # x.draft PROVE FALSE
          OBVIOUS
        <5>2. Stored(e) /\ drafts[e].step = Committed
          BY <2>4, <2>6, <4>1, <5>1
        <5>3. QED
          BY <2>7, <3>1, <5>2 DEF HeroStands
      <4>2. \A e \in Drafts : Stored(e)' /\ drafts'[e].step = Committed
                                => \E h \in heroes' : h.draft = e
        BY <3>4, <3>5, <4>1
      <4>3. QED
        BY <2>4, <3>4, <3>5, <3>7, <4>2 DEF HeroStands
    <3>9. audits = {} /\ LevelAgrees'
      BY <2>5, <2>7, <3>1, <3>4, <3>5 DEF LevelAgrees
    <3>10. DatabaseInv'
      BY <2>4, <2>5, <2>7, <3>4, <3>6, <3>8, <3>9 DEF DatabaseInv, ClaimsAgree
    <3>11. Grows
      BY <2>4, <3>1 DEF Grows
    <3>12. QED
      BY <2>5, <3>10, <3>11, IdleHolds, ServersKept
  <2>10. QED
    BY <2>8, <2>9
<1>5. QED
  BY <1>2, <1>3, <1>4 DEF CommitIntent

\* The hero changes, not what it is.
LEMMA HeroChanges ==
    ASSUME DatabaseInv, NEW h \in heroes, NEW n \in HeroStates, HeroIsValid(n),
           n.choices = h.hero.choices, n = h.hero \/ n.revision = h.hero.revision + 1,
           heroes' = {[h EXCEPT !.hero = n]}, UNCHANGED <<pins, drafts>>
    PROVE  /\ Grows /\ HeroStands' /\ DraftsAgree' /\ heroes' \subseteq HeroDocuments
           /\ \A g \in heroes' : g.hero = n
<1>1. heroes = {h} /\ h \in HeroDocuments
  BY DEF DatabaseInv, DatabaseTypeOK, HeroStands
<1>2. PICK g : g = [h EXCEPT !.hero = n]
  OBVIOUS
<1>3. g \in HeroDocuments /\ g.hero = n /\ g.draft = h.draft
  BY <1>1, <1>2 DEF HeroDocuments
<1>4. heroes' = {g}
  BY <1>2
<1>5. Grows
  <2>1. pins # Unpinned => pins' = pins
    OBVIOUS
  <2>2. \A f \in heroes, e \in heroes' :
            /\ e.hero.choices = f.hero.choices
            /\ e.hero = f.hero \/ e.hero.revision = f.hero.revision + 1
    BY <1>1, <1>3, <1>4
  <2>3. heroes' # {}
    BY <1>4
  <2>4. QED
    BY <2>1, <2>2, <2>3 DEF Grows
<1>6. HeroStands'
  <2>1. /\ pins # Unpinned /\ h.hero.choices.theme = pins /\ drafts[h.draft].age # "absent"
        /\ Stored(h.draft) => drafts[h.draft].step = Committed
                              /\ drafts[h.draft].choices = h.hero.choices
        /\ \A d \in Drafts : Stored(d) /\ drafts[d].step = Committed => d = h.draft
    BY <1>1 DEF DatabaseInv, HeroStands
  <2>2. \A d : Stored(d)' <=> Stored(d)
    BY DEF Stored
  <2>3. QED
    BY <1>3, <1>4, <2>1, <2>2 DEF HeroStands
<1>7. DraftsAgree'
  BY DEF DatabaseInv, DraftsAgree, Stored
<1>8. QED
  BY <1>3, <1>4, <1>5, <1>6, <1>7

LEMMA CommitHeroCommandKeepsInv ==
    ASSUME HeroesInv, NEW s \in Servers, CommitHeroCommand(s)
    PROVE  HeroesInv'
<1> DEFINE c == server[s].command
           next == server[s].successor
<1>1. /\ ~At(s, "idle") /\ c \in ToHero /\ DerivedHero(next, c) /\ DatabaseInv
  BY HeldFacts, KindsOfCommands DEF CommitHeroCommand, At, HeroesInv
<1>2. CASE Refuse(s)
  BY <1>2, AnsweredStep DEF Refuse
<1>3. CASE Abort(s, "recheck") \/ Abort(s, "duplicate")
  BY <1>1, <1>3, AbortStep
<1>4. ASSUME NEW h \in heroes,
             h.hero.revision = c.expected, ~(c.kind = "claim" /\ Claimed),
             heroes' = {[h EXCEPT !.hero = next]},
             audits' = audits \cup
                 {[kind |-> c.kind, client |-> c.client, before |-> c.expected,
                   experience |-> next.experience - h.hero.experience]},
             claims' = IF c.kind = "claim" THEN claims \cup {c} ELSE claims,
             Commit(s, c), UNCHANGED <<pins, encounter, drafts>>
      PROVE  HeroesInv'
  <2>1. PICK x \in ToHero : x = c
    BY <1>1
  <2>2. PICK n : n = next
    OBVIOUS
  <2>3. PICK m : m = h.hero
    OBVIOUS
  <2>4. /\ m \in HeroStates /\ HeroCommandAllowed(m, x) /\ n = HeroSuccessor(m, x)
        /\ m.revision = x.expected
    BY <1>1, <1>4, <2>1, <2>2, <2>3, HeroRevision DEF DerivedHero, DatabaseInv
  <2>5. /\ n \in HeroStates /\ HeroIsValid(n) /\ n.choices = m.choices
        /\ n.revision = m.revision + 1 /\ n.level = IF x.kind = "levelUp" THEN 2 ELSE m.level
    BY <2>4, HeroSuccessorGood
  <2>6. PICK a : a = [kind |-> x.kind, client |-> x.client, before |-> x.expected,
                      experience |-> n.experience - m.experience]
    OBVIOUS
  <2>7. a \in Audits /\ a.kind = x.kind
    <3>1. n.experience \in Nat /\ m.experience \in Nat
      BY <2>4, <2>5, HeroFields
    <3>2. n.experience - m.experience \in Int
      BY <3>1
    <3>3. x.kind \in {"reward", "levelUp", "claim"} /\ x.client \in Clients /\ x.expected \in Nat
      BY KindsOfCommands DEF ToHero
    <3>4. QED
      BY <2>6, <3>2, <3>3 DEF Audits
  <2>8. /\ audits' = audits \cup {a} /\ receipts' = receipts \cup {x}
        /\ claims' = IF x.kind = "claim" THEN claims \cup {x} ELSE claims
        /\ x.kind = "claim" => claims = {}
        /\ server' = [server EXCEPT ![s] = Idle("answered")]
    BY <1>4, <2>1, <2>2, <2>3, <2>6 DEF Commit, Answer, Claimed
  <2>9. /\ Grows /\ HeroStands' /\ DraftsAgree' /\ heroes' \subseteq HeroDocuments
        /\ \A g \in heroes' : g.hero = n
    <3>1. heroes' = {[h EXCEPT !.hero = n]} /\ n.choices = h.hero.choices
          /\ n.revision = h.hero.revision + 1
      BY <1>4, <2>2, <2>3, <2>5
    <3>2. QED
      BY <1>1, <1>4, <2>5, <3>1, HeroChanges
  <2>10. DatabaseTypeOK /\ ClaimsAgree /\ LevelAgrees /\ HeroStands
    BY <1>1 DEF DatabaseInv
  <2>11. DatabaseTypeOK'
    BY <1>4, <2>7, <2>8, <2>9, <2>10 DEF DatabaseTypeOK
  <2>12. ClaimsAgree'
    BY <2>7, <2>8, <2>10 DEF ClaimsAgree
  <2>13. LevelAgrees'
    <3>1. m.level = 2 <=> \E b \in audits : b.kind = "levelUp"
      BY <2>3, <2>10 DEF LevelAgrees
    <3>2. n.level = 2 <=> \E b \in audits' : b.kind = "levelUp"
      BY <2>5, <2>7, <2>8, <3>1
    <3>3. QED
      BY <2>9, <3>2 DEF LevelAgrees
  <2>14. heroes' # {}
    BY <1>4
  <2>15. DatabaseInv'
    BY <1>1, <1>4, <2>9, <2>11, <2>12, <2>13, <2>14 DEF DatabaseInv
  <2>16. QED
    BY <2>8, <2>9, <2>15, IdleHolds, ServersKept
<1>5. QED
  <2>1. PICK h \in heroes :
              IF Found(c) # {} THEN IF c \in receipts THEN Abort(s, "recheck") ELSE Refuse(s)
              ELSE IF h.hero.revision # c.expected THEN Abort(s, "recheck")
              ELSE IF c.kind = "claim" /\ Claimed THEN Abort(s, "duplicate")
              ELSE /\ heroes' = {[h EXCEPT !.hero = next]}
                   /\ audits' = audits \cup
                        {[kind |-> c.kind, client |-> c.client, before |-> c.expected,
                          experience |-> next.experience - h.hero.experience]}
                   /\ claims' = IF c.kind = "claim" THEN claims \cup {c} ELSE claims
                   /\ Commit(s, c)
                   /\ UNCHANGED <<pins, encounter, drafts>>
    BY DEF CommitHeroCommand
  <2>2. QED
    BY <1>2, <1>3, <1>4, <2>1

LEMMA PlayEncounterKeepsInv ==
    ASSUME HeroesInv, PlayEncounter
    PROVE  HeroesInv'
<1>1. DatabaseInv
  BY DEF HeroesInv
<1>2. PICK h \in heroes, outcome \in {encounter, "victory"}, end \in {"fallen", "spent", "rested"} :
          heroes' = {[h EXCEPT !.hero = LeftByEncounter(h.hero, end)]} /\ encounter' = outcome
  BY DEF PlayEncounter
<1>3. pins # Unpinned /\ UNCHANGED <<pins, drafts, receipts, audits, claims, server>>
  BY DEF PlayEncounter
<1>4. PICK m : m = h.hero
  OBVIOUS
<1>5. m \in HeroStates /\ HeroIsValid(m)
  BY <1>1, <1>4, HeroRevision DEF DatabaseInv, HeroStands
<1>6. PICK n : n = LeftByEncounter(m, end)
  OBVIOUS
<1>7. /\ n \in HeroStates /\ HeroIsValid(n) /\ n.choices = m.choices /\ n.level = m.level
      /\ n = m \/ n.revision = m.revision + 1
  BY <1>5, <1>6, LeftByEncounterGood
<1>8. /\ Grows /\ HeroStands' /\ DraftsAgree' /\ heroes' \subseteq HeroDocuments
      /\ \A g \in heroes' : g.hero = n
  <2>1. heroes' = {[h EXCEPT !.hero = n]} /\ n.choices = h.hero.choices
        /\ (n = h.hero \/ n.revision = h.hero.revision + 1)
    BY <1>2, <1>4, <1>6, <1>7
  <2>2. QED
    BY <1>1, <1>3, <1>7, <2>1, HeroChanges
<1>9. DatabaseTypeOK'
  BY <1>1, <1>2, <1>3, <1>8 DEF DatabaseInv, DatabaseTypeOK
<1>10. LevelAgrees' /\ ClaimsAgree'
  BY <1>1, <1>3, <1>4, <1>7, <1>8 DEF DatabaseInv, LevelAgrees, ClaimsAgree
<1>11. DatabaseInv'
  BY <1>1, <1>2, <1>3, <1>8, <1>9, <1>10 DEF DatabaseInv
<1>12. QED
  BY <1>3, <1>8, <1>11, ServersStand

-----------------------------------------------------------------------------
(* The specification                                                       *)

LEMMA HeroesInitInv == HeroesInit => HeroesInv
<1> SUFFICES ASSUME HeroesInit PROVE HeroesInv
  OBVIOUS
<1>1. Absent \in DraftStates
  BY NoChoicesTyped DEF Absent, DraftStates, Ages, Committed
<1>2. DatabaseTypeOK
  BY <1>1 DEF HeroesInit, DatabaseTypeOK
<1>3. DraftsAgree /\ HeroStands /\ ClaimsAgree /\ LevelAgrees
  <2>1. \A d \in Drafts : ~Stored(d)
    BY DEF HeroesInit, Stored, Absent
  <2>2. QED
    BY <2>1 DEF HeroesInit, DraftsAgree, HeroStands, ClaimsAgree, LevelAgrees
<1>4. DatabaseInv
  BY <1>2, <1>3 DEF DatabaseInv, HeroesInit
<1>5. server \in [Servers -> ServerStates]
  BY IdleHolds DEF HeroesInit
<1>6. ASSUME NEW s \in Servers
      PROVE  Holds(server[s])
  BY DEF HeroesInit, Holds, Idle
<1>7. QED
  BY <1>4, <1>5, <1>6 DEF HeroesInv

LEMMA HeroesStepInv == HeroesInv /\ [HeroesNext]_heroesVars => HeroesInv'
<1> SUFFICES ASSUME HeroesInv, [HeroesNext]_heroesVars PROVE HeroesInv'
  OBVIOUS
<1>1. ASSUME NEW s \in Servers, Serve(s)
      PROVE  HeroesInv'
  <2>1. CASE Receive(s) \/ ReadHero(s) \/ ReadPinnedDraft(s)
    BY <2>1, ReceiveKeepsInv, ReadHeroKeepsInv, ReadPinnedDraftKeepsInv
  <2>2. CASE ReadPins(s) \/ ReadReceipt(s) \/ CreateDraft(s)
    BY <2>2, ReadPinsKeepsInv, ReadReceiptKeepsInv, CreateDraftKeepsInv
  <2>3. CASE ApplyIntent(s) \/ ApplyToHero(s) \/ ReadClaim(s)
    BY <2>3, ApplyIntentKeepsInv, ApplyToHeroKeepsInv, ReadClaimKeepsInv
  <2>4. CASE CommitIntent(s) \/ CommitHeroCommand(s)
    BY <2>4, CommitIntentKeepsInv, CommitHeroCommandKeepsInv
  <2>5. CASE ExplainDuplicate(s) \/ Recheck(s)
    BY <2>5, ExplainDuplicateKeepsInv
  <2>6. QED
    BY <1>1, <2>1, <2>2, <2>3, <2>4, <2>5 DEF Serve
<1>2. ASSUME NEW d \in Drafts, Expire(d) \/ Retire(d)
      PROVE  HeroesInv'
  BY <1>2, AgeingKeepsInv
<1>3. CASE PlayEncounter
  BY <1>3, PlayEncounterKeepsInv
<1>4. CASE UNCHANGED heroesVars
  <2>1. DatabaseInv' /\ Grows /\ server' = server
    <3>1. DatabaseInv
      BY DEF HeroesInv
    <3>2. UNCHANGED databaseVars /\ server' = server
      BY <1>4 DEF heroesVars
    <3>3. DatabaseInv'
      BY <3>1, <3>2 DEF DatabaseInv, databaseVars, DatabaseTypeOK, DraftsAgree, HeroStands,
                        ClaimsAgree, LevelAgrees, Stored
    <3>4. QED
      BY <3>1, <3>2, <3>3, StandingGrows DEF DatabaseInv, databaseVars
  <2>2. QED
    BY <2>1, ServersStand
<1>5. QED
  BY <1>1, <1>2, <1>3, <1>4 DEF HeroesNext

\* The invariant holds of every state the specification reaches.
LEMMA HeroesAlwaysInv == HeroesSpec => []HeroesInv
BY HeroesInitInv, HeroesStepInv, PTL DEF HeroesSpec

-----------------------------------------------------------------------------
(* What is shown of the heroes                                             *)

\* Documents, audits, receipts and what the servers hold have their types.
THEOREM HeroesTypes == HeroesSpec => []HeroesTypeOK
<1>1. HeroesInv => HeroesTypeOK
  BY DEF HeroesInv, DatabaseInv, HeroesTypeOK
<1>2. QED
  BY <1>1, HeroesAlwaysInv, PTL

\* Drafts, hero and campaign are pinned to one theme, and no server's three reads of the
\* pins quarantine the campaign (resolve_campaign_pin_status).
THEOREM PinsAlwaysAgree == HeroesSpec => []PinsNeverDisagree
<1>1. ASSUME HeroesInv
      PROVE  PinsNeverDisagree
  <2>1. \A d \in Pinned : drafts[d].choices.theme = pins
    BY <1>1 DEF HeroesInv, DatabaseInv, DraftsAgree, Pinned
  <2>2. \A h \in heroes : h.hero.choices.theme = pins
    BY <1>1 DEF HeroesInv, DatabaseInv, HeroStands
  <2>3. \A s \in Servers : server[s].reply # "quarantined"
    BY <1>1, HeldFacts
  <2>4. QED
    BY <2>1, <2>2, <2>3 DEF PinsNeverDisagree
<1>2. QED
  BY <1>1, HeroesAlwaysInv, PTL

\* The owner has one hero at most, of the one draft that was committed.
LEMMA CreatedOnceHolds ==
    ASSUME HeroesInv
    PROVE  CreatedOnce
<1>1. HeroStands
  BY DEF HeroesInv, DatabaseInv
<1>2. Cardinality(heroes) <= 1
  <2>1. CASE heroes = {}
    BY <2>1, FS_EmptySet
  <2>2. CASE heroes # {}
    <3>1. PICK h \in heroes : heroes = {h}
      BY <1>1, <2>2 DEF HeroStands
    <3>2. QED
      BY <3>1, FS_Singleton
  <2>3. QED
    BY <2>1, <2>2
<1>3. ASSUME NEW d \in Drafts, Stored(d)
      PROVE  drafts[d].step = Committed
                 <=> \E h \in heroes : h.draft = d /\ h.hero.choices = drafts[d].choices
  BY <1>1, <1>3 DEF HeroStands
<1>4. QED
  BY <1>2, <1>3 DEF CreatedOnce

\* The hero is valid, and the rules of combat accept it unless it fell: at either level, for
\* every choice of class, abilities, skills, equipment and spells that the creation accepts.
THEOREM HeroIsAlwaysPlayable == HeroesSpec => []HeroIsPlayable
<1>1. ASSUME HeroesInv
      PROVE  HeroIsPlayable
  <2>1. ASSUME NEW h \in heroes
        PROVE  HeroIsValid(h.hero) /\ (h.hero.hitPoints > 0 => CanFight(h.hero))
    <3>1. h.hero \in HeroStates /\ HeroIsValid(h.hero)
      BY <1>1, HeroRevision DEF HeroesInv, DatabaseInv, HeroStands
    <3>2. QED
      BY <3>1, ValidHeroCanFight
  <2>2. QED
    BY <2>1 DEF HeroIsPlayable
<1>2. QED
  BY <1>1, HeroesAlwaysInv, PTL

\* What the hero is becomes another only by a commit of a command to it, or by an encounter.
LEMMA HeroesChangeBy ==
    ASSUME HeroesInv, HeroesNext
    PROVE  \/ heroes' = heroes
           \/ heroes = {}
           \/ PlayEncounter
           \/ \E s \in Servers : CommitHeroCommand(s) /\ heroes' # heroes
<1>1. ASSUME NEW s \in Servers, Serve(s)
      PROVE  heroes' = heroes \/ heroes = {} \/ (CommitHeroCommand(s) /\ heroes' # heroes)
  <2>1. CASE CommitIntent(s)
    BY <2>1 DEF CommitIntent, Abort, Refuse, Commit, AccountHasCharacter, databaseVars
  <2>2. CASE CreateDraft(s)
    BY <2>2 DEF CreateDraft
  <2>3. CASE Receive(s) \/ ReadHero(s) \/ ReadPinnedDraft(s) \/ ReadPins(s) \/ ReadReceipt(s)
             \/ ApplyIntent(s) \/ ApplyToHero(s) \/ ReadClaim(s) \/ ExplainDuplicate(s) \/ Recheck(s)
    <3>1. UNCHANGED databaseVars
      BY <2>3 DEF Receive, ReadHero, ReadPinnedDraft, ReadPins, ReadReceipt, ApplyIntent,
                  ApplyToHero, ReadClaim, ExplainDuplicate, Recheck
    <3>2. QED
      BY <3>1 DEF databaseVars
  <2>4. QED
    BY <1>1, <2>1, <2>2, <2>3 DEF Serve
<1>2. ASSUME NEW d \in Drafts, Expire(d) \/ Retire(d)
      PROVE  heroes' = heroes
  BY <1>2 DEF Expire, Retire
<1>3. QED
  BY <1>1, <1>2 DEF HeroesNext

\* The level-up keeps what was lost and what was spent.
THEOREM SpentAlwaysStaysSpent == HeroesSpec => SpentStaysSpent
<1> DEFINE Kept ==
        \A h \in heroes, g \in heroes' :
            g.hero.level > h.hero.level =>
                /\ FullHitPoints(g.hero) - g.hero.hitPoints
                       = FullHitPoints(h.hero) - h.hero.hitPoints
                /\ \A p \in DOMAIN h.hero.pools :
                      FullPools(g.hero)[p] - g.hero.pools[p]
                          = FullPools(h.hero)[p] - h.hero.pools[p]
<1>1. ASSUME HeroesInv, HeroesNext
      PROVE  Kept
  <2>1. /\ DatabaseInv /\ \A g, h \in heroes : g = h
        /\ \A h \in heroes : h.hero \in HeroStates /\ h.hero.level \in {1, 2} /\ HeroIsValid(h.hero)
    BY <1>1, HeroRevision, HeroFields DEF HeroesInv, DatabaseInv, HeroStands
  <2>2. CASE heroes' = heroes
    BY <2>1, <2>2
  <2>3. CASE heroes = {}
    BY <2>3
  <2>4. CASE PlayEncounter
    <3>1. PICK h \in heroes, end \in {"fallen", "spent", "rested"} :
              heroes' = {[h EXCEPT !.hero = LeftByEncounter(h.hero, end)]}
      BY <2>4 DEF PlayEncounter
    <3>2. LeftByEncounter(h.hero, end).level = h.hero.level
      BY <2>1, LeftByEncounterGood
    <3>3. h \in HeroDocuments
      BY <2>1 DEF DatabaseInv, DatabaseTypeOK
    <3>4. \A g \in heroes' : g.hero = LeftByEncounter(h.hero, end)
      BY <3>1, <3>3 DEF HeroDocuments
    <3>5. QED
      BY <2>1, <3>2, <3>4
  <2>5. CASE \E s \in Servers : CommitHeroCommand(s) /\ heroes' # heroes
    <3>1. PICK s \in Servers : CommitHeroCommand(s) /\ heroes' # heroes
      BY <2>5
    <3> DEFINE c == server[s].command
               next == server[s].successor
    <3>2. c \in ToHero /\ DerivedHero(next, c)
      BY <1>1, <3>1, HeldFacts, KindsOfCommands DEF CommitHeroCommand, At
    <3>3. PICK h \in heroes : h.hero.revision = c.expected /\ heroes' = {[h EXCEPT !.hero = next]}
      BY <3>1 DEF CommitHeroCommand, Abort, Refuse, databaseVars
    <3>4. PICK m : m = h.hero
      OBVIOUS
    <3>5. PICK x : x = c
      OBVIOUS
    <3>6. m \in HeroStates /\ HeroCommandAllowed(m, x) /\ x \in ToHero /\ next = HeroSuccessor(m, x)
      BY <2>1, <3>2, <3>3, <3>4, <3>5 DEF DerivedHero
    <3>7. next.level = IF x.kind = "levelUp" THEN 2 ELSE m.level
      BY <3>6, HeroSuccessorGood
    <3>8. h \in HeroDocuments
      BY <2>1 DEF DatabaseInv, DatabaseTypeOK
    <3>9. \A g \in heroes' : g.hero = next
      BY <3>3, <3>8 DEF HeroDocuments
    <3>10. CASE x.kind # "levelUp"
      BY <2>1, <3>4, <3>7, <3>9, <3>10
    <3>11. CASE x.kind = "levelUp"
      <4>1. HeroIsValid(m) /\ LevelUpAllowed(m) /\ next = LeveledUp(m)
        BY <3>6, <3>11 DEF HeroCommandAllowed, HeroSuccessor
      <4>2. /\ FullHitPoints(next) - next.hitPoints = FullHitPoints(m) - m.hitPoints
            /\ \A p \in DOMAIN m.pools :
                  FullPools(next)[p] - next.pools[p] = FullPools(m)[p] - m.pools[p]
        BY <3>6, <4>1, LeveledUpGood
      <4>3. QED
        BY <2>1, <3>4, <3>9, <4>2
    <3>12. QED
      BY <3>10, <3>11
  <2>6. QED
    BY <1>1, <2>2, <2>3, <2>4, <2>5, HeroesChangeBy
<1>2. HeroesInv /\ [HeroesNext]_heroesVars => [Kept]_heroesVars
  BY <1>1
<1>3. QED
  BY <1>2, HeroesAlwaysInv, PTL DEF HeroesSpec, SpentStaysSpent

-----------------------------------------------------------------------------
(* The records of what became of the hero                                  *)

HeroReceipts == {c \in receipts : Scope(c) = Hero}
Experienced == SumFunction([a \in audits |-> a.experience])

\* The audits, one for each receipt of a command to the hero, are those of the hero's
\* revisions before the present one, and add up to its experience.
RecordsInv ==
    /\ IsFiniteSet(audits) /\ IsFiniteSet(HeroReceipts)
    /\ Cardinality(audits) = Cardinality(HeroReceipts)
    /\ claims # {} => \E a \in audits : a.kind = "claim"
    /\ \A h \in heroes :
          /\ h.hero.experience = Experienced
          /\ \A a \in audits : a.before < h.hero.revision

LEMMA ExperienceOfOneMore ==
    ASSUME NEW S, NEW a, IsFiniteSet(S), a \notin S, \A b \in S \cup {a} : b.experience \in Int
    PROVE  SumFunction([b \in S \cup {a} |-> b.experience])
               = a.experience + SumFunction([b \in S |-> b.experience])
<1> DEFINE f == [b \in S |-> b.experience]
           g == [b \in S \cup {a} |-> b.experience]
<1>1. SumFunction(f) = SumFunctionOnSet(f, S) /\ SumFunction(g) = SumFunctionOnSet(g, S \cup {a})
  BY DEF SumFunction
<1>2. /\ \A b \in S : f[b] \in Int /\ g[b] = f[b]
      /\ \A b \in S \cup {a} : g[b] \in Int
      /\ g[a] = a.experience
  OBVIOUS
<1> HIDE DEF f, g
<1>3. SumFunctionOnSet(f, S) = SumFunctionOnSet(g, S)
  BY <1>2, SumEqual
<1>4. SumFunctionOnSet(g, S \cup {a}) = g[a] + SumFunctionOnSet(g, S)
  BY <1>2, SumWith
<1>5. QED
  BY <1>1, <1>2, <1>3, <1>4 DEF f, g

LEMMA RecordsInitially == HeroesInit => RecordsInv
<1> SUFFICES ASSUME HeroesInit PROVE RecordsInv
  OBVIOUS
<1>1. heroes = {} /\ audits = {} /\ claims = {} /\ HeroReceipts = {}
  BY DEF HeroesInit, HeroReceipts
<1>2. QED
  BY <1>1, FS_EmptySet DEF RecordsInv

\* The commit of a command to the hero.
LEMMA HeroCommitted ==
    ASSUME HeroesInv, NEW s \in Servers, CommitHeroCommand(s), heroes' # heroes
    PROVE  \E h \in heroes, c \in ToHero, n \in HeroStates :
              /\ heroes = {h} /\ \A g \in heroes' : g.hero = n
              /\ h.hero \in HeroStates /\ HeroCommandAllowed(h.hero, c)
              /\ n = HeroSuccessor(h.hero, c) /\ n.revision = h.hero.revision + 1
              /\ c.expected = h.hero.revision /\ c \notin receipts
              /\ receipts' = receipts \cup {c}
              /\ audits' = audits \cup
                     {[kind |-> c.kind, client |-> c.client, before |-> c.expected,
                       experience |-> n.experience - h.hero.experience]}
              /\ claims' = IF c.kind = "claim" THEN claims \cup {c} ELSE claims
<1> DEFINE c == server[s].command
           next == server[s].successor
<1>1. c \in ToHero /\ DerivedHero(next, c) /\ DatabaseInv
  BY HeldFacts, KindsOfCommands DEF CommitHeroCommand, At, HeroesInv
<1>2. PICK h \in heroes :
          /\ Found(c) = {} /\ h.hero.revision = c.expected
          /\ heroes' = {[h EXCEPT !.hero = next]}
          /\ audits' = audits \cup
                 {[kind |-> c.kind, client |-> c.client, before |-> c.expected,
                   experience |-> next.experience - h.hero.experience]}
          /\ claims' = IF c.kind = "claim" THEN claims \cup {c} ELSE claims
          /\ receipts' = receipts \cup {c}
  BY DEF CommitHeroCommand, Abort, Refuse, Commit, databaseVars
<1>3. heroes = {h} /\ h \in HeroDocuments /\ h.hero \in HeroStates
  BY <1>1, HeroRevision DEF DatabaseInv, DatabaseTypeOK, HeroStands
<1>4. /\ HeroCommandAllowed(h.hero, c) /\ next = HeroSuccessor(h.hero, c)
      /\ next \in HeroStates /\ next.revision = c.expected + 1
  BY <1>1, <1>2 DEF DerivedHero
<1>5. c \notin receipts
  BY <1>2 DEF Found, SameKey
<1>6. \A g \in heroes' : g.hero = next
  BY <1>2, <1>3 DEF HeroDocuments
<1> HIDE DEF c, next
<1>7. QED
  BY <1>1, <1>2, <1>3, <1>4, <1>5, <1>6

LEMMA RecordsOfHeroCommand ==
    ASSUME HeroesInv, RecordsInv, NEW s \in Servers, CommitHeroCommand(s), heroes' # heroes
    PROVE  RecordsInv'
<1>1. PICK h \in heroes, c \in ToHero, n \in HeroStates :
          /\ heroes = {h} /\ \A g \in heroes' : g.hero = n
          /\ h.hero \in HeroStates /\ HeroCommandAllowed(h.hero, c)
          /\ n = HeroSuccessor(h.hero, c) /\ n.revision = h.hero.revision + 1
          /\ c.expected = h.hero.revision /\ c \notin receipts
          /\ receipts' = receipts \cup {c}
          /\ audits' = audits \cup
                 {[kind |-> c.kind, client |-> c.client, before |-> c.expected,
                   experience |-> n.experience - h.hero.experience]}
          /\ claims' = IF c.kind = "claim" THEN claims \cup {c} ELSE claims
  BY HeroCommitted
<1>2. PICK a : a = [kind |-> c.kind, client |-> c.client, before |-> c.expected,
                    experience |-> n.experience - h.hero.experience]
  OBVIOUS
<1>3. /\ a.kind = c.kind /\ a.before = h.hero.revision
      /\ a.experience = n.experience - h.hero.experience
      /\ audits' = audits \cup {a}
  BY <1>1, <1>2
<1>4. h.hero.revision \in Nat /\ h.hero.experience \in Nat /\ n.experience \in Nat
  BY <1>1, HeroFields
<1>5. /\ h.hero.experience = Experienced /\ IsFiniteSet(audits)
      /\ \A b \in audits : b.before < h.hero.revision /\ b.experience \in Int /\ b.before \in Nat
  BY <1>1 DEF RecordsInv, HeroesInv, DatabaseInv, DatabaseTypeOK, Audits
<1>6. a \notin audits
  BY <1>3, <1>4, <1>5
<1>7. IsFiniteSet(audits') /\ Cardinality(audits') = Cardinality(audits) + 1
  BY <1>3, <1>5, <1>6, FS_AddElement
<1>8. HeroReceipts' = HeroReceipts \cup {c} /\ c \notin HeroReceipts
  <2>1. Scope(c) = Hero
    BY KindsOfCommands DEF Scope, ToHero
  <2>2. QED
    BY <1>1, <2>1 DEF HeroReceipts
<1>9. IsFiniteSet(HeroReceipts') /\ Cardinality(HeroReceipts') = Cardinality(HeroReceipts) + 1
  BY <1>8, FS_AddElement DEF RecordsInv
<1>10. Experienced' = n.experience
  <2>1. \A b \in audits \cup {a} : b.experience \in Int
    BY <1>3, <1>4, <1>5
  <2>2. Experienced' = a.experience + Experienced
    BY <1>3, <1>5, <1>6, <2>1, ExperienceOfOneMore DEF Experienced
  <2>3. QED
    BY <1>3, <1>4, <1>5, <2>2
<1>11. ASSUME NEW g \in heroes'
       PROVE  /\ g.hero.experience = Experienced'
              /\ \A b \in audits' : b.before < g.hero.revision
  <2>1. g.hero = n /\ n.revision = h.hero.revision + 1
    BY <1>1
  <2>2. \A b \in audits' : b.before < n.revision
    BY <1>3, <1>4, <1>5, <2>1
  <2>3. QED
    BY <1>10, <2>1, <2>2
<1>12. claims' # {} => \E b \in audits' : b.kind = "claim"
  BY <1>1, <1>3 DEF RecordsInv
<1>13. QED
  BY <1>7, <1>9, <1>11, <1>12 DEF RecordsInv

LEMMA RecordsOfIntent ==
    ASSUME HeroesInv, HeroesInv', RecordsInv, NEW s \in Servers, CommitIntent(s)
    PROVE  RecordsInv'
<1> DEFINE c == server[s].command
<1>1. CASE UNCHANGED databaseVars
  BY <1>1 DEF RecordsInv, databaseVars, HeroReceipts, Experienced
<1>2. CASE ~ UNCHANGED databaseVars
  <2>1. /\ receipts' = receipts \cup {c} /\ audits' = audits /\ claims' = claims
        /\ \/ heroes' = heroes
           \/ heroes = {} /\ heroes' = {[hero |-> CreatedHero(server[s].successor.choices),
                                         draft |-> c.draft]}
    BY <1>2 DEF CommitIntent, Abort, Refuse, Commit, AccountHasCharacter
  <2>2. c \in CreateCommands
    BY HeldFacts, KindsOfCommands DEF CommitIntent, At, ToHero
  <2>3. Scope(c) # Hero
    BY <2>2, KindsOfCommands, HeroesAssumption DEF Scope
  <2>4. HeroReceipts' = HeroReceipts
    BY <2>1, <2>3 DEF HeroReceipts
  <2>5. Experienced' = Experienced
    BY <2>1 DEF Experienced
  <2>6. CASE heroes' = heroes
    BY <2>1, <2>4, <2>5, <2>6 DEF RecordsInv
  <2>7. CASE heroes = {} /\ heroes' = {[hero |-> CreatedHero(server[s].successor.choices),
                                         draft |-> c.draft]}
    <3>1. audits = {}
      BY <2>7 DEF HeroesInv, DatabaseInv
    <3>2. Experienced = 0
      <4>1. Experienced = SumFunctionOnSet([a \in audits |-> a.experience], audits)
        BY DEF Experienced, SumFunction
      <4>2. QED
        BY <3>1, <4>1, SumEmpty
    <3>3. \A g \in heroes' : g.hero.experience = 0
      BY <2>7 DEF CreatedHero
    <3>4. QED
      BY <2>1, <2>4, <2>5, <3>1, <3>2, <3>3 DEF RecordsInv
  <2>8. QED
    BY <2>1, <2>6, <2>7
<1>3. QED
  BY <1>1, <1>2

LEMMA RecordsOfEncounter ==
    ASSUME HeroesInv, RecordsInv, PlayEncounter
    PROVE  RecordsInv'
<1>1. PICK h \in heroes, end \in {"fallen", "spent", "rested"} :
          heroes' = {[h EXCEPT !.hero = LeftByEncounter(h.hero, end)]}
  BY DEF PlayEncounter
<1>2. PICK n : n = LeftByEncounter(h.hero, end)
  OBVIOUS
<1>3. /\ h \in HeroDocuments /\ h.hero \in HeroStates /\ HeroIsValid(h.hero)
      /\ h.hero.revision \in Nat
  BY HeroRevision DEF HeroesInv, DatabaseInv, DatabaseTypeOK, HeroStands
<1>4. n.experience = h.hero.experience /\ (n = h.hero \/ n.revision = h.hero.revision + 1)
  BY <1>2, <1>3, LeftByEncounterGood
<1>5. \A g \in heroes' : g.hero = n
  BY <1>1, <1>2, <1>3 DEF HeroDocuments
<1>6. /\ receipts' = receipts /\ audits' = audits /\ claims' = claims
      /\ HeroReceipts' = HeroReceipts /\ Experienced' = Experienced
  BY DEF PlayEncounter, HeroReceipts, Experienced
<1>7. \A a \in audits : a.before < n.revision
  <2>1. \A a \in audits : a.before \in Nat /\ a.before < h.hero.revision
    BY DEF RecordsInv, HeroesInv, DatabaseInv, DatabaseTypeOK, Audits
  <2>2. QED
    BY <1>3, <1>4, <2>1
<1>8. n.experience = Experienced
  BY <1>4 DEF RecordsInv
<1>9. QED
  BY <1>5, <1>6, <1>7, <1>8 DEF RecordsInv

LEMMA RecordsStep ==
    ASSUME HeroesInv, HeroesInv', RecordsInv, [HeroesNext]_heroesVars
    PROVE  RecordsInv'
<1>1. CASE UNCHANGED <<heroes, receipts, audits, claims>>
  BY <1>1 DEF RecordsInv, HeroReceipts, Experienced
<1>2. ASSUME NEW s \in Servers, Serve(s)
      PROVE  RecordsInv'
  <2>1. CASE CommitIntent(s)
    BY <2>1, RecordsOfIntent
  <2>2. CASE CommitHeroCommand(s)
    <3>1. CASE heroes' # heroes
      BY <2>2, <3>1, RecordsOfHeroCommand
    <3>2. CASE heroes' = heroes
      <4>1. CASE UNCHANGED databaseVars
        BY <1>1, <4>1 DEF databaseVars
      <4>2. CASE ~ UNCHANGED databaseVars
        <5>1. PICK h \in heroes : /\ h.hero.revision = server[s].command.expected
                                  /\ heroes' = {[h EXCEPT !.hero = server[s].successor]}
          BY <2>2, <4>2 DEF CommitHeroCommand, Abort, Refuse
        <5>2. /\ server[s].command \in ToHero /\ DatabaseInv
              /\ DerivedHero(server[s].successor, server[s].command)
          BY <2>2, HeldFacts, KindsOfCommands DEF CommitHeroCommand, At, HeroesInv
        <5>3. h \in HeroDocuments /\ h.hero.revision \in Nat
          BY <5>2, HeroRevision DEF DatabaseInv, DatabaseTypeOK
        <5>4. server[s].successor.revision = h.hero.revision + 1
          BY <5>1, <5>2 DEF DerivedHero
        <5>5. [h EXCEPT !.hero = server[s].successor] = h
          BY <3>2, <5>1
        <5>6. server[s].successor = h.hero
          BY <5>3, <5>5 DEF HeroDocuments
        <5>7. QED
          BY <5>3, <5>4, <5>6
      <4>3. QED
        BY <4>1, <4>2
    <3>3. QED
      BY <3>1, <3>2
  <2>3. CASE CreateDraft(s)
    BY <1>1, <2>3 DEF CreateDraft
  <2>4. CASE Receive(s) \/ ReadHero(s) \/ ReadPinnedDraft(s) \/ ReadPins(s) \/ ReadReceipt(s)
             \/ ApplyIntent(s) \/ ApplyToHero(s) \/ ReadClaim(s) \/ ExplainDuplicate(s) \/ Recheck(s)
    <3>1. UNCHANGED databaseVars
      BY <2>4 DEF Receive, ReadHero, ReadPinnedDraft, ReadPins, ReadReceipt, ApplyIntent,
                  ApplyToHero, ReadClaim, ExplainDuplicate, Recheck
    <3>2. QED
      BY <1>1, <3>1 DEF databaseVars
  <2>5. QED
    BY <1>2, <2>1, <2>2, <2>3, <2>4 DEF Serve
<1>3. ASSUME NEW d \in Drafts, Expire(d) \/ Retire(d)
      PROVE  RecordsInv'
  BY <1>1, <1>3 DEF Expire, Retire
<1>4. CASE PlayEncounter
  BY <1>4, RecordsOfEncounter
<1>5. CASE UNCHANGED heroesVars
  BY <1>1, <1>5 DEF heroesVars, databaseVars
<1>6. QED
  BY <1>2, <1>3, <1>4, <1>5 DEF HeroesNext

\* Drafts, audits, receipts and the claim explain the hero: it is made once, of the draft
\* that was committed; its experience is the sum of the audits', and its level is what they
\* say; there is one audit for each command to it, and one claim at most.
THEOREM RecordsAlwaysExplainHero == HeroesSpec => []RecordsExplainHero
<1>1. ASSUME HeroesInv, RecordsInv
      PROVE  RecordsExplainHero
  <2>1. CreatedOnce
    BY <1>1, CreatedOnceHolds
  <2>2. ASSUME NEW h \in heroes
        PROVE  /\ h.hero.experience = SumFunction([a \in audits |-> a.experience])
               /\ h.hero.level = 2 <=> \E a \in audits : a.kind = "levelUp"
    BY <1>1 DEF RecordsInv, Experienced, HeroesInv, DatabaseInv, LevelAgrees
  <2>3. Cardinality(audits) = Cardinality({c \in receipts : Scope(c) = Hero})
    BY <1>1 DEF RecordsInv, HeroReceipts
  <2>4. /\ Cardinality({a \in audits : a.kind = "claim"}) = Cardinality(claims)
        /\ Cardinality(claims) <= 1
    <3> DEFINE claimed == {a \in audits : a.kind = "claim"}
    <3>1. /\ claims = {} <=> claimed = {}
          /\ \A a, b \in claimed : a = b
          /\ \A a, b \in claims : a = b
      BY <1>1 DEF RecordsInv, HeroesInv, DatabaseInv, ClaimsAgree
    <3> HIDE DEF claimed
    <3>2. CASE claims = {}
      BY <3>1, <3>2, FS_EmptySet DEF claimed
    <3>3. CASE claims # {}
      <4>1. PICK a, b : claimed = {a} /\ claims = {b}
        BY <3>1, <3>3
      <4>2. Cardinality(claimed) = 1 /\ Cardinality(claims) = 1
        BY <4>1, FS_Singleton
      <4>3. QED
        BY <4>2 DEF claimed
    <3>4. QED
      BY <3>2, <3>3
  <2>5. QED
    BY <2>1, <2>2, <2>3, <2>4 DEF RecordsExplainHero, ProgressIsAccounted
<1>2. HeroesInit => HeroesInv /\ RecordsInv
  BY HeroesInitInv, RecordsInitially
<1>3. (HeroesInv /\ RecordsInv) /\ [HeroesNext]_heroesVars => (HeroesInv /\ RecordsInv)'
  BY HeroesStepInv, RecordsStep
<1>4. HeroesInv /\ RecordsInv => RecordsExplainHero
  BY <1>1
<1>5. QED
  BY <1>2, <1>3, <1>4, PTL DEF HeroesSpec

-----------------------------------------------------------------------------
(* No dead end                                                             *)

\* What the creation has accepted by a step: the parts chosen up to it go together.
SoFar(step, choices) ==
    /\ step > RulesStep => choices.class \in Classes
    /\ step > AbilitiesStep => IsAssignment(choices.assignment)
    /\ step > BackgroundStep => BackgroundAllowed(choices.class, choices.background)
    /\ step > EquipmentStep => /\ EquipmentAllowed(choices.class, choices.equipment)
                               /\ SpellsAllowed(choices.class, choices.assignment, choices.prepared)

\* A draft, stored or derived by a server that will compare and store it, has been accepted
\* so far.
DraftsAccepted == \A d \in Drafts : Stored(d) => SoFar(drafts[d].step, drafts[d].choices)
DerivedAccepted ==
    \A s \in Servers : At(s, "commit") /\ server[s].command \in CreateCommands =>
        SoFar(server[s].successor.step, server[s].successor.choices)

\* A client may choose, for some draft, whatever the rules accept.
OffersSuffice ==
    /\ Themes # {}
    /\ \A c \in HeroChoices : c.theme \in Themes /\ ChoicesAllowed(c) =>
          \E d \in Drafts : c \in Offers[d]

\* What the choice of a step leaves alone.
LEMMA ChosenParts ==
    ASSUME NEW choices \in HeroChoices, NEW offer \in HeroChoices, NEW step \in 0..Committed,
           NEW t, t = Chosen(choices, Selection(step, offer))
    PROVE  /\ t.class = IF step = RulesStep THEN offer.class ELSE choices.class
           /\ t.assignment = IF step = AbilitiesStep THEN offer.assignment ELSE choices.assignment
           /\ t.background = IF step = BackgroundStep THEN offer.background ELSE choices.background
           /\ t.equipment = IF step = EquipmentStep THEN offer.equipment ELSE choices.equipment
           /\ t.prepared = IF step = EquipmentStep THEN offer.prepared ELSE choices.prepared
<1> DEFINE parts == {"theme", "class", "assignment", "background", "equipment", "prepared"}
<1>1. DOMAIN choices = parts
  BY DEF HeroChoices
<1>2. t = [part \in parts |-> IF part \in SelectedBy(step) THEN offer[part] ELSE choices[part]]
  BY <1>1 DEF Chosen, Selection
<1>3. /\ "class" \in SelectedBy(step) <=> step = RulesStep
      /\ "assignment" \in SelectedBy(step) <=> step = AbilitiesStep
      /\ "background" \in SelectedBy(step) <=> step = BackgroundStep
      /\ "equipment" \in SelectedBy(step) <=> step = EquipmentStep
      /\ "prepared" \in SelectedBy(step) <=> step = EquipmentStep
  BY DEF SelectedBy, ThemeStep, RulesStep, AbilitiesStep, BackgroundStep, EquipmentStep
<1>4. QED
  BY <1>2, <1>3

\* A choice that its step allows is accepted together with those before it.
LEMMA AcceptedAdvances ==
    ASSUME NEW choices \in HeroChoices, NEW offer \in HeroChoices, NEW step \in 0..CommitStep,
           SoFar(step, choices),
           NEW t, t = Chosen(choices, Selection(step, offer)), SelectionAllowed(step, t)
    PROVE  SoFar(step + 1, t)
<1>1. step \in 0..Committed
  BY DEF CommitStep, Committed
<1> USE DEF ThemeStep, RulesStep, AbilitiesStep, BackgroundStep, EquipmentStep, PresentationStep,
            CommitStep
<1>2. CASE step \in {0, 1}
  BY <1>2 DEF SoFar
<1>3. CASE step = 2
  BY <1>3 DEF SoFar, SelectionAllowed
<1>4. CASE step = 3
  BY <1>1, <1>4, ChosenParts DEF SoFar, SelectionAllowed
<1>5. CASE step = 4
  BY <1>1, <1>5, ChosenParts DEF SoFar, SelectionAllowed
<1>6. CASE step = 5
  BY <1>1, <1>6, ChosenParts DEF SoFar, SelectionAllowed
<1>7. CASE step > 5
  <2>1. ChoicesAllowed(t)
    BY <1>7 DEF SelectionAllowed
  <2>2. QED
    BY <2>1 DEF SoFar, ChoicesAllowed
<1>8. QED
  BY <1>2, <1>3, <1>4, <1>5, <1>6, <1>7

\* The standard array, in some order.
SomeAssignment ==
    [a \in Abilities |-> CASE a = "strength" -> 15 [] a = "dexterity" -> 14
                           [] a = "constitution" -> 13 [] a = "intelligence" -> 12
                           [] a = "wisdom" -> 10 [] a = "charisma" -> 8]

LEMMA SomeAssignmentAllowed == SomeAssignment \in [Abilities -> Nat] /\ IsAssignment(SomeAssignment)
<1>1. /\ SomeAssignment["strength"] = 15 /\ SomeAssignment["dexterity"] = 14
      /\ SomeAssignment["constitution"] = 13 /\ SomeAssignment["intelligence"] = 12
      /\ SomeAssignment["wisdom"] = 10 /\ SomeAssignment["charisma"] = 8
  BY DEF SomeAssignment, Abilities
<1>2. SomeAssignment \in [Abilities -> Nat]
  BY DEF SomeAssignment, Abilities
<1>3. {SomeAssignment[a] : a \in Abilities} = StandardArray
  BY <1>1 DEF Abilities, StandardArray
<1>4. QED
  BY <1>2, <1>3 DEF IsAssignment

LEMMA TwoOf ==
    ASSUME NEW x, NEW y, x # y
    PROVE  IsFiniteSet({x, y}) /\ Cardinality({x, y}) = 2
<1>1. IsFiniteSet({x}) /\ Cardinality({x}) = 1
  BY FS_Singleton
<1>2. {x, y} = {x} \cup {y}
  OBVIOUS
<1>3. QED
  BY <1>1, <1>2, FS_AddElement

\* Two skills of the class are left, whatever the background gives.
LEMMA SomeBackground ==
    ASSUME NEW class \in Classes
    PROVE  \E b \in Backgrounds : BackgroundAllowed(class, b)
<1> DEFINE b == IF class.class = "fighter"
                THEN [background |-> "soldier", skills |-> {"acrobatics", "insight"}]
                ELSE [background |-> "sage", skills |-> {"insight", "medicine"}]
<1>1. Cardinality({"acrobatics", "insight"}) = 2 /\ Cardinality({"insight", "medicine"}) = 2
  BY TwoOf
<1>2. {"acrobatics", "insight", "medicine"} \subseteq DOMAIN SkillAbility
  BY DEF SkillAbility, DexteritySkills, WisdomSkills
<1>3. b \in Backgrounds
  BY <1>2 DEF Backgrounds
<1>4. BackgroundAllowed(class, b)
  BY <1>1 DEF BackgroundAllowed, ClassSkills, BackgroundSkills
<1>5. QED
  BY <1>3, <1>4

LEMMA SomeEquipment ==
    ASSUME NEW class \in Classes
    PROVE  \E e \in Equipment : EquipmentAllowed(class, e)
<1> DEFINE mail == [carried |-> {"chain_mail", "longsword", "light_crossbow", "explorers_pack"},
                    simple |-> "none", armor |-> "chain_mail", shield |-> FALSE]
           robe == [carried |-> {"simple_weapons", "scholars_pack", "spellbook", "arcane_focus"},
                    simple |-> "dagger", armor |-> "none", shield |-> FALSE]
<1>1. mail \in Equipment /\ robe \in Equipment
  BY DEF Equipment, Items, Armor, SimpleWeapons, D4Weapons
<1>2. /\ mail.carried \cap Armor = {"chain_mail"} /\ robe.carried \cap Armor = {}
      /\ mail.carried \cap {"simple_weapons", "longsword"} = {"longsword"}
  BY DEF Armor
<1>3. /\ Cardinality({"chain_mail"}) = 1 /\ Cardinality({"longsword"}) = 1
      /\ Cardinality({}) = 0
  BY FS_EmptySet, FS_Singleton
<1>4. Consistent(mail) /\ Consistent(robe)
  BY <1>2, <1>3 DEF Consistent
<1>5. FighterEquipment(class.style, mail)
  BY <1>2, <1>3 DEF FighterEquipment, TwoHanded
<1>6. WizardEquipment(robe)
  BY DEF WizardEquipment, WizardWeapons
<1>7. QED
  BY <1>1, <1>4, <1>5, <1>6 DEF EquipmentAllowed

\* A wizard may prepare as many spells as there are to prepare, and at least one.
LEMMA SomeSpells ==
    ASSUME NEW class \in Classes, NEW assignment, IsAssignment(assignment)
    PROVE  \E p \in SUBSET Spells : SpellsAllowed(class, assignment, p)
<1> DEFINE capacity == PreparedCapacity(1, Modifier(assignment, "intelligence"))
<1>1. capacity \in 1..3
  <2>1. Modifier(assignment, "intelligence") \in -1..3
    BY ModifierFacts DEF Abilities
  <2>2. QED
    BY <2>1 DEF PreparedCapacity, AtMost, AtLeast
<1>2. /\ Cardinality({"sleep"}) = 1
      /\ IsFiniteSet({"sleep", "shield"}) /\ Cardinality({"sleep", "shield"}) = 2
  BY FS_Singleton, TwoOf
<1>3. Cardinality({"sleep", "shield", "magic_missile"}) = 3
  <2>1. {"sleep", "shield", "magic_missile"} = {"sleep", "shield"} \cup {"magic_missile"}
    OBVIOUS
  <2>2. QED
    BY <1>2, <2>1, FS_AddElement
<1>4. PICK p \in SUBSET LevelOneSpells : Cardinality(p) = capacity
  <2> HIDE DEF capacity
  <2>1. QED
    BY <1>1, <1>2, <1>3 DEF LevelOneSpells
<1>5. p \in SUBSET Spells /\ {} \in SUBSET Spells
  BY DEF Spells
<1>6. CASE class.class = "fighter"
  BY <1>5, <1>6 DEF SpellsAllowed
<1>7. CASE class.class # "fighter"
  BY <1>4, <1>5, <1>7 DEF SpellsAllowed
<1>8. QED
  BY <1>6, <1>7

\* Whatever class and abilities a hero has, the other choices can be completed.
LEMMA Completable ==
    ASSUME NEW theme \in Themes, NEW class \in Classes,
           NEW assignment \in [Abilities -> Nat], IsAssignment(assignment)
    PROVE  \E c \in HeroChoices : /\ c.theme = theme /\ c.class = class /\ c.assignment = assignment
                                  /\ ChoicesAllowed(c)
<1>1. PICK b \in Backgrounds : BackgroundAllowed(class, b)
  BY SomeBackground
<1>2. PICK e \in Equipment : EquipmentAllowed(class, e)
  BY SomeEquipment
<1>3. PICK p \in SUBSET Spells : SpellsAllowed(class, assignment, p)
  BY SomeSpells
<1>4. PICK c : c = [theme |-> theme, class |-> class, assignment |-> assignment,
                    background |-> b, equipment |-> e, prepared |-> p]
  OBVIOUS
<1>5. /\ c.theme = theme /\ c.class = class /\ c.assignment = assignment
      /\ c.background = b /\ c.equipment = e /\ c.prepared = p
  BY <1>4
<1>6. c \in HeroChoices
  BY <1>4 DEF HeroChoices
<1>7. ChoicesAllowed(c)
  BY <1>1, <1>2, <1>3, <1>5 DEF ChoicesAllowed
<1>8. QED
  BY <1>5, <1>6, <1>7

\* What was accepted so far can be continued with an offer.
LEMMA AcceptedContinues ==
    ASSUME OffersSuffice, NEW choices \in HeroChoices, NEW step \in 0..ReviewStep,
           SoFar(step, choices)
    PROVE  \E offer \in UNION {Offers[e] : e \in Drafts} :
               SelectionAllowed(step, Chosen(choices, Selection(step, offer)))
<1> USE DEF ThemeStep, RulesStep, AbilitiesStep, BackgroundStep, EquipmentStep, PresentationStep
<1>1. step \in 0..Committed /\ step \in 0..7
  BY DEF ReviewStep, Committed
<1>2. PICK class \in Classes : step > RulesStep => class = choices.class
  <2>1. [class |-> "wizard", style |-> "none"] \in Classes
    BY DEF Classes
  <2>2. QED
    BY <2>1 DEF SoFar
<1>3. PICK assignment \in [Abilities -> Nat] :
          IsAssignment(assignment) /\ (step > AbilitiesStep => assignment = choices.assignment)
  BY SomeAssignmentAllowed, RulesTypes DEF SoFar
<1>4. PICK theme \in Themes : TRUE
  BY DEF OffersSuffice
<1>5. PICK offer \in HeroChoices :
          /\ offer.theme = theme /\ offer.class = class /\ offer.assignment = assignment
          /\ ChoicesAllowed(offer)
  BY <1>3, Completable
<1>6. offer \in UNION {Offers[e] : e \in Drafts}
  BY <1>5 DEF OffersSuffice
<1>7. PICK t : t = Chosen(choices, Selection(step, offer))
  OBVIOUS
<1>8. /\ t.class = IF step = RulesStep THEN offer.class ELSE choices.class
      /\ t.assignment = IF step = AbilitiesStep THEN offer.assignment ELSE choices.assignment
      /\ t.background = IF step = BackgroundStep THEN offer.background ELSE choices.background
      /\ t.equipment = IF step = EquipmentStep THEN offer.equipment ELSE choices.equipment
      /\ t.prepared = IF step = EquipmentStep THEN offer.prepared ELSE choices.prepared
  BY <1>1, <1>7, ChosenParts
<1>9. /\ offer.class \in Classes /\ IsAssignment(offer.assignment)
      /\ BackgroundAllowed(offer.class, offer.background)
      /\ EquipmentAllowed(offer.class, offer.equipment)
      /\ SpellsAllowed(offer.class, offer.assignment, offer.prepared)
  BY <1>5 DEF ChoicesAllowed
<1>10. SelectionAllowed(step, t)
  <2>1. CASE step \in {0, 1}
    BY <2>1 DEF SelectionAllowed
  <2>2. CASE step = 2
    BY <1>8, <1>9, <2>2 DEF SelectionAllowed
  <2>3. CASE step = 3
    BY <1>8, <1>9, <2>3 DEF SelectionAllowed
  <2>4. CASE step = 4
    BY <1>2, <1>5, <1>8, <1>9, <2>4 DEF SelectionAllowed
  <2>5. CASE step = 5
    BY <1>2, <1>3, <1>5, <1>8, <1>9, <2>5 DEF SelectionAllowed
  <2>6. CASE step \in {6, 7}
    <3>1. ChoicesAllowed(t)
      BY <1>8, <2>6 DEF SoFar, ChoicesAllowed
    <3>2. QED
      BY <2>6, <3>1 DEF SelectionAllowed
  <2>7. QED
    BY <1>1, <2>1, <2>2, <2>3, <2>4, <2>5, <2>6
<1>11. QED
  BY <1>6, <1>7, <1>10

\* What a server derives of a draft is accepted, and no other step of a server derives one.
LEMMA DerivedStaysAccepted ==
    ASSUME HeroesInv, HeroesInv', DraftsAccepted, DerivedAccepted, NEW s \in Servers, Serve(s)
    PROVE  DerivedAccepted'
<1> DEFINE c == server[s].command
<1>1. server \in [Servers -> ServerStates] /\ server[s].step \in Steps
  BY HeldFacts, ServerFields
<1>2. ASSUME \A t \in Servers \ {s} : server'[t] = server[t],
             server'[s].step = "commit" /\ server'[s].command \in CreateCommands =>
                 SoFar(server'[s].successor.step, server'[s].successor.choices)
      PROVE  DerivedAccepted'
  BY <1>2 DEF DerivedAccepted, At
<1>3. ASSUME NEW step, step # "commit", NEW r, r.step = step, server' = [server EXCEPT ![s] = r]
      PROVE  DerivedAccepted'
  BY <1>1, <1>2, <1>3
<1>4. CASE ApplyIntent(s)
  <2>1. c \in CreateCommands /\ DatabaseInv
    BY <1>4, HeldFacts, KindsOfCommands DEF ApplyIntent, At, ToHero, HeroesInv
  <2>2. CASE Answer(s, "answered")
    BY <1>3, <2>2 DEF Answer, Idle
  <2>3. CASE IntentAllowed(drafts[c.draft], c) /\ Derived(s, "commit", Successor(drafts[c.draft], c))
    <3>1. PICK n : n = Successor(drafts[c.draft], c)
      OBVIOUS
    <3>2. PICK draft : draft = drafts[c.draft]
      OBVIOUS
    <3>3. /\ draft \in DraftStates /\ draft.choices \in HeroChoices /\ draft.step \in 0..CommitStep
          /\ c.intent = draft.step /\ draft.age = "live" /\ SelectionAllowed(draft.step, n.choices)
          /\ SoFar(draft.step, draft.choices)
      <4>1. c.draft \in Drafts
        BY <2>1, KindsOfCommands
      <4>2. SoFar(draft.step, draft.choices)
        BY <2>3, <3>2, <4>1 DEF DraftsAccepted, IntentAllowed, Stored
      <4>3. QED
        BY <2>1, <2>3, <3>1, <3>2, <4>1, <4>2, DraftFacts
           DEF IntentAllowed, DatabaseInv, CommitStep, Committed
    <3>4. n = [draft EXCEPT !.step = draft.step + 1, !.choices = Chosen(draft.choices, c.selection)]
      BY <3>1, <3>2 DEF Successor
    <3>5. n.step = draft.step + 1 /\ n.choices = Chosen(draft.choices, c.selection)
      BY <3>3, <3>4 DEF DraftStates
    <3>6. PICK offer \in HeroChoices : c.selection = Selection(c.intent, offer)
      BY <2>1, OfferFacts
    <3>7. SoFar(n.step, n.choices)
      BY <3>3, <3>5, <3>6, AcceptedAdvances
    <3>8. /\ server' = [server EXCEPT ![s].step = "commit", ![s].successor = n]
      BY <2>3, <3>1 DEF Derived
    <3>9. server'[s].successor = n /\ \A t \in Servers \ {s} : server'[t] = server[t]
      BY <1>1, <3>8 DEF ServerStates
    <3>10. QED
      BY <1>2, <3>7, <3>9
  <2>4. QED
    BY <1>4, <2>2, <2>3 DEF ApplyIntent
<1>5. CASE ApplyToHero(s) \/ ReadClaim(s)
  <2>1. c \notin CreateCommands
    <3>1. c.kind # "create"
      BY <1>5, HeldFacts, KindsOfCommands DEF ApplyToHero, ReadClaim
    <3>2. QED
      BY <3>1, KindsOfCommands
  <2>2. /\ server'[s].step = "commit" => server'[s].command = c
        /\ \A t \in Servers \ {s} : server'[t] = server[t]
    <3>1. CASE Answer(s, "answered")
      BY <1>1, <3>1 DEF Answer, Idle
    <3>2. ASSUME NEW step, NEW n, Derived(s, step, n)
          PROVE  server'[s].command = c /\ \A t \in Servers \ {s} : server'[t] = server[t]
      <4>1. server' = [server EXCEPT ![s].step = step, ![s].successor = n]
        BY <3>2 DEF Derived
      <4>2. QED
        BY <1>1, <4>1 DEF ServerStates
    <3>3. QED
      BY <1>5, <3>1, <3>2 DEF ApplyToHero, ReadClaim
  <2>3. QED
    BY <1>2, <2>1, <2>2
<1>6. CASE CommitIntent(s) \/ CommitHeroCommand(s) \/ CreateDraft(s) \/ ReadPins(s)
           \/ ReadReceipt(s) \/ ReadHero(s) \/ ReadPinnedDraft(s) \/ ExplainDuplicate(s)
           \/ Recheck(s) \/ Receive(s)
  <2>1. \E step \in Steps \ {"commit"} : server'[s].step = step
    <3>1. CASE Answer(s, "answered") \/ Answer(s, "quarantined")
      BY <1>1, <3>1 DEF Answer, Idle, Steps
    <3>2. ASSUME NEW step \in Steps \ {"commit"}, Goto(s, step) \/ Abort(s, step)
          PROVE  server'[s].step = step
      <4>1. CASE Goto(s, step)
        BY <1>1, <4>1 DEF Goto, ServerStates
      <4>2. CASE Abort(s, step)
        <5>1. server' = [server EXCEPT ![s].step = step, ![s].successor = NoCommand]
          BY <4>2 DEF Abort
        <5>2. QED
          BY <1>1, <5>1 DEF ServerStates
      <4>3. QED
        BY <3>2, <4>1, <4>2
    <3>3. ASSUME NEW step \in Steps \ {"commit"}, NEW selected,
                 server' = [server EXCEPT ![s].step = step, ![s].selected = selected]
          PROVE  server'[s].step = step
      BY <1>1, <3>3 DEF ServerStates
    <3>4. ASSUME NEW d, Accept(s, d)
          PROVE  server'[s].step \in {"receipt", "hero"}
      <4>1. server' = [server EXCEPT ![s] =
                [Idle("answered") EXCEPT !.step = IF d.kind = "create" THEN "receipt" ELSE "hero",
                                         !.command = d]]
        BY <3>4 DEF Accept
      <4>2. QED
        BY <1>1, <4>1 DEF Idle
    <3>5. CASE CommitIntent(s)
      BY <3>1, <3>2, <3>5 DEF CommitIntent, Refuse, Commit, Steps
    <3>6. CASE CommitHeroCommand(s)
      BY <3>1, <3>2, <3>6 DEF CommitHeroCommand, Refuse, Commit, Steps
    <3>7. CASE CreateDraft(s) \/ ExplainDuplicate(s) \/ Recheck(s) \/ ReadReceipt(s)
      BY <3>1, <3>2, <3>7 DEF CreateDraft, ExplainDuplicate, Recheck, ReadReceipt, Steps
    <3>8. CASE ReadHero(s) \/ ReadPinnedDraft(s)
      BY <3>2, <3>3, <3>8 DEF ReadHero, ReadPinnedDraft, Steps
    <3>9. CASE ReadPins(s)
      <4>1. AfterPins(c) \in Steps \ {"commit"}
        BY DEF AfterPins, Steps
      <4>2. QED
        BY <3>1, <3>3, <3>9, <4>1 DEF ReadPins
    <3>10. CASE Receive(s)
      BY <3>4, <3>10 DEF Receive, Steps
    <3>11. QED
      BY <1>6, <3>5, <3>6, <3>7, <3>8, <3>9, <3>10
  <2>2. \A t \in Servers \ {s} : server'[t] = server[t]
    BY <1>1, <1>6 DEF CommitIntent, CommitHeroCommand, CreateDraft, ReadPins, ReadReceipt, ReadHero,
       ReadPinnedDraft, ExplainDuplicate, Recheck, Receive, Answer, Goto, Abort, Accept, Refuse, Commit
  <2>3. QED
    BY <1>2, <2>1, <2>2
<1>7. QED
  BY <1>4, <1>5, <1>6 DEF Serve

\* Stored drafts advance by what a server derived, and otherwise only age.
LEMMA DraftsStayAccepted ==
    ASSUME HeroesInv, DraftsAccepted, DerivedAccepted, HeroesNext
    PROVE  DraftsAccepted'
<1>1. CASE UNCHANGED drafts
  BY <1>1 DEF DraftsAccepted, Stored
<1>2. DatabaseInv /\ drafts \in [Drafts -> DraftStates]
  BY DEF HeroesInv, DatabaseInv, DatabaseTypeOK
<1>3. ASSUME NEW d \in Drafts, \A e \in Drafts \ {d} : drafts'[e] = drafts[e],
             Stored(d)' => SoFar(drafts'[d].step, drafts'[d].choices)
      PROVE  DraftsAccepted'
  BY <1>3 DEF DraftsAccepted, Stored
<1>4. ASSUME NEW s \in Servers, CreateDraft(s)
      PROVE  DraftsAccepted'
  <2> DEFINE d == server[s].command.draft
  <2>1. CASE drafts[d] = Absent
    <3>1. d \in Drafts
      BY <1>4, HeldFacts, KindsOfCommands DEF CreateDraft
    <3>2. drafts' = [drafts EXCEPT ![d] = NewDraft]
      BY <1>4, <2>1 DEF CreateDraft
    <3>3. SoFar(NewDraft.step, NewDraft.choices)
      BY DEF SoFar, NewDraft, Absent, RulesStep, AbilitiesStep, BackgroundStep, EquipmentStep
    <3>4. QED
      BY <1>2, <1>3, <3>1, <3>2, <3>3
  <2>2. CASE drafts[d] # Absent
    BY <1>1, <1>4, <2>2 DEF CreateDraft
  <2>3. QED
    BY <2>1, <2>2
<1>5. ASSUME NEW s \in Servers, CommitIntent(s), ~UNCHANGED drafts
      PROVE  DraftsAccepted'
  <2>1. PICK c, n : c = server[s].command /\ n = server[s].successor
    OBVIOUS
  <2>2. c \in CreateCommands /\ DerivedDraft(n, c) /\ SoFar(n.step, n.choices)
    BY <1>5, <2>1, HeldFacts, KindsOfCommands DEF CommitIntent, At, ToHero, DerivedAccepted
  <2>3. drafts' = [drafts EXCEPT ![c.draft] = [n EXCEPT !.age = drafts[c.draft].age]]
    BY <1>5, <2>1 DEF CommitIntent, Abort, Refuse, databaseVars
  <2>4. c.draft \in Drafts /\ n \in DraftStates
    BY <2>2, KindsOfCommands DEF DerivedDraft
  <2>5. drafts'[c.draft].step = n.step /\ drafts'[c.draft].choices = n.choices
    BY <1>2, <2>3, <2>4 DEF DraftStates
  <2>6. QED
    BY <1>2, <1>3, <2>2, <2>3, <2>4, <2>5
<1>6. ASSUME NEW d \in Drafts, Expire(d)
      PROVE  DraftsAccepted'
  <2>1. Stored(d) /\ drafts' = [drafts EXCEPT ![d].age = "expired"]
    BY <1>6 DEF Expire, Stored
  <2>2. /\ drafts'[d].step = drafts[d].step /\ drafts'[d].choices = drafts[d].choices
        /\ \A e \in Drafts \ {d} : drafts'[e] = drafts[e]
    BY <1>2, <2>1 DEF DraftStates
  <2>3. QED
    BY <1>3, <2>1, <2>2 DEF DraftsAccepted
<1>7. ASSUME NEW d \in Drafts, Retire(d)
      PROVE  DraftsAccepted'
  <2>1. drafts' = [drafts EXCEPT ![d] = Retired] /\ Retired.age = "retired"
    BY <1>7 DEF Retire, Retired, Absent
  <2>2. ~Stored(d)' /\ \A e \in Drafts \ {d} : drafts'[e] = drafts[e]
    BY <1>2, <2>1 DEF Stored
  <2>3. QED
    BY <1>3, <2>2
<1>8. ASSUME NEW s \in Servers, Serve(s), ~CreateDraft(s), ~CommitIntent(s)
      PROVE  UNCHANGED drafts
  BY <1>8 DEF Serve, Receive, ReadHero, ReadPinnedDraft, ReadPins, ReadReceipt, ApplyIntent,
     ApplyToHero, ReadClaim, CommitHeroCommand, Abort, Refuse, ExplainDuplicate, Recheck,
     databaseVars
<1>9. PlayEncounter => UNCHANGED drafts
  BY DEF PlayEncounter
<1>10. QED
  BY <1>1, <1>4, <1>5, <1>6, <1>7, <1>8, <1>9 DEF HeroesNext

\* Whatever was chosen so far, the next step of the creation can be taken: for every theme,
\* class and order of the abilities, if clients may choose whatever the rules accept.
THEOREM ThereIsNoDeadEnd ==
    ASSUME OffersSuffice
    PROVE  HeroesSpec => []NoDeadEnd
<1> DEFINE Inv == HeroesInv /\ DraftsAccepted /\ DerivedAccepted
<1>1. HeroesInit => Inv
  <2>1. ASSUME HeroesInit PROVE DraftsAccepted /\ DerivedAccepted
    BY <2>1 DEF HeroesInit, DraftsAccepted, DerivedAccepted, Stored, Absent, At, Idle
  <2>2. QED
    BY <2>1, HeroesInitInv
<1>2. Inv /\ [HeroesNext]_heroesVars => Inv'
  <2> SUFFICES ASSUME Inv, [HeroesNext]_heroesVars PROVE Inv'
    OBVIOUS
  <2>1. HeroesInv'
    BY HeroesStepInv
  <2>2. CASE UNCHANGED heroesVars
    BY <2>1, <2>2 DEF heroesVars, databaseVars, DraftsAccepted, DerivedAccepted, Stored, At
  <2>3. CASE HeroesNext
    <3>1. DraftsAccepted'
      BY <2>3, DraftsStayAccepted
    <3>2. CASE \E s \in Servers : Serve(s)
      BY <2>1, <3>1, <3>2, DerivedStaysAccepted
    <3>3. CASE server' = server
      BY <2>1, <3>1, <3>3 DEF DerivedAccepted, At
    <3>4. QED
      BY <2>3, <3>2, <3>3 DEF HeroesNext, Expire, Retire, PlayEncounter
  <2>4. QED
    BY <2>2, <2>3
<1>3. Inv => NoDeadEnd
  <2> SUFFICES ASSUME Inv, NEW d \in Drafts, drafts[d].age = "live", drafts[d].step < CommitStep
               PROVE  \E offer \in UNION {Offers[e] : e \in Drafts} :
                          SelectionAllowed(drafts[d].step,
                              Chosen(drafts[d].choices, Selection(drafts[d].step, offer)))
    BY DEF NoDeadEnd
  <2>1. /\ drafts[d].choices \in HeroChoices /\ drafts[d].step \in 0..ReviewStep
        /\ SoFar(drafts[d].step, drafts[d].choices)
    BY DraftFacts DEF HeroesInv, DatabaseInv, DraftsAccepted, Stored, ReviewStep, CommitStep, Committed
  <2>2. PICK choices, step : choices = drafts[d].choices /\ step = drafts[d].step
    OBVIOUS
  <2>3. QED
    BY <2>1, <2>2, AcceptedContinues
<1>4. QED
  BY <1>1, <1>2, <1>3, PTL DEF HeroesSpec

\* No hero is ever created while the core character counts as the account's active one, which
\* it does in every campaign that the application creates: the transaction of a commit refuses
\* a second active character of the account and campaign, whatever clients send.
THEOREM NoHeroIsEverCreated == CoreSharesAccount => (HeroesSpec => [](heroes = {}))
<1> SUFFICES ASSUME CoreSharesAccount PROVE HeroesSpec => [](heroes = {})
  OBVIOUS
<1>1. HeroesInit => heroes = {}
  BY DEF HeroesInit
<1>2. heroes = {} /\ [HeroesNext]_heroesVars => (heroes = {})'
  <2> SUFFICES ASSUME heroes = {}, [HeroesNext]_heroesVars PROVE heroes' = {}
    OBVIOUS
  <2>1. ASSUME NEW s \in Servers, CommitIntent(s)
        PROVE  heroes' = heroes
    BY <2>1 DEF CommitIntent, Abort, Refuse, Commit, AccountHasCharacter, databaseVars
  <2>2. ASSUME NEW s \in Servers, CommitHeroCommand(s)
        PROVE  FALSE
    BY <2>2 DEF CommitHeroCommand
  <2>3. ASSUME NEW s \in Servers, Serve(s), ~CommitIntent(s), ~CommitHeroCommand(s)
        PROVE  heroes' = heroes
    BY <2>3 DEF Serve, Receive, ReadHero, ReadPinnedDraft, ReadPins, ReadReceipt, CreateDraft,
       ApplyIntent, ApplyToHero, ReadClaim, ExplainDuplicate, Recheck, databaseVars
  <2>4. PlayEncounter => heroes' = {}
    BY DEF PlayEncounter
  <2>5. (\E d \in Drafts : Expire(d) \/ Retire(d)) \/ UNCHANGED heroesVars => heroes' = heroes
    BY DEF Expire, Retire, heroesVars, databaseVars
  <2>6. QED
    BY <2>1, <2>2, <2>3, <2>4, <2>5 DEF HeroesNext
<1>3. QED
  BY <1>1, <1>2, PTL DEF HeroesSpec

-----------------------------------------------------------------------------
(* The game master service                                                 *)

\* An open circuit has counted up to the threshold, and never more failures than there were
\* in a row: a look that closes the circuit forgets the count, an accepted proposal both.
CircuitCounts ==
    /\ circuit.failures <= streak
    /\ circuit.left # NoTime => circuit.failures = Threshold

AskingRequests == {r \in Requests : request[r].step = "asking"}
GameMasterInvariant == GameMasterTypeOK /\ CircuitCounts /\ PermitsComeBack

RequestRecords == [step : {"idle", "waiting", "asking"}, purpose : Purposes,
                   brief : Briefs, legal : 0..2, attempts : 0..MaxAttempts,
                   usage : [total : Counts, parts : Counts], left : 0..Deadline]
Circuits == [failures : 0..Threshold, left : {NoTime} \cup 0..OpenFor]
AnswerKinds == {"none", "authored", "error"} \cup Dispositions

\* The invariant on types, with its sets named.
LEMMA TypesNamed ==
    GameMasterTypeOK <=>
        /\ backend \in Backends
        /\ circuit \in Circuits
        /\ permits \in 0..MaxConcurrency
        /\ request \in [Requests -> RequestRecords]
        /\ answer \in [Requests -> AnswerKinds]
        /\ streak \in 0..Threshold
  BY DEF GameMasterTypeOK, RequestRecords, Circuits, AnswerKinds

----------------------------------------------------------------------------
(* Types of the values that the actions assign. *)

\* A request that is over, and one that was just prepared, are well typed.
LEMMA IdleType == NoRequest \in RequestRecords
  BY GameMasterAssumption DEF NoRequest, RequestRecords, NoUsage, Counts, Purposes, Briefs

LEMMA PreparedType ==
    ASSUME NEW i \in Inputs
    PROVE  [step |-> "waiting", purpose |-> i.purpose, brief |-> i.brief, legal |-> i.legal,
            attempts |-> 0, usage |-> NoUsage, left |-> Deadline] \in RequestRecords
  <1>1. i.purpose \in Purposes /\ i.brief \in Briefs /\ i.legal \in 0..2
    BY DEF Inputs
  <1>2. NoUsage \in [total : Counts, parts : Counts]
    BY DEF NoUsage, Counts
  <1> QED BY <1>1, <1>2, GameMasterAssumption DEF RequestRecords

\* Single updates of a request.
LEMMA RequestUpdates ==
    ASSUME NEW q \in RequestRecords
    PROVE  /\ \A s \in {"idle", "waiting", "asking"} : [q EXCEPT !.step = s] \in RequestRecords
           /\ \A n \in 0..MaxAttempts : [q EXCEPT !.attempts = n] \in RequestRecords
           /\ \A u \in [total : Counts, parts : Counts] : [q EXCEPT !.usage = u] \in RequestRecords
           /\ \A t \in 0..Deadline : [q EXCEPT !.left = t] \in RequestRecords
  BY DEF RequestRecords

\* A request that obtains its permit asks for the first time.
LEMMA AcquiredType ==
    ASSUME NEW q \in RequestRecords
    PROVE  /\ [q EXCEPT !.step = "asking", !.attempts = 1] \in RequestRecords
           /\ [q EXCEPT !.step = "asking", !.attempts = 1].step = "asking"
  <1> DEFINE p == [q EXCEPT !.step = "asking"]
  <1>1. p \in RequestRecords
    BY RequestUpdates
  <1>2. [p EXCEPT !.attempts = 1] \in RequestRecords
    <2>1. 1 \in 0..MaxAttempts
      BY GameMasterAssumption
    <2> QED BY <1>1, <2>1, RequestUpdates
  <1>3. [q EXCEPT !.step = "asking", !.attempts = 1] = [p EXCEPT !.attempts = 1]
    BY DEF RequestRecords
  <1> QED BY <1>2, <1>3 DEF RequestRecords

\* A request that has its proposal repaired goes on asking.
LEMMA RepairedType ==
    ASSUME NEW q \in RequestRecords, q.attempts < MaxAttempts,
           NEW u \in [total : Counts, parts : Counts]
    PROVE  /\ [q EXCEPT !.attempts = @ + 1, !.usage = u] \in RequestRecords
           /\ [q EXCEPT !.attempts = @ + 1, !.usage = u].step = q.step
  <1> DEFINE p == [q EXCEPT !.attempts = q.attempts + 1]
  <1>1. q.attempts + 1 \in 0..MaxAttempts
    BY GameMasterAssumption DEF RequestRecords
  <1>2. p \in RequestRecords
    BY <1>1, RequestUpdates
  <1>3. [p EXCEPT !.usage = u] \in RequestRecords
    BY <1>2, RequestUpdates
  <1>4. [q EXCEPT !.attempts = @ + 1, !.usage = u] = [p EXCEPT !.usage = u]
    BY DEF RequestRecords
  <1> QED BY <1>3, <1>4 DEF RequestRecords

\* Counts of tokens stay counts when they are added up.
LEMMA UsageType ==
    ASSUME NEW u \in [total : Counts, parts : Counts], NEW v \in [total : Counts, parts : Counts]
    PROVE  AddUsage(u, v) \in [total : Counts, parts : Counts]
  <1>1. \A a, b \in Counts : AddOptional(a, b) \in Counts
    BY DEF AddOptional, Known, Counts, Unknown
  <1> QED BY <1>1 DEF AddUsage

\* Every answer of a provider carries counts, or none.
LEMMA ReplyUsage ==
    ASSUME NEW i, NEW reply \in ProviderReplies(i)
    PROVE  reply.usage \in [total : Counts, parts : Counts]
  <1>1. NoUsage \in [total : Counts, parts : Counts]
    BY DEF NoUsage, Counts
  <1>2. \A class : Failed(class).usage = NoUsage
    BY DEF Failed
  <1>3. \A c, u : Proposed(c, u).usage = u
    BY DEF Proposed
  <1>4. CASE backend = "disabled"
    BY <1>1, <1>2, <1>4 DEF ProviderReplies
  <1>5. CASE backend = "fake"
    BY <1>1, <1>3, <1>5 DEF ProviderReplies
  <1>6. CASE backend \notin {"disabled", "fake"}
    <2>1. \/ \E class \in ProviderErrors : reply = Failed(class)
          \/ \E c \in Candidates, u \in Usages : reply = Proposed(c, u)
      BY <1>6 DEF ProviderReplies
    <2> QED BY <2>1, <1>1, <1>2, <1>3, GameMasterAssumption
  <1> QED BY <1>4, <1>5, <1>6

----------------------------------------------------------------------------
(* The circuit *)

\* What the circuit and the history are typed and related by.
CircuitOK == circuit \in Circuits /\ streak \in 0..Threshold /\ CircuitCounts

\* A failure is counted by the circuit and by the history alike.
LEMMA FailureCounts ==
    ASSUME CircuitOK, CircuitFails
    PROVE  CircuitOK'
  <1> DEFINE n == CountedFailures
  <1>1. circuit.failures \in 0..Threshold /\ circuit.left \in {NoTime} \cup 0..OpenFor
    BY DEF CircuitOK, Circuits
  <1>2. n \in 0..Threshold /\ (circuit.failures = Threshold => n = Threshold)
    BY <1>1, GameMasterAssumption DEF CountedFailures
  <1>3. streak' \in 0..Threshold /\ n <= streak'
    BY <1>1, GameMasterAssumption DEF CircuitOK, CircuitCounts, CircuitFails, CountedFailures
  <1>4. circuit'.failures = n
        /\ circuit'.left = IF n = Threshold THEN OpenFor ELSE circuit.left
    BY DEF CircuitFails, AfterFailure
  <1>5. circuit' \in Circuits
    BY <1>1, <1>2, GameMasterAssumption DEF CircuitFails, AfterFailure, Circuits
  <1>6. CircuitCounts'
    BY <1>1, <1>2, <1>3, <1>4, GameMasterAssumption DEF CircuitOK, CircuitCounts
  <1> QED BY <1>3, <1>5, <1>6 DEF CircuitOK

\* An accepted proposal, or a look at a circuit whose time is up, closes it.
LEMMA ClosedCounts ==
    ASSUME CircuitOK, streak' \in 0..Threshold, circuit' = Closed
    PROVE  CircuitOK'
  BY GameMasterAssumption DEF CircuitOK, CircuitCounts, Circuits, Closed

\* Time takes a circuit no further than to the moment it is tried again.
LEMMA TickCounts ==
    ASSUME CircuitOK, Tick
    PROVE  CircuitOK'
  <1>1. circuit.failures \in 0..Threshold /\ circuit.left \in {NoTime} \cup 0..OpenFor
    BY DEF CircuitOK, Circuits
  <1>2. Less(circuit.left) \in {NoTime} \cup 0..OpenFor
        /\ (Less(circuit.left) # NoTime => circuit.left # NoTime)
    BY <1>1, GameMasterAssumption DEF Less
  <1>3. circuit' = [circuit EXCEPT !.left = Less(circuit.left)] /\ streak' = streak
    BY DEF Tick
  <1>4. circuit' \in Circuits
    BY <1>2, <1>3 DEF CircuitOK, Circuits
  <1>5. circuit'.failures = circuit.failures /\ circuit'.left = Less(circuit.left)
    BY <1>3 DEF CircuitOK, Circuits
  <1> QED BY <1>2, <1>3, <1>4, <1>5 DEF CircuitOK, CircuitCounts

----------------------------------------------------------------------------
(* The permits *)

PermitsOK == permits \in 0..MaxConcurrency /\ PermitsComeBack

\* The requests that ask are finitely many.
LEMMA AskingIsFinite == IsFiniteSet(AskingRequests) /\ Cardinality(AskingRequests) \in Nat
  BY GameMasterAssumption, FS_Subset, FS_CardinalityType DEF AskingRequests

LEMMA PermitsNamed == PermitsComeBack <=> permits + Cardinality(AskingRequests) = MaxConcurrency
  BY DEF PermitsComeBack, AskingRequests

\* A request that begins to ask takes a permit.
LEMMA PermitTaken ==
    ASSUME PermitsOK, NEW r \in Requests, permits > 0, permits' = permits - 1,
           request[r].step # "asking", AskingRequests' = AskingRequests \cup {r}
    PROVE  PermitsOK'
  <1>1. r \notin AskingRequests
    BY DEF AskingRequests
  <1>2. Cardinality(AskingRequests') = Cardinality(AskingRequests) + 1
    BY <1>1, AskingIsFinite, FS_AddElement
  <1> QED BY <1>2, AskingIsFinite, PermitsNamed, GameMasterAssumption DEF PermitsOK, PermitsComeBack, AskingRequests

\* A request that ends gives back the permit it holds, and no other.
LEMMA PermitReturned ==
    ASSUME PermitsOK, NEW r \in Requests, ReturnsPermit(r),
           AskingRequests' = AskingRequests \ {r}
    PROVE  PermitsOK'
  <1>1. CASE r \in AskingRequests
    <2>1. Cardinality(AskingRequests') = Cardinality(AskingRequests) - 1
      BY <1>1, AskingIsFinite, FS_RemoveElement
    <2>2. Cardinality(AskingRequests') \in Nat
      BY AskingIsFinite, FS_Subset, FS_CardinalityType
    <2>3. permits' = permits + 1
      BY <1>1 DEF ReturnsPermit, AskingRequests
    <2> QED BY <2>1, <2>2, <2>3, AskingIsFinite, PermitsNamed, GameMasterAssumption
        DEF PermitsOK, PermitsComeBack, AskingRequests
  <1>2. CASE r \notin AskingRequests
    <2>1. AskingRequests' = AskingRequests /\ permits' = permits
      BY <1>2 DEF ReturnsPermit, AskingRequests
    <2> QED BY <2>1 DEF PermitsOK, PermitsComeBack, AskingRequests
  <1> QED BY <1>1, <1>2

\* Steps that leave the permits and those who hold them alone.
LEMMA PermitsKept ==
    ASSUME PermitsOK, permits' = permits, AskingRequests' = AskingRequests
    PROVE  PermitsOK'
  BY DEF PermitsOK, PermitsComeBack, AskingRequests

----------------------------------------------------------------------------
(* The steps *)

\* The invariant in the three parts that the steps disturb separately.
RequestsOK == /\ backend \in Backends
              /\ request \in [Requests -> RequestRecords]
              /\ answer \in [Requests -> AnswerKinds]

LEMMA InvariantParts == GameMasterInvariant <=> RequestsOK /\ CircuitOK /\ PermitsOK
  BY TypesNamed DEF GameMasterInvariant, RequestsOK, CircuitOK, PermitsOK

\* An answer ends its request.
LEMMA AnswerEnds ==
    ASSUME RequestsOK, NEW r \in Requests, NEW what \in AnswerKinds, Answers(r, what),
           UNCHANGED backend
    PROVE  RequestsOK' /\ AskingRequests' = AskingRequests \ {r}
  <1>1. RequestsOK'
    BY IdleType DEF RequestsOK, Answers
  <1>2. AskingRequests' = AskingRequests \ {r}
    <2>1. NoRequest.step = "idle"
      BY DEF NoRequest
    <2>2. \A s \in Requests : request'[s] = IF s = r THEN NoRequest ELSE request[s]
      BY DEF RequestsOK, Answers
    <2> QED BY <2>1, <2>2 DEF AskingRequests
  <1> QED BY <1>1, <1>2

\* A failure is answered with the authored proposal.
LEMMA FailureEnds ==
    ASSUME RequestsOK, CircuitOK, PermitsOK, NEW r \in Requests, Fails(r), UNCHANGED backend
    PROVE  RequestsOK' /\ CircuitOK' /\ PermitsOK'
  <1>1. Answers(r, Authored(request[r].brief)) /\ CircuitFails /\ ReturnsPermit(r)
    BY DEF Fails, FallsBack
  <1>2. Authored(request[r].brief) \in AnswerKinds
    BY DEF Authored, AnswerKinds
  <1>3. RequestsOK' /\ AskingRequests' = AskingRequests \ {r}
    BY <1>1, <1>2, AnswerEnds
  <1>4. CircuitOK'
    BY <1>1, FailureCounts
  <1>5. PermitsOK'
    BY <1>1, <1>3, PermitReturned
  <1> QED BY <1>3, <1>4, <1>5

LEMMA GenerateKeeps ==
    ASSUME RequestsOK, CircuitOK, PermitsOK, NEW r \in Requests, NEW i \in Inputs, Generate(r, i)
    PROVE  RequestsOK' /\ CircuitOK' /\ PermitsOK'
  <1>1. r \notin AskingRequests /\ UNCHANGED <<backend, permits>>
    BY DEF Generate, AskingRequests
  <1>2. CASE RefusedByCircuit(r, i)
    <2>1. Answers(r, Authored(i.brief)) /\ UNCHANGED <<circuit, streak>>
      BY <1>2 DEF RefusedByCircuit, FallsBack
    <2>2. Authored(i.brief) \in AnswerKinds
      BY DEF Authored, AnswerKinds
    <2>3. RequestsOK' /\ AskingRequests' = AskingRequests
      BY <1>1, <2>1, <2>2, AnswerEnds
    <2>4. CircuitOK'
      BY <2>1 DEF CircuitOK, CircuitCounts
    <2> QED BY <1>1, <2>3, <2>4, PermitsKept
  <1>3. CASE ~IsOpen
    <2> DEFINE q == [step |-> "waiting", purpose |-> i.purpose, brief |-> i.brief,
                     legal |-> i.legal, attempts |-> 0, usage |-> NoUsage, left |-> Deadline]
    <2>1. /\ circuit' = Looked /\ streak' = streak
          /\ request' = [request EXCEPT ![r] = q]
          /\ answer' = [answer EXCEPT ![r] = "none"]
      BY <1>3 DEF Generate
    <2>2. q \in RequestRecords /\ q.step = "waiting"
      BY PreparedType
    <2> HIDE DEF q
    <2>3. RequestsOK'
      BY <1>1, <2>1, <2>2 DEF RequestsOK, AnswerKinds
    <2>4. AskingRequests' = AskingRequests
      BY <1>1, <2>1, <2>2 DEF RequestsOK, AskingRequests
    <2>5. CircuitOK'
      <3>1. CASE circuit.left = 0
        BY <3>1, <2>1, ClosedCounts DEF Looked, CircuitOK
      <3>2. CASE circuit.left # 0
        BY <3>2, <2>1 DEF Looked, CircuitOK, CircuitCounts
      <3> QED BY <3>1, <3>2
    <2> QED BY <1>1, <2>3, <2>4, <2>5, PermitsKept
  <1> QED BY <1>2, <1>3 DEF Generate

LEMMA AcquireKeeps ==
    ASSUME RequestsOK, CircuitOK, PermitsOK, NEW r \in Requests, Acquire(r)
    PROVE  RequestsOK' /\ CircuitOK' /\ PermitsOK'
  <1> DEFINE q == [request[r] EXCEPT !.step = "asking", !.attempts = 1]
  <1>1. /\ request[r].step = "waiting" /\ permits > 0 /\ permits' = permits - 1
        /\ request' = [request EXCEPT ![r] = q]
        /\ UNCHANGED <<backend, circuit, answer, streak>>
    BY DEF Acquire
  <1>2. q \in RequestRecords /\ q.step = "asking"
    BY AcquiredType DEF RequestsOK
  <1> HIDE DEF q
  <1>3. RequestsOK'
    BY <1>1, <1>2 DEF RequestsOK
  <1>4. AskingRequests' = AskingRequests \cup {r}
    BY <1>1, <1>2 DEF RequestsOK, AskingRequests
  <1>5. PermitsOK'
    BY <1>1, <1>4, PermitTaken
  <1>6. CircuitOK'
    BY <1>1 DEF CircuitOK, CircuitCounts
  <1> QED BY <1>3, <1>5, <1>6

LEMMA RepairKeeps ==
    ASSUME RequestsOK, CircuitOK, PermitsOK, NEW r \in Requests,
           NEW usage \in [total : Counts, parts : Counts],
           request[r].attempts < AttemptsOf(request[r].brief), Repairs(r, usage), UNCHANGED backend
    PROVE  RequestsOK' /\ CircuitOK' /\ PermitsOK'
  <1> DEFINE q == [request[r] EXCEPT !.attempts = request[r].attempts + 1, !.usage = usage]
  <1>1. request' = [request EXCEPT ![r] = q] /\ UNCHANGED <<circuit, permits, answer, streak>>
    BY DEF Repairs
  <1>2. request[r] \in RequestRecords
    BY DEF RequestsOK
  <1>3. request[r].attempts < MaxAttempts
    <2>1. request[r].attempts \in Nat
      BY <1>2 DEF RequestRecords
    <2> QED BY <2>1, GameMasterAssumption DEF AttemptsOf
  <1>4. q \in RequestRecords /\ q.step = request[r].step
    BY <1>2, <1>3, RepairedType
  <1> HIDE DEF q
  <1>5. RequestsOK'
    BY <1>1, <1>4 DEF RequestsOK
  <1>6. AskingRequests' = AskingRequests
    BY <1>1, <1>4 DEF RequestsOK, AskingRequests
  <1>7. CircuitOK'
    BY <1>1 DEF CircuitOK, CircuitCounts
  <1> QED BY <1>1, <1>5, <1>6, <1>7, PermitsKept

LEMMA AcceptanceKeeps ==
    ASSUME RequestsOK, CircuitOK, PermitsOK, NEW r \in Requests, NEW c, Accepts(r, c),
           UNCHANGED backend
    PROVE  RequestsOK' /\ CircuitOK' /\ PermitsOK'
  <1>1. CircuitSucceeds /\ Answers(r, Disposition(c)) /\ ReturnsPermit(r)
    BY DEF Accepts
  <1>2. Disposition(c) \in AnswerKinds
    <2>1. CASE c.type = "narration"
      BY <2>1 DEF Disposition, AnswerKinds, Dispositions
    <2>2. CASE c.type # "narration"
      BY <2>2 DEF Disposition, AnswerKinds, Dispositions
    <2> QED BY <2>1, <2>2
  <1>3. RequestsOK' /\ AskingRequests' = AskingRequests \ {r}
    BY <1>1, <1>2, AnswerEnds
  <1>4. CircuitOK'
    <2>1. circuit' = Closed /\ streak' \in 0..Threshold
      BY <1>1, GameMasterAssumption DEF CircuitSucceeds, Succeeded
    <2> QED BY <2>1, ClosedCounts
  <1> QED BY <1>1, <1>3, <1>4, PermitReturned

LEMMA ReplyKeeps ==
    ASSUME RequestsOK, CircuitOK, PermitsOK, NEW r \in Requests,
           NEW reply \in ProviderReplies(request[r]), Reply(r, reply)
    PROVE  RequestsOK' /\ CircuitOK' /\ PermitsOK'
  <1> DEFINE usage == AddUsage(request[r].usage, reply.usage)
  <1>1. usage \in [total : Counts, parts : Counts]
    <2>1. request[r].usage \in [total : Counts, parts : Counts]
      BY DEF RequestsOK, RequestRecords
    <2> QED BY <2>1, ReplyUsage, UsageType
  <1> HIDE DEF usage
  <1>2. /\ UNCHANGED backend
        /\ \/ Fails(r)
           \/ Accepts(r, reply.proposal)
           \/ request[r].attempts < AttemptsOf(request[r].brief) /\ Repairs(r, usage)
    BY DEF Reply, usage
  <1> QED BY <1>1, <1>2, FailureEnds, AcceptanceKeeps, RepairKeeps

LEMMA DropKeeps ==
    ASSUME RequestsOK, CircuitOK, PermitsOK, NEW r \in Requests, Drop(r)
    PROVE  RequestsOK' /\ CircuitOK' /\ PermitsOK'
  <1>1. /\ Answers(r, "none") /\ ReturnsPermit(r)
        /\ UNCHANGED <<backend, circuit, streak>>
    BY DEF Drop
  <1>2. RequestsOK' /\ AskingRequests' = AskingRequests \ {r}
    BY <1>1, AnswerEnds DEF AnswerKinds
  <1>3. CircuitOK'
    BY <1>1 DEF CircuitOK, CircuitCounts
  <1> QED BY <1>1, <1>2, <1>3, PermitReturned

LEMMA TickKeeps ==
    ASSUME RequestsOK, CircuitOK, PermitsOK, Tick
    PROVE  RequestsOK' /\ CircuitOK' /\ PermitsOK'
  <1>1. /\ request' = [r \in Requests |-> [request[r] EXCEPT !.left = Less(request[r].left)]]
        /\ UNCHANGED <<backend, permits, answer, streak>>
    BY DEF Tick
  <1>2. \A r \in Requests : Less(request[r].left) \in 0..Deadline
    BY GameMasterAssumption DEF RequestsOK, RequestRecords, Less
  <1>3. RequestsOK'
    BY <1>1, <1>2, RequestUpdates DEF RequestsOK
  <1>4. AskingRequests' = AskingRequests
    BY <1>1 DEF RequestsOK, RequestRecords, AskingRequests
  <1> QED BY <1>1, <1>3, <1>4, TickCounts, PermitsKept

\* The invariant holds at the start and every step keeps it.
LEMMA GameMasterInductive == Init /\ [][Next]_vars => []GameMasterInvariant
  <1>1. Init => GameMasterInvariant
    <2> SUFFICES ASSUME Init PROVE GameMasterInvariant
      OBVIOUS
    <2>1. RequestsOK
      BY IdleType DEF Init, RequestsOK, AnswerKinds
    <2>2. CircuitOK
      BY GameMasterAssumption DEF Init, CircuitOK, CircuitCounts, Circuits, Closed
    <2>3. PermitsOK
      <3>1. AskingRequests = {}
        BY DEF Init, NoRequest, AskingRequests
      <3> QED BY <3>1, PermitsNamed, FS_EmptySet, GameMasterAssumption DEF Init, PermitsOK
    <2> QED BY <2>1, <2>2, <2>3, InvariantParts
  <1>2. GameMasterInvariant /\ [Next]_vars => GameMasterInvariant'
    <2> SUFFICES ASSUME RequestsOK, CircuitOK, PermitsOK, [Next]_vars
                 PROVE  RequestsOK' /\ CircuitOK' /\ PermitsOK'
      BY TypesNamed DEF GameMasterInvariant, GameMasterTypeOK, RequestsOK, CircuitOK, PermitsOK,
          RequestRecords, Circuits, AnswerKinds
    <2>1. ASSUME NEW r \in Requests, NEW i \in Inputs, Generate(r, i)
          PROVE  RequestsOK' /\ CircuitOK' /\ PermitsOK'
      BY <2>1, GenerateKeeps
    <2>2. ASSUME NEW r \in Requests, Acquire(r)
          PROVE  RequestsOK' /\ CircuitOK' /\ PermitsOK'
      BY <2>2, AcquireKeeps
    <2>3. ASSUME NEW r \in Requests, TimeOut(r)
          PROVE  RequestsOK' /\ CircuitOK' /\ PermitsOK'
      BY <2>3, FailureEnds DEF TimeOut
    <2>4. ASSUME NEW r \in Requests, Drop(r)
          PROVE  RequestsOK' /\ CircuitOK' /\ PermitsOK'
      BY <2>4, DropKeeps
    <2>5. ASSUME NEW r \in Requests, NEW reply \in ProviderReplies(request[r]), Reply(r, reply)
          PROVE  RequestsOK' /\ CircuitOK' /\ PermitsOK'
      BY <2>5, ReplyKeeps
    <2>6. CASE Tick
      BY <2>6, TickKeeps
    <2>7. CASE UNCHANGED vars
      <3>1. RequestsOK'
        BY <2>7 DEF vars, RequestsOK
      <3>2. CircuitOK'
        BY <2>7 DEF vars, CircuitOK, CircuitCounts
      <3>3. PermitsOK'
        BY <2>7 DEF vars, PermitsOK, PermitsComeBack
      <3> QED BY <3>1, <3>2, <3>3
    <2> QED BY <2>1, <2>2, <2>3, <2>4, <2>5, <2>6, <2>7 DEF Next
  <1> QED BY <1>1, <1>2, PTL

----------------------------------------------------------------------------
(* The theorems *)

\* The state of the service is well typed: no request calls the provider more often than it
\* may, and nothing is answered but what a caller knows (typed_gm.rs:556-917).
THEOREM GameMasterTypeCorrect == GameMasterSpec => []GameMasterTypeOK
  <1>1. GameMasterInvariant => GameMasterTypeOK
    BY DEF GameMasterInvariant
  <1> QED BY <1>1, GameMasterInductive, PTL DEF GameMasterSpec

\* The circuit is open only after a threshold of failures without an accepted proposal among
\* them, in whatever order the answers of concurrent requests arrive (typed_gm.rs:885-917).
THEOREM CircuitOpensByFailures == GameMasterSpec => []OpenedByFailures
  <1>1. GameMasterInvariant => OpenedByFailures
    <2> SUFFICES ASSUME RequestsOK, CircuitOK, PermitsOK PROVE OpenedByFailures
      BY InvariantParts
    <2>1. circuit.failures \in 0..Threshold
      BY DEF CircuitOK, Circuits
    <2> QED BY <2>1, GameMasterAssumption DEF CircuitOK, CircuitCounts, OpenedByFailures
  <1> QED BY <1>1, GameMasterInductive, PTL DEF GameMasterSpec

\* Permits are neither lost nor made: each is free, or held by one request that asks the
\* provider, however requests end (typed_gm.rs:624-655).
THEOREM PermitsAreReturned == GameMasterSpec => []PermitsComeBack
  <1>1. GameMasterInvariant => PermitsComeBack
    BY DEF GameMasterInvariant
  <1> QED BY <1>1, GameMasterInductive, PTL DEF GameMasterSpec
===============================================================================
