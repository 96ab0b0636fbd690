------------------------------ MODULE HeroRules ------------------------------
(***************************************************************************)
(* The rules of a hero of level one or two: which choices its creation     *)
(* accepts, the sheet derived from them, and what rewards, the level-up    *)
(* and encounters do to it.  Lists that the code keeps sorted and free of  *)
(* duplicates are sets.  Left out: texts, identities, and the parts of the *)
(* sheet that only restate the chosen equipment or spells.                 *)
(***************************************************************************)
EXTENDS Integers, FiniteSets

AtLeast(m, n) == IF n < m THEN m ELSE n
AtMost(m, n) == IF n > m THEN m ELSE n

-----------------------------------------------------------------------------
(* Abilities, classes and backgrounds.                                     *)

Abilities == {"strength", "dexterity", "constitution", "intelligence", "wisdom", "charisma"}
StandardArray == {8, 10, 12, 13, 14, 15}
NoAssignment == [a \in Abilities |-> 0]

\* Every value of the standard array is used exactly once.
IsAssignment(assignment) == {assignment[a] : a \in Abilities} = StandardArray

\* A human adds one to every ability.
HumanScore(assignment, a) == assignment[a] + 1
Modifier(assignment, a) == (HumanScore(assignment, a) - 10) \div 2

Classes == [class : {"fighter"}, style : {"defense", "dueling"}]
               \cup [class : {"wizard"}, style : {"none"}]
NoClass == [class |-> "none", style |-> "none"]
HitDie(c) == IF c.class = "fighter" THEN 10 ELSE 6

DexteritySkills == {"acrobatics", "sleight_of_hand", "stealth"}
IntelligenceSkills == {"arcana", "history", "investigation", "nature", "religion"}
WisdomSkills == {"animal_handling", "insight", "medicine", "perception", "survival"}
CharismaSkills == {"deception", "intimidation", "performance", "persuasion"}
SkillAbility ==
    [s \in {"athletics"} \cup DexteritySkills \cup IntelligenceSkills \cup WisdomSkills
            \cup CharismaSkills |->
        IF s \in DexteritySkills THEN "dexterity"
        ELSE IF s \in IntelligenceSkills THEN "intelligence"
        ELSE IF s \in WisdomSkills THEN "wisdom"
        ELSE IF s \in CharismaSkills THEN "charisma" ELSE "strength"]

ClassSkills(c) ==
    IF c.class = "fighter"
    THEN {"acrobatics", "animal_handling", "athletics", "history", "insight", "intimidation",
          "perception", "survival"}
    ELSE {"arcana", "history", "insight", "investigation", "medicine", "religion"}

BackgroundSkills(background) ==
    IF background = "soldier" THEN {"athletics", "intimidation"} ELSE {"arcana", "history"}

Backgrounds == [background : {"soldier", "sage"}, skills : SUBSET DOMAIN SkillAbility]
NoBackground == [background |-> "none", skills |-> {}]

\* Two skills of the class that the background does not give already.
BackgroundAllowed(c, b) ==
    /\ Cardinality(b.skills) = 2
    /\ b.skills \subseteq ClassSkills(c) \ BackgroundSkills(b.background)

-----------------------------------------------------------------------------
(* Equipment and spells.                                                   *)

Armor == {"chain_mail", "leather_armor"}
Items == Armor \cup {"simple_weapons", "longsword", "light_crossbow", "shield",
                     "explorers_pack", "scholars_pack", "spellbook", "arcane_focus"}

\* The die of each simple weapon.
D4Weapons == {"club", "dagger", "light_hammer", "sickle"}
TwoHanded == {"greatclub"}
SimpleWeapons == D4Weapons \cup TwoHanded
                     \cup {"handaxe", "javelin", "mace", "quarterstaff", "spear"}
SimpleDie == [w \in SimpleWeapons |->
                 IF w \in D4Weapons THEN 4 ELSE IF w \in TwoHanded THEN 8 ELSE 6]
WizardWeapons == {"dagger", "quarterstaff"}
Finesse == {"dagger"}

Equipment == [carried : SUBSET Items, simple : SimpleWeapons \cup {"none"},
              armor : Armor \cup {"none"}, shield : BOOLEAN]
NoEquipment == [carried |-> {}, simple |-> "none", armor |-> "none", shield |-> FALSE]

\* What is worn and wielded is what is carried.
Consistent(e) ==
    /\ "simple_weapons" \in e.carried <=> e.simple # "none"
    /\ Cardinality(e.carried \cap Armor) <= 1
    /\ "shield" \in e.carried <=> e.shield
    /\ e.armor = "none" => e.carried \cap Armor = {}
    /\ e.armor # "none" => e.armor \in e.carried

FighterEquipment(style, e) ==
    /\ e.carried \cap Armor # {}
    /\ Cardinality(e.carried \cap {"simple_weapons", "longsword"}) = 1
    /\ {"light_crossbow", "explorers_pack"} \subseteq e.carried
    /\ e.carried \cap {"scholars_pack", "spellbook", "arcane_focus"} = {}
    /\ e.simple \in TwoHanded => ~e.shield /\ style # "dueling"

WizardEquipment(e) ==
    /\ e.carried = {"simple_weapons", "scholars_pack", "spellbook", "arcane_focus"}
    /\ e.simple \in WizardWeapons

EquipmentAllowed(c, e) ==
    /\ Consistent(e)
    /\ IF c.class = "fighter" THEN FighterEquipment(c.style, e) ELSE WizardEquipment(e)

LevelOneSpells == {"magic_missile", "shield", "sleep"}
Spells == LevelOneSpells \cup {"fire_bolt", "light", "mage_hand"}
\* Mutant: the capacity is not limited by the spells there are.
PreparedUncapped(level, intelligence) == AtLeast(1, level + intelligence)
PreparedCapacity(level, intelligence) == AtMost(3, AtLeast(1, level + intelligence))

\* The cantrips and the spellbook are fixed; a fighter prepares nothing.
SpellsAllowed(c, assignment, prepared) ==
    IF c.class = "fighter" THEN prepared = {}
    ELSE /\ prepared \subseteq LevelOneSpells
         /\ Cardinality(prepared) = PreparedCapacity(1, Modifier(assignment, "intelligence"))

-----------------------------------------------------------------------------
(* The derived sheet.                                                      *)

ChoicesAllowed(c) ==
    /\ c.class \in Classes
    /\ IsAssignment(c.assignment)
    /\ BackgroundAllowed(c.class, c.background)
    /\ EquipmentAllowed(c.class, c.equipment)
    /\ SpellsAllowed(c.class, c.assignment, c.prepared)

ArmorClass(c) ==
    LET dexterity == Modifier(c.assignment, "dexterity")
        base == CASE c.equipment.armor = "chain_mail" -> 16
                  [] c.equipment.armor = "leather_armor" -> 11 + dexterity
                  [] OTHER -> 10 + dexterity
    IN  base + (IF c.equipment.shield THEN 2 ELSE 0)
             + (IF c.class.style = "defense" THEN 1 ELSE 0)

Speed(c) ==
    IF c.equipment.armor = "chain_mail" /\ HumanScore(c.assignment, "strength") < 13
    THEN 20 ELSE 30

MaximumHitPoints(c, level) ==
    LET constitution == Modifier(c.assignment, "constitution")
        average == IF c.class.class = "fighter" THEN 6 ELSE 4
    IN  AtLeast(1, HitDie(c.class) + constitution)
            + (IF level = 2 THEN AtLeast(1, average + constitution) ELSE 0)

Proficiency == 2

SavingThrow(c, a) ==
    Modifier(c.assignment, a)
        + (IF a \in IF c.class.class = "fighter" THEN {"strength", "constitution"}
                                                 ELSE {"intelligence", "wisdom"}
           THEN Proficiency ELSE 0)

Skill(c, s) ==
    Modifier(c.assignment, SkillAbility[s])
        + (IF s \in c.background.skills \cup BackgroundSkills(c.background.background)
           THEN Proficiency ELSE 0)

Passive(c, s) == 10 + Skill(c, s)

Attack(weapon, bonus, die, extra, range) ==
    [weapon |-> weapon, bonus |-> bonus + Proficiency, die |-> die, damage |-> bonus + extra,
     range |-> range]

Dueling(c) == IF c.class.style = "dueling" THEN 2 ELSE 0

SimpleAttack(c) ==
    LET weapon == c.equipment.simple
        strength == Modifier(c.assignment, "strength")
        dexterity == Modifier(c.assignment, "dexterity")
        bonus == IF weapon \in Finesse THEN AtLeast(strength, dexterity) ELSE strength
    IN  Attack(weapon, bonus, SimpleDie[weapon], IF weapon \in TwoHanded THEN 0 ELSE Dueling(c), 5)

\* A longsword is wielded with both hands unless one holds a shield or duels.
LongswordAttack(c) ==
    Attack("longsword", Modifier(c.assignment, "strength"),
           IF c.equipment.shield \/ c.class.style = "dueling" THEN 8 ELSE 10, Dueling(c), 5)

CrossbowAttack(c) ==
    Attack("light_crossbow", Modifier(c.assignment, "dexterity"), 8, 0, 80)

Attacks(c) ==
    {SimpleAttack(c) : w \in {c.equipment.simple} \ {"none"}}
        \cup {LongswordAttack(c) : w \in c.equipment.carried \cap {"longsword"}}
        \cup {CrossbowAttack(c) : w \in c.equipment.carried \cap {"light_crossbow"}}

\* Mutant: a fighter gains no pool at level two.
PoolsOfLevelOne(c, level) ==
    IF c.class = "fighter" THEN [hit_dice |-> level, second_wind |-> 1]
    ELSE [hit_dice |-> level, spell_slots |-> IF level = 1 THEN 2 ELSE 3, arcane_recovery |-> 1]

\* The resource pools and their maxima.
Pools(c, level) ==
    IF c.class = "fighter"
    THEN IF level = 2 THEN [hit_dice |-> level, second_wind |-> 1, action_surge |-> 1]
                      ELSE [hit_dice |-> level, second_wind |-> 1]
    ELSE [hit_dice |-> level, spell_slots |-> IF level = 1 THEN 2 ELSE 3, arcane_recovery |-> 1]

Spellcasting(c) ==
    LET intelligence == Modifier(c.assignment, "intelligence")
    IN  [attack |-> intelligence + Proficiency, dc |-> 8 + intelligence + Proficiency,
         prepared |-> c.prepared]

Features(c, level) ==
    IF c.class = "fighter"
    THEN {c.style, "second_wind"} \cup (IF level = 2 THEN {"action_surge"} ELSE {})
    ELSE {"spellcasting", "arcane_recovery"}
             \cup (IF level = 2 THEN {"evocation_tradition"} ELSE {})

\* Actions beyond the core ones.
Capabilities(c, level) ==
    IF c.class = "wizard" THEN {"cast_spell"}
    ELSE {"second_wind"} \cup (IF level = 2 THEN {"action_surge"} ELSE {})

Sheet(c, level) ==
    [armorClass |-> ArmorClass(c), speed |-> Speed(c),
     maximum |-> MaximumHitPoints(c, level),
     saves |-> [a \in Abilities |-> SavingThrow(c, a)],
     passive |-> [s \in {"perception", "investigation", "insight"} |-> Passive(c, s)],
     attacks |-> Attacks(c), pools |-> Pools(c.class, level),
     spellcasting |-> IF c.class.class = "wizard" THEN {Spellcasting(c)} ELSE {},
     features |-> Features(c.class, level),
     capabilities |-> Capabilities(c.class, level)]

-----------------------------------------------------------------------------
(* A hero: what may change after its creation, beside its choices.  Its    *)
(* stored sheet is the one derived, or the hero is refused.                *)

LevelTwoExperience == 300
LevelThreeExperience == 900

CreatedHero(c) ==
    [choices |-> c, revision |-> 0, level |-> 1, experience |-> 0,
     hitPoints |-> MaximumHitPoints(c, 1), pools |-> Pools(c.class, 1)]

HeroSheet(h) == Sheet(h.choices, h.level)
FullHitPoints(h) == MaximumHitPoints(h.choices, h.level)
FullPools(h) == Pools(h.choices.class, h.level)

HeroIsValid(h) ==
    /\ ChoicesAllowed(h.choices)
    /\ h.level = 2 => h.experience >= LevelTwoExperience
    /\ h.experience < LevelThreeExperience
    /\ h.hitPoints <= FullHitPoints(h)
    /\ DOMAIN h.pools = DOMAIN FullPools(h)
    /\ \A p \in DOMAIN h.pools : h.pools[p] <= FullPools(h)[p]

\* What the rewards are worth.
Tiers == {"minor", "significant", "major"}
Experience(tier) ==
    CASE tier = "minor" -> 50 [] tier = "significant" -> 150 [] tier = "major" -> LevelTwoExperience

\* A reward that would reach level three is refused.
RewardAllowed(h, tier) == h.experience + Experience(tier) < LevelThreeExperience
Rewarded(h, tier) ==
    [h EXCEPT !.experience = @ + Experience(tier), !.revision = @ + 1]

LevelUpAllowed(h) == h.level = 1 /\ h.experience >= LevelTwoExperience

\* Mutant: a level-up refills the pool.
Refilled(left, before, after) == after

\* What a level adds is added to what is left; what was spent stays spent.
Carried(left, before, after) == AtMost(after, left + AtLeast(0, after - before))

LeveledUp(h) ==
    LET advanced == [h EXCEPT !.level = 2, !.revision = @ + 1]
        maximum == FullHitPoints(advanced)
    IN  [advanced EXCEPT
            !.hitPoints = AtMost(maximum, h.hitPoints + maximum - FullHitPoints(h)),
            !.pools = [p \in DOMAIN FullPools(advanced) |->
                IF p \in DOMAIN h.pools
                THEN Carried(h.pools[p], FullPools(h)[p], FullPools(advanced)[p])
                ELSE FullPools(advanced)[p]]]

\* The hit points and pools an encounter left; what is unchanged is not written.
Synchronized(h, hitPoints, pools) ==
    IF h.hitPoints = hitPoints /\ h.pools = pools THEN h
    ELSE [h EXCEPT !.hitPoints = hitPoints, !.pools = pools, !.revision = @ + 1]

-----------------------------------------------------------------------------
(* The combat profile an encounter takes of the hero.                      *)

\* The pools the rules of combat expect of a class and level.
CombatPools(c, level) ==
    IF c.class = "fighter"
    THEN IF level = 2 THEN [hit_dice |-> 2, second_wind |-> 1, action_surge |-> 1]
                      ELSE [hit_dice |-> 1, second_wind |-> 1]
    ELSE [hit_dice |-> level, spell_slots |-> IF level = 2 THEN 3 ELSE 2, arcane_recovery |-> 1]

CombatSpellcasting(s) ==
    /\ s.attack \in (-3)..12 /\ s.dc \in 5..30
    /\ s.prepared # {} /\ s.prepared \subseteq LevelOneSpells

CombatAttack(c, a) ==
    /\ a.range \in 1..320
    /\ a.die \in {4, 6, 8, 10, 12}
    /\ \E ability \in {"strength", "dexterity"} :
           a.bonus = Modifier(c.assignment, ability) + Proficiency

\* What the profile needs of the sheet, and that the hero stands.
CanFight(h) ==
    LET sheet == HeroSheet(h) IN
    /\ HeroIsValid(h)
    /\ h.hitPoints > 0
    /\ sheet.armorClass > 0 /\ sheet.speed > 0 /\ sheet.speed % 5 = 0
    /\ Cardinality(sheet.attacks) \in 1..8
    /\ \A a \in sheet.attacks : CombatAttack(h.choices, a)
    /\ \A a, b \in sheet.attacks : a.weapon = b.weapon => a = b
    /\ sheet.pools = CombatPools(h.choices.class, h.level)
    /\ Modifier(h.choices.assignment, "constitution") \in (-5)..10
    /\ h.choices.class.class = "wizard" <=> sheet.spellcasting # {}
    /\ \A s \in sheet.spellcasting : CombatSpellcasting(s)

-----------------------------------------------------------------------------
(* The creation, one intent per step.  Every intent advances the draft's   *)
(* step and revision by one, so that the step is also the revision.        *)

ThemeStep == 0
ConceptStep == 1
RulesStep == 2
AbilitiesStep == 3
BackgroundStep == 4
EquipmentStep == 5
PresentationStep == 6
ReviewStep == 7
CommitStep == 8
Committed == 9

\* What the intent of a step selects of the hero's choices.
SelectedBy(step) ==
    CASE step = ThemeStep -> {"theme"}
      [] step = RulesStep -> {"class"}
      [] step = AbilitiesStep -> {"assignment"}
      [] step = BackgroundStep -> {"background"}
      [] step = EquipmentStep -> {"equipment", "prepared"}
      [] OTHER -> {}

Selection(step, offer) == [part \in SelectedBy(step) |-> offer[part]]
Chosen(choices, selection) ==
    [part \in DOMAIN choices |->
        IF part \in DOMAIN selection THEN selection[part] ELSE choices[part]]

SelectionAllowed(step, choices) ==
    CASE step = RulesStep -> choices.class \in Classes
      [] step = AbilitiesStep -> IsAssignment(choices.assignment)
      [] step = BackgroundStep -> BackgroundAllowed(choices.class, choices.background)
      [] step = EquipmentStep ->
            /\ EquipmentAllowed(choices.class, choices.equipment)
            /\ SpellsAllowed(choices.class, choices.assignment, choices.prepared)
      [] step >= PresentationStep -> ChoicesAllowed(choices)
      [] OTHER -> TRUE

=============================================================================
