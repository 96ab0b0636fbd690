\* Both policies and all three heroes, on a battlefield of four positions.
SPECIFICATION EncounterSpec
CONSTANTS
    Policies = {"story", "raw"}
    Classes = {"fighter", "wizard", "none"}
    LastPosition = 3
    Sluice = 1
    CreatureStart = 3
    HeroSpeed = 1
    CreatureSpeed = 1
    HandRange = 2
    HeroMaximum = 2
    CreatureMaximum = 2
    Ward = 1
    HeroDamage = {0, 1}
    CreatureDamage = {1, 2}
    Healing = {1}
    Pools = {1, 2}
    MaxSlots = 2
    MaxHitDice = 1
    SleepRounds = 2
    HandRounds = 2
    LightRounds = 1
    ShortRest = 1
    LongRest = 2
    Day = 2
    MaxTime = 5
INVARIANTS
    OffersAreHonoured
    SomeoneActs
PROPERTIES
    SleepersLieStill
\* A hero who is beaten by the rules as written, or has no rests, does nothing more.
CHECK_DEADLOCK FALSE
