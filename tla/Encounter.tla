------------------------------- MODULE Encounter -------------------------------
(***************************************************************************)
(* The rules engine of the one encounter: the hero and the Soot Wight take *)
(* turns on a line of positions five feet apart.  Resolving an intent is a *)
(* function of the state and the dice: an intent has a set of outcomes,    *)
(* one for each roll, and the outcome becomes the next state if it passes  *)
(* validation.  The player's intents come from outside; the wight's are    *)
(* chosen by a policy.                                                     *)
(***************************************************************************)
EXTENDS Naturals, FiniteSets

CONSTANTS
    Policies,           \* lethality policies: "story" and "raw"
    Classes,            \* "fighter", "wizard", or "none" for the fixed hero
    LastPosition,       \* the end of the battlefield
    Sluice,             \* where the sluice lever is
    CreatureStart,      \* where the wight starts; the hero starts at 0
    HeroSpeed, CreatureSpeed,
    HandRange,          \* how far the Mage Hand may be from its caster
    HeroMaximum, CreatureMaximum,
    Ward,               \* temporary hit points of the rune ward and of half the veil
    HeroDamage, CreatureDamage, Healing, Pools,         \* what the dice may yield
    MaxSlots, MaxHitDice,
    SleepRounds, HandRounds, LightRounds,
    ShortRest, LongRest, Day,                           \* in campaign time
    MaxTime             \* bound: campaign time

ASSUME EncounterAssumption ==
    /\ Policies \subseteq {"story", "raw"} /\ Classes \subseteq {"fighter", "wizard", "none"}
    /\ LastPosition \in Nat /\ Sluice \in 0..LastPosition /\ CreatureStart \in 0..LastPosition
    /\ HeroSpeed \in Nat \ {0} /\ CreatureSpeed \in Nat \ {0} /\ HandRange \in Nat
    /\ HeroMaximum \in Nat \ {0} /\ CreatureMaximum \in Nat \ {0}
    /\ Ward \in 0..HeroMaximum /\ 2 * Ward <= CreatureMaximum
    /\ HeroDamage \subseteq Nat /\ CreatureDamage \subseteq Nat \ {0}
    /\ Healing \subseteq Nat \ {0} /\ Pools \subseteq Nat
    /\ HeroDamage \ {0} # {} /\ CreatureDamage # {} /\ Healing # {} /\ Pools # {}
    /\ MaxSlots \in Nat /\ MaxHitDice \in Nat \ {0}
    /\ SleepRounds \in Nat \ {0} /\ HandRounds \in Nat \ {0} /\ LightRounds \in Nat \ {0}
    /\ ShortRest \in Nat \ {0} /\ LongRest \in Nat \ {0} /\ Day \in Nat /\ MaxTime \in Nat

VARIABLE encounter

-----------------------------------------------------------------------------
(* States.                                                                 *)

Positions == 0..LastPosition
Rune == 0
Objects == {Rune, Sluice}       \* the rune and the lever, named by where they are
Actors == {"hero", "creature"}
Other(actor) == IF actor = "hero" THEN "creature" ELSE "hero"

Distance(a, b) == IF a < b THEN b - a ELSE a - b
Less(a, b) == IF a < b THEN 0 ELSE a - b
Lower(a, b) == IF a < b THEN a ELSE b
Higher(a, b) == IF a < b THEN b ELSE a

FullPools(class) ==
    [slots |-> IF class = "wizard" THEN MaxSlots ELSE 0,
     recovery |-> IF class = "wizard" THEN 1 ELSE 0,
     secondWind |-> IF class = "fighter" THEN 1 ELSE 0,
     actionSurge |-> IF class = "fighter" THEN 1 ELSE 0,
     hitDice |-> IF class = "none" THEN 0 ELSE MaxHitDice]

NoTurn == [action |-> FALSE, bonus |-> FALSE, object |-> FALSE, movement |-> 0]
NoHand == [rounds |-> 0, distance |-> 0, at |-> 0]
NoTransition == [hp |-> 0, life |-> "none"]

Ready(policy, class, warded) ==
    [status |-> "ready", policy |-> policy, class |-> class, first |-> "none",
     actor |-> "none", turn |-> NoTurn, sluiceOpen |-> FALSE, transition |-> NoTransition,
     hero |-> [position |-> 0, hp |-> HeroMaximum, temp |-> IF warded THEN Ward ELSE 0,
               life |-> "conscious", successes |-> 0, failures |-> 0],
     creature |-> [position |-> CreatureStart, hp |-> CreatureMaximum,
                   temp |-> IF warded THEN Ward ELSE 2 * Ward,
                   life |-> "conscious", veil |-> TRUE, asleep |-> FALSE],
     pools |-> FullPools(class),
     lights |-> [o \in Objects |-> 0], hand |-> NoHand, sleep |-> 0,
     pending |-> "none", ward |-> FALSE, reaction |-> TRUE,
     rest |-> "none", time |-> 0, longRest |-> 0]

EncounterInit ==
    \E policy \in Policies, class \in Classes, warded \in BOOLEAN :
        encounter = Ready(policy, class, warded)

SafeBoundary(s) ==
    s.status = "victory" \/ (s.status = "defeat" /\ s.policy = "story")

-----------------------------------------------------------------------------
(* Intents, and the actions that the engine offers in a state.             *)

Plain(kind) == [kind |-> kind, at |-> 0]
MoveTo(p) == [kind |-> "move", at |-> p]
PlainKinds == {"start", "attack", "context", "fireBolt", "magicMissile", "controlHand",
               "dismissHand", "sleep", "shield", "decline", "secondWind", "actionSurge",
               "endTurn", "deathSave", "beginRest", "hitDie", "arcaneRecovery",
               "finishRest", "longRest"}
Intents == [kind : PlainKinds, at : {0}] \cup [kind : {"move"}, at : Positions]
           \cup [kind : {"light", "hand"}, at : Objects]

PositionOf(s, actor) == IF actor = "hero" THEN s.hero.position ELSE s.creature.position
Apart(s) == Distance(s.hero.position, s.creature.position)
From(s, position) == Distance(s.hero.position, position)

ShieldReady(s) ==
    /\ s.reaction /\ ~s.ward /\ s.hero.life = "conscious"
    /\ s.class = "wizard" /\ s.pools.slots > 0

\* The claw and the hero's weapon reach five feet; spells reach the whole battlefield.
Offers(guard, intents) == IF guard THEN intents ELSE {}

OfferedSpells(s) ==
    Offers(s.class = "wizard",
        Offers(s.turn.action,
            {Plain("fireBolt")}
            \cup [kind : {"light"}, at : {o \in Objects : From(s, o) <= 1}]
            \cup [kind : {"hand"}, at : {o \in Objects : From(s, o) <= HandRange}]
            \cup Offers(s.pools.slots > 0,
                    {Plain("magicMissile")}
                    \cup Offers(s.sleep = 0, {Plain("sleep")}))
            \cup Offers(s.hand # NoHand,
                    {Plain("dismissHand")}
                    \cup Offers(~s.sluiceOpen /\ From(s, Sluice) <= HandRange,
                                {Plain("controlHand")}))))

OfferedFeatures(s) ==
    Offers(s.turn.bonus /\ s.pools.secondWind > 0, {Plain("secondWind")})
    \cup Offers(~s.turn.action /\ s.pools.actionSurge > 0, {Plain("actionSurge")})

OfferedOnTurn(s) ==
    {MoveTo(p) : p \in {q \in Positions :
        LET d == Distance(q, PositionOf(s, s.actor)) IN d > 0 /\ d <= s.turn.movement}}
    \cup Offers(s.turn.action /\ Apart(s) <= 1, {Plain("attack")})
    \cup Offers(s.actor = "hero",
            OfferedSpells(s) \cup OfferedFeatures(s)
            \cup Offers(s.turn.object /\ ~s.sluiceOpen /\ From(s, Sluice) <= 1,
                        {Plain("context")}))
    \cup {Plain("endTurn")}

OfferedRests(s) ==
    Offers(SafeBoundary(s) /\ s.class # "none",
        IF s.rest = "none"
        THEN {Plain("beginRest")}
             \cup Offers(s.longRest = 0 \/ s.time - s.longRest >= Day, {Plain("longRest")})
        ELSE {Plain("finishRest")}
             \cup Offers(s.hero.hp < HeroMaximum /\ s.pools.hitDice > 0, {Plain("hitDie")})
             \cup Offers(s.rest = "resting" /\ s.pools.recovery > 0 /\ s.pools.slots < MaxSlots,
                         {Plain("arcaneRecovery")}))

\* Mutants: a wight that sleeps is offered what it would be offered awake, or nothing.
OfferedAsleep(s) ==
    IF s.pending # "none"
    THEN Offers(ShieldReady(s), {Plain("shield")}) \cup {Plain("decline")}
    ELSE IF s.status = "ready" THEN {Plain("start")}
    ELSE IF s.status # "active" THEN OfferedRests(s)
    ELSE IF s.actor = "hero" /\ s.hero.life # "conscious" THEN {Plain("deathSave")}
    ELSE OfferedOnTurn(s)
OfferedNothingAsleep(s) ==
    IF s.actor = "creature" /\ s.sleep > 0 THEN {} ELSE OfferedAsleep(s)

Offered(s) ==
    IF s.pending # "none"
    THEN Offers(ShieldReady(s), {Plain("shield")}) \cup {Plain("decline")}
    ELSE IF s.status = "ready" THEN {Plain("start")}
    ELSE IF s.status # "active" THEN OfferedRests(s)
    ELSE IF s.actor = "hero" /\ s.hero.life # "conscious" THEN {Plain("deathSave")}
    ELSE IF s.actor = "creature" /\ s.sleep > 0 THEN {Plain("endTurn")}
    ELSE OfferedOnTurn(s)

PlayerOffered(s) ==
    IF s.status = "active" /\ s.actor = "creature" /\ s.pending = "none" THEN {}
    ELSE Offered(s)

\* The player may send an intent, offered or not.
PlayerControl(s) ==
    \/ s.pending # "none" \/ SafeBoundary(s)
    \/ ~(s.status = "active" /\ s.actor = "creature")

\* Where the wight goes: beside the hero, or as near to that as its movement allows.
Approach(s) ==
    LET here == s.creature.position
        goal == IF here < s.hero.position THEN s.hero.position - 1
                ELSE IF here > s.hero.position THEN s.hero.position + 1 ELSE here
    IN  Higher(Less(here, s.turn.movement), Lower(goal, here + s.turn.movement))

\* The policy's only choice: the claw, then a step towards the hero, then the end of turn.
PolicyIntents(s) ==
    LET offered == Offered(s)
        step == MoveTo(Approach(s))
    IN  IF s.status # "active" \/ s.actor # "creature" THEN {}
        ELSE IF Plain("attack") \in offered THEN {Plain("attack")}
        ELSE IF step \in offered /\ From(s, step.at) < Apart(s) THEN {step}
        ELSE {Plain("endTurn")} \cap offered

-----------------------------------------------------------------------------
(* Turns, damage and endings.                                              *)

SetTurn(s, actor) ==
    LET mine == actor = "hero"
    IN  [s EXCEPT
            !.actor = actor,
            !.turn = [action |-> TRUE, bonus |-> mine /\ s.pools.secondWind > 0,
                      object |-> TRUE, movement |-> IF mine THEN HeroSpeed ELSE CreatureSpeed],
            !.reaction = @ \/ mine,
            !.ward = @ /\ ~mine]

HandAfterRound(hand) ==
    IF hand.rounds <= 1 THEN NoHand ELSE [hand EXCEPT !.rounds = @ - 1]
AdvanceRound(s) ==
    [s EXCEPT
        !.lights = [o \in Objects |-> Less(s.lights[o], 1)],
        !.hand = HandAfterRound(s.hand),
        !.sleep = Less(@, 1),
        !.creature.asleep = @ /\ s.sleep # 1]

AdvanceTurn(s) ==
    LET next == Other(s.actor)
    IN  SetTurn(IF next = s.first THEN AdvanceRound(s) ELSE s, next)

\* The story heals a defeated hero when the next rest begins.
Ended(s, status) ==
    [s EXCEPT !.status = status, !.actor = "none", !.turn = NoTurn,
              !.transition = IF status = "defeat" /\ s.policy = "story"
                             THEN [hp |-> 1, life |-> "conscious"]
                             ELSE [hp |-> s.hero.hp, life |-> s.hero.life]]

Finished(s) ==
    IF s.creature.life = "dead" THEN Ended(s, "victory")
    ELSE IF s.hero.life = IF s.policy = "story" THEN "unconscious" ELSE "dead"
    THEN Ended(s, "defeat")
    ELSE s

Woken(s) == [s EXCEPT !.sleep = 0, !.creature.asleep = FALSE]

Wounded(c, damage) ==
    LET through == Less(damage, c.temp)
    IN  [c EXCEPT !.temp = Less(@, damage), !.hp = Less(@, through),
                  !.life = IF through >= c.hp THEN "dead" ELSE @]

StrikeCreature(s, damage) ==
    LET struck == [s EXCEPT !.creature = Wounded(@, damage)]
    IN  Finished(IF damage > 0 THEN Woken(struck) ELSE struck)

Dying(h, failures) ==
    IF failures >= 3 THEN [h EXCEPT !.life = "dead", !.failures = 3]
    ELSE [h EXCEPT !.failures = failures]

\* A hero who falls is unconscious; by the rules as written a blow that exceeds the maximum
\* kills, and further blows count as failed death saves.
Hurt(h, damage, critical, policy) ==
    LET through == Less(damage, h.temp)
        spared == [h EXCEPT !.temp = Less(@, damage)]
        fallen == [spared EXCEPT !.hp = 0, !.life = "unconscious",
                                 !.successes = 0, !.failures = 0]
    IN  IF through < h.hp THEN [spared EXCEPT !.hp = @ - through]
        ELSE IF policy = "story" THEN fallen
        ELSE IF h.hp > 0 THEN IF through - h.hp >= HeroMaximum THEN Dying(fallen, 3) ELSE fallen
        ELSE IF through = 0 THEN spared
        ELSE IF through >= HeroMaximum THEN Dying(spared, 3)
        ELSE Dying(spared, h.failures + IF critical THEN 2 ELSE 1)

StrikeHero(s, damage, critical) ==
    Finished([s EXCEPT !.hero = Hurt(@, damage, critical, s.policy)])

\* A critical hit rolls the dice twice.
Rolled(dice, critical) ==
    IF critical THEN {pair[1] + pair[2] : pair \in dice \X dice} ELSE dice

-----------------------------------------------------------------------------
(* Outcomes of ordinary intents.                                           *)

CanAct(s) ==
    /\ s.status = "active"
    /\ s.actor = "hero" => s.hero.life = "conscious"

Start(s) == Offers(s.status = "ready",
    {SetTurn([s EXCEPT !.status = "active", !.first = a], a) : a \in Actors})

\* The hand stays where it is, and is gone when its caster is too far from it.
HandLeftBehind(hand, p) == hand          \* mutant: its distance is not measured again
HandAfterMove(hand, p) ==
    IF hand = NoHand \/ Distance(p, hand.at) > HandRange THEN NoHand
    ELSE [hand EXCEPT !.distance = Distance(p, hand.at)]

Move(s, p) ==
    LET length == Distance(PositionOf(s, s.actor), p)
        moving == [s EXCEPT !.turn.movement = @ - length]
    IN  Offers(CanAct(s) /\ length > 0 /\ length <= s.turn.movement,
            {IF s.actor = "hero"
             THEN [moving EXCEPT !.hero.position = p, !.hand = HandAfterMove(@, p)]
             ELSE [moving EXCEPT !.creature.position = p]})

\* A hit on a hero who can raise a Shield waits for the player's answer.
Attack(s) ==
    LET spent == [s EXCEPT !.turn.action = FALSE]
        hits == IF s.actor = "hero"
                THEN {StrikeCreature(spent, d) :
                         d \in HeroDamage \cup Rolled(HeroDamage, TRUE)}
                ELSE IF ShieldReady(s)
                THEN {[spent EXCEPT !.pending = hit] : hit \in {"hit", "critical"}}
                ELSE {StrikeHero(spent, d, FALSE) : d \in CreatureDamage}
                     \cup {StrikeHero(spent, d, TRUE) : d \in Rolled(CreatureDamage, TRUE)}
    IN  Offers(CanAct(s) /\ Apart(s) <= 1 /\ s.turn.action, {spent} \cup hits)

OpenSluice(s) ==
    [s EXCEPT !.sluiceOpen = TRUE,
              !.creature = [s.creature EXCEPT !.temp = 0, !.veil = FALSE]]

Context(s) ==
    Offers(/\ CanAct(s) /\ s.actor = "hero"
           /\ ~s.sluiceOpen /\ From(s, Sluice) <= 1 /\ s.turn.object,
        {OpenSluice([s EXCEPT !.turn.object = FALSE])})

EndTurn(s) == Offers(CanAct(s), {AdvanceTurn(s)})

\* The new tallies of a death save: a 20 wakes the hero.
DeathSave(s) ==
    LET h == s.hero
        passed == [h EXCEPT !.successes = Lower(@ + 1, 3),
                            !.life = IF h.successes >= 2 THEN "stable" ELSE @]
        woken == [h EXCEPT !.hp = 1, !.life = "conscious", !.successes = 0, !.failures = 0]
    IN  Offers(s.status = "active" /\ s.actor = "hero" /\ h.life = "unconscious"
               /\ s.policy = "raw",
            {LET t == [s EXCEPT !.hero = after]
             IN  IF after.life = "conscious" THEN t
                 ELSE IF after.life = "unconscious" THEN AdvanceTurn(t)
                 ELSE Ended(t, "defeat")
                : after \in {woken, passed, Dying(h, h.failures + 1), Dying(h, h.failures + 2)}})

-----------------------------------------------------------------------------
(* Outcomes of spells and class features, which only an offer permits.     *)

Acting(s) == [s EXCEPT !.turn.action = FALSE]
Casting(s) == [Acting(s) EXCEPT !.pools.slots = @ - 1]

FireBolt(s) ==
    {Acting(s)} \cup {StrikeCreature(Acting(s), d) :
        d \in (HeroDamage \cup Rolled(HeroDamage, TRUE)) \ {0}}

MagicMissile(s) == {StrikeCreature(Casting(s), d) : d \in HeroDamage \ {0}}

Light(s, o) == {[Acting(s) EXCEPT !.lights[o] = LightRounds]}

HandAt(s, o, rounds) == [rounds |-> rounds, distance |-> From(s, o), at |-> o]
MageHand(s, o) == {[Acting(s) EXCEPT !.hand = HandAt(s, o, HandRounds)]}
DismissHand(s) == {[Acting(s) EXCEPT !.hand = NoHand]}

\* The hand pulls the lever, wherever it was.
ControlHand(s) ==
    {OpenSluice([Acting(s) EXCEPT !.hand = HandAt(s, Sluice, @.rounds)])}

Sleep(s) ==
    {IF s.creature.hp <= pool
     THEN [Casting(s) EXCEPT !.sleep = SleepRounds, !.creature.asleep = TRUE]
     ELSE Casting(s) : pool \in Pools}

\* The damage of a hit that was pending.
Settled(s) ==
    LET critical == s.pending = "critical"
    IN  {StrikeHero([s EXCEPT !.pending = "none"], d, critical) :
            d \in Rolled(CreatureDamage, critical)}

\* A Shield turns an ordinary hit aside, unless the roll was high enough; it lasts until the
\* hero's turn, or the end of the encounter.
Shield(s) ==
    LET warded == [s EXCEPT !.pools.slots = @ - 1, !.reaction = FALSE, !.ward = TRUE]
    IN  Offers(s.pending = "hit", {[warded EXCEPT !.pending = "none"]})
        \cup {[t EXCEPT !.ward = t.status = "active"] : t \in Settled(warded)}

Healed(hp, amount) == Lower(hp + amount, HeroMaximum)

SecondWind(s) ==
    {[s EXCEPT !.turn.bonus = FALSE, !.pools.secondWind = @ - 1,
               !.hero.hp = Healed(@, amount)] : amount \in Healing}

ActionSurge(s) == {[s EXCEPT !.turn.action = TRUE, !.pools.actionSurge = @ - 1]}

-----------------------------------------------------------------------------
(* Outcomes of rests after the encounter.  The transition follows the      *)
(* hero's health.                                                          *)

StoryRecovered(s) ==
    IF s.status = "defeat" /\ s.hero.life = "unconscious"
    THEN [s EXCEPT !.hero = [s.hero EXCEPT !.hp = s.transition.hp, !.life = s.transition.life,
                                           !.successes = 0, !.failures = 0]]
    ELSE s

Expired(s) ==
    [s EXCEPT !.lights = [o \in Objects |-> 0], !.hand = NoHand, !.sleep = 0,
              !.creature.asleep = FALSE]

WithHealth(s, hp) ==
    [s EXCEPT !.hero.hp = hp, !.transition = [hp |-> hp, life |-> s.hero.life]]

BeginRest(s) ==
    {[Expired(StoryRecovered(s)) EXCEPT !.rest = "resting", !.time = @ + ShortRest]}

HitDie(s) ==
    {[WithHealth(s, Healed(s.hero.hp, amount)) EXCEPT !.pools.hitDice = @ - 1] :
        amount \in Healing \cup {0}}

\* The pools that any short rest fills.
Rested(s) ==
    LET full == FullPools(s.class)
    IN  [s EXCEPT !.pools = [s.pools EXCEPT !.secondWind = full.secondWind,
                                            !.actionSurge = full.actionSurge]]

ArcaneRecovery(s) ==
    LET pools == Rested(s).pools
    IN  {[s EXCEPT !.rest = "recovered",
                   !.pools = [pools EXCEPT !.recovery = pools.recovery - 1,
                                           !.slots = pools.slots + 1]]}

FinishRest(s) == {[WithHealth(Rested(s), s.hero.hp) EXCEPT !.rest = "none"]}

TakeLongRest(s) ==
    LET full == FullPools(s.class)
        dice == Lower(s.pools.hitDice + Higher(MaxHitDice \div 2, 1), MaxHitDice)
    IN  {[WithHealth(Expired(StoryRecovered(s)), HeroMaximum) EXCEPT
            !.hero.temp = 0, !.pools = [full EXCEPT !.hitDice = dice],
            !.time = @ + LongRest, !.longRest = s.time + LongRest]}

-----------------------------------------------------------------------------
(* Validation of an outcome, which is refused if it fails.                 *)

ValidHero(h) ==
    /\ h.hp <= HeroMaximum /\ h.temp <= HeroMaximum
    /\ h.life = "conscious" <=> h.hp > 0
    /\ h.life = "conscious" => h.successes = 0 /\ h.failures = 0
    /\ h.life = "unconscious" => h.successes < 3 /\ h.failures < 3
    /\ h.life = "stable" => h.successes = 3
    /\ h.life = "dead" => h.failures = 3

ValidCreature(s) ==
    /\ s.creature.hp <= CreatureMaximum /\ s.creature.temp <= CreatureMaximum
    /\ s.creature.life = "conscious" <=> s.creature.hp > 0
    /\ s.sluiceOpen => ~s.creature.veil /\ s.creature.temp = 0
    /\ ~s.sluiceOpen => s.creature.veil
    /\ s.creature.asleep <=> s.sleep > 0
    /\ s.creature.asleep => s.creature.life = "conscious"

ValidEffects(s) ==
    /\ s.hand # NoHand => s.hand.distance = From(s, s.hand.at) /\ s.hand.distance <= HandRange
    /\ s.pending # "none" => /\ s.status = "active" /\ s.actor = "creature"
                             /\ ~s.turn.action /\ ~s.ward
    /\ s.ward => s.status = "active" /\ s.actor = "creature"
    /\ s.rest # "none" => SafeBoundary(s)
    /\ s.longRest <= s.time

ValidTurn(s) ==
    /\ s.actor \in Actors
    /\ s.creature.life = "conscious" /\ s.hero.life \in {"conscious", "unconscious"}
    /\ s.turn.movement <= IF s.actor = "hero" THEN HeroSpeed ELSE CreatureSpeed
    /\ s.turn.bonus => s.actor = "hero" /\ s.pools.secondWind > 0
    /\ ~s.turn.object => s.actor = "hero" /\ s.sluiceOpen

TransitionCurrent(s) == s.transition = [hp |-> s.hero.hp, life |-> s.hero.life]

ValidEnding(s) ==
    /\ s.actor = "none" /\ s.turn = NoTurn
    /\ s.status = "victory" =>
           s.creature.life = "dead" /\ s.hero.life = "conscious" /\ TransitionCurrent(s)
    /\ s.status = "defeat" /\ s.policy = "raw" =>
           s.hero.life \in {"stable", "dead"} /\ TransitionCurrent(s)
    /\ s.status = "defeat" /\ s.policy = "story" =>
           IF s.time > 0 THEN s.hero.life = "conscious" /\ TransitionCurrent(s)
           ELSE s.hero.life = "unconscious" /\ s.transition = [hp |-> 1, life |-> "conscious"]

Valid(s) ==
    /\ ValidHero(s.hero) /\ ValidCreature(s) /\ ValidEffects(s)
    /\ s.status = "active" => ValidTurn(s)
    /\ s.status \in {"victory", "defeat"} => ValidEnding(s)

-----------------------------------------------------------------------------
(* Resolving an intent.                                                    *)

\* Those that check their own conditions.
OrdinaryOutcomes(s, i) ==
    CASE i.kind = "start" -> Start(s)
      [] i.kind = "move" -> Move(s, i.at)
      [] i.kind = "attack" -> Attack(s)
      [] i.kind = "context" -> Context(s)
      [] i.kind = "endTurn" -> EndTurn(s)
      [] i.kind = "deathSave" -> DeathSave(s)
      [] OTHER -> {}

OfferedOutcomes(s, i) ==
    CASE i.kind = "fireBolt" -> FireBolt(s)
      [] i.kind = "magicMissile" -> MagicMissile(s)
      [] i.kind = "light" -> Light(s, i.at)
      [] i.kind = "hand" -> MageHand(s, i.at)
      [] i.kind = "controlHand" -> ControlHand(s)
      [] i.kind = "dismissHand" -> DismissHand(s)
      [] i.kind = "sleep" -> Sleep(s)
      [] i.kind = "shield" -> Shield(s)
      [] i.kind = "decline" -> Settled(s)
      [] i.kind = "secondWind" -> SecondWind(s)
      [] i.kind = "actionSurge" -> ActionSurge(s)
      [] i.kind = "beginRest" -> BeginRest(s)
      [] i.kind = "hitDie" -> HitDie(s)
      [] i.kind = "arcaneRecovery" -> ArcaneRecovery(s)
      [] i.kind = "finishRest" -> FinishRest(s)
      [] i.kind = "longRest" -> TakeLongRest(s)
      [] OTHER -> {}

Outcomes(s, i) ==
    OrdinaryOutcomes(s, i) \cup Offers(i \in Offered(s), OfferedOutcomes(s, i))

Resolved(s, i) == {t \in Outcomes(s, i) : Valid(t)}

\* A command of the player, who rests only until the bound on campaign time.
PlayerCommand(i) ==
    /\ PlayerControl(encounter)
    /\ encounter' \in {t \in Resolved(encounter, i) : t.time <= MaxTime}

CreatureCommand ==
    \E i \in PolicyIntents(encounter) : encounter' \in Resolved(encounter, i)

EncounterNext == (\E i \in Intents : PlayerCommand(i)) \/ CreatureCommand

EncounterSpec == EncounterInit /\ [][EncounterNext]_encounter
=============================================================================
