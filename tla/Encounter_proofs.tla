-------------------------- MODULE Encounter_proofs --------------------------
(***************************************************************************)
(* Proofs about the rules of the encounter, for every battlefield, every   *)
(* hero and wight, all dice and both policies.                             *)
(***************************************************************************)
EXTENDS EncounterProperties, FiniteSetTheorems, TLAPS

-----------------------------------------------------------------------------
(* The invariant                                                           *)

Lives == {"conscious", "unconscious", "stable", "dead"}
HeroStates == [position : Positions, hp : 0..HeroMaximum, temp : 0..HeroMaximum, life : Lives,
               successes : 0..3, failures : 0..3]
CreatureStates == [position : Positions, hp : 0..CreatureMaximum, temp : 0..CreatureMaximum,
                   life : {"conscious", "dead"}, veil : BOOLEAN, asleep : BOOLEAN]
TurnStates == [action : BOOLEAN, bonus : BOOLEAN, object : BOOLEAN, movement : Nat]
PoolStates == [slots : Nat, recovery : Nat, secondWind : Nat, actionSurge : Nat, hitDice : Nat]
HandStates == [rounds : 0..HandRounds, distance : Nat, at : Positions]
TransitionStates == [hp : 0..HeroMaximum, life : Lives \cup {"none"}]
Statuses == {"ready", "active", "victory", "defeat"}
Nobody == Actors \cup {"none"}
Rounds == 0..SleepRounds
LightStates == [Objects -> 0..LightRounds]
PendingHits == {"none", "hit", "critical"}
Rests == {"none", "resting", "recovered"}
States ==
    [status : Statuses, policy : Policies, class : Classes, first : Nobody, actor : Nobody,
     turn : TurnStates, sluiceOpen : BOOLEAN, transition : TransitionStates,
     hero : HeroStates, creature : CreatureStates, pools : PoolStates,
     lights : LightStates, hand : HandStates, sleep : Rounds, pending : PendingHits,
     ward : BOOLEAN, reaction : BOOLEAN, rest : Rests, time : Nat, longRest : Nat]

\* The pools never exceed those of the class.
PoolsFit(s) ==
    /\ s.pools.slots <= FullPools(s.class).slots
    /\ s.pools.recovery <= FullPools(s.class).recovery
    /\ s.pools.secondWind <= FullPools(s.class).secondWind
    /\ s.pools.actionSurge <= FullPools(s.class).actionSurge
    /\ s.pools.hitDice <= FullPools(s.class).hitDice

\* What the validation does not ask: nobody rests, and no time passes, before the end; a
\* story ends with the hero's fall; a Shield was raised against the wight's only attack, and
\* that attack was made awake.
Lasting(s) ==
    /\ s.status \in {"ready", "active"} => s.time = 0
    /\ s.status = "ready" => /\ s.hero.life = "conscious" /\ s.creature.life = "conscious"
                             /\ s.turn = NoTurn
    /\ s.status = "active" /\ s.policy = "story" => s.hero.life = "conscious"
    /\ s.rest # "none" => s.time > 0
    /\ s.ward => ~s.turn.action
    /\ s.pending # "none" => s.sleep = 0

Good(s) == s \in States /\ Valid(s) /\ PoolsFit(s) /\ Lasting(s)
EncounterInv == Good(encounter) /\ encounter.time <= MaxTime

-----------------------------------------------------------------------------
(* What the operators of the rules change                                  *)

Fields == {"status", "policy", "class", "first", "actor", "turn", "sluiceOpen", "transition",
           "hero", "creature", "pools", "lights", "hand", "sleep", "pending", "ward",
           "reaction", "rest", "time", "longRest"}
Keeps(t, s, changed) == t \in States /\ \A f \in Fields \ changed : t[f] = s[f]

LEMMA SetTurnKeeps ==
    ASSUME NEW s \in States, NEW a \in Actors
    PROVE  LET t == SetTurn(s, a)
           IN  /\ Keeps(t, s, {"actor", "turn", "ward", "reaction"})
               /\ t.actor = a
               /\ t.turn = [action |-> TRUE, bonus |-> a = "hero" /\ s.pools.secondWind > 0,
                            object |-> TRUE,
                            movement |-> IF a = "hero" THEN HeroSpeed ELSE CreatureSpeed]
               /\ t.ward = (s.ward /\ a # "hero")
<1> DEFINE t == SetTurn(s, a)
<1>1. HeroSpeed \in Nat /\ CreatureSpeed \in Nat
  BY EncounterAssumption
<1>2. s.pools.secondWind \in Nat
  BY DEF States, PoolStates
<1>3. t.actor = a
  BY DEF SetTurn, States
<1>4. t.turn = [action |-> TRUE, bonus |-> a = "hero" /\ s.pools.secondWind > 0,
                object |-> TRUE, movement |-> IF a = "hero" THEN HeroSpeed ELSE CreatureSpeed]
  BY DEF SetTurn, States
<1>5. t.ward = (s.ward /\ a # "hero") /\ t.reaction = (s.reaction \/ a = "hero")
  BY DEF SetTurn, States
<1>6. t.turn \in TurnStates
  BY <1>1, <1>4 DEF TurnStates
<1>7. t.ward \in BOOLEAN /\ t.reaction \in BOOLEAN
  BY <1>5
<1>8. t \in States
  BY <1>6, <1>7 DEF States, SetTurn, Nobody
<1>9. \A f \in Fields \ {"actor", "turn", "ward", "reaction"} : t[f] = s[f]
  BY DEF SetTurn, States, Fields
<1>10. QED
  BY <1>3, <1>4, <1>5, <1>8, <1>9 DEF Keeps

LEMMA AdvanceRoundKeeps ==
    ASSUME NEW s \in States
    PROVE  LET t == AdvanceRound(s)
           IN  /\ Keeps(t, s, {"lights", "hand", "sleep", "creature"})
               /\ t.hand = NoHand
                    \/ (s.hand # NoHand /\ t.hand.distance = s.hand.distance
                        /\ t.hand.at = s.hand.at)
               /\ t.sleep = Less(s.sleep, 1)
               /\ t.creature = [s.creature EXCEPT !.asleep = @ /\ s.sleep # 1]
<1> DEFINE t == AdvanceRound(s)
           lights == [o \in Objects |-> Less(s.lights[o], 1)]
           hand == HandAfterRound(s.hand)
           creature == [s.creature EXCEPT !.asleep = @ /\ s.sleep # 1]
<1>1. s.lights \in LightStates /\ s.hand \in HandStates /\ s.sleep \in Rounds
      /\ s.creature \in CreatureStates
  BY DEF States
<1>2. /\ LightRounds \in Nat /\ HandRounds \in Nat /\ SleepRounds \in Nat /\ LastPosition \in Nat
  BY EncounterAssumption
<1>3. lights \in LightStates
  BY <1>1, <1>2 DEF LightStates, Less
<1>4. NoHand \in HandStates
  BY <1>2 DEF NoHand, HandStates, Positions
<1>5. hand \in HandStates
  BY <1>1, <1>2, <1>4 DEF HandStates, HandAfterRound
<1>6. Less(s.sleep, 1) \in Rounds
  BY <1>1, <1>2 DEF Rounds, Less
<1>7. creature \in CreatureStates
  BY <1>1 DEF CreatureStates
<1>8. t = [s EXCEPT !.lights = lights, !.hand = hand, !.sleep = Less(s.sleep, 1),
                    !.creature = creature]
  BY DEF AdvanceRound, States
<1>9. t \in States
  BY <1>3, <1>5, <1>6, <1>7, <1>8 DEF States
<1>10. /\ \A f \in Fields \ {"lights", "hand", "sleep", "creature"} : t[f] = s[f]
       /\ t.hand = hand /\ t.sleep = Less(s.sleep, 1) /\ t.creature = creature
  <2> HIDE DEF t, lights, hand, creature
  <2> QED BY <1>8 DEF States, Fields
<1>11. hand = NoHand
       \/ (s.hand # NoHand /\ hand.distance = s.hand.distance /\ hand.at = s.hand.at)
  BY <1>1 DEF HandStates, HandAfterRound, NoHand
<1>12. QED
  BY <1>9, <1>10, <1>11 DEF Keeps

LEMMA AdvanceTurnKeeps ==
    ASSUME NEW s \in States, s.actor \in Actors
    PROVE  LET t == AdvanceTurn(s)
           IN  /\ Keeps(t, s, {"actor", "turn", "ward", "reaction", "lights", "hand", "sleep",
                               "creature"})
               /\ t.actor = Other(s.actor)
               /\ t.turn = [action |-> TRUE,
                            bonus |-> t.actor = "hero" /\ s.pools.secondWind > 0,
                            object |-> TRUE,
                            movement |-> IF t.actor = "hero" THEN HeroSpeed ELSE CreatureSpeed]
               /\ t.ward = (s.ward /\ t.actor # "hero")
               /\ t.hand = NoHand
                    \/ (s.hand # NoHand /\ t.hand.distance = s.hand.distance
                        /\ t.hand.at = s.hand.at)
               /\ \/ t.sleep = s.sleep /\ t.creature = s.creature
                  \/ /\ t.sleep = Less(s.sleep, 1)
                     /\ t.creature = [s.creature EXCEPT !.asleep = @ /\ s.sleep # 1]
<1> DEFINE next == Other(s.actor)
           u == IF next = s.first THEN AdvanceRound(s) ELSE s
           t == SetTurn(u, next)
<1>1. next \in Actors
  BY DEF Other, Actors
<1>2. /\ Keeps(u, s, {"lights", "hand", "sleep", "creature"})
      /\ u.hand = NoHand
           \/ (s.hand # NoHand /\ u.hand.distance = s.hand.distance
                        /\ u.hand.at = s.hand.at)
      /\ \/ u.sleep = s.sleep /\ u.creature = s.creature
         \/ /\ u.sleep = Less(s.sleep, 1)
            /\ u.creature = [s.creature EXCEPT !.asleep = @ /\ s.sleep # 1]
  <2>1. CASE next = s.first
    BY <2>1, AdvanceRoundKeeps
  <2>2. CASE next # s.first
    BY <2>2 DEF Keeps
  <2>3. QED
    BY <2>1, <2>2
<1> HIDE DEF u, next
<1>3. u \in States
  BY <1>2 DEF Keeps
<1>4. /\ Keeps(t, u, {"actor", "turn", "ward", "reaction"})
      /\ t.actor = next
      /\ t.turn = [action |-> TRUE, bonus |-> next = "hero" /\ u.pools.secondWind > 0,
                   object |-> TRUE,
                   movement |-> IF next = "hero" THEN HeroSpeed ELSE CreatureSpeed]
      /\ t.ward = (u.ward /\ next # "hero")
  BY <1>1, <1>3, SetTurnKeeps
<1> HIDE DEF t
<1>5. u.pools = s.pools /\ u.ward = s.ward
  BY <1>2 DEF Keeps, Fields
<1>6. t.hand = u.hand /\ t.sleep = u.sleep /\ t.creature = u.creature
  BY <1>4 DEF Keeps, Fields
<1>7. Keeps(t, s, {"actor", "turn", "ward", "reaction", "lights", "hand", "sleep", "creature"})
  BY <1>2, <1>4 DEF Keeps
<1>8. AdvanceTurn(s) = t
  BY DEF AdvanceTurn, t, u, next
<1>9. QED
  BY <1>2, <1>4, <1>5, <1>6, <1>7, <1>8 DEF next

LEMMA EndedKeeps ==
    ASSUME NEW s \in States, NEW status \in {"victory", "defeat"}
    PROVE  LET t == Ended(s, status)
           IN  /\ Keeps(t, s, {"status", "actor", "turn", "transition"})
               /\ t.status = status /\ t.actor = "none" /\ t.turn = NoTurn
               /\ t.transition = IF status = "defeat" /\ s.policy = "story"
                                 THEN [hp |-> 1, life |-> "conscious"]
                                 ELSE [hp |-> s.hero.hp, life |-> s.hero.life]
<1> DEFINE t == Ended(s, status)
           transition == IF status = "defeat" /\ s.policy = "story"
                         THEN [hp |-> 1, life |-> "conscious"]
                         ELSE [hp |-> s.hero.hp, life |-> s.hero.life]
<1>1. s.hero.hp \in 0..HeroMaximum /\ s.hero.life \in Lives /\ HeroMaximum \in Nat \ {0}
  BY EncounterAssumption DEF States, HeroStates
<1>2. transition \in TransitionStates
  BY <1>1 DEF TransitionStates, Lives
<1>3. NoTurn \in TurnStates /\ status \in Statuses /\ "none" \in Nobody
  BY DEF NoTurn, TurnStates, Statuses, Nobody
<1>4. t = [s EXCEPT !.status = status, !.actor = "none", !.turn = NoTurn,
                    !.transition = transition]
  BY DEF Ended
<1> HIDE DEF t, transition
<1>5. t \in States
  BY <1>2, <1>3, <1>4 DEF States
<1>6. /\ \A f \in Fields \ {"status", "actor", "turn", "transition"} : t[f] = s[f]
      /\ t.status = status /\ t.actor = "none" /\ t.turn = NoTurn /\ t.transition = transition
  BY <1>4 DEF States, Fields
<1>7. QED
  BY <1>5, <1>6 DEF Keeps, t, transition

-----------------------------------------------------------------------------
(* Good states                                                             *)

HandFits(s) ==
    s.hand # NoHand => s.hand.distance = From(s, s.hand.at) /\ s.hand.distance <= HandRange

LEMMA FieldTypes ==
    ASSUME NEW s \in States
    PROVE  /\ s.status \in Statuses /\ s.policy \in {"story", "raw"} /\ s.policy \in Policies
           /\ s.class \in {"fighter", "wizard", "none"} /\ s.class \in Classes
           /\ s.turn \in TurnStates /\ s.hero \in HeroStates /\ s.creature \in CreatureStates
           /\ s.pools \in PoolStates /\ s.hand \in HandStates /\ s.lights \in LightStates
           /\ s.transition \in TransitionStates
           /\ s.sleep \in Rounds /\ s.pending \in PendingHits /\ s.rest \in Rests
           /\ s.time \in Nat /\ s.longRest \in Nat
           /\ s.ward \in BOOLEAN /\ s.reaction \in BOOLEAN /\ s.sluiceOpen \in BOOLEAN
           /\ s.first \in Nobody /\ s.actor \in Nobody
<1>1. Policies \subseteq {"story", "raw"} /\ Classes \subseteq {"fighter", "wizard", "none"}
  BY EncounterAssumption
<1>2. QED
  BY <1>1 DEF States

LEMMA HeroTypes ==
    ASSUME NEW h \in HeroStates
    PROVE  /\ h.position \in Positions /\ h.life \in Lives
           /\ h.hp \in Nat /\ h.hp <= HeroMaximum /\ h.temp \in Nat /\ h.temp <= HeroMaximum
           /\ h.successes \in 0..3 /\ h.failures \in 0..3
<1>1. HeroMaximum \in Nat
  BY EncounterAssumption
<1>2. QED
  BY <1>1 DEF HeroStates

LEMMA CreatureTypes ==
    ASSUME NEW c \in CreatureStates
    PROVE  /\ c.position \in Positions /\ c.life \in {"conscious", "dead"}
           /\ c.hp \in Nat /\ c.hp <= CreatureMaximum
           /\ c.temp \in Nat /\ c.temp <= CreatureMaximum
           /\ c.veil \in BOOLEAN /\ c.asleep \in BOOLEAN
<1>1. CreatureMaximum \in Nat
  BY EncounterAssumption
<1>2. QED
  BY <1>1 DEF CreatureStates

LEMMA FramedParts ==
    ASSUME NEW s \in States, Good(s), NEW changed, NEW t, Keeps(t, s, changed)
    PROVE  /\ "hero" \notin changed => ValidHero(t.hero)
           /\ changed \cap {"creature", "sluiceOpen", "sleep"} = {} => ValidCreature(t)
           /\ changed \cap {"hero", "hand"} = {} => HandFits(t)
           /\ changed \cap {"pools", "class"} = {} => PoolsFit(t)
<1>1. ASSUME "hero" \notin changed PROVE ValidHero(t.hero)
  <2>1. t.hero = s.hero
    BY <1>1 DEF Keeps, Fields
  <2>2. QED
    BY <2>1 DEF Good, Valid
<1>2. ASSUME changed \cap {"creature", "sluiceOpen", "sleep"} = {} PROVE ValidCreature(t)
  <2>1. t.creature = s.creature /\ t.sluiceOpen = s.sluiceOpen /\ t.sleep = s.sleep
    BY <1>2 DEF Keeps, Fields
  <2>2. ValidCreature(s)
    BY DEF Good, Valid
  <2>3. QED
    BY <2>1, <2>2 DEF ValidCreature
<1>3. ASSUME changed \cap {"hero", "hand"} = {} PROVE HandFits(t)
  <2>1. t.hero = s.hero /\ t.hand = s.hand
    BY <1>3 DEF Keeps, Fields
  <2>2. HandFits(s)
    BY DEF Good, Valid, ValidEffects, HandFits
  <2>3. QED
    BY <2>1, <2>2 DEF HandFits, From
<1>4. ASSUME changed \cap {"pools", "class"} = {} PROVE PoolsFit(t)
  <2>1. t.pools = s.pools /\ t.class = s.class
    BY <1>4 DEF Keeps, Fields
  <2>2. PoolsFit(s)
    BY DEF Good
  <2>3. QED
    BY <2>1, <2>2 DEF PoolsFit
<1>5. QED
  BY <1>1, <1>2, <1>3, <1>4

\* What the encounter is while it lasts.
LEMMA ActiveFacts ==
    ASSUME NEW s \in States, Good(s), s.status = "active"
    PROVE  /\ s.time = 0 /\ s.longRest = 0 /\ s.rest = "none" /\ s.actor \in Actors
           /\ ValidHero(s.hero) /\ ValidCreature(s) /\ HandFits(s) /\ PoolsFit(s) /\ ValidTurn(s)
           /\ s.creature.life = "conscious" /\ s.hero.life \in {"conscious", "unconscious"}
           /\ s.policy = "story" => s.hero.life = "conscious"
           /\ s.pending # "none" => /\ s.actor = "creature" /\ ~s.turn.action /\ ~s.ward
                                    /\ s.sleep = 0
           /\ s.ward => s.actor = "creature" /\ ~s.turn.action
<1>1. Valid(s) /\ PoolsFit(s) /\ Lasting(s)
  BY DEF Good
<1>2. s.time = 0 /\ (s.policy = "story" => s.hero.life = "conscious")
      /\ (s.ward => ~s.turn.action) /\ (s.pending # "none" => s.sleep = 0)
  BY <1>1 DEF Lasting
<1>3. ValidHero(s.hero) /\ ValidCreature(s) /\ ValidEffects(s) /\ ValidTurn(s)
  BY <1>1 DEF Valid
<1>4. /\ s.longRest <= s.time /\ ~SafeBoundary(s)
      /\ s.rest # "none" => SafeBoundary(s)
      /\ s.pending # "none" => s.actor = "creature" /\ ~s.turn.action /\ ~s.ward
      /\ s.ward => s.actor = "creature"
  BY <1>3 DEF ValidEffects, SafeBoundary
<1>5. s.longRest = 0
  BY <1>2, <1>4, FieldTypes
<1>6. s.actor \in Actors /\ s.creature.life = "conscious"
      /\ s.hero.life \in {"conscious", "unconscious"}
  BY <1>3 DEF ValidTurn
<1>7. HandFits(s)
  BY <1>3 DEF ValidEffects, HandFits
<1>8. QED
  BY <1>1, <1>2, <1>3, <1>4, <1>5, <1>6, <1>7

LEMMA StaysGood ==
    ASSUME NEW s \in States, Good(s), s.status = "active", NEW t,
           Keeps(t, s, {"actor", "turn", "sluiceOpen", "hero", "creature", "pools", "lights",
                        "hand", "sleep", "pending", "ward", "reaction"}),
           ValidHero(t.hero), ValidCreature(t), HandFits(t), PoolsFit(t), ValidTurn(t),
           t.policy = "story" => t.hero.life = "conscious",
           t.pending # "none" => /\ t.actor = "creature" /\ ~t.turn.action /\ ~t.ward
                                 /\ t.sleep = 0,
           t.ward => t.actor = "creature" /\ ~t.turn.action
    PROVE  Good(t)
<1>1. /\ t \in States /\ t.status = "active" /\ t.rest = s.rest /\ t.time = s.time
      /\ t.longRest = s.longRest /\ t.policy = s.policy
  BY DEF Keeps, Fields
<1>2. t.time = 0 /\ t.longRest = 0 /\ t.rest = "none"
  BY <1>1, ActiveFacts
<1>3. ValidEffects(t)
  BY <1>1, <1>2 DEF ValidEffects, HandFits
<1>4. Valid(t)
  BY <1>1, <1>3 DEF Valid
<1>5. Lasting(t)
  BY <1>1, <1>2 DEF Lasting
<1>6. QED
  BY <1>1, <1>4, <1>5 DEF Good
-----------------------------------------------------------------------------
(* Blows and endings                                                       *)

Ending == {"status", "actor", "turn", "transition", "ward"}

LEMMA EndsGood ==
    ASSUME NEW u \in States, NEW t, Keeps(t, u, Ending), NEW status \in {"victory", "defeat"},
           u.time = 0, u.longRest = 0, u.rest = "none", u.pending = "none",
           ValidHero(u.hero), ValidCreature(u), HandFits(u), PoolsFit(u),
           status = "victory" => u.creature.life = "dead" /\ u.hero.life = "conscious",
           status = "defeat" => u.hero.life \in IF u.policy = "story" THEN {"unconscious"}
                                                ELSE {"stable", "dead"},
           t.status = status, t.actor = "none", t.turn = NoTurn, ~t.ward,
           t.transition = IF status = "defeat" /\ u.policy = "story"
                          THEN [hp |-> 1, life |-> "conscious"]
                          ELSE [hp |-> u.hero.hp, life |-> u.hero.life]
    PROVE  Good(t)
<1>1. /\ t \in States /\ t.hero = u.hero /\ t.creature = u.creature
      /\ t.sluiceOpen = u.sluiceOpen /\ t.sleep = u.sleep /\ t.hand = u.hand
      /\ t.pools = u.pools /\ t.class = u.class /\ t.policy = u.policy
      /\ t.time = 0 /\ t.longRest = 0 /\ t.rest = "none" /\ t.pending = "none"
  BY DEF Keeps, Fields, Ending
<1>2. t.policy \in {"story", "raw"}
  BY <1>1, FieldTypes
<1>3. ValidHero(t.hero) /\ ValidCreature(t)
  BY <1>1 DEF ValidCreature
<1>4. HandFits(t)
  BY <1>1 DEF HandFits, From
<1>5. PoolsFit(t)
  BY <1>1 DEF PoolsFit
<1>6. ValidEffects(t)
  BY <1>1, <1>4 DEF ValidEffects, HandFits
<1>7. ValidEnding(t)
  <2>1. CASE status = "victory"
    BY <1>1, <2>1 DEF ValidEnding, TransitionCurrent
  <2>2. CASE status = "defeat" /\ u.policy = "story"
    BY <1>1, <2>2 DEF ValidEnding
  <2>3. CASE status = "defeat" /\ u.policy # "story"
    BY <1>1, <2>3 DEF ValidEnding, TransitionCurrent
  <2>4. QED
    BY <2>1, <2>2, <2>3
<1>8. Valid(t)
  BY <1>3, <1>6, <1>7 DEF Valid
<1>9. Lasting(t)
  BY <1>1 DEF Lasting
<1>10. QED
  BY <1>1, <1>5, <1>8, <1>9 DEF Good

\* A state of the encounter after a blow, before it is asked whether that was the last.
Struck(u) ==
    /\ u \in States /\ u.status = "active" /\ u.actor \in Actors
    /\ u.time = 0 /\ u.longRest = 0 /\ u.rest = "none" /\ u.pending = "none"
    /\ ValidHero(u.hero) /\ ValidCreature(u) /\ HandFits(u) /\ PoolsFit(u)
    /\ u.turn.movement <= IF u.actor = "hero" THEN HeroSpeed ELSE CreatureSpeed
    /\ u.turn.bonus => u.actor = "hero" /\ u.pools.secondWind > 0
    /\ ~u.turn.object => u.actor = "hero" /\ u.sluiceOpen
    /\ u.ward => u.actor = "creature" /\ ~u.turn.action
    /\ u.creature.life = "dead" => u.hero.life = "conscious"
    /\ u.hero.life # "stable"
    /\ u.policy = "story" => u.hero.life # "dead"

\* A Shield is gone when the encounter ends.
LEMMA FinishedGood ==
    ASSUME NEW u, Struck(u), NEW t,
           Keeps(t, Finished(u), {"ward"}),
           t.ward = (u.ward /\ Finished(u).status = "active")
    PROVE  Good(t)
<1>1. u \in States /\ u.policy \in {"story", "raw"} /\ u.creature.life \in {"conscious", "dead"}
      /\ u.hero.life \in Lives
  BY FieldTypes, HeroTypes, CreatureTypes DEF Struck
<1> DEFINE lost == u.hero.life = IF u.policy = "story" THEN "unconscious" ELSE "dead"
<1>2. CASE u.creature.life = "dead"
  <2>1. Finished(u) = Ended(u, "victory")
    BY <1>2 DEF Finished
  <2>0. Keeps(Finished(u), u, {"status", "actor", "turn", "transition"})
    BY <1>1, <2>1, EndedKeeps
  <2>2. Keeps(t, u, Ending)
    BY <2>0 DEF Keeps, Ending
  <2>3. /\ t.status = "victory" /\ t.actor = "none" /\ t.turn = NoTurn
        /\ t.transition = [hp |-> u.hero.hp, life |-> u.hero.life]
        /\ Finished(u).status = "victory"
    BY <1>1, <2>1, EndedKeeps DEF Keeps, Fields
  <2>4. QED
    BY <1>1, <1>2, <2>2, <2>3, EndsGood DEF Struck
<1>3. CASE u.creature.life # "dead" /\ lost
  <2>1. Finished(u) = Ended(u, "defeat")
    BY <1>3 DEF Finished
  <2>0. Keeps(Finished(u), u, {"status", "actor", "turn", "transition"})
    BY <1>1, <2>1, EndedKeeps
  <2>2. Keeps(t, u, Ending)
    BY <2>0 DEF Keeps, Ending
  <2>3. /\ t.status = "defeat" /\ t.actor = "none" /\ t.turn = NoTurn
        /\ t.transition = IF u.policy = "story" THEN [hp |-> 1, life |-> "conscious"]
                          ELSE [hp |-> u.hero.hp, life |-> u.hero.life]
        /\ Finished(u).status = "defeat"
    BY <1>1, <2>1, EndedKeeps DEF Keeps, Fields
  <2>4. u.hero.life \in IF u.policy = "story" THEN {"unconscious"} ELSE {"stable", "dead"}
    BY <1>3
  <2>5. QED
    BY <1>1, <2>2, <2>3, <2>4, EndsGood DEF Struck
<1>4. CASE u.creature.life # "dead" /\ ~lost
  <2>1. Finished(u) = u
    BY <1>4 DEF Finished
  <2>2. /\ t \in States /\ t.status = "active" /\ t.actor = u.actor /\ t.turn = u.turn
        /\ t.hero = u.hero /\ t.creature = u.creature /\ t.ward = u.ward
        /\ t.sluiceOpen = u.sluiceOpen /\ t.sleep = u.sleep /\ t.hand = u.hand
        /\ t.pools = u.pools /\ t.class = u.class /\ t.policy = u.policy
        /\ t.time = 0 /\ t.longRest = 0 /\ t.rest = "none" /\ t.pending = "none"
    BY <2>1, FieldTypes DEF Struck, Keeps, Fields
  <2>3. ValidHero(t.hero) /\ ValidCreature(t)
    BY <2>2 DEF ValidCreature, Struck
  <2>4. HandFits(t)
    BY <2>2 DEF HandFits, From, Struck
  <2>5. PoolsFit(t)
    BY <2>2 DEF PoolsFit, Struck
  <2>6. ValidEffects(t)
    BY <2>2, <2>4 DEF ValidEffects, HandFits, Struck
  <2>7. t.creature.life = "conscious" /\ t.hero.life \in {"conscious", "unconscious"}
        /\ (t.policy = "story" => t.hero.life = "conscious")
    BY <1>1, <1>4, <2>2 DEF Struck, Lives
  <2>8. ValidTurn(t)
    BY <2>2, <2>7 DEF ValidTurn, Struck
  <2>9. Valid(t)
    BY <2>2, <2>3, <2>6, <2>8 DEF Valid
  <2>10. Lasting(t)
    BY <2>2, <2>7 DEF Lasting, Struck
  <2>11. QED
    BY <2>2, <2>5, <2>9, <2>10 DEF Good
<1>5. QED
  BY <1>2, <1>3, <1>4

\* A blow leaves the hero in a state that passes validation.
LEMMA HurtFacts ==
    ASSUME NEW h \in HeroStates, ValidHero(h), h.life \in {"conscious", "unconscious"},
           NEW damage \in Nat, NEW critical \in BOOLEAN, NEW policy \in {"story", "raw"},
           policy = "story" => h.life = "conscious"
    PROVE  LET k == Hurt(h, damage, critical, policy)
           IN  /\ k \in HeroStates /\ ValidHero(k) /\ k.position = h.position
               /\ k.life # "stable" /\ (policy = "story" => k.life # "dead")
<1> DEFINE through == Less(damage, h.temp)
           spared == [h EXCEPT !.temp = Less(@, damage)]
           wounded == [spared EXCEPT !.hp = @ - through]
           fallen == [spared EXCEPT !.hp = 0, !.life = "unconscious",
                                    !.successes = 0, !.failures = 0]
           k == Hurt(h, damage, critical, policy)
           Fine(g) == /\ g \in HeroStates /\ ValidHero(g) /\ g.position = h.position
                      /\ g.life # "stable" /\ (policy = "story" => g.life # "dead")
<1>1. /\ h.position \in Positions /\ h.life \in Lives /\ h.hp \in Nat /\ h.hp <= HeroMaximum
      /\ h.temp \in Nat /\ h.temp <= HeroMaximum /\ h.successes \in 0..3 /\ h.failures \in 0..3
      /\ HeroMaximum \in Nat
  BY HeroTypes, EncounterAssumption
<1>2. through \in Nat /\ Less(h.temp, damage) \in Nat /\ Less(h.temp, damage) <= HeroMaximum
  BY <1>1 DEF Less
<1>3. h = [position |-> h.position, hp |-> h.hp, temp |-> h.temp, life |-> h.life,
           successes |-> h.successes, failures |-> h.failures]
  BY DEF HeroStates
<1> HIDE DEF through
<1>4. spared = [position |-> h.position, hp |-> h.hp, temp |-> Less(h.temp, damage),
                life |-> h.life, successes |-> h.successes, failures |-> h.failures]
  BY <1>3
<1> HIDE DEF spared
<1>5. Fine(spared)
  BY <1>1, <1>2, <1>4 DEF HeroStates, ValidHero
<1>6. wounded = [position |-> h.position, hp |-> h.hp - through, temp |-> Less(h.temp, damage),
                 life |-> h.life, successes |-> h.successes, failures |-> h.failures]
  BY <1>4
<1> HIDE DEF wounded
<1>8. through < h.hp => Fine(wounded)
  BY <1>1, <1>2, <1>6 DEF HeroStates, ValidHero
<1>7. /\ fallen \in HeroStates /\ fallen.position = h.position /\ fallen.hp = 0
      /\ fallen.temp = Less(h.temp, damage) /\ fallen.life = "unconscious"
      /\ fallen.successes = 0 /\ fallen.failures = 0
  <2>1. spared \in HeroStates /\ spared.position = h.position
        /\ spared.temp = Less(h.temp, damage)
    BY <1>4, <1>5
  <2>2. 0 \in 0..HeroMaximum /\ 0 \in 0..3 /\ "unconscious" \in Lives
    BY <1>1 DEF Lives
  <2>3. QED
    BY <2>1, <2>2 DEF HeroStates
<1> HIDE DEF fallen
<1>9. Fine(fallen)
  BY <1>1, <1>2, <1>7 DEF ValidHero
<1>10. ASSUME NEW g \in HeroStates, Fine(g), g.life = "unconscious", NEW n \in Nat,
              policy = "raw"
       PROVE  Fine(Dying(g, n))
  <2>1. g = [position |-> g.position, hp |-> g.hp, temp |-> g.temp, life |-> g.life,
             successes |-> g.successes, failures |-> g.failures]
    BY DEF HeroStates
  <2>2. Dying(g, n) = [position |-> g.position, hp |-> g.hp, temp |-> g.temp,
                       life |-> IF n >= 3 THEN "dead" ELSE g.life,
                       successes |-> g.successes, failures |-> IF n >= 3 THEN 3 ELSE n]
    BY <2>1 DEF Dying
  <2>3. Dying(g, n) \in HeroStates
    BY <2>2, <1>10 DEF HeroStates, Lives
  <2>4. ValidHero(Dying(g, n))
    BY <2>2, <1>10, HeroTypes DEF ValidHero
  <2>5. QED
    BY <1>10, <2>2, <2>3, <2>4
<1>11. spared.life = h.life /\ spared.failures = h.failures /\ fallen.life = "unconscious"
  BY <1>4, <1>7
<1>12. k = IF through < h.hp THEN wounded
           ELSE IF policy = "story" THEN fallen
           ELSE IF h.hp > 0 THEN IF through - h.hp >= HeroMaximum THEN Dying(fallen, 3) ELSE fallen
           ELSE IF through = 0 THEN spared
           ELSE IF through >= HeroMaximum THEN Dying(spared, 3)
           ELSE Dying(spared, h.failures + IF critical THEN 2 ELSE 1)
  BY DEF Hurt, through, spared, wounded, fallen
<1> HIDE DEF k
<1>13. Fine(k)
  <2>1. CASE through < h.hp
    BY <1>8, <1>12, <2>1
  <2>2. CASE ~(through < h.hp) /\ policy = "story"
    BY <1>9, <1>12, <2>2
  <2>3. CASE ~(through < h.hp) /\ policy = "raw" /\ h.hp > 0
    <3>1. Fine(Dying(fallen, 3))
      BY <1>9, <1>10, <1>11, <2>3
    <3>2. QED
      BY <1>9, <1>12, <2>3, <3>1
  <2>4. CASE ~(through < h.hp) /\ policy = "raw" /\ ~(h.hp > 0)
    <3>1. h.life = "unconscious"
      BY <1>1, <2>4 DEF ValidHero
    <3>2. Fine(Dying(spared, 3))
          /\ Fine(Dying(spared, h.failures + IF critical THEN 2 ELSE 1))
      BY <1>1, <1>5, <1>10, <1>11, <2>4, <3>1
    <3>3. QED
      BY <1>5, <1>12, <2>4, <3>2
  <2>5. QED
    BY <2>1, <2>2, <2>3, <2>4
<1>14. QED
  BY <1>13 DEF k

LEMMA DiceFacts ==
    /\ HeroDamage \subseteq Nat /\ Rolled(HeroDamage, TRUE) \subseteq Nat
    /\ CreatureDamage \subseteq Nat
    /\ \A critical \in BOOLEAN : Rolled(CreatureDamage, critical) \subseteq Nat
    /\ Healing \subseteq Nat /\ Pools \subseteq Nat
<1>1. /\ HeroDamage \subseteq Nat /\ CreatureDamage \subseteq Nat
      /\ Healing \subseteq Nat /\ Pools \subseteq Nat
  BY EncounterAssumption
<1>2. ASSUME NEW dice, dice \subseteq Nat, NEW critical PROVE Rolled(dice, critical) \subseteq Nat
  <2>1. \A a, b \in Nat : a + b \in Nat
    OBVIOUS
  <2>2. {pair[1] + pair[2] : pair \in dice \X dice} \subseteq Nat
    BY <1>2, <2>1
  <2>3. QED
    BY <1>2, <2>2 DEF Rolled
<1>3. QED
  BY <1>1, <1>2

\* Whether the blow was the last.
LEMMA FinishedKeeps ==
    ASSUME NEW u \in States
    PROVE  LET t == Finished(u)
           IN  /\ t \in States /\ t.ward = u.ward /\ t.hero = u.hero /\ t.creature = u.creature
               /\ t.pending = u.pending /\ t.time = u.time
<1>1. Finished(u) \in {Ended(u, "victory"), Ended(u, "defeat"), u}
  BY DEF Finished
<1>2. ASSUME NEW status \in {"victory", "defeat"}
      PROVE  LET t == Ended(u, status)
             IN  /\ t \in States /\ t.ward = u.ward /\ t.hero = u.hero
                 /\ t.creature = u.creature /\ t.pending = u.pending /\ t.time = u.time
  <2>1. Keeps(Ended(u, status), u, {"status", "actor", "turn", "transition"})
    BY EndedKeeps
  <2>2. QED
    BY <2>1 DEF Keeps, Fields
<1>3. QED
  BY <1>1, <1>2

\* A state of the encounter with nothing pending is one that a blow may have left.
LEMMA GoodIsStruck ==
    ASSUME NEW s \in States, Good(s), s.status = "active", s.pending = "none"
    PROVE  Struck(s)
<1>1. /\ s.time = 0 /\ s.longRest = 0 /\ s.rest = "none" /\ s.actor \in Actors
      /\ ValidHero(s.hero) /\ ValidCreature(s) /\ HandFits(s) /\ PoolsFit(s) /\ ValidTurn(s)
      /\ s.creature.life = "conscious" /\ s.hero.life \in {"conscious", "unconscious"}
      /\ s.ward => s.actor = "creature" /\ ~s.turn.action
  BY ActiveFacts
<1>2. QED
  BY <1>1 DEF Struck, ValidTurn

LEMMA CreatureStruck ==
    ASSUME NEW s \in States, Good(s), s.status = "active", s.pending = "none",
           s.actor = "hero", s.hero.life = "conscious", NEW damage \in Nat
    PROVE  LET t == StrikeCreature(s, damage)
           IN  /\ Good(t) /\ t.hero = s.hero /\ t.creature.position = s.creature.position
               /\ t.pending = "none"
<1> DEFINE c == s.creature
           through == Less(damage, c.temp)
           wounded == Wounded(c, damage)
           hurt == damage > 0
           d == IF hurt THEN [wounded EXCEPT !.asleep = FALSE] ELSE wounded
           u == [s EXCEPT !.creature = d, !.sleep = IF hurt THEN 0 ELSE s.sleep]
<1>1. /\ c \in CreatureStates /\ c.life \in {"conscious", "dead"} /\ c.hp \in Nat
      /\ c.temp \in Nat /\ c.hp <= CreatureMaximum /\ c.temp <= CreatureMaximum
      /\ CreatureMaximum \in Nat /\ c.veil \in BOOLEAN /\ c.asleep \in BOOLEAN
      /\ s.sleep \in Nat /\ s.sleep \in Rounds /\ 0 \in Rounds
      /\ s.sluiceOpen \in BOOLEAN /\ c.position \in Positions
  BY FieldTypes, CreatureTypes, EncounterAssumption DEF Rounds
<1>2. Struck(s) /\ ValidCreature(s) /\ c.life = "conscious"
  BY GoodIsStruck, ActiveFacts
<1>3. /\ through \in Nat /\ Less(c.temp, damage) \in Nat /\ Less(c.temp, damage) <= CreatureMaximum
      /\ Less(c.hp, through) \in Nat /\ Less(c.hp, through) <= CreatureMaximum
      /\ (through >= c.hp => Less(c.hp, through) = 0)
      /\ (~(through >= c.hp) => Less(c.hp, through) > 0)
      /\ (c.temp = 0 => Less(c.temp, damage) = 0)
      /\ (~hurt => through = 0)
  BY <1>1 DEF Less
<1>4. c.hp > 0 /\ (s.sluiceOpen => ~c.veil /\ c.temp = 0) /\ (~s.sluiceOpen => c.veil)
      /\ (c.asleep <=> s.sleep > 0)
  BY <1>2 DEF ValidCreature
<1>5. StrikeCreature(s, damage) = Finished(u)
  BY DEF StrikeCreature, Woken, States
<1> DEFINE temp == Less(c.temp, damage)
           hp == Less(c.hp, through)
           life == IF through >= c.hp THEN "dead" ELSE c.life
<1>16. wounded = [c EXCEPT !.temp = temp, !.hp = hp, !.life = life]
  BY DEF Wounded
<1>17. life \in {"conscious", "dead"} /\ temp \in 0..CreatureMaximum /\ hp \in 0..CreatureMaximum
  BY <1>1, <1>3
<1> HIDE DEF through, temp, hp, life, wounded
<1>18. /\ wounded \in CreatureStates /\ wounded.temp = temp /\ wounded.hp = hp
       /\ wounded.veil = c.veil /\ wounded.life = life /\ wounded.asleep = c.asleep
       /\ wounded.position = c.position
  BY <1>1, <1>16, <1>17 DEF CreatureStates
<1>6. /\ wounded \in CreatureStates /\ wounded.temp = Less(c.temp, damage)
      /\ wounded.hp = Less(c.hp, through) /\ wounded.veil = c.veil
      /\ wounded.life = (IF through >= c.hp THEN "dead" ELSE c.life)
      /\ wounded.asleep = c.asleep /\ wounded.position = c.position
  BY <1>18 DEF temp, hp, life
<1>7. /\ d \in CreatureStates /\ d.temp = Less(c.temp, damage)
      /\ d.hp = Less(c.hp, through) /\ d.veil = c.veil
      /\ d.life = (IF through >= c.hp THEN "dead" ELSE c.life)
      /\ d.asleep = (c.asleep /\ ~hurt) /\ d.position = c.position
  BY <1>1, <1>6 DEF CreatureStates
<1> HIDE DEF c, d
<1>8. Keeps(u, s, {"creature", "sleep"}) /\ u.creature = d
      /\ u.sleep = IF hurt THEN 0 ELSE s.sleep
  BY <1>1, <1>7 DEF Keeps, Fields, States
<1> HIDE DEF u
<1>9. /\ u \in States /\ u.status = "active" /\ u.actor = s.actor /\ u.turn = s.turn
      /\ u.hero = s.hero /\ u.ward = s.ward /\ u.reaction = s.reaction
      /\ u.sluiceOpen = s.sluiceOpen /\ u.hand = s.hand
      /\ u.pools = s.pools /\ u.class = s.class /\ u.policy = s.policy
      /\ u.time = 0 /\ u.longRest = 0 /\ u.rest = "none" /\ u.pending = "none"
  BY <1>2, <1>8 DEF Keeps, Fields, Struck
<1>10. ValidCreature(u)
  <2>1. u.creature.hp <= CreatureMaximum /\ u.creature.temp <= CreatureMaximum
    BY <1>3, <1>7, <1>8
  <2>2. u.creature.life = "conscious" <=> u.creature.hp > 0
    BY <1>2, <1>3, <1>7, <1>8
  <2>3. /\ u.sluiceOpen => ~u.creature.veil /\ u.creature.temp = 0
        /\ ~u.sluiceOpen => u.creature.veil
    BY <1>3, <1>4, <1>7, <1>8, <1>9
  <2>4. u.creature.asleep <=> u.sleep > 0
    <3>1. CASE hurt
      <4>1. u.sleep = 0 /\ ~(u.sleep > 0)
        BY <1>8, <3>1
      <4>2. d.asleep = (c.asleep /\ ~hurt)
        BY <1>7
      <4>3. ~u.creature.asleep
        <5> HIDE DEF hurt
        <5> QED BY <1>8, <3>1, <4>2, Zenon
      <4>4. QED
        BY <4>1, <4>3
    <3>2. CASE ~hurt
      <4>1. u.sleep = s.sleep
        BY <1>8, <3>2
      <4>2. d.asleep = (c.asleep /\ ~hurt)
        BY <1>7
      <4>3. u.creature.asleep <=> c.asleep
        <5> HIDE DEF hurt
        <5> QED BY <1>8, <3>2, <4>2, Zenon
      <4>4. QED
        BY <1>4, <4>1, <4>3
    <3>3. QED
      BY <3>1, <3>2
  <2>5. u.creature.asleep => u.creature.life = "conscious"
    BY <1>1, <1>2, <1>3, <1>4, <1>7, <1>8
  <2>6. QED
    BY <2>1, <2>2, <2>3, <2>4, <2>5 DEF ValidCreature
<1>11. HandFits(u) /\ PoolsFit(u)
  BY <1>2, <1>9 DEF HandFits, From, PoolsFit, Struck
<1>12. Struck(u)
  BY <1>2, <1>9, <1>10, <1>11 DEF Struck
<1>13. Finished(u) \in States /\ Finished(u).ward = u.ward
  BY <1>9, FinishedKeeps
<1>14. ~u.ward
  BY <1>9, ActiveFacts
<1>15. Good(Finished(u))
  BY <1>9, <1>12, <1>13, <1>14, FinishedGood, FieldTypes DEF Keeps
<1>19. Finished(u).hero = s.hero /\ Finished(u).creature = d /\ Finished(u).pending = "none"
  BY <1>8, <1>9, FinishedKeeps
<1>20. QED
  BY <1>5, <1>7, <1>15, <1>19 DEF c

LEMMA HeroStruck ==
    ASSUME NEW s \in States, Good(s), s.status = "active", s.pending = "none",
           NEW damage \in Nat, NEW critical \in BOOLEAN
    PROVE  \E u \in States : /\ Struck(u) /\ u.ward = s.ward /\ Keeps(u, s, {"hero"})
                             /\ StrikeHero(s, damage, critical) = Finished(u)
<1> DEFINE k == Hurt(s.hero, damage, critical, s.policy)
           u == [s EXCEPT !.hero = k]
<1>1. /\ s.hero \in HeroStates /\ s.policy \in {"story", "raw"}
      /\ ValidHero(s.hero) /\ s.hero.life \in {"conscious", "unconscious"}
      /\ (s.policy = "story" => s.hero.life = "conscious")
      /\ s.creature.life = "conscious"
  BY FieldTypes, ActiveFacts
<1>2. /\ k \in HeroStates /\ ValidHero(k) /\ k.position = s.hero.position
      /\ k.life # "stable" /\ (s.policy = "story" => k.life # "dead")
  BY <1>1, HurtFacts
<1>3. StrikeHero(s, damage, critical) = Finished(u)
  BY DEF StrikeHero
<1> HIDE DEF k
<1>4. Keeps(u, s, {"hero"}) /\ u.hero = k
  BY <1>2 DEF Keeps, Fields, States
<1> HIDE DEF u
<1>5. /\ u \in States /\ u.status = "active" /\ u.actor = s.actor /\ u.turn = s.turn
      /\ u.creature = s.creature /\ u.ward = s.ward
      /\ u.sluiceOpen = s.sluiceOpen /\ u.hand = s.hand /\ u.sleep = s.sleep
      /\ u.pools = s.pools /\ u.class = s.class /\ u.policy = s.policy
      /\ u.time = s.time /\ u.longRest = s.longRest /\ u.rest = s.rest /\ u.pending = "none"
  BY <1>4 DEF Keeps, Fields
<1>6. Struck(s)
  BY GoodIsStruck
<1>7. ValidCreature(u)
  BY <1>5, <1>6 DEF ValidCreature, Struck
<1>8. HandFits(u) /\ PoolsFit(u)
  BY <1>2, <1>4, <1>5, <1>6 DEF HandFits, From, PoolsFit, Struck
<1>9. Struck(u)
  BY <1>1, <1>2, <1>4, <1>5, <1>6, <1>7, <1>8 DEF Struck
<1>10. QED
  BY <1>3, <1>4, <1>5, <1>9

LEMMA HeroStruckGood ==
    ASSUME NEW s \in States, Good(s), s.status = "active", s.pending = "none", ~s.ward,
           NEW damage \in Nat, NEW critical \in BOOLEAN
    PROVE  Good(StrikeHero(s, damage, critical)) /\ StrikeHero(s, damage, critical).time = s.time
<1>1. PICK u \in States : /\ Struck(u) /\ u.ward = s.ward /\ Keeps(u, s, {"hero"})
                          /\ StrikeHero(s, damage, critical) = Finished(u)
  BY HeroStruck
<1> DEFINE t == Finished(u)
<1>2. t \in States /\ t.ward = u.ward /\ t.time = u.time
  BY FinishedKeeps
<1> HIDE DEF t
<1>3. Keeps(t, t, {"ward"})
  BY <1>2 DEF Keeps
<1>4. ~t.ward /\ ~u.ward
  BY <1>1, <1>2
<1>5. t.ward \in BOOLEAN /\ u.ward \in BOOLEAN
  BY <1>2, FieldTypes
<1>6. t.ward = (u.ward /\ t.status = "active")
  BY <1>4, <1>5
<1>7. Good(t)
  BY <1>1, <1>3, <1>6, FinishedGood DEF t
<1>8. u.time = s.time
  BY <1>1 DEF Keeps, Fields
<1>9. QED
  BY <1>1, <1>2, <1>7, <1>8 DEF t

\* A Shield was raised against the blow, and did not turn it aside.
LEMMA ShieldedHeroStruckGood ==
    ASSUME NEW s \in States, Good(s), s.status = "active", s.pending = "none", s.ward,
           NEW damage \in Nat, NEW critical \in BOOLEAN
    PROVE  LET v == StrikeHero(s, damage, critical)
           IN  Good([v EXCEPT !.ward = v.status = "active"])
<1>1. PICK u \in States : Struck(u) /\ u.ward = s.ward
                          /\ StrikeHero(s, damage, critical) = Finished(u)
  BY HeroStruck
<1> DEFINE v == Finished(u)
           ward == v.status = "active"
           t == [v EXCEPT !.ward = ward]
<1>2. v \in States
  BY FinishedKeeps
<1> HIDE DEF v
<1>3. ward \in BOOLEAN
  OBVIOUS
<1> HIDE DEF ward
<1>4. Keeps(t, v, {"ward"}) /\ t.ward = ward
  BY <1>2, <1>3 DEF Keeps, Fields, States
<1> HIDE DEF t
<1>5. t.ward = (u.ward /\ v.status = "active")
  BY <1>1, <1>4, Zenon DEF ward
<1>6. Good(t)
  BY <1>1, <1>4, <1>5, FinishedGood DEF v
<1>7. QED
  BY <1>1, <1>6 DEF t, v, ward

-----------------------------------------------------------------------------
(* The hero's turn                                                         *)

HeroPlays(s) ==
    Good(s) /\ s.status = "active" /\ s.actor = "hero" /\ s.hero.life = "conscious"

LEMMA HeroPlaysFacts ==
    ASSUME NEW s \in States, HeroPlays(s)
    PROVE  /\ s.pending = "none" /\ ~s.ward /\ s.creature.life = "conscious"
           /\ ValidHero(s.hero) /\ ValidCreature(s) /\ HandFits(s) /\ PoolsFit(s)
           /\ s.turn.movement <= HeroSpeed
           /\ s.turn.bonus => s.pools.secondWind > 0
           /\ ~s.turn.object => s.sluiceOpen
<1>1. Good(s) /\ s.status = "active" /\ s.actor = "hero"
  BY DEF HeroPlays
<1>2. QED
  BY <1>1, ActiveFacts DEF ValidTurn

TurnParts == {"turn", "sluiceOpen", "hero", "creature", "pools", "lights", "hand", "sleep"}

LEMMA HeroPlaysOn ==
    ASSUME NEW s \in States, HeroPlays(s), NEW t, Keeps(t, s, TurnParts),
           t.hero.life = "conscious", t.creature.life = "conscious",
           ValidHero(t.hero), ValidCreature(t), HandFits(t), PoolsFit(t),
           t.turn.movement <= HeroSpeed,
           t.turn.bonus => t.pools.secondWind > 0,
           ~t.turn.object => t.sluiceOpen
    PROVE  HeroPlays(t)
<1>1. Good(s) /\ s.status = "active" /\ s.actor = "hero" /\ s.pending = "none" /\ ~s.ward
  BY HeroPlaysFacts DEF HeroPlays
<1>2. /\ t \in States /\ t.status = "active" /\ t.actor = "hero" /\ t.pending = "none"
      /\ ~t.ward
  BY <1>1 DEF Keeps, Fields, TurnParts
<1>3. ValidTurn(t)
  BY <1>2 DEF ValidTurn, Actors
<1>4. Keeps(t, s, {"actor", "turn", "sluiceOpen", "hero", "creature", "pools", "lights",
                   "hand", "sleep", "pending", "ward", "reaction"})
  BY DEF Keeps, TurnParts
<1>5. Good(t)
  BY <1>1, <1>2, <1>3, <1>4, StaysGood
<1>6. QED
  BY <1>2, <1>5 DEF HeroPlays

LEMMA TurnTypes ==
    ASSUME NEW t \in TurnStates
    PROVE  /\ t.action \in BOOLEAN /\ t.bonus \in BOOLEAN /\ t.object \in BOOLEAN
           /\ t.movement \in Nat
  BY DEF TurnStates

LEMMA PoolTypes ==
    ASSUME NEW p \in PoolStates
    PROVE  /\ p.slots \in Nat /\ p.recovery \in Nat /\ p.secondWind \in Nat
           /\ p.actionSurge \in Nat /\ p.hitDice \in Nat
  BY DEF PoolStates

LEMMA ActingPlays ==
    ASSUME NEW s \in States, HeroPlays(s)
    PROVE  Keeps(Acting(s), s, {"turn"}) /\ HeroPlays(Acting(s))
<1> DEFINE turn == [s.turn EXCEPT !.action = FALSE]
           t == Acting(s)
<1>1. s.turn \in TurnStates
  BY FieldTypes
<1>2. /\ turn \in TurnStates /\ turn.bonus = s.turn.bonus /\ turn.object = s.turn.object
      /\ turn.movement = s.turn.movement
  BY <1>1 DEF TurnStates
<1>3. t = [s EXCEPT !.turn = turn]
  BY DEF Acting
<1> HIDE DEF t, turn
<1>4. Keeps(t, s, {"turn"}) /\ t.turn = turn
  BY <1>2, <1>3 DEF Keeps, Fields, States
<1>5. /\ t.hero = s.hero /\ t.creature = s.creature /\ t.pools = s.pools
      /\ t.sluiceOpen = s.sluiceOpen /\ t.sleep = s.sleep /\ t.hand = s.hand /\ t.class = s.class
  BY <1>4 DEF Keeps, Fields
<1>6. Keeps(t, s, TurnParts)
  BY <1>4 DEF Keeps, TurnParts
<1>7. ValidHero(t.hero) /\ ValidCreature(t) /\ HandFits(t) /\ PoolsFit(t)
      /\ t.hero.life = "conscious" /\ t.creature.life = "conscious"
  BY <1>4, <1>5, HeroPlaysFacts, FramedParts DEF HeroPlays
<1>8. /\ t.turn.movement <= HeroSpeed
      /\ t.turn.bonus => t.pools.secondWind > 0
      /\ ~t.turn.object => t.sluiceOpen
  BY <1>2, <1>4, <1>5, HeroPlaysFacts
<1>9. HeroPlays(t)
  BY <1>6, <1>7, <1>8, HeroPlaysOn
<1>10. QED
  BY <1>4, <1>9 DEF t

LEMMA CastingPlays ==
    ASSUME NEW s \in States, HeroPlays(s), s.pools.slots > 0
    PROVE  Keeps(Casting(s), s, {"turn", "pools"}) /\ HeroPlays(Casting(s))
<1> DEFINE u == Acting(s)
           pools == [u.pools EXCEPT !.slots = u.pools.slots - 1]
           t == Casting(s)
<1>1. u \in States /\ HeroPlays(u) /\ Keeps(u, s, {"turn"}) /\ u.pools = s.pools
  BY ActingPlays DEF Keeps, Fields
<1>2. t = [u EXCEPT !.pools = pools]
  BY DEF Casting
<1> HIDE DEF u, t
<1>3. u.pools \in PoolStates /\ u.pools.slots \in Nat /\ u.pools.slots > 0
  BY <1>1, FieldTypes, PoolTypes
<1>4. /\ pools \in PoolStates /\ pools.slots = u.pools.slots - 1
      /\ pools.recovery = u.pools.recovery /\ pools.secondWind = u.pools.secondWind
      /\ pools.actionSurge = u.pools.actionSurge /\ pools.hitDice = u.pools.hitDice
  BY <1>3 DEF PoolStates
<1> HIDE DEF pools
<1>5. Keeps(t, u, {"pools"}) /\ t.pools = pools
  BY <1>1, <1>2, <1>4 DEF Keeps, Fields, States
<1>6. /\ t.hero = u.hero /\ t.creature = u.creature /\ t.turn = u.turn
      /\ t.sluiceOpen = u.sluiceOpen /\ t.sleep = u.sleep /\ t.hand = u.hand /\ t.class = u.class
  BY <1>5 DEF Keeps, Fields
<1>7. Keeps(t, u, TurnParts)
  BY <1>5 DEF Keeps, TurnParts
<1>8. ValidHero(t.hero) /\ ValidCreature(t) /\ HandFits(t)
      /\ t.hero.life = "conscious" /\ t.creature.life = "conscious"
  BY <1>1, <1>5, <1>6, HeroPlaysFacts, FramedParts DEF HeroPlays
<1>9. /\ t.turn.movement <= HeroSpeed
      /\ t.turn.bonus => t.pools.secondWind > 0
      /\ ~t.turn.object => t.sluiceOpen
  BY <1>1, <1>4, <1>5, <1>6, HeroPlaysFacts
<1>10. PoolsFit(t)
  <2>1. FullPools(u.class).slots \in Nat
    BY EncounterAssumption DEF FullPools
  <2>2. PoolsFit(u)
    BY <1>1, HeroPlaysFacts
  <2>3. QED
    BY <1>3, <1>4, <1>5, <1>6, <2>1, <2>2 DEF PoolsFit
<1>11. HeroPlays(t)
  BY <1>1, <1>7, <1>8, <1>9, <1>10, HeroPlaysOn
<1>12. Keeps(t, s, {"turn", "pools"})
  BY <1>1, <1>5 DEF Keeps
<1>13. QED
  BY <1>11, <1>12 DEF t

LEMMA PlaceFacts ==
    /\ Objects \subseteq Positions
    /\ \A a, b \in Positions : Distance(a, b) \in Nat
    /\ HandRange \in Nat /\ HandRounds \in Nat /\ HandRounds \in 0..HandRounds
<1>1. LastPosition \in Nat /\ Sluice \in 0..LastPosition /\ HandRange \in Nat
      /\ HandRounds \in Nat
  BY EncounterAssumption
<1>2. Objects \subseteq Positions
  BY <1>1 DEF Objects, Rune, Positions
<1>3. \A a, b \in Positions : Distance(a, b) \in Nat
  BY <1>1 DEF Distance, Positions
<1>4. QED
  BY <1>1, <1>2, <1>3

\* A hand that is where the caster may have it.
LEMMA HandPlays ==
    ASSUME NEW s \in States, HeroPlays(s), NEW hand \in HandStates,
           hand # NoHand => hand.distance = From(s, hand.at) /\ hand.distance <= HandRange
    PROVE  LET t == [s EXCEPT !.hand = hand]
           IN  Keeps(t, s, {"hand"}) /\ t.hand = hand /\ HeroPlays(t)
<1> DEFINE t == [s EXCEPT !.hand = hand]
<1>1. Keeps(t, s, {"hand"}) /\ t.hand = hand
  BY DEF Keeps, Fields, States
<1> HIDE DEF t
<1>2. /\ t.hero = s.hero /\ t.creature = s.creature /\ t.turn = s.turn /\ t.pools = s.pools
      /\ t.sluiceOpen = s.sluiceOpen
  BY <1>1 DEF Keeps, Fields
<1>3. Keeps(t, s, TurnParts)
  BY <1>1 DEF Keeps, TurnParts
<1>4. ValidHero(t.hero) /\ ValidCreature(t) /\ PoolsFit(t)
      /\ t.hero.life = "conscious" /\ t.creature.life = "conscious"
  BY <1>1, <1>2, HeroPlaysFacts, FramedParts DEF HeroPlays
<1>5. HandFits(t)
  BY <1>1, <1>2 DEF HandFits, From
<1>6. /\ t.turn.movement <= HeroSpeed
      /\ t.turn.bonus => t.pools.secondWind > 0
      /\ ~t.turn.object => t.sluiceOpen
  BY <1>2, HeroPlaysFacts
<1>7. HeroPlays(t)
  BY <1>3, <1>4, <1>5, <1>6, HeroPlaysOn
<1>8. QED
  BY <1>1, <1>7 DEF t

LEMMA UnveiledTypes ==
    ASSUME NEW c \in CreatureStates
    PROVE  LET d == [c EXCEPT !.temp = 0, !.veil = FALSE]
           IN  /\ d \in CreatureStates /\ d.temp = 0 /\ d.veil = FALSE
               /\ d.hp = c.hp /\ d.life = c.life /\ d.asleep = c.asleep
<1> DEFINE d == [c EXCEPT !.temp = 0, !.veil = FALSE]
<1>1. 0 \in 0..CreatureMaximum
  BY EncounterAssumption
<1>2. d \in CreatureStates
  BY <1>1 DEF CreatureStates
<1>3. d.temp = 0 /\ d.veil = FALSE
  BY DEF CreatureStates
<1>4. d.hp = c.hp /\ d.life = c.life /\ d.asleep = c.asleep
  BY DEF CreatureStates
<1>5. QED
  BY <1>2, <1>3, <1>4

LEMMA SluicePlays ==
    ASSUME NEW s \in States, HeroPlays(s)
    PROVE  HeroPlays(OpenSluice(s))
<1> DEFINE creature == [s.creature EXCEPT !.temp = 0, !.veil = FALSE]
           t == [s EXCEPT !.sluiceOpen = TRUE, !.creature = creature]
<1>1. s.creature \in CreatureStates /\ s.creature.life \in {"conscious", "dead"}
      /\ CreatureMaximum \in Nat
  BY FieldTypes, CreatureTypes, EncounterAssumption
<1>2. OpenSluice(s) = t
  BY DEF OpenSluice
<1>3. /\ creature \in CreatureStates /\ creature.temp = 0 /\ creature.veil = FALSE
      /\ creature.hp = s.creature.hp /\ creature.life = s.creature.life
      /\ creature.asleep = s.creature.asleep
  BY <1>1, UnveiledTypes
<1> HIDE DEF creature
<1>4. Keeps(t, s, {"sluiceOpen", "creature"}) /\ t.creature = creature /\ t.sluiceOpen
  BY <1>3 DEF Keeps, Fields, States
<1> HIDE DEF t
<1>5. /\ t.hero = s.hero /\ t.turn = s.turn /\ t.pools = s.pools /\ t.sleep = s.sleep
  BY <1>4 DEF Keeps, Fields
<1>6. Keeps(t, s, TurnParts)
  BY <1>4 DEF Keeps, TurnParts
<1>7. ValidHero(t.hero) /\ HandFits(t) /\ PoolsFit(t) /\ t.hero.life = "conscious"
  BY <1>4, <1>5, HeroPlaysFacts, FramedParts DEF HeroPlays
<1>8. ValidCreature(t) /\ t.creature.life = "conscious"
  <2>1. ValidCreature(s) /\ s.creature.life = "conscious"
    BY HeroPlaysFacts
  <2>2. QED
    BY <1>1, <1>3, <1>4, <1>5, <2>1 DEF ValidCreature
<1>9. /\ t.turn.movement <= HeroSpeed
      /\ t.turn.bonus => t.pools.secondWind > 0
      /\ ~t.turn.object => t.sluiceOpen
  BY <1>4, <1>5, HeroPlaysFacts
<1>10. QED
  BY <1>2, <1>6, <1>7, <1>8, <1>9, HeroPlaysOn

LEMMA ContextGood ==
    ASSUME NEW s \in States, Good(s)
    PROVE  \A t \in Context(s) : Good(t)
<1> SUFFICES ASSUME NEW t \in Context(s)
             PROVE  Good(t)
  OBVIOUS
<1> DEFINE turn == [s.turn EXCEPT !.object = FALSE]
           creature == [s.creature EXCEPT !.temp = 0, !.veil = FALSE]
           u == [s EXCEPT !.turn = turn, !.sluiceOpen = TRUE, !.creature = creature]
<1>1. HeroPlays(s) /\ t = OpenSluice([s EXCEPT !.turn.object = FALSE])
  BY DEF Context, Offers, CanAct, HeroPlays
<1>2. t = u
  <2> DEFINE w == [s EXCEPT !.turn = turn]
  <2>1. w.creature = s.creature
    BY DEF States
  <2>2. t = [w EXCEPT !.sluiceOpen = TRUE, !.creature = creature]
    BY <1>1, <2>1 DEF OpenSluice
  <2> HIDE DEF turn, creature
  <2>3. QED
    BY <2>2 DEF States
<1>3. /\ s.creature \in CreatureStates /\ s.creature.life \in {"conscious", "dead"}
      /\ CreatureMaximum \in Nat /\ s.turn \in TurnStates
  BY FieldTypes, CreatureTypes, EncounterAssumption
<1>4. /\ creature \in CreatureStates /\ creature.temp = 0 /\ creature.veil = FALSE
      /\ creature.hp = s.creature.hp /\ creature.life = s.creature.life
      /\ creature.asleep = s.creature.asleep
  BY <1>3, UnveiledTypes
<1>5. turn \in TurnStates /\ turn.bonus = s.turn.bonus /\ turn.movement = s.turn.movement
  BY <1>3 DEF TurnStates
<1> HIDE DEF creature, turn
<1>6. Keeps(u, s, {"turn", "sluiceOpen", "creature"}) /\ u.creature = creature /\ u.sluiceOpen
      /\ u.turn = turn
  BY <1>4, <1>5 DEF Keeps, Fields, States
<1> HIDE DEF u
<1>7. /\ u.hero = s.hero /\ u.pools = s.pools /\ u.sleep = s.sleep
  BY <1>6 DEF Keeps, Fields
<1>8. Keeps(u, s, TurnParts)
  BY <1>6 DEF Keeps, TurnParts
<1>9. ValidHero(u.hero) /\ HandFits(u) /\ PoolsFit(u) /\ u.hero.life = "conscious"
  BY <1>1, <1>6, <1>7, HeroPlaysFacts, FramedParts DEF HeroPlays
<1>10. ValidCreature(u) /\ u.creature.life = "conscious"
  <2>1. ValidCreature(s) /\ s.creature.life = "conscious"
    BY <1>1, HeroPlaysFacts
  <2>2. QED
    BY <1>3, <1>4, <1>6, <1>7, <2>1 DEF ValidCreature
<1>11. /\ u.turn.movement <= HeroSpeed
       /\ u.turn.bonus => u.pools.secondWind > 0
       /\ ~u.turn.object => u.sluiceOpen
  BY <1>1, <1>5, <1>6, <1>7, HeroPlaysFacts
<1>12. HeroPlays(u)
  BY <1>1, <1>8, <1>9, <1>10, <1>11, HeroPlaysOn
<1>13. QED
  BY <1>2, <1>12 DEF HeroPlays

LEMMA BoltGood ==
    ASSUME NEW s \in States, HeroPlays(s)
    PROVE  \A t \in FireBolt(s) : Good(t)
<1>1. Acting(s) \in States /\ HeroPlays(Acting(s))
  BY ActingPlays DEF Keeps
<1>2. ASSUME NEW d \in Nat PROVE Good(StrikeCreature(Acting(s), d))
  BY <1>1, HeroPlaysFacts, CreatureStruck DEF HeroPlays
<1>3. QED
  BY <1>1, <1>2, DiceFacts DEF FireBolt, HeroPlays

LEMMA MissileGood ==
    ASSUME NEW s \in States, HeroPlays(s), s.pools.slots > 0
    PROVE  \A t \in MagicMissile(s) : Good(t)
<1>1. Casting(s) \in States /\ HeroPlays(Casting(s))
  BY CastingPlays DEF Keeps
<1>2. ASSUME NEW d \in Nat PROVE Good(StrikeCreature(Casting(s), d))
  BY <1>1, HeroPlaysFacts, CreatureStruck DEF HeroPlays
<1>3. QED
  BY <1>2, DiceFacts DEF MagicMissile

LEMMA LightGood ==
    ASSUME NEW s \in States, HeroPlays(s), NEW o \in Objects
    PROVE  \A t \in Light(s, o) : Good(t)
<1> DEFINE u == Acting(s)
           lights == [u.lights EXCEPT ![o] = LightRounds]
           t == [u EXCEPT !.lights = lights]
<1>1. u \in States /\ HeroPlays(u) /\ LightRounds \in Nat
  BY ActingPlays, EncounterAssumption DEF Keeps
<1>2. Light(s, o) = {t}
  BY DEF Light
<1> HIDE DEF u
<1>3. lights \in LightStates
  BY <1>1, FieldTypes DEF LightStates
<1> HIDE DEF lights
<1>4. Keeps(t, u, {"lights"})
  BY <1>1, <1>3 DEF Keeps, Fields, States
<1> HIDE DEF t
<1>5. /\ t.hero = u.hero /\ t.creature = u.creature /\ t.turn = u.turn /\ t.pools = u.pools
      /\ t.sluiceOpen = u.sluiceOpen
  BY <1>4 DEF Keeps, Fields
<1>6. Keeps(t, u, TurnParts)
  BY <1>4 DEF Keeps, TurnParts
<1>7. ValidHero(t.hero) /\ ValidCreature(t) /\ PoolsFit(t) /\ HandFits(t)
      /\ t.hero.life = "conscious" /\ t.creature.life = "conscious"
  BY <1>1, <1>4, <1>5, HeroPlaysFacts, FramedParts DEF HeroPlays
<1>8. /\ t.turn.movement <= HeroSpeed
      /\ t.turn.bonus => t.pools.secondWind > 0
      /\ ~t.turn.object => t.sluiceOpen
  BY <1>1, <1>5, HeroPlaysFacts
<1>9. HeroPlays(t)
  BY <1>1, <1>6, <1>7, <1>8, HeroPlaysOn
<1>10. QED
  BY <1>2, <1>9 DEF HeroPlays

LEMMA HandGood ==
    ASSUME NEW s \in States, HeroPlays(s)
    PROVE  /\ \A o \in Objects : From(s, o) <= HandRange => \A t \in MageHand(s, o) : Good(t)
           /\ \A t \in DismissHand(s) : Good(t)
           /\ From(s, Sluice) <= HandRange => \A t \in ControlHand(s) : Good(t)
<1> DEFINE u == Acting(s)
<1>1. u \in States /\ HeroPlays(u) /\ u.hero = s.hero /\ u.hand = s.hand
  BY ActingPlays DEF Keeps, Fields
<1>2. s.hero.position \in Positions
  BY FieldTypes, HeroTypes
<1>3. ASSUME NEW o \in Objects, NEW rounds \in 0..HandRounds, From(s, o) <= HandRange
      PROVE  LET t == [u EXCEPT !.hand = HandAt(s, o, rounds)]
             IN  t \in States /\ HeroPlays(t)
  <2> DEFINE hand == HandAt(s, o, rounds)
  <2>1. o \in Positions /\ From(s, o) \in Nat
    BY <1>2, PlaceFacts DEF From
  <2>2. hand \in HandStates /\ hand.distance = From(s, o) /\ hand.at = o
    BY <2>1 DEF HandAt, HandStates
  <2>3. From(u, o) = From(s, o)
    BY <1>1 DEF From
  <2> HIDE DEF hand, u
  <2>4. hand.distance = From(u, hand.at) /\ hand.distance <= HandRange
    BY <1>3, <2>2, <2>3
  <2>5. QED
    BY <1>1, <2>2, <2>4, HandPlays DEF hand, Keeps
<1>4. ASSUME NEW o \in Objects, From(s, o) <= HandRange, NEW t \in MageHand(s, o)
      PROVE  Good(t)
  <2>1. HandRounds \in 0..HandRounds
    BY PlaceFacts
  <2>2. t = [u EXCEPT !.hand = HandAt(s, o, HandRounds)]
    BY <1>4 DEF MageHand
  <2>3. QED
    BY <1>3, <1>4, <2>1, <2>2 DEF HeroPlays
<1>5. ASSUME NEW t \in DismissHand(s)
      PROVE  Good(t)
  <2>1. t = [u EXCEPT !.hand = NoHand]
    BY <1>5 DEF DismissHand
  <2>2. NoHand \in HandStates
    BY PlaceFacts, EncounterAssumption DEF NoHand, HandStates, Positions
  <2> HIDE DEF u
  <2>3. QED
    BY <1>1, <2>1, <2>2, HandPlays DEF HeroPlays
<1>6. ASSUME From(s, Sluice) <= HandRange, NEW t \in ControlHand(s)
      PROVE  Good(t)
  <2> DEFINE rounds == u.hand.rounds
  <2>1. t = OpenSluice([u EXCEPT !.hand = HandAt(s, Sluice, rounds)])
    BY <1>6 DEF ControlHand
  <2>2. Sluice \in Objects /\ rounds \in 0..HandRounds
    BY <1>1, FieldTypes DEF Objects, HandStates
  <2> HIDE DEF u, rounds
  <2>3. HeroPlays([u EXCEPT !.hand = HandAt(s, Sluice, rounds)])
        /\ [u EXCEPT !.hand = HandAt(s, Sluice, rounds)] \in States
    BY <1>3, <1>6, <2>2
  <2>4. HeroPlays(t)
    BY <2>1, <2>3, SluicePlays
  <2>5. QED
    BY <2>4 DEF HeroPlays
<1>7. QED
  BY <1>4, <1>5, <1>6

LEMMA SleepGood ==
    ASSUME NEW s \in States, HeroPlays(s), s.pools.slots > 0
    PROVE  \A t \in Sleep(s) : Good(t)
<1> DEFINE u == Casting(s)
           creature == [u.creature EXCEPT !.asleep = TRUE]
           t == [u EXCEPT !.sleep = SleepRounds, !.creature = creature]
<1>1. u \in States /\ HeroPlays(u)
  BY CastingPlays DEF Keeps
<1>2. Sleep(s) \subseteq {t, u}
  BY DEF Sleep
<1> HIDE DEF u
<1>3. /\ creature \in CreatureStates /\ creature.temp = u.creature.temp
      /\ creature.veil = u.creature.veil /\ creature.hp = u.creature.hp
      /\ creature.life = u.creature.life /\ creature.asleep = TRUE
  <2>1. u.creature \in CreatureStates
    BY <1>1, FieldTypes
  <2>2. creature \in CreatureStates
    BY <2>1 DEF CreatureStates
  <2>3. QED
    BY <2>1, <2>2 DEF CreatureStates
<1>4. SleepRounds \in Rounds /\ SleepRounds > 0
  BY EncounterAssumption DEF Rounds
<1> HIDE DEF creature
<1>5. Keeps(t, u, {"sleep", "creature"}) /\ t.sleep = SleepRounds /\ t.creature = creature
  BY <1>1, <1>3, <1>4 DEF Keeps, Fields, States
<1> HIDE DEF t
<1>6. /\ t.hero = u.hero /\ t.turn = u.turn /\ t.pools = u.pools
      /\ t.sluiceOpen = u.sluiceOpen
  BY <1>5 DEF Keeps, Fields
<1>7. Keeps(t, u, TurnParts)
  BY <1>5 DEF Keeps, TurnParts
<1>8. ValidHero(t.hero) /\ PoolsFit(t) /\ HandFits(t) /\ t.hero.life = "conscious"
  BY <1>1, <1>5, <1>6, HeroPlaysFacts, FramedParts DEF HeroPlays
<1>9. ValidCreature(t) /\ t.creature.life = "conscious"
  <2>1. ValidCreature(u) /\ u.creature.life = "conscious"
    BY <1>1, HeroPlaysFacts
  <2>2. QED
    BY <1>3, <1>4, <1>5, <1>6, <2>1 DEF ValidCreature
<1>10. /\ t.turn.movement <= HeroSpeed
       /\ t.turn.bonus => t.pools.secondWind > 0
       /\ ~t.turn.object => t.sluiceOpen
  BY <1>1, <1>6, HeroPlaysFacts
<1>11. HeroPlays(t)
  BY <1>1, <1>7, <1>8, <1>9, <1>10, HeroPlaysOn
<1>12. QED
  BY <1>1, <1>2, <1>11 DEF HeroPlays

LEMMA HealedFacts ==
    ASSUME NEW hp \in Nat, hp <= HeroMaximum, NEW amount \in Nat
    PROVE  /\ Healed(hp, amount) \in Nat /\ Healed(hp, amount) \in 0..HeroMaximum
           /\ Healed(hp, amount) >= hp
<1>1. HeroMaximum \in Nat
  BY EncounterAssumption
<1>2. QED
  BY <1>1 DEF Healed, Lower

LEMMA SecondWindGood ==
    ASSUME NEW s \in States, HeroPlays(s), s.pools.secondWind > 0
    PROVE  \A t \in SecondWind(s) : Good(t)
<1> SUFFICES ASSUME NEW amount \in Nat,
                    NEW t, t = [s EXCEPT !.turn.bonus = FALSE, !.pools.secondWind = @ - 1,
                                         !.hero.hp = Healed(@, amount)]
             PROVE  Good(t)
  BY DiceFacts DEF SecondWind
<1> DEFINE turn == [s.turn EXCEPT !.bonus = FALSE]
           pools == [s.pools EXCEPT !.secondWind = s.pools.secondWind - 1]
           hero == [s.hero EXCEPT !.hp = Healed(s.hero.hp, amount)]
           u == [s EXCEPT !.turn = turn, !.pools = pools, !.hero = hero]
<1>1. t = u
  BY DEF States
<1>2. /\ s.turn \in TurnStates /\ s.pools \in PoolStates /\ s.pools.secondWind \in Nat
      /\ s.hero \in HeroStates /\ s.hero.hp \in Nat /\ s.hero.hp <= HeroMaximum
  BY FieldTypes, HeroTypes, PoolTypes
<1>3. /\ turn \in TurnStates /\ turn.bonus = FALSE /\ turn.object = s.turn.object
      /\ turn.movement = s.turn.movement
  BY <1>2 DEF TurnStates
<1>4. /\ pools \in PoolStates /\ pools.slots = s.pools.slots
      /\ pools.recovery = s.pools.recovery /\ pools.secondWind = s.pools.secondWind - 1
      /\ pools.actionSurge = s.pools.actionSurge /\ pools.hitDice = s.pools.hitDice
  BY <1>2 DEF PoolStates
<1>5. /\ hero \in HeroStates /\ hero.hp = Healed(s.hero.hp, amount)
      /\ hero.temp = s.hero.temp /\ hero.life = s.hero.life /\ hero.position = s.hero.position
      /\ hero.successes = s.hero.successes /\ hero.failures = s.hero.failures
  BY <1>2, HealedFacts DEF HeroStates
<1> HIDE DEF turn, pools, hero
<1>6. Keeps(u, s, {"turn", "pools", "hero"}) /\ u.turn = turn /\ u.pools = pools
      /\ u.hero = hero
  BY <1>3, <1>4, <1>5 DEF Keeps, Fields, States
<1> HIDE DEF u
<1>7. /\ u.creature = s.creature /\ u.sluiceOpen = s.sluiceOpen /\ u.hand = s.hand
      /\ u.class = s.class
  BY <1>6 DEF Keeps, Fields
<1>8. Keeps(u, s, TurnParts)
  BY <1>6 DEF Keeps, TurnParts
<1>9. ValidCreature(u) /\ u.creature.life = "conscious"
  BY <1>6, <1>7, HeroPlaysFacts, FramedParts DEF HeroPlays
<1>10. ValidHero(u.hero) /\ u.hero.life = "conscious"
  <2>1. ValidHero(s.hero) /\ s.hero.life = "conscious"
    BY HeroPlaysFacts DEF HeroPlays
  <2>2. hero.hp \in Nat /\ hero.hp <= HeroMaximum /\ hero.hp >= s.hero.hp
    BY <1>2, <1>5, HealedFacts, EncounterAssumption
  <2>3. QED
    BY <1>2, <1>5, <1>6, <2>1, <2>2 DEF ValidHero
<1>11. HandFits(u)
  BY <1>5, <1>6, <1>7, HeroPlaysFacts DEF HandFits, From
<1>12. PoolsFit(u)
  <2>1. FullPools(s.class).secondWind \in Nat
    BY EncounterAssumption DEF FullPools
  <2>2. PoolsFit(s)
    BY HeroPlaysFacts
  <2>3. QED
    BY <1>2, <1>4, <1>6, <1>7, <2>1, <2>2 DEF PoolsFit
<1>13. /\ u.turn.movement <= HeroSpeed /\ ~u.turn.bonus
       /\ ~u.turn.object => u.sluiceOpen
  BY <1>3, <1>6, <1>7, HeroPlaysFacts
<1>14. HeroPlays(u)
  BY <1>8, <1>9, <1>10, <1>11, <1>12, <1>13, HeroPlaysOn
<1>15. QED
  BY <1>1, <1>14 DEF HeroPlays

LEMMA ActionSurgeGood ==
    ASSUME NEW s \in States, HeroPlays(s), s.pools.actionSurge > 0
    PROVE  \A t \in ActionSurge(s) : Good(t)
<1> DEFINE turn == [s.turn EXCEPT !.action = TRUE]
           pools == [s.pools EXCEPT !.actionSurge = s.pools.actionSurge - 1]
           u == [s EXCEPT !.turn = turn, !.pools = pools]
<1>1. ActionSurge(s) = {u}
  BY DEF ActionSurge, States
<1>2. /\ s.turn \in TurnStates /\ s.pools \in PoolStates /\ s.pools.actionSurge \in Nat
  BY FieldTypes, PoolTypes
<1>3. /\ turn \in TurnStates /\ turn.bonus = s.turn.bonus /\ turn.object = s.turn.object
      /\ turn.movement = s.turn.movement
  BY <1>2 DEF TurnStates
<1>4. /\ pools \in PoolStates /\ pools.slots = s.pools.slots
      /\ pools.recovery = s.pools.recovery /\ pools.secondWind = s.pools.secondWind
      /\ pools.actionSurge = s.pools.actionSurge - 1 /\ pools.hitDice = s.pools.hitDice
  BY <1>2 DEF PoolStates
<1> HIDE DEF turn, pools
<1>5. Keeps(u, s, {"turn", "pools"}) /\ u.turn = turn /\ u.pools = pools
  BY <1>3, <1>4 DEF Keeps, Fields, States
<1> HIDE DEF u
<1>6. /\ u.creature = s.creature /\ u.sluiceOpen = s.sluiceOpen /\ u.class = s.class
      /\ u.hero = s.hero
  BY <1>5 DEF Keeps, Fields
<1>7. Keeps(u, s, TurnParts)
  BY <1>5 DEF Keeps, TurnParts
<1>8. ValidCreature(u) /\ u.creature.life = "conscious" /\ ValidHero(u.hero)
      /\ u.hero.life = "conscious" /\ HandFits(u)
  BY <1>5, <1>6, HeroPlaysFacts, FramedParts DEF HeroPlays
<1>9. PoolsFit(u)
  <2>1. FullPools(s.class).actionSurge \in Nat
    BY EncounterAssumption DEF FullPools
  <2>2. PoolsFit(s)
    BY HeroPlaysFacts
  <2>3. QED
    BY <1>2, <1>4, <1>5, <1>6, <2>1, <2>2 DEF PoolsFit
<1>10. /\ u.turn.movement <= HeroSpeed /\ (u.turn.bonus => u.pools.secondWind > 0)
       /\ ~u.turn.object => u.sluiceOpen
  BY <1>3, <1>4, <1>5, <1>6, HeroPlaysFacts
<1>11. HeroPlays(u)
  BY <1>7, <1>8, <1>9, <1>10, HeroPlaysOn
<1>12. QED
  BY <1>1, <1>11 DEF HeroPlays

-----------------------------------------------------------------------------
(* Moves and turns of both                                                 *)

LEMMA MoveGood ==
    ASSUME NEW s \in States, Good(s), NEW p \in Positions
    PROVE  \A t \in Move(s, p) : Good(t)
<1> SUFFICES ASSUME NEW t \in Move(s, p)
             PROVE  Good(t)
  OBVIOUS
<1> DEFINE length == Distance(PositionOf(s, s.actor), p)
           turn == [s.turn EXCEPT !.movement = s.turn.movement - length]
           hero == [s.hero EXCEPT !.position = p]
           hand == HandAfterMove(s.hand, p)
           creature == [s.creature EXCEPT !.position = p]
           moving == [s EXCEPT !.turn = turn]
           u == [moving EXCEPT !.hero = hero, !.hand = hand]
           v == [moving EXCEPT !.creature = creature]
<1>1. /\ CanAct(s) /\ length <= s.turn.movement
      /\ s.actor = "hero" => t = [moving EXCEPT !.hero.position = p,
                                                !.hand = HandAfterMove(@, p)]
      /\ s.actor # "hero" => t = [moving EXCEPT !.creature.position = p]
  BY DEF Move, Offers
<1>2. s.hero \in HeroStates /\ s.creature \in CreatureStates /\ s.turn \in TurnStates
      /\ s.hand \in HandStates /\ s.turn.movement \in Nat
      /\ s.hero.position \in Positions /\ s.creature.position \in Positions
  BY FieldTypes, HeroTypes, CreatureTypes, TurnTypes
<1>3. length \in Nat
  BY <1>2, PlaceFacts DEF PositionOf
<1> HIDE DEF length
<1>4. /\ turn \in TurnStates /\ turn.action = s.turn.action /\ turn.bonus = s.turn.bonus
      /\ turn.object = s.turn.object /\ turn.movement <= s.turn.movement
      /\ turn.movement \in Nat
  BY <1>1, <1>2, <1>3 DEF TurnStates
<1>5. /\ s.status = "active" /\ s.actor \in Actors /\ ValidHero(s.hero) /\ ValidCreature(s)
      /\ HandFits(s) /\ PoolsFit(s) /\ ValidTurn(s)
  BY <1>1, ActiveFacts DEF CanAct
<1> HIDE DEF turn
<1>6. Keeps(moving, s, {"turn"}) /\ moving.turn = turn
  BY <1>4 DEF Keeps, Fields, States
<1>7. moving.hero = s.hero /\ moving.creature = s.creature /\ moving.hand = s.hand
  BY <1>6 DEF Keeps, Fields
<1> HIDE DEF moving
<1>8. CASE s.actor = "hero"
  <2>1. t = u
    BY <1>1, <1>7, <1>8
  <2>2. HeroPlays(s)
    BY <1>1, <1>5, <1>8 DEF HeroPlays, CanAct
  <2>3. /\ hero \in HeroStates /\ hero.position = p /\ hero.life = s.hero.life
        /\ hero.hp = s.hero.hp /\ hero.temp = s.hero.temp
        /\ hero.successes = s.hero.successes /\ hero.failures = s.hero.failures
    BY <1>2 DEF HeroStates
  <2>4. hand \in HandStates
        /\ (hand # NoHand => hand.distance = Distance(p, hand.at) /\ hand.distance <= HandRange)
    <3>1. s.hand.at \in Positions /\ Distance(p, s.hand.at) \in Nat /\ HandRange \in Nat
      BY <1>2, PlaceFacts DEF HandStates
    <3>2. NoHand \in HandStates
      BY PlaceFacts, EncounterAssumption DEF NoHand, HandStates, Positions
    <3>3. CASE s.hand = NoHand \/ Distance(p, s.hand.at) > HandRange
      BY <3>2, <3>3 DEF HandAfterMove
    <3>4. CASE ~(s.hand = NoHand \/ Distance(p, s.hand.at) > HandRange)
      <4> DEFINE distance == Distance(p, s.hand.at)
                 moved == [s.hand EXCEPT !.distance = distance]
      <4>1. hand = moved
        BY <3>4 DEF HandAfterMove
      <4>2. distance \in Nat /\ distance <= HandRange
        BY <3>1, <3>4
      <4> HIDE DEF distance
      <4>3. moved \in HandStates /\ moved.distance = distance /\ moved.at = s.hand.at
        BY <1>2, <4>2 DEF HandStates
      <4>4. QED
        BY <4>1, <4>2, <4>3 DEF distance
    <3>5. QED
      BY <3>3, <3>4
  <2> HIDE DEF hero, hand
  <2>5. Keeps(u, moving, {"hero", "hand"}) /\ u.hero = hero /\ u.hand = hand
    BY <1>6, <2>3, <2>4 DEF Keeps, Fields, States
  <2> HIDE DEF u
  <2>6. Keeps(u, s, {"turn", "hero", "hand"}) /\ u.turn = turn
    BY <1>6, <2>5 DEF Keeps, Fields
  <2>7. /\ u.creature = s.creature /\ u.sluiceOpen = s.sluiceOpen /\ u.pools = s.pools
    BY <2>6 DEF Keeps, Fields
  <2>8. ValidCreature(u) /\ PoolsFit(u) /\ u.creature.life = "conscious"
    BY <1>5, <2>2, <2>6, <2>7, HeroPlaysFacts, FramedParts
  <2>9. ValidHero(u.hero) /\ u.hero.life = "conscious"
    BY <1>5, <2>2, <2>3, <2>5 DEF ValidHero, HeroPlays
  <2>10. HandFits(u)
    BY <2>3, <2>4, <2>5 DEF HandFits, From
  <2>11. /\ u.turn.movement <= HeroSpeed
         /\ u.turn.bonus => u.pools.secondWind > 0
         /\ ~u.turn.object => u.sluiceOpen
    <3>1. s.turn.movement <= HeroSpeed /\ (s.turn.bonus => s.pools.secondWind > 0)
          /\ (~s.turn.object => s.sluiceOpen)
      BY <2>2, HeroPlaysFacts
    <3>2. HeroSpeed \in Nat
      BY EncounterAssumption
    <3>3. QED
      BY <1>2, <1>4, <2>6, <2>7, <3>1, <3>2
  <2>12. HeroPlays(u)
    BY <2>2, <2>6, <2>8, <2>9, <2>10, <2>11, HeroPlaysOn DEF Keeps, TurnParts
  <2>13. QED
    BY <2>1, <2>12 DEF HeroPlays
<1>9. CASE s.actor # "hero"
  <2>1. t = v
    BY <1>1, <1>7, <1>9
  <2>2. /\ creature \in CreatureStates /\ creature.temp = s.creature.temp
        /\ creature.hp = s.creature.hp /\ creature.life = s.creature.life
        /\ creature.veil = s.creature.veil /\ creature.asleep = s.creature.asleep
    BY <1>2 DEF CreatureStates
  <2> HIDE DEF creature
  <2>3. Keeps(v, moving, {"creature"}) /\ v.creature = creature
    BY <1>6, <2>2 DEF Keeps, Fields, States
  <2> HIDE DEF v
  <2>4. Keeps(v, s, {"turn", "creature"}) /\ v.turn = turn
    BY <1>6, <2>3 DEF Keeps, Fields
  <2>5. /\ v.hero = s.hero /\ v.sluiceOpen = s.sluiceOpen /\ v.pools = s.pools
        /\ v.sleep = s.sleep /\ v.actor = s.actor /\ v.pending = s.pending /\ v.ward = s.ward
        /\ v.policy = s.policy
    BY <2>4 DEF Keeps, Fields
  <2>6. ValidHero(v.hero) /\ HandFits(v) /\ PoolsFit(v)
    BY <1>5, <2>4, FramedParts
  <2>7. ValidCreature(v)
    BY <1>5, <2>2, <2>3, <2>5 DEF ValidCreature
  <2>8. ValidTurn(v)
    <3>1. CreatureSpeed \in Nat /\ s.turn.movement <= CreatureSpeed
      BY <1>5, <1>9, EncounterAssumption DEF ValidTurn
    <3>2. v.turn.movement <= CreatureSpeed
      BY <1>2, <1>4, <2>4, <3>1
    <3>3. QED
      BY <1>4, <1>5, <1>9, <2>2, <2>3, <2>4, <2>5, <3>2 DEF ValidTurn
  <2>9. /\ v.policy = "story" => v.hero.life = "conscious"
        /\ v.pending # "none" => /\ v.actor = "creature" /\ ~v.turn.action /\ ~v.ward
                                 /\ v.sleep = 0
        /\ v.ward => v.actor = "creature" /\ ~v.turn.action
    BY <1>4, <1>5, <2>4, <2>5, ActiveFacts
  <2>10. Keeps(v, s, {"actor", "turn", "sluiceOpen", "hero", "creature", "pools", "lights",
                      "hand", "sleep", "pending", "ward", "reaction"})
    BY <2>4 DEF Keeps
  <2>11. Good(v)
    BY <1>5, <2>6, <2>7, <2>8, <2>9, <2>10, StaysGood
  <2>12. QED
    BY <2>1, <2>11
<1>10. QED
  BY <1>8, <1>9

LEMMA ActiveGood ==
    ASSUME NEW t \in States, t.status = "active", t.time = 0, t.longRest = 0, t.rest = "none",
           ValidHero(t.hero), ValidCreature(t), HandFits(t), PoolsFit(t), ValidTurn(t),
           t.policy = "story" => t.hero.life = "conscious",
           t.pending = "none", ~t.ward
    PROVE  Good(t)
<1>1. ValidEffects(t)
  BY DEF ValidEffects, HandFits
<1>2. Valid(t)
  BY <1>1 DEF Valid
<1>3. Lasting(t)
  BY DEF Lasting
<1>4. QED
  BY <1>2, <1>3 DEF Good

LEMMA StartGood ==
    ASSUME NEW s \in States, Good(s)
    PROVE  \A t \in Start(s) : Good(t)
<1> SUFFICES ASSUME s.status = "ready", NEW a \in Actors
             PROVE  Good(SetTurn([s EXCEPT !.status = "active", !.first = a], a))
  BY DEF Start, Offers
<1> DEFINE u == [s EXCEPT !.status = "active", !.first = a]
           t == SetTurn(u, a)
<1>1. Keeps(u, s, {"status", "first"}) /\ u.status = "active"
  BY DEF Keeps, Fields, States, Statuses, Nobody
<1> HIDE DEF u
<1>2. u \in States
  BY <1>1 DEF Keeps
<1>3. /\ Keeps(t, u, {"actor", "turn", "ward", "reaction"})
      /\ t.actor = a
      /\ t.turn = [action |-> TRUE, bonus |-> a = "hero" /\ u.pools.secondWind > 0,
                   object |-> TRUE, movement |-> IF a = "hero" THEN HeroSpeed ELSE CreatureSpeed]
      /\ t.ward = (u.ward /\ a # "hero")
  BY <1>2, SetTurnKeeps
<1> HIDE DEF t
<1>4. Keeps(t, s, {"status", "first", "actor", "turn", "ward", "reaction"})
  BY <1>1, <1>3 DEF Keeps
<1>5. /\ t \in States /\ t.status = "active" /\ t.hero = s.hero /\ t.creature = s.creature
      /\ t.sluiceOpen = s.sluiceOpen /\ t.hand = s.hand /\ t.pools = s.pools
      /\ t.class = s.class /\ t.time = s.time /\ t.longRest = s.longRest /\ t.rest = s.rest
      /\ t.pending = s.pending /\ t.pools = u.pools /\ u.ward = s.ward
  BY <1>1, <1>3, <1>4 DEF Keeps, Fields
<1>6. /\ Valid(s) /\ PoolsFit(s) /\ Lasting(s) /\ ValidEffects(s)
  BY DEF Good, Valid
<1>7. s.time = 0 /\ s.hero.life = "conscious" /\ s.creature.life = "conscious"
  BY <1>6 DEF Lasting
<1>8. /\ s.rest = "none" /\ s.pending = "none" /\ ~s.ward /\ s.longRest <= s.time
  BY <1>6 DEF ValidEffects, SafeBoundary
<1>9. s.longRest = 0
  BY <1>7, <1>8, FieldTypes
<1>10. ValidHero(t.hero) /\ ValidCreature(t) /\ HandFits(t) /\ PoolsFit(t)
  BY <1>4, FramedParts
<1>11. ValidTurn(t)
  <2>1. HeroSpeed \in Nat /\ CreatureSpeed \in Nat
    BY EncounterAssumption
  <2>2. t.turn.movement <= IF t.actor = "hero" THEN HeroSpeed ELSE CreatureSpeed
    BY <1>3, <2>1
  <2>3. (t.turn.bonus => t.actor = "hero" /\ t.pools.secondWind > 0) /\ t.turn.object
    <3> DEFINE wind == a = "hero" /\ u.pools.secondWind > 0
    <3>1. t.turn.bonus = wind /\ t.turn.object = TRUE
      <4>1. t.turn = [action |-> TRUE, bonus |-> wind, object |-> TRUE,
                      movement |-> IF a = "hero" THEN HeroSpeed ELSE CreatureSpeed]
        BY <1>3
      <4> HIDE DEF wind
      <4>2. QED
        BY <4>1
    <3>2. t.turn.bonus => wind
      <4> HIDE DEF wind
      <4> QED BY <3>1, Zenon
    <3>3. QED
      BY <1>3, <1>5, <3>1, <3>2
  <2>4. QED
    BY <1>3, <1>5, <1>7, <2>2, <2>3 DEF ValidTurn
<1>12. ~t.ward
  BY <1>3, <1>5, <1>8
<1>13. QED
  BY <1>5, <1>7, <1>8, <1>9, <1>10, <1>11, <1>12, ActiveGood DEF t, u

LEMMA AdvanceGood ==
    ASSUME NEW s \in States, Good(s), s.status = "active", s.pending = "none"
    PROVE  Good(AdvanceTurn(s))
<1> DEFINE t == AdvanceTurn(s)
           slept == [s.creature EXCEPT !.asleep = @ /\ s.sleep # 1]
<1>1. s.actor \in Actors
  BY ActiveFacts
<1>2. /\ Keeps(t, s, {"actor", "turn", "ward", "reaction", "lights", "hand", "sleep",
                      "creature"})
      /\ t.actor = Other(s.actor)
      /\ t.turn = [action |-> TRUE, bonus |-> t.actor = "hero" /\ s.pools.secondWind > 0,
                   object |-> TRUE,
                   movement |-> IF t.actor = "hero" THEN HeroSpeed ELSE CreatureSpeed]
      /\ t.ward = (s.ward /\ t.actor # "hero")
      /\ t.hand = NoHand
           \/ (s.hand # NoHand /\ t.hand.distance = s.hand.distance /\ t.hand.at = s.hand.at)
      /\ \/ t.sleep = s.sleep /\ t.creature = s.creature
         \/ t.sleep = Less(s.sleep, 1) /\ t.creature = slept
  BY <1>1, AdvanceTurnKeeps
<1> HIDE DEF t
<1>3. /\ t \in States /\ t.status = "active" /\ t.hero = s.hero /\ t.policy = s.policy
      /\ t.sluiceOpen = s.sluiceOpen /\ t.pools = s.pools
      /\ t.class = s.class /\ t.time = s.time /\ t.longRest = s.longRest /\ t.rest = s.rest
      /\ t.pending = "none"
  BY <1>2 DEF Keeps, Fields
<1>4. /\ s.time = 0 /\ s.longRest = 0 /\ s.rest = "none"
      /\ ValidHero(s.hero) /\ ValidCreature(s) /\ HandFits(s) /\ ValidTurn(s)
      /\ s.creature.life = "conscious" /\ s.hero.life \in {"conscious", "unconscious"}
      /\ s.policy = "story" => s.hero.life = "conscious"
      /\ s.ward => s.actor = "creature"
  BY ActiveFacts
<1>5. ValidHero(t.hero) /\ PoolsFit(t)
  BY <1>2, FramedParts
<1>6. HandFits(t)
  <2>1. CASE t.hand = NoHand
    BY <2>1 DEF HandFits
  <2>2. CASE t.hand # NoHand
    <3>1. t.hand.distance = s.hand.distance /\ t.hand.at = s.hand.at
      BY <1>2, <2>2
    <3>2. s.hand # NoHand
      BY <1>2, <2>2
    <3>3. QED
      BY <1>3, <1>4, <3>1, <3>2 DEF HandFits, From
  <2>3. QED
    BY <2>1, <2>2
<1>7. ValidCreature(t) /\ t.creature.life = "conscious"
  <2>1. CASE t.sleep = s.sleep /\ t.creature = s.creature
    BY <1>3, <1>4, <2>1 DEF ValidCreature
  <2>2. CASE t.sleep = Less(s.sleep, 1) /\ t.creature = slept
    <3>1. s.creature \in CreatureStates /\ s.sleep \in Nat /\ s.creature.asleep \in BOOLEAN
      BY FieldTypes, CreatureTypes, EncounterAssumption DEF Rounds
    <3>2. /\ slept.temp = s.creature.temp /\ slept.veil = s.creature.veil
          /\ slept.hp = s.creature.hp /\ slept.life = s.creature.life
          /\ slept.asleep = (s.creature.asleep /\ s.sleep # 1)
      BY <3>1 DEF CreatureStates
    <3>3. t.sleep > 0 <=> s.sleep > 0 /\ s.sleep # 1
      BY <2>2, <3>1 DEF Less
    <3> HIDE DEF slept
    <3>4. s.creature.asleep <=> s.sleep > 0
      BY <1>4 DEF ValidCreature
    <3>5. t.creature.asleep <=> s.creature.asleep /\ s.sleep # 1
      BY <2>2, <3>2, Zenon
    <3>6. t.creature.asleep <=> t.sleep > 0
      BY <3>3, <3>4, <3>5
    <3>7. QED
      BY <1>3, <1>4, <2>2, <3>2, <3>6 DEF ValidCreature
  <2>3. QED
    BY <1>2, <2>1, <2>2
<1>8. ValidTurn(t)
  <2>1. HeroSpeed \in Nat /\ CreatureSpeed \in Nat
    BY EncounterAssumption
  <2>2. t.turn.movement <= IF t.actor = "hero" THEN HeroSpeed ELSE CreatureSpeed
    BY <1>2, <2>1
  <2>3. (t.turn.bonus => t.actor = "hero" /\ t.pools.secondWind > 0) /\ t.turn.object
    <3> DEFINE wind == t.actor = "hero" /\ s.pools.secondWind > 0
    <3>1. t.turn.bonus = wind /\ t.turn.object = TRUE
      <4>1. t.turn = [action |-> TRUE, bonus |-> wind, object |-> TRUE,
                      movement |-> IF t.actor = "hero" THEN HeroSpeed ELSE CreatureSpeed]
        BY <1>2
      <4> HIDE DEF wind
      <4>2. QED
        BY <4>1
    <3>2. t.turn.bonus => wind
      <4> HIDE DEF wind
      <4> QED BY <3>1, Zenon
    <3>3. QED
      BY <1>3, <3>1, <3>2
  <2>4. t.actor \in Actors
    BY <1>2 DEF Other, Actors
  <2>5. QED
    BY <1>3, <1>4, <1>7, <2>2, <2>3, <2>4 DEF ValidTurn
<1>9. ~t.ward
  BY <1>2, <1>4 DEF Other
<1>10. QED
  BY <1>3, <1>4, <1>5, <1>6, <1>7, <1>8, <1>9, ActiveGood DEF t

\* While a hit is pending the wight's turn does not end.
LEMMA PendingTurnGoesOn ==
    ASSUME NEW s \in States, Good(s), s.pending # "none"
    PROVE  \A t \in EndTurn(s) : ~Valid(t)
<1>1. s.status = "active" /\ s.actor = "creature" /\ s.actor \in Actors
  BY DEF Good, Valid, ValidEffects, Actors
<1> DEFINE t == AdvanceTurn(s)
<1>2. t.actor = "hero" /\ t.pending = s.pending
  BY <1>1, AdvanceTurnKeeps DEF Keeps, Fields, Other
<1> HIDE DEF t
<1>3. ~Valid(t)
  BY <1>2 DEF Valid, ValidEffects
<1>4. QED
  BY <1>3 DEF EndTurn, Offers, t

LEMMA SaveFacts ==
    ASSUME NEW h \in HeroStates, ValidHero(h), h.life = "unconscious"
    PROVE  LET passed == [h EXCEPT !.successes = Lower(@ + 1, 3),
                                   !.life = IF h.successes >= 2 THEN "stable" ELSE @]
               woken == [h EXCEPT !.hp = 1, !.life = "conscious", !.successes = 0,
                                  !.failures = 0]
           IN  \A k \in {woken, passed, Dying(h, h.failures + 1), Dying(h, h.failures + 2)} :
                   k \in HeroStates /\ ValidHero(k) /\ k.position = h.position
<1> DEFINE successes == Lower(h.successes + 1, 3)
           life == IF h.successes >= 2 THEN "stable" ELSE h.life
           passed == [h EXCEPT !.successes = successes, !.life = life]
           woken == [h EXCEPT !.hp = 1, !.life = "conscious", !.successes = 0, !.failures = 0]
           Fine(k) == k \in HeroStates /\ ValidHero(k) /\ k.position = h.position
<1>1. /\ h.position \in Positions /\ h.hp \in Nat /\ h.hp <= HeroMaximum
      /\ h.temp \in Nat /\ h.temp <= HeroMaximum /\ h.successes \in 0..3 /\ h.failures \in 0..3
      /\ HeroMaximum \in Nat /\ 1 \in 0..HeroMaximum
  BY HeroTypes, EncounterAssumption
<1>2. h.successes < 3 /\ h.failures < 3 /\ h.hp = 0
  BY <1>1 DEF ValidHero
<1>3. Fine(woken)
  <2>1. woken \in HeroStates
    <3>1. "conscious" \in Lives /\ 0 \in 0..3
      BY DEF Lives
    <3>2. QED
      BY <1>1, <3>1 DEF HeroStates
  <2>2. /\ woken.hp = 1 /\ woken.life = "conscious" /\ woken.successes = 0
        /\ woken.failures = 0 /\ woken.temp = h.temp /\ woken.position = h.position
    BY DEF HeroStates
  <2>3. QED
    BY <1>1, <2>1, <2>2 DEF ValidHero
<1>4. Fine(passed)
  <2>1. successes \in 0..3 /\ (successes < 3 <=> h.successes < 2)
        /\ (successes = 3 <=> h.successes >= 2)
    BY <1>1, <1>2 DEF Lower
  <2>2. life \in Lives /\ life \in {"stable", "unconscious"}
        /\ (life = "stable" <=> h.successes >= 2)
    BY DEF Lives
  <2> HIDE DEF successes, life
  <2>3. passed \in HeroStates
    BY <2>1, <2>2 DEF HeroStates
  <2>4. /\ passed.hp = h.hp /\ passed.life = life /\ passed.successes = successes
        /\ passed.failures = h.failures /\ passed.temp = h.temp
        /\ passed.position = h.position
    BY DEF HeroStates
  <2>5. ValidHero(passed)
    BY <1>1, <1>2, <2>1, <2>2, <2>4 DEF ValidHero
  <2>6. QED
    BY <2>3, <2>4, <2>5
<1>5. ASSUME NEW n \in Nat PROVE Fine(Dying(h, n))
  <2>1. h = [position |-> h.position, hp |-> h.hp, temp |-> h.temp, life |-> h.life,
             successes |-> h.successes, failures |-> h.failures]
    BY DEF HeroStates
  <2>2. Dying(h, n) = [position |-> h.position, hp |-> h.hp, temp |-> h.temp,
                       life |-> IF n >= 3 THEN "dead" ELSE h.life,
                       successes |-> h.successes, failures |-> IF n >= 3 THEN 3 ELSE n]
    BY <2>1 DEF Dying
  <2>3. Dying(h, n) \in HeroStates
    BY <1>1, <2>2 DEF HeroStates, Lives
  <2>4. ValidHero(Dying(h, n))
    BY <1>1, <1>2, <2>2 DEF ValidHero
  <2>5. QED
    BY <2>2, <2>3, <2>4
<1>6. Fine(Dying(h, h.failures + 1)) /\ Fine(Dying(h, h.failures + 2))
  BY <1>1, <1>5
<1>7. QED
  BY <1>3, <1>4, <1>6

LEMMA DeathSaveGood ==
    ASSUME NEW s \in States, Good(s)
    PROVE  \A t \in DeathSave(s) : Good(t)
<1> DEFINE h == s.hero
           passed == [h EXCEPT !.successes = Lower(@ + 1, 3),
                               !.life = IF h.successes >= 2 THEN "stable" ELSE @]
           woken == [h EXCEPT !.hp = 1, !.life = "conscious", !.successes = 0, !.failures = 0]
           Saves == {woken, passed, Dying(h, h.failures + 1), Dying(h, h.failures + 2)}
           After(k) == LET t == [s EXCEPT !.hero = k]
                       IN  IF k.life = "conscious" THEN t
                           ELSE IF k.life = "unconscious" THEN AdvanceTurn(t)
                           ELSE Ended(t, "defeat")
<1>0. DeathSave(s) = Offers(s.status = "active" /\ s.actor = "hero" /\ h.life = "unconscious"
                              /\ s.policy = "raw", {After(k) : k \in Saves})
  BY DEF DeathSave
<1> HIDE DEF Saves, After
<1> SUFFICES ASSUME s.status = "active", s.actor = "hero", h.life = "unconscious",
                    s.policy = "raw", NEW k \in Saves
             PROVE  Good(After(k))
  BY <1>0 DEF Offers
<1> USE DEF After
<1> DEFINE t == [s EXCEPT !.hero = k]
<1>1. /\ s.time = 0 /\ s.longRest = 0 /\ s.rest = "none"
      /\ ValidHero(s.hero) /\ ValidCreature(s) /\ HandFits(s) /\ ValidTurn(s)
      /\ s.creature.life = "conscious" /\ s.pending = "none" /\ ~s.ward
      /\ s.hero \in HeroStates
  BY ActiveFacts, FieldTypes
<1>2. k \in HeroStates /\ ValidHero(k) /\ k.position = h.position
  BY <1>1, SaveFacts DEF Saves
<1> HIDE DEF passed, woken
<1>3. Keeps(t, s, {"hero"}) /\ t.hero = k
  BY <1>2 DEF Keeps, Fields, States
<1> HIDE DEF t
<1>4. /\ t \in States /\ t.status = "active" /\ t.actor = "hero" /\ t.policy = "raw"
      /\ t.turn = s.turn /\ t.sluiceOpen = s.sluiceOpen /\ t.creature = s.creature
      /\ t.pools = s.pools /\ t.hand = s.hand /\ t.time = 0 /\ t.longRest = 0
      /\ t.rest = "none" /\ t.pending = "none" /\ ~t.ward
  BY <1>1, <1>3 DEF Keeps, Fields
<1>5. ValidHero(t.hero) /\ ValidCreature(t) /\ PoolsFit(t)
  BY <1>2, <1>3, FramedParts
<1>6. HandFits(t)
  BY <1>1, <1>2, <1>3, <1>4 DEF HandFits, From
<1>7. k.life \in Lives
  BY <1>2, HeroTypes
<1>8. ASSUME k.life \in {"conscious", "unconscious"} PROVE Good(t)
  <2>1. ValidTurn(t)
    BY <1>1, <1>3, <1>4, <1>8 DEF ValidTurn
  <2>2. QED
    BY <1>4, <1>5, <1>6, <2>1, ActiveGood
<1>9. ASSUME k.life \in {"stable", "dead"} PROVE Good(Ended(t, "defeat"))
  <2> DEFINE v == Ended(t, "defeat")
  <2>1. /\ Keeps(v, t, {"status", "actor", "turn", "transition"})
        /\ v.status = "defeat" /\ v.actor = "none" /\ v.turn = NoTurn
        /\ v.transition = IF t.policy = "story" THEN [hp |-> 1, life |-> "conscious"]
                          ELSE [hp |-> t.hero.hp, life |-> t.hero.life]
    BY <1>4, EndedKeeps
  <2> HIDE DEF v
  <2>2. Keeps(v, t, Ending) /\ v.ward = t.ward
    BY <2>1 DEF Keeps, Fields, Ending
  <2>3. Good(v)
    BY <1>3, <1>4, <1>5, <1>6, <1>9, <2>1, <2>2, EndsGood
  <2>4. QED
    BY <2>3 DEF v
<1>10. QED
  <2>1. CASE k.life = "conscious"
    BY <1>8, <2>1 DEF t
  <2>2. CASE k.life = "unconscious"
    <3>1. Good(AdvanceTurn(t))
      BY <1>4, <1>8, <2>2, AdvanceGood
    <3>2. QED
      BY <2>2, <3>1 DEF t
  <2>3. CASE k.life \in {"stable", "dead"}
    BY <1>9, <2>3 DEF t
  <2>4. QED
    BY <1>7, <2>1, <2>2, <2>3 DEF Lives

-----------------------------------------------------------------------------
(* The wight's blow, and the answer to it                                  *)

LEMMA AttackGood ==
    ASSUME NEW s \in States, Good(s),
           s.status = "active" /\ s.actor = "creature" => s.sleep = 0
    PROVE  \A t \in Attack(s) : Good(t) /\ (s.actor = "creature" => t.time = s.time)
<1> DEFINE u == Acting(s)
           turn == [s.turn EXCEPT !.action = FALSE]
           hits == IF s.actor = "hero"
                   THEN {StrikeCreature(u, d) : d \in HeroDamage \cup Rolled(HeroDamage, TRUE)}
                   ELSE IF ShieldReady(s)
                   THEN {[u EXCEPT !.pending = hit] : hit \in {"hit", "critical"}}
                   ELSE {StrikeHero(u, d, FALSE) : d \in CreatureDamage}
                        \cup {StrikeHero(u, d, TRUE) : d \in Rolled(CreatureDamage, TRUE)}
<1>1. Attack(s) = Offers(CanAct(s) /\ Apart(s) <= 1 /\ s.turn.action, {u} \cup hits)
  BY DEF Attack, Acting
<1> HIDE DEF hits
<1> SUFFICES ASSUME CanAct(s), s.turn.action
             PROVE  \A t \in {u} \cup hits : Good(t) /\ (s.actor = "creature" => t.time = s.time)
  BY <1>1 DEF Offers
<1>2. /\ s.status = "active" /\ s.actor \in Actors /\ s.pending = "none" /\ ~s.ward
      /\ ValidTurn(s) /\ (s.policy = "story" => s.hero.life = "conscious")
  BY ActiveFacts DEF CanAct
<1>3. CASE s.actor = "hero"
  <2>1. HeroPlays(s)
    BY <1>2, <1>3 DEF HeroPlays, CanAct
  <2>2. u \in States /\ HeroPlays(u)
    BY <2>1, ActingPlays DEF Keeps
  <2> HIDE DEF u
  <2>3. ASSUME NEW d \in Nat PROVE Good(StrikeCreature(u, d))
    BY <2>2, HeroPlaysFacts, CreatureStruck DEF HeroPlays
  <2>4. hits = {StrikeCreature(u, d) : d \in HeroDamage \cup Rolled(HeroDamage, TRUE)}
    BY <1>3 DEF hits
  <2>5. QED
    BY <1>3, <2>2, <2>3, <2>4, DiceFacts DEF HeroPlays
<1>4. CASE s.actor = "creature"
  <2>1. s.turn \in TurnStates
    BY FieldTypes
  <2>2. /\ turn \in TurnStates /\ turn.action = FALSE /\ turn.bonus = s.turn.bonus
        /\ turn.object = s.turn.object /\ turn.movement = s.turn.movement
    BY <2>1 DEF TurnStates
  <2>3. u = [s EXCEPT !.turn = turn]
    BY DEF Acting
  <2> HIDE DEF u, turn
  <2>4. Keeps(u, s, {"turn"}) /\ u.turn = turn
    BY <2>2, <2>3 DEF Keeps, Fields, States
  <2>5. /\ u \in States /\ u.status = "active" /\ u.actor = "creature" /\ u.pending = "none"
        /\ ~u.ward /\ u.hero = s.hero /\ u.creature = s.creature /\ u.pools = s.pools
        /\ u.sluiceOpen = s.sluiceOpen /\ u.policy = s.policy /\ u.sleep = s.sleep
        /\ u.time = s.time
    BY <1>2, <1>4, <2>4 DEF Keeps, Fields
  <2>6. ValidHero(u.hero) /\ ValidCreature(u) /\ HandFits(u) /\ PoolsFit(u)
    BY <2>4, <2>5, FramedParts
  <2>7. ValidTurn(u)
    BY <1>2, <1>4, <2>2, <2>4, <2>5 DEF ValidTurn
  <2>8. Keeps(u, s, {"actor", "turn", "sluiceOpen", "hero", "creature", "pools", "lights",
                     "hand", "sleep", "pending", "ward", "reaction"})
    BY <2>4 DEF Keeps
  <2>9. Good(u)
    BY <1>2, <2>5, <2>6, <2>7, <2>8, StaysGood
  <2>10. ASSUME NEW d \in Nat, NEW critical \in BOOLEAN
         PROVE  Good(StrikeHero(u, d, critical)) /\ StrikeHero(u, d, critical).time = s.time
    BY <2>5, <2>9, HeroStruckGood
  <2>11. ASSUME NEW hit \in {"hit", "critical"}
         PROVE  Good([u EXCEPT !.pending = hit]) /\ [u EXCEPT !.pending = hit].time = s.time
    <3> DEFINE v == [u EXCEPT !.pending = hit]
    <3>1. Keeps(v, u, {"pending"})
      BY <2>5 DEF Keeps, Fields, States, PendingHits
    <3> HIDE DEF v
    <3>2. Keeps(v, u, {"actor", "turn", "sluiceOpen", "hero", "creature", "pools", "lights",
                       "hand", "sleep", "pending", "ward", "reaction"})
      BY <3>1 DEF Keeps
    <3>3. /\ v.actor = "creature" /\ v.turn = turn /\ ~v.ward /\ v.hero = u.hero
          /\ v.creature = u.creature /\ v.pools = u.pools /\ v.sluiceOpen = u.sluiceOpen
          /\ v.policy = u.policy /\ v.sleep = 0 /\ v.time = s.time
      BY <1>2, <1>4, <2>4, <2>5, <3>1 DEF Keeps, Fields
    <3>4. ValidHero(v.hero) /\ ValidCreature(v) /\ HandFits(v) /\ PoolsFit(v)
      BY <2>5, <2>9, <3>1, <3>3, FramedParts
    <3>5. ValidTurn(v)
      BY <2>4, <2>5, <2>7, <3>3 DEF ValidTurn
    <3>6. Good(v)
      BY <1>2, <2>2, <2>5, <2>9, <3>2, <3>3, <3>4, <3>5, StaysGood
    <3>7. QED
      BY <3>3, <3>6 DEF v
  <2>12. \A t \in hits : Good(t) /\ t.time = s.time
    <3>1. CASE ShieldReady(s)
      BY <1>4, <2>11, <3>1 DEF hits
    <3>2. CASE ~ShieldReady(s)
      <4>1. hits = {StrikeHero(u, d, FALSE) : d \in CreatureDamage}
                   \cup {StrikeHero(u, d, TRUE) : d \in Rolled(CreatureDamage, TRUE)}
        BY <1>4, <3>2 DEF hits
      <4>2. /\ \A d \in CreatureDamage : Good(StrikeHero(u, d, FALSE))
                                          /\ StrikeHero(u, d, FALSE).time = s.time
            /\ \A d \in Rolled(CreatureDamage, TRUE) :
                   Good(StrikeHero(u, d, TRUE)) /\ StrikeHero(u, d, TRUE).time = s.time
        BY <2>10, DiceFacts
      <4>3. QED
        BY <4>1, <4>2
    <3>3. QED
      BY <3>1, <3>2
  <2>13. QED
    BY <2>5, <2>9, <2>12
<1>5. QED
  BY <1>2, <1>3, <1>4 DEF Actors

\* A state with a pending hit, once the hit is no longer pending.
LEMMA AnsweredGood ==
    ASSUME NEW s \in States, Good(s), s.pending # "none",
           NEW t, Keeps(t, s, {"pending", "ward", "pools", "reaction"}), t.pending = "none",
           PoolsFit(t)
    PROVE  Good(t) /\ t.status = "active"
<1>1. s.status = "active"
  BY DEF Good, Valid, ValidEffects
<1>2. /\ s.actor = "creature" /\ ~s.turn.action /\ ValidTurn(s)
      /\ (s.policy = "story" => s.hero.life = "conscious")
  BY <1>1, ActiveFacts
<1>3. /\ t \in States /\ t.status = "active" /\ t.actor = "creature" /\ t.turn = s.turn
      /\ t.hero = s.hero /\ t.creature = s.creature /\ t.sluiceOpen = s.sluiceOpen
      /\ t.policy = s.policy
  BY <1>1, <1>2 DEF Keeps, Fields
<1>4. ValidHero(t.hero) /\ ValidCreature(t) /\ HandFits(t)
  BY FramedParts
<1>5. ValidTurn(t)
  BY <1>2, <1>3 DEF ValidTurn
<1>6. Keeps(t, s, {"actor", "turn", "sluiceOpen", "hero", "creature", "pools", "lights",
                   "hand", "sleep", "pending", "ward", "reaction"})
  BY DEF Keeps
<1>7. QED
  BY <1>1, <1>2, <1>3, <1>4, <1>5, <1>6, StaysGood

LEMMA SettledGood ==
    ASSUME NEW s \in States, Good(s), s.pending # "none"
    PROVE  \A t \in Settled(s) : Good(t)
<1> DEFINE u == [s EXCEPT !.pending = "none"]
           critical == s.pending = "critical"
<1>1. Settled(s) = {StrikeHero(u, d, critical) : d \in Rolled(CreatureDamage, critical)}
  BY DEF Settled
<1>2. Keeps(u, s, {"pending"}) /\ u.pending = "none"
  BY DEF Keeps, Fields, States, PendingHits
<1>3. critical \in BOOLEAN
  OBVIOUS
<1> HIDE DEF u, critical
<1>4. u \in States /\ u.ward = s.ward /\ PoolsFit(u)
  <2>1. PoolsFit(u)
    BY <1>2, FramedParts
  <2>2. QED
    BY <1>2, <2>1 DEF Keeps, Fields
<1>5. Keeps(u, s, {"pending", "ward", "pools", "reaction"})
  BY <1>2 DEF Keeps
<1>6. Good(u) /\ u.status = "active"
  BY <1>2, <1>4, <1>5, AnsweredGood
<1>7. ~u.ward
  BY <1>4 DEF Good, Valid, ValidEffects
<1>8. ASSUME NEW d \in Nat PROVE Good(StrikeHero(u, d, critical))
  BY <1>2, <1>3, <1>4, <1>6, <1>7, HeroStruckGood
<1>9. QED
  BY <1>1, <1>3, <1>8, DiceFacts

LEMMA ShieldGood ==
    ASSUME NEW s \in States, Good(s), s.pending # "none", ShieldReady(s)
    PROVE  \A t \in Shield(s) : Good(t)
<1> DEFINE pools == [s.pools EXCEPT !.slots = s.pools.slots - 1]
           warded == [s EXCEPT !.pools = pools, !.reaction = FALSE, !.ward = TRUE]
           u == [warded EXCEPT !.pending = "none"]
           critical == warded.pending = "critical"
           Strike(d) == StrikeHero(u, d, critical)
<1>1. Shield(s) = Offers(s.pending = "hit", {u})
                  \cup {[t EXCEPT !.ward = t.status = "active"] : t \in Settled(warded)}
  BY DEF Shield
<1>2. Settled(warded) = {Strike(d) : d \in Rolled(CreatureDamage, critical)}
  BY DEF Settled
<1>3. s.pools \in PoolStates /\ s.pools.slots \in Nat /\ s.pools.slots > 0
  BY FieldTypes, PoolTypes DEF ShieldReady
<1>4. /\ pools \in PoolStates /\ pools.slots = s.pools.slots - 1
      /\ pools.recovery = s.pools.recovery /\ pools.secondWind = s.pools.secondWind
      /\ pools.actionSurge = s.pools.actionSurge /\ pools.hitDice = s.pools.hitDice
  BY <1>3 DEF PoolStates
<1>5. critical \in BOOLEAN
  OBVIOUS
<1> HIDE DEF pools, critical
<1>6. Keeps(warded, s, {"pools", "reaction", "ward"}) /\ warded.pools = pools /\ warded.ward
  BY <1>4 DEF Keeps, Fields, States
<1> HIDE DEF warded
<1>7. Keeps(u, warded, {"pending"}) /\ u.pending = "none"
  BY <1>6 DEF Keeps, Fields, States, PendingHits
<1> HIDE DEF u
<1>8. /\ u \in States /\ u.ward /\ u.pools = pools /\ u.class = s.class
      /\ Keeps(u, s, {"pending", "ward", "pools", "reaction"})
  BY <1>6, <1>7 DEF Keeps, Fields
<1>9. PoolsFit(u)
  <2>1. FullPools(s.class).slots \in Nat
    BY EncounterAssumption DEF FullPools
  <2>2. PoolsFit(s)
    BY DEF Good
  <2>3. QED
    BY <1>3, <1>4, <1>8, <2>1, <2>2 DEF PoolsFit
<1>10. Good(u) /\ u.status = "active"
  BY <1>7, <1>8, <1>9, AnsweredGood
<1>11. ASSUME NEW d \in Nat
       PROVE  LET v == Strike(d) IN Good([v EXCEPT !.ward = v.status = "active"])
  BY <1>5, <1>7, <1>8, <1>10, ShieldedHeroStruckGood
<1> HIDE DEF Strike
<1>12. ASSUME NEW t \in Settled(warded)
       PROVE  Good([t EXCEPT !.ward = t.status = "active"])
  <2>1. PICK d \in Nat : t = Strike(d)
    BY <1>2, <1>5, DiceFacts
  <2>2. QED
    BY <1>11, <2>1
<1>13. QED
  BY <1>1, <1>10, <1>12 DEF Offers

-----------------------------------------------------------------------------
(* Rests                                                                   *)

LEMMA RestFacts ==
    ASSUME NEW s \in States, Good(s), SafeBoundary(s)
    PROVE  /\ s.pending = "none" /\ ~s.ward /\ s.actor = "none" /\ s.turn = NoTurn
           /\ ValidHero(s.hero) /\ ValidCreature(s) /\ HandFits(s) /\ PoolsFit(s)
           /\ s.longRest <= s.time
           /\ s.status \in {"victory", "defeat"} /\ (s.status = "defeat" => s.policy = "story")
           /\ s.status = "victory" => s.creature.life = "dead"
           /\ s.rest # "none" => s.time > 0
           /\ (s.status = "victory" \/ s.time > 0)
                  => s.hero.life = "conscious" /\ TransitionCurrent(s)
           /\ ~(s.status = "victory" \/ s.time > 0)
                  => s.hero.life = "unconscious" /\ s.transition = [hp |-> 1, life |-> "conscious"]
<1>1. Valid(s) /\ PoolsFit(s) /\ Lasting(s)
  BY DEF Good
<1>2. s.status \in {"victory", "defeat"} /\ (s.status = "defeat" => s.policy = "story")
  BY DEF SafeBoundary
<1>3. ValidHero(s.hero) /\ ValidCreature(s) /\ ValidEffects(s) /\ ValidEnding(s)
  BY <1>1, <1>2 DEF Valid
<1>4. s.pending = "none" /\ ~s.ward /\ HandFits(s) /\ s.longRest <= s.time
  BY <1>2, <1>3 DEF ValidEffects, HandFits
<1>5. s.rest # "none" => s.time > 0
  BY <1>1 DEF Lasting
<1>6. /\ s.actor = "none" /\ s.turn = NoTurn
      /\ s.status = "victory" => s.creature.life = "dead"
      /\ (s.status = "victory" \/ s.time > 0)
             => s.hero.life = "conscious" /\ TransitionCurrent(s)
      /\ ~(s.status = "victory" \/ s.time > 0)
             => s.hero.life = "unconscious" /\ s.transition = [hp |-> 1, life |-> "conscious"]
  BY <1>2, <1>3 DEF ValidEnding
<1>7. QED
  BY <1>1, <1>2, <1>3, <1>4, <1>5, <1>6

\* What a rest leaves.
LEMMA RestGood ==
    ASSUME NEW s \in States, Good(s), SafeBoundary(s), NEW t,
           Keeps(t, s, {"hero", "creature", "transition", "pools", "lights", "hand", "sleep",
                        "rest", "time", "longRest"}),
           t.time > 0, t.longRest <= t.time, t.creature.life = s.creature.life,
           ValidHero(t.hero), ValidCreature(t), HandFits(t), PoolsFit(t),
           t.hero.life = "conscious", TransitionCurrent(t)
    PROVE  Good(t)
<1>1. /\ t \in States /\ t.status = s.status /\ t.policy = s.policy /\ t.actor = s.actor
      /\ t.turn = s.turn /\ t.pending = s.pending /\ t.ward = s.ward
  BY DEF Keeps, Fields
<1>2. SafeBoundary(t)
  BY <1>1 DEF SafeBoundary
<1>3. ValidEffects(t)
  BY <1>1, <1>2, RestFacts DEF ValidEffects, HandFits
<1>4. ValidEnding(t)
  BY <1>1, RestFacts DEF ValidEnding
<1>5. t.status \in {"victory", "defeat"}
  BY <1>1, RestFacts
<1>6. Valid(t)
  BY <1>3, <1>4, <1>5 DEF Valid
<1>7. Lasting(t)
  BY <1>1, <1>5, RestFacts DEF Lasting
<1>8. QED
  BY <1>1, <1>6, <1>7 DEF Good

\* The hero as a rest finds it, with its spells over.
LEMMA RecoveredFacts ==
    ASSUME NEW s \in States, Good(s), SafeBoundary(s)
    PROVE  LET t == Expired(StoryRecovered(s))
           IN  /\ Keeps(t, s, {"hero", "creature", "lights", "hand", "sleep"})
               /\ ValidHero(t.hero) /\ t.hero.life = "conscious" /\ TransitionCurrent(t)
               /\ ValidCreature(t) /\ t.creature.life = s.creature.life /\ t.hand = NoHand
<1> DEFINE hero == [s.hero EXCEPT !.hp = s.transition.hp, !.life = s.transition.life,
                                  !.successes = 0, !.failures = 0]
           u == StoryRecovered(s)
           fell == s.status = "defeat" /\ s.hero.life = "unconscious"
           lights == [o \in Objects |-> 0]
           creature == [u.creature EXCEPT !.asleep = FALSE]
           t == Expired(u)
<1>1. s.hero \in HeroStates /\ s.creature \in CreatureStates /\ s.transition \in TransitionStates
  BY FieldTypes
<1>2. u = IF fell THEN [s EXCEPT !.hero = hero] ELSE s
  BY DEF StoryRecovered
<1> HIDE DEF u
<1>3. Keeps(u, s, {"hero"}) /\ ValidHero(u.hero) /\ u.hero.life = "conscious"
      /\ TransitionCurrent(u)
  <2>1. CASE fell
    <3>1. s.transition = [hp |-> 1, life |-> "conscious"]
      BY <2>1, RestFacts
    <3>2. s.transition.hp = 1 /\ s.transition.life = "conscious"
      BY <3>1
    <3>3. HeroMaximum \in Nat \ {0} /\ 1 \in 0..HeroMaximum /\ "conscious" \in Lives /\ 0 \in 0..3
      BY EncounterAssumption DEF Lives
    <3>4. /\ hero \in HeroStates /\ hero.hp = 1 /\ hero.life = "conscious"
          /\ hero.successes = 0 /\ hero.failures = 0 /\ hero.temp = s.hero.temp
      <4>1. hero = [s.hero EXCEPT !.hp = 1, !.life = "conscious",
                                  !.successes = 0, !.failures = 0]
        BY <3>2
      <4> HIDE DEF hero
      <4>2. hero \in HeroStates
        BY <1>1, <3>3, <4>1 DEF HeroStates
      <4>3. QED
        BY <1>1, <4>1, <4>2 DEF HeroStates
    <3> HIDE DEF hero
    <3>5. Keeps(u, s, {"hero"}) /\ u.hero = hero
      BY <1>2, <2>1, <3>4 DEF Keeps, Fields, States
    <3>6. ValidHero(hero)
      BY <1>1, <3>3, <3>4, HeroTypes DEF ValidHero
    <3>7. u.transition = s.transition
      BY <3>5 DEF Keeps, Fields
    <3>8. TransitionCurrent(u)
      BY <3>1, <3>4, <3>5, <3>7 DEF TransitionCurrent
    <3>9. QED
      BY <3>4, <3>5, <3>6, <3>8
  <2>2. CASE ~fell
    <3>1. u = s
      BY <1>2, <2>2
    <3>2. ValidHero(s.hero) /\ s.hero.life = "conscious" /\ TransitionCurrent(s)
      BY <2>2, RestFacts
    <3>3. QED
      BY <3>1, <3>2 DEF Keeps
  <2>3. QED
    BY <2>1, <2>2
<1>4. /\ u \in States /\ u.creature = s.creature /\ u.sluiceOpen = s.sluiceOpen
  BY <1>3 DEF Keeps, Fields
<1>5. t = [u EXCEPT !.lights = lights, !.hand = NoHand, !.sleep = 0, !.creature = creature]
  BY DEF Expired, States
<1>6. /\ creature \in CreatureStates /\ creature.temp = s.creature.temp
      /\ creature.hp = s.creature.hp /\ creature.life = s.creature.life
      /\ creature.veil = s.creature.veil /\ creature.asleep = FALSE
  <2>1. creature \in CreatureStates
    BY <1>1, <1>4 DEF CreatureStates
  <2>2. QED
    BY <1>1, <1>4, <2>1 DEF CreatureStates
<1>7. lights \in LightStates /\ 0 \in Rounds /\ NoHand \in HandStates
  BY EncounterAssumption, PlaceFacts
     DEF LightStates, Rounds, NoHand, HandStates, Positions
<1> HIDE DEF t, lights, creature
<1>8. /\ Keeps(t, u, {"lights", "hand", "sleep", "creature"})
      /\ t.hand = NoHand /\ t.sleep = 0 /\ t.creature = creature
  BY <1>4, <1>5, <1>6, <1>7 DEF Keeps, Fields, States
<1>9. /\ t.hero = u.hero /\ t.transition = u.transition /\ t.sluiceOpen = s.sluiceOpen
  BY <1>4, <1>8 DEF Keeps, Fields
<1>10. ValidCreature(t)
  <2>1. ValidCreature(s)
    BY RestFacts
  <2>2. QED
    BY <1>6, <1>8, <1>9, <2>1 DEF ValidCreature
<1>11. TransitionCurrent(t)
  BY <1>3, <1>9 DEF TransitionCurrent
<1>12. Keeps(t, s, {"hero", "creature", "lights", "hand", "sleep"})
  BY <1>3, <1>8 DEF Keeps
<1>13. QED
  BY <1>3, <1>6, <1>8, <1>9, <1>10, <1>11, <1>12 DEF t, u

LEMMA FullPoolsFacts ==
    ASSUME NEW class \in Classes
    PROVE  /\ FullPools(class) \in PoolStates
           /\ FullPools(class).hitDice <= MaxHitDice
           /\ FullPools(class).recovery > 0 => FullPools(class).slots = MaxSlots
           /\ class # "none" => FullPools(class).hitDice = MaxHitDice
<1> DEFINE p == FullPools(class)
<1>1. MaxSlots \in Nat /\ MaxHitDice \in Nat
  BY EncounterAssumption
<1>2. p = [slots |-> IF class = "wizard" THEN MaxSlots ELSE 0,
           recovery |-> IF class = "wizard" THEN 1 ELSE 0,
           secondWind |-> IF class = "fighter" THEN 1 ELSE 0,
           actionSurge |-> IF class = "fighter" THEN 1 ELSE 0,
           hitDice |-> IF class = "none" THEN 0 ELSE MaxHitDice]
  BY DEF FullPools
<1> HIDE DEF p
<1>3. /\ p.slots = (IF class = "wizard" THEN MaxSlots ELSE 0)
      /\ p.recovery = (IF class = "wizard" THEN 1 ELSE 0)
      /\ p.hitDice = (IF class = "none" THEN 0 ELSE MaxHitDice)
  BY <1>2
<1>4. p \in PoolStates
  BY <1>1, <1>2 DEF PoolStates
<1>5. p.hitDice <= MaxHitDice
  BY <1>1, <1>3
<1>6. p.recovery > 0 => p.slots = MaxSlots
  BY <1>3
<1>7. QED
  BY <1>3, <1>4, <1>5, <1>6 DEF p

LEMMA BeginRestGood ==
    ASSUME NEW s \in States, Good(s), SafeBoundary(s)
    PROVE  \A t \in BeginRest(s) : Good(t)
<1> DEFINE u == Expired(StoryRecovered(s))
           time == u.time + ShortRest
           t == [u EXCEPT !.rest = "resting", !.time = time]
<1>1. BeginRest(s) = {t}
  BY DEF BeginRest
<1>2. /\ Keeps(u, s, {"hero", "creature", "lights", "hand", "sleep"})
      /\ ValidHero(u.hero) /\ u.hero.life = "conscious" /\ TransitionCurrent(u)
      /\ ValidCreature(u) /\ u.creature.life = s.creature.life /\ u.hand = NoHand
  BY RecoveredFacts
<1> HIDE DEF u
<1>3. u \in States /\ u.time = s.time /\ u.longRest = s.longRest /\ u.pools = s.pools
      /\ u.class = s.class
  BY <1>2 DEF Keeps, Fields
<1>4. u.time \in Nat /\ ShortRest \in Nat \ {0} /\ u.longRest <= u.time /\ u.longRest \in Nat
  <2>1. ShortRest \in Nat \ {0}
    BY EncounterAssumption
  <2>2. s.time \in Nat /\ s.longRest \in Nat /\ s.longRest <= s.time
    BY FieldTypes, RestFacts
  <2>3. QED
    BY <1>3, <2>1, <2>2
<1>5. Keeps(t, u, {"rest", "time"}) /\ t.time = u.time + ShortRest
  <2>1. time \in Nat /\ "resting" \in Rests
    BY <1>4 DEF Rests
  <2> HIDE DEF time
  <2>2. Keeps(t, u, {"rest", "time"}) /\ t.time = time
    BY <1>3, <2>1 DEF Keeps, Fields, States
  <2>3. QED
    BY <2>2 DEF time
<1> HIDE DEF t
<1>6. /\ t.hero = u.hero /\ t.creature = u.creature /\ t.sluiceOpen = u.sluiceOpen
      /\ t.sleep = u.sleep /\ t.hand = NoHand /\ t.pools = s.pools /\ t.class = s.class
      /\ t.transition = u.transition /\ t.longRest = u.longRest
  BY <1>2, <1>3, <1>5 DEF Keeps, Fields
<1>7. ValidCreature(t) /\ TransitionCurrent(t) /\ HandFits(t)
  BY <1>2, <1>6 DEF ValidCreature, TransitionCurrent, HandFits
<1>8. PoolsFit(t)
  BY <1>6, RestFacts DEF PoolsFit
<1>9. Keeps(t, s, {"hero", "creature", "transition", "pools", "lights", "hand", "sleep",
                   "rest", "time", "longRest"})
  BY <1>2, <1>5 DEF Keeps
<1>10. t.time > 0 /\ t.longRest <= t.time
  BY <1>4, <1>5, <1>6
<1>11. Good(t)
  BY <1>2, <1>6, <1>7, <1>8, <1>9, <1>10, RestGood
<1>12. QED
  BY <1>1, <1>11

\* The hero's hit points and the transition that follows them.
LEMMA WithHealthKeeps ==
    ASSUME NEW s \in States, NEW hp \in 0..HeroMaximum, s.hero.life = "conscious",
           ValidHero(s.hero), hp > 0
    PROVE  LET t == WithHealth(s, hp)
           IN  /\ Keeps(t, s, {"hero", "transition"})
               /\ ValidHero(t.hero) /\ t.hero.life = "conscious" /\ TransitionCurrent(t)
               /\ t.hero = [s.hero EXCEPT !.hp = hp]
<1> DEFINE hero == [s.hero EXCEPT !.hp = hp]
           transition == [hp |-> hp, life |-> s.hero.life]
           t == WithHealth(s, hp)
<1>1. s.hero \in HeroStates /\ HeroMaximum \in Nat
  BY FieldTypes, EncounterAssumption
<1>2. t = [s EXCEPT !.hero = hero, !.transition = transition]
  BY DEF WithHealth
<1>3. hero \in HeroStates
  BY <1>1 DEF HeroStates
<1>4. /\ hero.hp = hp /\ hero.life = s.hero.life /\ hero.temp = s.hero.temp
      /\ hero.successes = s.hero.successes /\ hero.failures = s.hero.failures
  BY <1>1 DEF HeroStates
<1>5. transition \in TransitionStates
  BY DEF TransitionStates, Lives
<1> HIDE DEF t, hero
<1>6. Keeps(t, s, {"hero", "transition"}) /\ t.hero = hero /\ t.transition = transition
  <2> HIDE DEF transition
  <2> QED BY <1>2, <1>3, <1>5 DEF Keeps, Fields, States
<1>7. ValidHero(hero)
  BY <1>1, <1>4 DEF ValidHero
<1>8. TransitionCurrent(t)
  BY <1>4, <1>6 DEF TransitionCurrent
<1>9. QED
  BY <1>4, <1>6, <1>7, <1>8 DEF t, hero

LEMMA HitDieGood ==
    ASSUME NEW s \in States, Good(s), SafeBoundary(s), s.rest # "none", s.pools.hitDice > 0
    PROVE  \A t \in HitDie(s) : Good(t)
<1> SUFFICES ASSUME NEW amount \in Nat,
                    NEW t, t = [WithHealth(s, Healed(s.hero.hp, amount))
                                    EXCEPT !.pools.hitDice = @ - 1]
             PROVE  Good(t)
  BY DiceFacts DEF HitDie
<1> DEFINE hp == Healed(s.hero.hp, amount)
           u == WithHealth(s, hp)
           pools == [u.pools EXCEPT !.hitDice = u.pools.hitDice - 1]
<1>1. /\ s.hero.life = "conscious" /\ ValidHero(s.hero) /\ s.time > 0
      /\ ValidCreature(s) /\ HandFits(s) /\ PoolsFit(s) /\ s.longRest <= s.time
  BY RestFacts
<1>2. s.hero.hp \in Nat /\ s.hero.hp <= HeroMaximum /\ s.hero.hp > 0
  BY <1>1, FieldTypes, HeroTypes DEF ValidHero
<1>3. hp \in 0..HeroMaximum /\ hp > 0
  BY <1>2, HealedFacts
<1>4. t = [u EXCEPT !.pools = pools]
  OBVIOUS
<1> HIDE DEF hp
<1>5. /\ Keeps(u, s, {"hero", "transition"})
      /\ ValidHero(u.hero) /\ u.hero.life = "conscious" /\ TransitionCurrent(u)
      /\ u.hero = [s.hero EXCEPT !.hp = hp]
  BY <1>1, <1>3, WithHealthKeeps
<1> HIDE DEF u
<1>6. u \in States /\ u.pools = s.pools /\ s.pools \in PoolStates /\ s.pools.hitDice \in Nat
      /\ u.hero.position = s.hero.position
  BY <1>5, FieldTypes, PoolTypes DEF Keeps, Fields, HeroStates
<1>7. /\ pools \in PoolStates /\ pools.slots = s.pools.slots
      /\ pools.recovery = s.pools.recovery /\ pools.secondWind = s.pools.secondWind
      /\ pools.actionSurge = s.pools.actionSurge /\ pools.hitDice = s.pools.hitDice - 1
  BY <1>6 DEF PoolStates
<1> HIDE DEF pools
<1>8. Keeps(t, u, {"pools"}) /\ t.pools = pools
  BY <1>4, <1>6, <1>7 DEF Keeps, Fields, States
<1>9. /\ t.hero = u.hero /\ t.creature = s.creature /\ t.sluiceOpen = s.sluiceOpen
      /\ t.sleep = s.sleep /\ t.hand = s.hand /\ t.class = s.class
      /\ t.transition = u.transition /\ t.longRest = s.longRest /\ t.time = s.time
  BY <1>5, <1>8 DEF Keeps, Fields
<1>10. ValidCreature(t) /\ TransitionCurrent(t)
  BY <1>1, <1>5, <1>9 DEF ValidCreature, TransitionCurrent
<1>11. HandFits(t)
  BY <1>1, <1>6, <1>9 DEF HandFits, From
<1>12. PoolsFit(t)
  <2>1. s.class \in Classes /\ FullPools(s.class).hitDice \in Nat
    BY FieldTypes, FullPoolsFacts, PoolTypes
  <2>2. QED
    BY <1>1, <1>6, <1>7, <1>8, <1>9, <2>1 DEF PoolsFit
<1>13. Keeps(t, s, {"hero", "creature", "transition", "pools", "lights", "hand", "sleep",
                    "rest", "time", "longRest"})
  BY <1>5, <1>8 DEF Keeps
<1>14. QED
  BY <1>1, <1>5, <1>9, <1>10, <1>11, <1>12, <1>13, RestGood

LEMMA RestedFacts ==
    ASSUME NEW s \in States, PoolsFit(s)
    PROVE  LET t == Rested(s)
           IN  /\ Keeps(t, s, {"pools"}) /\ PoolsFit(t)
               /\ t.pools.slots = s.pools.slots /\ t.pools.recovery = s.pools.recovery
               /\ t.pools.hitDice = s.pools.hitDice
<1> DEFINE full == FullPools(s.class)
           pools == [s.pools EXCEPT !.secondWind = full.secondWind,
                                    !.actionSurge = full.actionSurge]
           t == Rested(s)
<1>1. s.pools \in PoolStates /\ s.class \in Classes /\ full \in PoolStates
  BY FieldTypes, FullPoolsFacts
<1>2. t = [s EXCEPT !.pools = pools]
  BY DEF Rested
<1> HIDE DEF full
<1>3. full.secondWind \in Nat /\ full.actionSurge \in Nat
  BY <1>1, PoolTypes
<1>4. /\ pools \in PoolStates /\ pools.slots = s.pools.slots
      /\ pools.recovery = s.pools.recovery /\ pools.secondWind = full.secondWind
      /\ pools.actionSurge = full.actionSurge /\ pools.hitDice = s.pools.hitDice
  BY <1>1, <1>3 DEF PoolStates
<1> HIDE DEF pools, t
<1>5. Keeps(t, s, {"pools"}) /\ t.pools = pools
  BY <1>2, <1>4 DEF Keeps, Fields, States
<1>6. t.class = s.class
  BY <1>5 DEF Keeps, Fields
<1>7. PoolsFit(t)
  BY <1>3, <1>4, <1>5, <1>6 DEF PoolsFit, full
<1>8. QED
  BY <1>4, <1>5, <1>7 DEF t

LEMMA ArcaneRecoveryGood ==
    ASSUME NEW s \in States, Good(s), SafeBoundary(s), s.rest = "resting",
           s.pools.recovery > 0, s.pools.slots < MaxSlots
    PROVE  \A t \in ArcaneRecovery(s) : Good(t)
<1> DEFINE u == Rested(s)
           rested == u.pools
           pools == [rested EXCEPT !.recovery = rested.recovery - 1,
                                   !.slots = rested.slots + 1]
           t == [s EXCEPT !.rest = "recovered", !.pools = pools]
<1>1. /\ s.hero.life = "conscious" /\ ValidHero(s.hero) /\ s.time > 0
      /\ ValidCreature(s) /\ HandFits(s) /\ PoolsFit(s) /\ s.longRest <= s.time
      /\ TransitionCurrent(s)
  BY RestFacts
<1>2. ArcaneRecovery(s) = {t}
  BY DEF ArcaneRecovery
<1>3. /\ Keeps(u, s, {"pools"}) /\ PoolsFit(u)
      /\ rested.slots = s.pools.slots /\ rested.recovery = s.pools.recovery
  BY <1>1, RestedFacts
<1> HIDE DEF u
<1>4. /\ u.class = s.class /\ rested \in PoolStates /\ rested.slots \in Nat
      /\ rested.recovery \in Nat
  BY <1>3, FieldTypes, PoolTypes DEF Keeps, Fields
<1> HIDE DEF rested
<1>5. /\ pools \in PoolStates /\ pools.slots = rested.slots + 1
      /\ pools.recovery = rested.recovery - 1 /\ pools.secondWind = rested.secondWind
      /\ pools.actionSurge = rested.actionSurge /\ pools.hitDice = rested.hitDice
  <2> DEFINE slots == rested.slots + 1
             recovery == rested.recovery - 1
  <2>1. slots \in Nat /\ recovery \in Nat
    BY <1>3, <1>4
  <2> HIDE DEF slots, recovery
  <2>2. pools = [rested EXCEPT !.recovery = recovery, !.slots = slots]
    BY DEF slots, recovery
  <2> HIDE DEF pools
  <2>3. /\ pools \in PoolStates /\ pools.slots = slots /\ pools.recovery = recovery
        /\ pools.secondWind = rested.secondWind
        /\ pools.actionSurge = rested.actionSurge /\ pools.hitDice = rested.hitDice
    BY <1>4, <2>1, <2>2 DEF PoolStates
  <2>4. QED
    BY <2>3 DEF slots, recovery
<1> HIDE DEF pools
<1>6. Keeps(t, s, {"rest", "pools"}) /\ t.pools = pools
  BY <1>5 DEF Keeps, Fields, States, Rests
<1> HIDE DEF t
<1>7. /\ t.hero = s.hero /\ t.creature = s.creature /\ t.class = s.class
      /\ t.transition = s.transition /\ t.longRest = s.longRest /\ t.time = s.time
  BY <1>6 DEF Keeps, Fields
<1>8. ValidCreature(t) /\ HandFits(t) /\ TransitionCurrent(t)
  BY <1>1, <1>6, <1>7, FramedParts DEF TransitionCurrent
<1>9. PoolsFit(t)
  <2>1. s.class \in Classes
    BY FieldTypes
  <2>2. FullPools(s.class).recovery \in Nat /\ FullPools(s.class).slots = MaxSlots
    BY <1>1, <2>1, FieldTypes, FullPoolsFacts, PoolTypes DEF PoolsFit
  <2>3. MaxSlots \in Nat
    BY EncounterAssumption
  <2>4. PoolsFit(u) /\ rested = u.pools
    BY <1>3 DEF rested
  <2>5. QED
    BY <1>1, <1>3, <1>4, <1>5, <1>6, <1>7, <2>2, <2>3, <2>4 DEF PoolsFit
<1>10. Keeps(t, s, {"hero", "creature", "transition", "pools", "lights", "hand", "sleep",
                    "rest", "time", "longRest"})
  BY <1>6 DEF Keeps
<1>11. Good(t)
  BY <1>1, <1>7, <1>8, <1>9, <1>10, RestGood
<1>12. QED
  BY <1>2, <1>11

LEMMA FinishRestGood ==
    ASSUME NEW s \in States, Good(s), SafeBoundary(s), s.rest # "none"
    PROVE  \A t \in FinishRest(s) : Good(t)
<1> DEFINE u == Rested(s)
           v == WithHealth(u, s.hero.hp)
           t == [v EXCEPT !.rest = "none"]
<1>1. /\ s.hero.life = "conscious" /\ ValidHero(s.hero) /\ s.time > 0
      /\ ValidCreature(s) /\ HandFits(s) /\ PoolsFit(s) /\ s.longRest <= s.time
  BY RestFacts
<1>2. FinishRest(s) = {t}
  BY DEF FinishRest
<1>3. Keeps(u, s, {"pools"}) /\ PoolsFit(u)
  BY <1>1, RestedFacts
<1> HIDE DEF u
<1>4. u \in States /\ u.hero = s.hero
  BY <1>3 DEF Keeps, Fields
<1>5. s.hero \in HeroStates /\ s.hero.hp \in 0..HeroMaximum /\ s.hero.hp > 0
  BY <1>1, FieldTypes DEF HeroStates, ValidHero
<1>6. /\ Keeps(v, u, {"hero", "transition"})
      /\ ValidHero(v.hero) /\ v.hero.life = "conscious" /\ TransitionCurrent(v)
      /\ v.hero = [u.hero EXCEPT !.hp = s.hero.hp]
  BY <1>1, <1>4, <1>5, WithHealthKeeps
<1> HIDE DEF v
<1>7. v.hero.position = s.hero.position
  BY <1>4, <1>5, <1>6 DEF HeroStates
<1>8. Keeps(t, v, {"rest"})
  BY <1>6 DEF Keeps, Fields, States, Rests
<1> HIDE DEF t
<1>9. Keeps(t, s, {"hero", "transition", "pools", "rest"})
      /\ t.hero = v.hero /\ t.transition = v.transition
      /\ t.pools = u.pools /\ t.class = u.class
  BY <1>3, <1>6, <1>8 DEF Keeps, Fields
<1>10. /\ t.creature = s.creature /\ t.hand = s.hand
       /\ t.longRest = s.longRest /\ t.time = s.time
  BY <1>9 DEF Keeps, Fields
<1>11. ValidCreature(t)
  BY <1>9, FramedParts
<1>12. TransitionCurrent(t) /\ PoolsFit(t)
  BY <1>3, <1>6, <1>9 DEF TransitionCurrent, PoolsFit
<1>13. HandFits(t)
  BY <1>1, <1>7, <1>9, <1>10 DEF HandFits, From
<1>14. Keeps(t, s, {"hero", "creature", "transition", "pools", "lights", "hand", "sleep",
                    "rest", "time", "longRest"})
  BY <1>9 DEF Keeps
<1>15. Good(t)
  BY <1>1, <1>6, <1>9, <1>10, <1>11, <1>12, <1>13, <1>14, RestGood
<1>16. QED
  BY <1>2, <1>15

LEMMA LongRestGood ==
    ASSUME NEW s \in States, Good(s), SafeBoundary(s), s.class # "none"
    PROVE  \A t \in TakeLongRest(s) : Good(t)
<1> DEFINE u == Expired(StoryRecovered(s))
           v == WithHealth(u, HeroMaximum)
           full == FullPools(s.class)
           dice == Lower(s.pools.hitDice + Higher(MaxHitDice \div 2, 1), MaxHitDice)
           pools == [full EXCEPT !.hitDice = dice]
           hero == [v.hero EXCEPT !.temp = 0]
           time == v.time + LongRest
           longRest == s.time + LongRest
           t == [v EXCEPT !.hero = hero, !.pools = pools, !.time = time,
                          !.longRest = longRest]
<1>1. TakeLongRest(s) = {t}
  BY DEF TakeLongRest
<1>2. /\ Keeps(u, s, {"hero", "creature", "lights", "hand", "sleep"})
      /\ ValidHero(u.hero) /\ u.hero.life = "conscious" /\ TransitionCurrent(u)
      /\ ValidCreature(u) /\ u.creature.life = s.creature.life /\ u.hand = NoHand
  BY RecoveredFacts
<1> HIDE DEF u
<1>3. u \in States /\ u.time = s.time
  BY <1>2 DEF Keeps, Fields
<1>4. HeroMaximum \in 0..HeroMaximum /\ HeroMaximum > 0
  BY EncounterAssumption
<1>5. /\ Keeps(v, u, {"hero", "transition"})
      /\ ValidHero(v.hero) /\ v.hero.life = "conscious" /\ TransitionCurrent(v)
  BY <1>2, <1>3, <1>4, WithHealthKeeps
<1> HIDE DEF v
<1>6. /\ v \in States /\ v.time = s.time /\ v.creature = u.creature /\ v.hand = u.hand
      /\ v.hero \in HeroStates /\ v.class = s.class
  BY <1>2, <1>3, <1>5, FieldTypes DEF Keeps, Fields
<1>7. /\ hero \in HeroStates /\ hero.temp = 0 /\ hero.hp = v.hero.hp /\ hero.life = v.hero.life
      /\ hero.successes = v.hero.successes /\ hero.failures = v.hero.failures
  <2>1. 0 \in 0..HeroMaximum
    BY EncounterAssumption
  <2>2. hero \in HeroStates
    BY <1>6, <2>1 DEF HeroStates
  <2>3. QED
    BY <1>6, <2>2 DEF HeroStates
<1>8. dice \in Nat /\ dice <= MaxHitDice
  <2>1. s.pools.hitDice \in Nat /\ MaxHitDice \in Nat
    BY FieldTypes, PoolTypes, EncounterAssumption
  <2>2. Higher(MaxHitDice \div 2, 1) \in Nat
    BY <2>1 DEF Higher
  <2>3. QED
    BY <2>1, <2>2 DEF Lower
<1>9. /\ full \in PoolStates /\ full.hitDice = MaxHitDice
  BY FieldTypes, FullPoolsFacts
<1>10. s.time \in Nat /\ LongRest \in Nat \ {0}
  BY FieldTypes, EncounterAssumption
<1>11. time \in Nat /\ longRest \in Nat /\ time > 0 /\ longRest <= time
  BY <1>6, <1>10
<1> HIDE DEF full, dice, time, longRest, hero
<1>12. /\ pools \in PoolStates /\ pools.slots = full.slots
       /\ pools.recovery = full.recovery /\ pools.secondWind = full.secondWind
       /\ pools.actionSurge = full.actionSurge /\ pools.hitDice = dice
  BY <1>8, <1>9 DEF PoolStates
<1> HIDE DEF pools
<1>13. Keeps(t, v, {"hero", "pools", "time", "longRest"}) /\ t.hero = hero
       /\ t.pools = pools /\ t.time = time /\ t.longRest = longRest
  BY <1>6, <1>7, <1>11, <1>12 DEF Keeps, Fields, States
<1> HIDE DEF t
<1>14. Keeps(t, u, {"hero", "transition", "pools", "time", "longRest"})
  BY <1>5, <1>13 DEF Keeps
<1>15. /\ t.creature = u.creature /\ t.hand = u.hand /\ t.class = s.class
       /\ t.sluiceOpen = u.sluiceOpen /\ t.sleep = u.sleep /\ t.transition = v.transition
  BY <1>6, <1>13, <1>14 DEF Keeps, Fields
<1>16. ValidCreature(t) /\ HandFits(t)
  BY <1>2, <1>15 DEF ValidCreature, HandFits
<1>17. ValidHero(t.hero) /\ t.hero.life = "conscious" /\ TransitionCurrent(t)
  <2>1. 0 <= HeroMaximum
    BY EncounterAssumption
  <2>2. ValidHero(hero)
    BY <1>5, <1>7, <2>1 DEF ValidHero
  <2>3. QED
    BY <1>5, <1>7, <1>13, <1>15, <2>2 DEF TransitionCurrent
<1>18. PoolsFit(t)
  <2>1. /\ full.slots \in Nat /\ full.recovery \in Nat /\ full.secondWind \in Nat
        /\ full.actionSurge \in Nat
    BY <1>9, PoolTypes
  <2>2. t.pools = pools /\ FullPools(t.class) = full
    BY <1>13, <1>15 DEF full
  <2>3. QED
    BY <1>8, <1>9, <1>12, <2>1, <2>2 DEF PoolsFit
<1>19. Keeps(t, s, {"hero", "creature", "transition", "pools", "lights", "hand", "sleep",
                    "rest", "time", "longRest"})
  BY <1>2, <1>14 DEF Keeps
<1>20. Good(t)
  BY <1>2, <1>11, <1>13, <1>15, <1>16, <1>17, <1>18, <1>19, RestGood
<1>21. QED
  BY <1>1, <1>20

-----------------------------------------------------------------------------
(* What an intent leads to                                                 *)

\* An offer of a spell or a feature is made to a hero who plays, with what it needs.
LEMMA OffersNeed ==
    ASSUME NEW s \in States, Good(s), NEW i \in Offered(s)
    PROVE  /\ i.kind \in {"fireBolt", "light", "hand", "dismissHand", "controlHand",
                          "magicMissile", "sleep", "secondWind", "actionSurge"}
                  => HeroPlays(s)
           /\ i.kind \in {"magicMissile", "sleep"} => s.pools.slots > 0
           /\ i.kind = "secondWind" => s.pools.secondWind > 0
           /\ i.kind = "actionSurge" => s.pools.actionSurge > 0
           /\ i.kind = "light" => i.at \in Objects
           /\ i.kind = "hand" => i.at \in Objects /\ From(s, i.at) <= HandRange
           /\ i.kind = "controlHand" => From(s, Sluice) <= HandRange
           /\ i.kind \in {"shield", "decline"} => s.pending # "none"
           /\ i.kind = "shield" => ShieldReady(s)
           /\ i.kind \in {"beginRest", "hitDie", "arcaneRecovery", "finishRest", "longRest"}
                  => SafeBoundary(s) /\ s.class # "none"
           /\ i.kind \in {"hitDie", "finishRest"} => s.rest # "none"
           /\ i.kind = "hitDie" => s.pools.hitDice > 0
           /\ i.kind = "arcaneRecovery"
                  => s.rest = "resting" /\ s.pools.recovery > 0 /\ s.pools.slots < MaxSlots
           /\ s.pending # "none" => i.kind \in {"shield", "decline"}
<1>1. CASE s.pending # "none"
  BY <1>1 DEF Offered, Offers, Plain
<1>2. CASE s.pending = "none" /\ s.status = "ready"
  BY <1>2 DEF Offered, Offers, Plain
<1>3. CASE s.pending = "none" /\ s.status \notin {"ready", "active"}
  <2>1. i \in OfferedRests(s)
    BY <1>3 DEF Offered
  <2>2. QED
    BY <1>3, <2>1 DEF OfferedRests, Offers, Plain
<1>4. CASE s.pending = "none" /\ s.status = "active"
  <2>1. CASE s.actor = "hero" /\ s.hero.life # "conscious"
    BY <1>4, <2>1 DEF Offered, Plain
  <2>2. CASE s.actor = "creature" /\ s.sleep > 0
    BY <1>4, <2>2 DEF Offered, Plain
  <2>3. CASE ~(s.actor = "hero" /\ s.hero.life # "conscious")
             /\ ~(s.actor = "creature" /\ s.sleep > 0)
    <3>1. i \in OfferedOnTurn(s)
      BY <1>4, <2>3 DEF Offered
    <3>2. CASE i.kind \in {"move", "attack", "context", "endTurn"}
      BY <1>4, <3>2
    <3>3. CASE i.kind \notin {"move", "attack", "context", "endTurn"}
      <4>1. s.actor = "hero" /\ i \in OfferedSpells(s) \cup OfferedFeatures(s)
        BY <3>1, <3>3 DEF OfferedOnTurn, Offers, Plain, MoveTo
      <4>2. HeroPlays(s)
        BY <1>4, <2>3, <4>1 DEF HeroPlays
      <4>3. CASE i \in OfferedFeatures(s)
        BY <1>4, <4>2, <4>3 DEF OfferedFeatures, Offers, Plain
      <4>4. CASE i \in OfferedSpells(s)
        BY <1>4, <4>2, <4>4 DEF OfferedSpells, Offers, Plain
      <4>5. QED
        BY <4>1, <4>3, <4>4
    <3>4. QED
      BY <3>2, <3>3
  <2>4. QED
    BY <2>1, <2>2, <2>3
<1>5. QED
  BY <1>1, <1>2, <1>3, <1>4

LEMMA OrdinaryGood ==
    ASSUME NEW s \in States, Good(s), NEW i, i.kind = "move" => i.at \in Positions,
           i.kind = "endTurn" => s.pending = "none",
           i.kind = "attack" /\ s.status = "active" /\ s.actor = "creature" => s.sleep = 0
    PROVE  \A t \in OrdinaryOutcomes(s, i) : Good(t)
<1>1. CASE i.kind = "start"
  BY <1>1, StartGood DEF OrdinaryOutcomes
<1>2. CASE i.kind = "move"
  BY <1>2, MoveGood DEF OrdinaryOutcomes
<1>3. CASE i.kind = "attack"
  BY <1>3, AttackGood DEF OrdinaryOutcomes
<1>4. CASE i.kind = "context"
  BY <1>4, ContextGood DEF OrdinaryOutcomes
<1>5. CASE i.kind = "endTurn"
  <2>1. \A t \in EndTurn(s) : Good(t)
    BY <1>5, AdvanceGood DEF EndTurn, Offers, CanAct
  <2>2. QED
    BY <1>5, <2>1 DEF OrdinaryOutcomes
<1>6. CASE i.kind = "deathSave"
  BY <1>6, DeathSaveGood DEF OrdinaryOutcomes
<1>7. CASE i.kind \notin {"start", "move", "attack", "context", "endTurn", "deathSave"}
  BY <1>7 DEF OrdinaryOutcomes
<1>8. QED
  BY <1>1, <1>2, <1>3, <1>4, <1>5, <1>6, <1>7

Spells == {"fireBolt", "magicMissile", "light", "hand", "controlHand", "dismissHand", "sleep"}
Answers == {"shield", "decline"}
Features == {"secondWind", "actionSurge"}
RestKinds == {"beginRest", "hitDie", "arcaneRecovery", "finishRest", "longRest"}

LEMMA OfferedGood ==
    ASSUME NEW s \in States, Good(s), NEW i \in Offered(s)
    PROVE  \A t \in OfferedOutcomes(s, i) : Good(t)
<1>1. CASE i.kind \in Spells
  <2>1. HeroPlays(s)
    BY <1>1, OffersNeed DEF Spells
  <2>2. CASE i.kind = "fireBolt"
    BY <2>1, <2>2, BoltGood DEF OfferedOutcomes
  <2>3. CASE i.kind = "magicMissile"
    BY <2>1, <2>3, OffersNeed, MissileGood DEF OfferedOutcomes
  <2>4. CASE i.kind = "light"
    BY <2>1, <2>4, OffersNeed, LightGood DEF OfferedOutcomes
  <2>5. CASE i.kind = "hand"
    BY <2>1, <2>5, OffersNeed, HandGood DEF OfferedOutcomes
  <2>6. CASE i.kind = "controlHand"
    BY <2>1, <2>6, OffersNeed, HandGood DEF OfferedOutcomes
  <2>7. CASE i.kind = "dismissHand"
    BY <2>1, <2>7, HandGood DEF OfferedOutcomes
  <2>8. CASE i.kind = "sleep"
    BY <2>1, <2>8, OffersNeed, SleepGood DEF OfferedOutcomes
  <2>9. QED
    BY <1>1, <2>2, <2>3, <2>4, <2>5, <2>6, <2>7, <2>8 DEF Spells
<1>2. CASE i.kind = "shield"
  BY <1>2, OffersNeed, ShieldGood DEF OfferedOutcomes
<1>3. CASE i.kind = "decline"
  BY <1>3, OffersNeed, SettledGood DEF OfferedOutcomes
<1>4. CASE i.kind = "secondWind"
  BY <1>4, OffersNeed, SecondWindGood DEF OfferedOutcomes
<1>5. CASE i.kind = "actionSurge"
  BY <1>5, OffersNeed, ActionSurgeGood DEF OfferedOutcomes
<1>6. CASE i.kind \in RestKinds
  <2>1. SafeBoundary(s) /\ s.class # "none"
    BY <1>6, OffersNeed DEF RestKinds
  <2>2. CASE i.kind = "beginRest"
    BY <2>1, <2>2, BeginRestGood DEF OfferedOutcomes
  <2>3. CASE i.kind = "hitDie"
    BY <2>1, <2>3, OffersNeed, HitDieGood DEF OfferedOutcomes
  <2>4. CASE i.kind = "arcaneRecovery"
    BY <2>1, <2>4, OffersNeed, ArcaneRecoveryGood DEF OfferedOutcomes
  <2>5. CASE i.kind = "finishRest"
    BY <2>1, <2>5, OffersNeed, FinishRestGood DEF OfferedOutcomes
  <2>6. CASE i.kind = "longRest"
    BY <2>1, <2>6, LongRestGood DEF OfferedOutcomes
  <2>7. QED
    BY <1>6, <2>2, <2>3, <2>4, <2>5, <2>6 DEF RestKinds
<1>7. CASE i.kind \notin Spells \cup Answers \cup Features \cup RestKinds
  BY <1>7 DEF OfferedOutcomes, Spells, Answers, Features, RestKinds
<1>8. QED
  BY <1>1, <1>2, <1>3, <1>4, <1>5, <1>6, <1>7 DEF Answers, Features

LEMMA OutcomesGood ==
    ASSUME NEW s \in States, Good(s), NEW i, i.kind = "move" => i.at \in Positions,
           i.kind = "endTurn" => s.pending = "none",
           i.kind = "attack" /\ s.status = "active" /\ s.actor = "creature" => s.sleep = 0
    PROVE  \A t \in Outcomes(s, i) : Good(t)
<1>1. \A t \in OrdinaryOutcomes(s, i) : Good(t)
  BY OrdinaryGood
<1>2. i \in Offered(s) => \A t \in OfferedOutcomes(s, i) : Good(t)
  BY OfferedGood
<1>3. QED
  BY <1>1, <1>2 DEF Outcomes, Offers

\* An offer is an intent, and of a hit that is pending only the answers are offered.
LEMMA OffersAreIntents ==
    ASSUME NEW s \in States, Good(s), NEW i \in Offered(s)
    PROVE  /\ i.kind = "move" => i.at \in Positions
           /\ i.kind = "endTurn" => s.pending = "none"
           /\ i.kind = "attack" => (s.actor = "creature" => s.sleep = 0)
<1>1. i.kind = "endTurn" => s.pending = "none"
  BY OffersNeed
<1>2. CASE s.pending # "none"
  BY <1>2, OffersNeed
<1>3. CASE s.pending = "none" /\ s.status # "active"
  BY <1>3 DEF Offered, OfferedRests, Offers, Plain
<1>4. CASE s.pending = "none" /\ s.status = "active"
  <2>1. CASE s.actor = "hero" /\ s.hero.life # "conscious"
    BY <1>4, <2>1 DEF Offered, Plain
  <2>2. CASE s.actor = "creature" /\ s.sleep > 0
    BY <1>4, <2>2 DEF Offered, Plain
  <2>3. CASE ~(s.actor = "hero" /\ s.hero.life # "conscious")
             /\ ~(s.actor = "creature" /\ s.sleep > 0)
    <3>1. i \in OfferedOnTurn(s)
      BY <1>4, <2>3 DEF Offered
    <3>2. i.kind = "move" => i.at \in Positions
      BY <3>1 DEF OfferedOnTurn, OfferedSpells, OfferedFeatures, Offers, Plain, MoveTo
    <3>3. s.sleep \in Nat
      BY FieldTypes, EncounterAssumption DEF Rounds
    <3>4. QED
      BY <1>1, <2>3, <3>2, <3>3
  <2>4. QED
    BY <2>1, <2>2, <2>3
<1>5. QED
  BY <1>2, <1>3, <1>4

-----------------------------------------------------------------------------
(* What never hurts the hero, nor moves the wight, nor leaves a hit        *)

Gentle(s, t) ==
    /\ t.creature.position = s.creature.position /\ t.pending = s.pending
    /\ t.hero.hp >= s.hero.hp

LEMMA GentleKept ==
    ASSUME NEW s \in States, NEW changed, NEW t, Keeps(t, s, changed),
           "pending" \notin changed,
           "hero" \in changed => t.hero.hp >= s.hero.hp,
           "creature" \in changed => t.creature.position = s.creature.position
    PROVE  Gentle(s, t)
<1>1. t.pending = s.pending
  BY DEF Keeps, Fields
<1>2. s.hero.hp \in Nat
  BY FieldTypes, HeroTypes
<1>3. t.hero.hp >= s.hero.hp
  <2>1. CASE "hero" \in changed
    BY <2>1
  <2>2. CASE "hero" \notin changed
    <3>1. t.hero = s.hero
      BY <2>2 DEF Keeps, Fields
    <3>2. QED
      BY <1>2, <3>1
  <2>3. QED
    BY <2>1, <2>2
<1>4. t.creature.position = s.creature.position
  BY DEF Keeps, Fields
<1>5. QED
  BY <1>1, <1>3, <1>4 DEF Gentle

LEMMA GentleTransitive ==
    ASSUME NEW s \in States, NEW u \in States, NEW t \in States, Gentle(s, u), Gentle(u, t)
    PROVE  Gentle(s, t)
<1>1. s.hero.hp \in Nat /\ u.hero.hp \in Nat /\ t.hero.hp \in Nat
  BY FieldTypes, HeroTypes
<1>2. QED
  BY <1>1 DEF Gentle

LEMMA GentleUpdates ==
    ASSUME NEW s \in States, NEW x, NEW y
    PROVE  /\ Gentle(s, [s EXCEPT !.lights = x])
           /\ Gentle(s, [s EXCEPT !.hand = x])
           /\ Gentle(s, [s EXCEPT !.turn = x])
           /\ Gentle(s, [s EXCEPT !.turn = x, !.pools = y])
           /\ Gentle(s, [s EXCEPT !.rest = x, !.pools = y])
           /\ Gentle(s, [s EXCEPT !.rest = x, !.time = y])
<1>1. s.hero.hp \in Nat
  BY FieldTypes, HeroTypes
<1> DEFINE Same(t) == t.creature = s.creature /\ t.pending = s.pending /\ t.hero = s.hero
<1>2. ASSUME NEW t, Same(t) PROVE Gentle(s, t)
  BY <1>1, <1>2 DEF Gentle
<1>3. /\ Same([s EXCEPT !.lights = x]) /\ Same([s EXCEPT !.hand = x])
      /\ Same([s EXCEPT !.turn = x]) /\ Same([s EXCEPT !.turn = x, !.pools = y])
      /\ Same([s EXCEPT !.rest = x, !.pools = y]) /\ Same([s EXCEPT !.rest = x, !.time = y])
  BY DEF States
<1> HIDE DEF Same
<1>4. QED
  BY <1>2, <1>3

LEMMA TurnGentle ==
    ASSUME NEW s \in States
    PROVE  /\ \A t \in Start(s) : Gentle(s, t)
           /\ s.actor \in Actors => Gentle(s, AdvanceTurn(s))
           /\ HeroPlays(s) => Gentle(s, Acting(s))
           /\ HeroPlays(s) /\ s.pools.slots > 0 => Gentle(s, Casting(s))
<1>1. ASSUME NEW a \in Actors
      PROVE  Gentle(s, SetTurn([s EXCEPT !.status = "active", !.first = a], a))
  <2> DEFINE u == [s EXCEPT !.status = "active", !.first = a]
             t == SetTurn(u, a)
  <2>1. Keeps(u, s, {"status", "first"})
    BY DEF Keeps, Fields, States, Statuses, Nobody
  <2> HIDE DEF u
  <2>2. Keeps(t, u, {"actor", "turn", "ward", "reaction"})
    BY <2>1, SetTurnKeeps DEF Keeps
  <2> HIDE DEF t
  <2>3. Keeps(t, s, {"status", "first", "actor", "turn", "ward", "reaction"})
    BY <2>1, <2>2 DEF Keeps
  <2>4. QED
    BY <2>3, GentleKept DEF t, u
<1>2. ASSUME s.actor \in Actors PROVE Gentle(s, AdvanceTurn(s))
  <2> DEFINE t == AdvanceTurn(s)
             creature == [s.creature EXCEPT !.asleep = @ /\ s.sleep # 1]
  <2>1. /\ Keeps(t, s, {"actor", "turn", "ward", "reaction", "lights", "hand", "sleep",
                        "creature"})
        /\ t.creature = s.creature \/ t.creature = creature
    BY <1>2, AdvanceTurnKeeps
  <2>2. creature.position = s.creature.position
    BY FieldTypes DEF CreatureStates
  <2> HIDE DEF t, creature
  <2>3. t.creature.position = s.creature.position
    BY <2>1, <2>2
  <2>4. QED
    BY <2>1, <2>3, GentleKept DEF t
<1>3. ASSUME HeroPlays(s) PROVE Gentle(s, Acting(s))
  BY <1>3, ActingPlays, GentleKept
<1>4. ASSUME HeroPlays(s), s.pools.slots > 0 PROVE Gentle(s, Casting(s))
  BY <1>4, CastingPlays, GentleKept
<1>5. QED
  BY <1>1, <1>2, <1>3, <1>4 DEF Start, Offers

LEMMA HeroMoveGentle ==
    ASSUME NEW s \in States, HeroPlays(s), NEW p
    PROVE  \A t \in Move(s, p) : Gentle(s, t)
<1> SUFFICES ASSUME NEW t \in Move(s, p)
             PROVE  Gentle(s, t)
  OBVIOUS
<1> DEFINE turn == [s.turn EXCEPT !.movement = @ - Distance(PositionOf(s, s.actor), p)]
           u == [s EXCEPT !.turn = turn]
           hero == [s.hero EXCEPT !.position = p]
           hand == HandAfterMove(s.hand, p)
<1>1. t = [[s EXCEPT !.turn.movement = @ - Distance(PositionOf(s, s.actor), p)]
              EXCEPT !.hero.position = p, !.hand = HandAfterMove(@, p)]
  BY DEF Move, Offers, HeroPlays
<1>2. u.hero = s.hero /\ u.hand = s.hand /\ u.creature = s.creature /\ u.pending = s.pending
  BY DEF States
<1>3. t = [u EXCEPT !.hero = hero, !.hand = hand]
  BY <1>1, <1>2
<1> HIDE DEF turn, hand, hero
<1>4. t.hero = hero /\ t.creature = s.creature /\ t.pending = s.pending
  BY <1>3 DEF States
<1>5. hero.hp = s.hero.hp /\ s.hero.hp \in Nat
  BY FieldTypes, HeroTypes DEF HeroStates, hero
<1>6. QED
  BY <1>4, <1>5 DEF Gentle

LEMMA HeroAttackGentle ==
    ASSUME NEW s \in States, HeroPlays(s)
    PROVE  \A t \in Attack(s) \cup FireBolt(s) : Gentle(s, t)
<1> DEFINE u == Acting(s)
<1>1. u \in States /\ HeroPlays(u) /\ Gentle(s, u)
  BY ActingPlays, TurnGentle DEF Keeps
<1>2. s.actor = "hero"
  BY DEF HeroPlays
<1>3. Attack(s) \subseteq {u} \cup {StrikeCreature(u, d) :
                                        d \in HeroDamage \cup Rolled(HeroDamage, TRUE)}
  BY <1>2 DEF Attack, Acting, Offers
<1>4. FireBolt(s) = {u} \cup {StrikeCreature(u, d) :
                                  d \in (HeroDamage \cup Rolled(HeroDamage, TRUE)) \ {0}}
  BY DEF FireBolt
<1> HIDE DEF u
<1>5. ASSUME NEW d \in Nat PROVE Gentle(s, StrikeCreature(u, d))
  <2> DEFINE t == StrikeCreature(u, d)
  <2>1. /\ t.hero = u.hero /\ t.creature.position = u.creature.position
        /\ t.pending = "none" /\ u.pending = "none" /\ t \in States
    BY <1>1, HeroPlaysFacts, CreatureStruck DEF HeroPlays, Good
  <2> HIDE DEF t
  <2>2. u.hero.hp \in Nat
    BY <1>1, FieldTypes, HeroTypes
  <2>3. Gentle(u, t)
    BY <2>1, <2>2 DEF Gentle
  <2>4. QED
    BY <1>1, <2>1, <2>3, GentleTransitive DEF t
<1>6. QED
  BY <1>1, <1>3, <1>4, <1>5, DiceFacts

LEMMA MissileGentle ==
    ASSUME NEW s \in States, HeroPlays(s), s.pools.slots > 0
    PROVE  \A t \in MagicMissile(s) : Gentle(s, t)
<1> DEFINE u == Casting(s)
<1>1. u \in States /\ HeroPlays(u) /\ Gentle(s, u)
  BY CastingPlays, TurnGentle DEF Keeps
<1>2. MagicMissile(s) = {StrikeCreature(u, d) : d \in HeroDamage \ {0}}
  BY DEF MagicMissile
<1> HIDE DEF u
<1>3. ASSUME NEW d \in Nat PROVE Gentle(s, StrikeCreature(u, d))
  <2> DEFINE t == StrikeCreature(u, d)
  <2>1. /\ t.hero = u.hero /\ t.creature.position = u.creature.position
        /\ t.pending = "none" /\ u.pending = "none" /\ t \in States
    BY <1>1, HeroPlaysFacts, CreatureStruck DEF HeroPlays, Good
  <2> HIDE DEF t
  <2>2. u.hero.hp \in Nat
    BY <1>1, FieldTypes, HeroTypes
  <2>3. Gentle(u, t)
    BY <2>1, <2>2 DEF Gentle
  <2>4. QED
    BY <1>1, <2>1, <2>3, GentleTransitive DEF t
<1>4. QED
  BY <1>2, <1>3, DiceFacts

LEMMA SluiceGentle ==
    ASSUME NEW s \in States
    PROVE  Gentle(s, OpenSluice(s))
<1> DEFINE creature == [s.creature EXCEPT !.temp = 0, !.veil = FALSE]
           t == [s EXCEPT !.sluiceOpen = TRUE, !.creature = creature]
<1>1. OpenSluice(s) = t
  BY DEF OpenSluice
<1>2. creature.position = s.creature.position
  BY FieldTypes DEF CreatureStates
<1> HIDE DEF creature
<1>3. t.creature = creature /\ t.pending = s.pending /\ t.hero = s.hero
  BY DEF States
<1>4. s.hero.hp \in Nat
  BY FieldTypes, HeroTypes
<1>5. QED
  BY <1>1, <1>2, <1>3, <1>4 DEF Gentle

LEMMA ContextGentle ==
    ASSUME NEW s \in States
    PROVE  \A t \in Context(s) : Gentle(s, t)
<1> DEFINE turn == [s.turn EXCEPT !.object = FALSE]
           u == [s EXCEPT !.turn = turn]
<1>1. Context(s) \subseteq {OpenSluice(u)}
  BY DEF Context, Offers
<1>2. turn \in TurnStates
  BY FieldTypes DEF TurnStates
<1>3. Gentle(s, u)
  BY GentleUpdates
<1> HIDE DEF turn
<1>4. u \in States
  BY <1>2 DEF States
<1> HIDE DEF u
<1>5. Gentle(u, OpenSluice(u))
  BY <1>4, SluiceGentle
<1>6. u.hero.hp \in Nat /\ s.hero.hp \in Nat
  BY <1>4, FieldTypes, HeroTypes
<1> DEFINE v == OpenSluice(u)
<1>7. v.hero = u.hero
  BY <1>4 DEF OpenSluice, States
<1> HIDE DEF v
<1>8. Gentle(s, v)
  BY <1>3, <1>5, <1>6, <1>7 DEF Gentle, v
<1>9. QED
  BY <1>1, <1>8 DEF v

LEMMA DeathSaveGentle ==
    ASSUME NEW s \in States, Good(s)
    PROVE  \A t \in DeathSave(s) : Gentle(s, t)
<1> DEFINE h == s.hero
           passed == [h EXCEPT !.successes = Lower(@ + 1, 3),
                               !.life = IF h.successes >= 2 THEN "stable" ELSE @]
           woken == [h EXCEPT !.hp = 1, !.life = "conscious", !.successes = 0, !.failures = 0]
           Saves == {woken, passed, Dying(h, h.failures + 1), Dying(h, h.failures + 2)}
           After(k) == LET t == [s EXCEPT !.hero = k]
                       IN  IF k.life = "conscious" THEN t
                           ELSE IF k.life = "unconscious" THEN AdvanceTurn(t)
                           ELSE Ended(t, "defeat")
<1>0. DeathSave(s) = Offers(s.status = "active" /\ s.actor = "hero" /\ h.life = "unconscious"
                              /\ s.policy = "raw", {After(k) : k \in Saves})
  BY DEF DeathSave
<1> HIDE DEF Saves, After
<1> SUFFICES ASSUME s.status = "active", s.actor = "hero", h.life = "unconscious",
                    NEW k \in Saves
             PROVE  Gentle(s, After(k))
  BY <1>0 DEF Offers
<1> USE DEF After
<1> DEFINE t == [s EXCEPT !.hero = k]
<1>1. ValidHero(h) /\ h \in HeroStates
  BY FieldTypes DEF Good, Valid
<1>2. k \in HeroStates
  BY <1>1, SaveFacts DEF Saves
<1> HIDE DEF Saves, passed, woken
<1>3. k.hp >= h.hp
  BY <1>1, <1>2, HeroTypes DEF ValidHero
<1>4. Keeps(t, s, {"hero"}) /\ t.hero = k
  BY <1>2 DEF Keeps, Fields, States
<1> HIDE DEF t
<1>5. Gentle(s, t) /\ t \in States /\ t.actor \in Actors
  <2>1. Gentle(s, t)
    BY <1>3, <1>4, GentleKept
  <2>2. QED
    BY <1>4, <2>1 DEF Keeps, Fields, Actors
<1>6. CASE k.life = "conscious"
  BY <1>5, <1>6 DEF t
<1>7. CASE k.life = "unconscious"
  <2>1. Gentle(t, AdvanceTurn(t)) /\ AdvanceTurn(t) \in States
    BY <1>5, TurnGentle, AdvanceTurnKeeps DEF Keeps
  <2>2. Gentle(s, AdvanceTurn(t))
    BY <1>5, <2>1, GentleTransitive
  <2>3. QED
    BY <1>7, <2>2 DEF t
<1>8. CASE k.life \notin {"conscious", "unconscious"}
  <2>1. Keeps(Ended(t, "defeat"), t, {"status", "actor", "turn", "transition"})
    BY <1>5, EndedKeeps
  <2>2. Gentle(t, Ended(t, "defeat")) /\ Ended(t, "defeat") \in States
    <3>1. Ended(t, "defeat") \in States
      BY <2>1 DEF Keeps
    <3>2. QED
      BY <1>5, <2>1, <3>1, GentleKept
  <2>3. Gentle(s, Ended(t, "defeat"))
    BY <1>5, <2>2, GentleTransitive
  <2>4. QED
    BY <1>8, <2>3 DEF t
<1>9. QED
  BY <1>6, <1>7, <1>8

LEMMA SpellsGentle ==
    ASSUME NEW s \in States, HeroPlays(s)
    PROVE  /\ \A o \in Objects, t \in States : t \in Light(s, o) => Gentle(s, t)
           /\ \A o \in Objects, t \in States : t \in MageHand(s, o) => Gentle(s, t)
           /\ \A t \in States : t \in DismissHand(s) => Gentle(s, t)
           /\ \A t \in States : t \in ControlHand(s) => Gentle(s, t)
<1> DEFINE u == Acting(s)
<1>1. u \in States /\ Gentle(s, u)
  BY ActingPlays, TurnGentle DEF Keeps
<1>2. ASSUME NEW o \in Objects, NEW t \in States, t \in Light(s, o) PROVE Gentle(s, t)
  <2> DEFINE lights == [u.lights EXCEPT ![o] = LightRounds]
  <2>1. t = [u EXCEPT !.lights = lights]
    BY <1>2 DEF Light
  <2> HIDE DEF u, lights
  <2>2. Gentle(u, t)
    BY <1>1, <2>1, GentleUpdates
  <2>3. QED
    BY <1>1, <1>2, <2>2, GentleTransitive
<1>3. ASSUME NEW hand, NEW t \in States, t = [u EXCEPT !.hand = hand] PROVE Gentle(s, t)
  <2> HIDE DEF u
  <2>1. Gentle(u, t)
    BY <1>1, <1>3, GentleUpdates
  <2>2. QED
    BY <1>1, <1>3, <2>1, GentleTransitive
<1>4. ASSUME NEW t \in States, t \in ControlHand(s) PROVE Gentle(s, t)
  <2> DEFINE hand == HandAt(s, Sluice, u.hand.rounds)
             v == [u EXCEPT !.hand = hand]
  <2>1. t = OpenSluice(v)
    BY <1>4 DEF ControlHand
  <2>2. hand \in HandStates
    <3>1. s.hero.position \in Positions /\ Sluice \in Positions
      BY FieldTypes, HeroTypes, PlaceFacts DEF Objects
    <3>2. From(s, Sluice) \in Nat
      BY <3>1, PlaceFacts DEF From
    <3>3. u.hand \in HandStates
      BY <1>1, FieldTypes
    <3> HIDE DEF u
    <3>4. u.hand.rounds \in 0..HandRounds
      BY <3>3 DEF HandStates
    <3>5. QED
      BY <3>1, <3>2, <3>4 DEF HandAt, HandStates
  <2> HIDE DEF u, hand
  <2>3. v \in States
    BY <1>1, <2>2 DEF States
  <2>4. Gentle(u, v)
    BY <1>1, GentleUpdates
  <2> HIDE DEF v
  <2>5. Gentle(v, t)
    BY <2>1, <2>3, SluiceGentle
  <2>6. Gentle(u, t)
    BY <1>1, <1>4, <2>3, <2>4, <2>5, GentleTransitive
  <2>7. QED
    BY <1>1, <1>4, <2>6, GentleTransitive
<1>5. QED
  BY <1>2, <1>3, <1>4 DEF MageHand, DismissHand

LEMMA SleepGentle ==
    ASSUME NEW s \in States, HeroPlays(s), s.pools.slots > 0
    PROVE  \A t \in States : t \in Sleep(s) => Gentle(s, t)
<1> SUFFICES ASSUME NEW t \in States, t \in Sleep(s)
             PROVE  Gentle(s, t)
  OBVIOUS
<1> DEFINE u == Casting(s)
           creature == [u.creature EXCEPT !.asleep = TRUE]
           v == [u EXCEPT !.sleep = SleepRounds, !.creature = creature]
<1>1. u \in States /\ Gentle(s, u)
  BY CastingPlays, TurnGentle DEF Keeps
<1>2. t \in {u, v}
  BY DEF Sleep
<1> HIDE DEF u
<1>3. creature.position = u.creature.position
  BY <1>1, FieldTypes DEF CreatureStates
<1> HIDE DEF creature
<1>4. v.creature = creature /\ v.hero = u.hero /\ v.pending = u.pending
  BY <1>1 DEF States
<1>5. u.hero.hp \in Nat
  BY <1>1, FieldTypes, HeroTypes
<1> HIDE DEF v
<1>6. Gentle(u, v)
  BY <1>3, <1>4, <1>5 DEF Gentle
<1>7. QED
  BY <1>1, <1>2, <1>6, GentleTransitive

LEMMA FeaturesGentle ==
    ASSUME NEW s \in States, HeroPlays(s)
    PROVE  /\ \A t \in SecondWind(s) : Gentle(s, t)
           /\ \A t \in ActionSurge(s) : Gentle(s, t)
<1>1. ASSUME NEW amount \in Nat,
             NEW t, t = [s EXCEPT !.turn.bonus = FALSE, !.pools.secondWind = @ - 1,
                                  !.hero.hp = Healed(@, amount)]
      PROVE  Gentle(s, t)
  <2> DEFINE turn == [s.turn EXCEPT !.bonus = FALSE]
             pools == [s.pools EXCEPT !.secondWind = s.pools.secondWind - 1]
             hero == [s.hero EXCEPT !.hp = Healed(s.hero.hp, amount)]
             u == [s EXCEPT !.turn = turn, !.pools = pools, !.hero = hero]
  <2>1. t = u
    BY <1>1 DEF States
  <2>2. s.hero \in HeroStates /\ s.hero.hp \in Nat /\ s.hero.hp <= HeroMaximum
    BY FieldTypes, HeroTypes
  <2>3. hero.hp = Healed(s.hero.hp, amount)
    BY <2>2 DEF HeroStates
  <2>4. hero.hp >= s.hero.hp
    BY <2>2, <2>3, HealedFacts
  <2> HIDE DEF turn, pools, hero
  <2>5. u.hero = hero /\ u.creature = s.creature /\ u.pending = s.pending
    BY DEF States
  <2>6. QED
    BY <2>1, <2>4, <2>5 DEF Gentle
<1>2. ASSUME NEW t \in ActionSurge(s) PROVE Gentle(s, t)
  <2> DEFINE turn == [s.turn EXCEPT !.action = TRUE]
             pools == [s.pools EXCEPT !.actionSurge = s.pools.actionSurge - 1]
  <2>1. t = [s EXCEPT !.turn = turn, !.pools = pools]
    BY <1>2 DEF ActionSurge, States
  <2> HIDE DEF turn, pools
  <2>2. QED
    BY <2>1, GentleUpdates
<1>3. QED
  BY <1>1, <1>2, DiceFacts DEF SecondWind

LEMMA RestsGentle ==
    ASSUME NEW s \in States, Good(s), SafeBoundary(s), NEW t \in States
    PROVE  /\ t \in BeginRest(s) => Gentle(s, t)
           /\ s.rest # "none" /\ t \in HitDie(s) => Gentle(s, t)
           /\ t \in ArcaneRecovery(s) => Gentle(s, t)
           /\ s.rest # "none" /\ t \in FinishRest(s) => Gentle(s, t)
           /\ t \in TakeLongRest(s) => Gentle(s, t)
<1> DEFINE u == Expired(StoryRecovered(s))
<1>1. /\ Keeps(u, s, {"hero", "creature", "lights", "hand", "sleep"})
      /\ ValidHero(u.hero) /\ u.hero.life = "conscious"
  BY RecoveredFacts
<1>2. s.hero.hp \in Nat /\ s.hero.hp <= HeroMaximum /\ s.hero \in HeroStates
      /\ t.hero.hp \in Nat /\ ValidHero(s.hero) /\ HeroMaximum \in Nat \ {0}
  BY FieldTypes, HeroTypes, RestFacts, EncounterAssumption
<1>3. u.creature.position = s.creature.position /\ u.pending = s.pending /\ u \in States
  <2> DEFINE w == StoryRecovered(s)
             creature == [w.creature EXCEPT !.asleep = FALSE]
  <2>1. w.creature = s.creature
    BY DEF StoryRecovered, States
  <2>2. DOMAIN w = DOMAIN s
    BY DEF StoryRecovered, States
  <2>3. u = [w EXCEPT !.lights = [o \in Objects |-> 0], !.hand = NoHand, !.sleep = 0,
                      !.creature = creature]
    BY DEF Expired
  <2>4. creature.position = s.creature.position
    BY <2>1, FieldTypes DEF CreatureStates
  <2> HIDE DEF w, creature
  <2>5. u.creature = creature
    BY <2>2, <2>3 DEF States
  <2>6. u.pending = s.pending /\ u \in States
    BY <1>1 DEF Keeps, Fields
  <2>7. QED
    BY <2>4, <2>5, <2>6
<1>4. u.hero.hp >= s.hero.hp
  <2>1. CASE s.status = "defeat" /\ s.hero.life = "unconscious"
    <3>1. s.hero.hp = 0
      BY <1>2, <2>1 DEF ValidHero
    <3>2. u.hero.hp \in Nat
      BY <1>3, FieldTypes, HeroTypes
    <3>3. QED
      BY <3>1, <3>2
  <2>2. CASE ~(s.status = "defeat" /\ s.hero.life = "unconscious")
    <3>1. u = Expired(s)
      BY <2>2 DEF StoryRecovered
    <3>2. u.hero = s.hero
      BY <3>1 DEF Expired, States
    <3>3. QED
      BY <1>2, <3>2
  <2>3. QED
    BY <2>1, <2>2
<1>5. Gentle(s, u)
  BY <1>3, <1>4 DEF Gentle
<1> HIDE DEF u
<1>6. ASSUME t \in BeginRest(s) PROVE Gentle(s, t)
  <2>1. t = [u EXCEPT !.rest = "resting", !.time = u.time + ShortRest]
    BY <1>6 DEF BeginRest, u
  <2>2. Gentle(u, t)
    BY <1>3, <2>1, GentleUpdates
  <2>3. QED
    BY <1>3, <1>5, <2>2, GentleTransitive
<1>7. ASSUME s.rest # "none", t \in HitDie(s) PROVE Gentle(s, t)
  <2>1. PICK amount \in Nat : t = [WithHealth(s, Healed(s.hero.hp, amount))
                                       EXCEPT !.pools.hitDice = @ - 1]
    BY <1>7, DiceFacts DEF HitDie
  <2> DEFINE hero == [s.hero EXCEPT !.hp = Healed(s.hero.hp, amount)]
             w == WithHealth(s, Healed(s.hero.hp, amount))
             pools == [w.pools EXCEPT !.hitDice = w.pools.hitDice - 1]
  <2>2. w.hero = hero /\ w.creature = s.creature /\ w.pending = s.pending
        /\ DOMAIN w = DOMAIN s
    BY DEF WithHealth, States
  <2>3. t = [w EXCEPT !.pools = pools]
    BY <2>1
  <2> HIDE DEF w, pools
  <2>4. t.hero = w.hero /\ t.creature = w.creature /\ t.pending = w.pending
    BY <2>2, <2>3 DEF States
  <2>5. hero.hp = Healed(s.hero.hp, amount) /\ hero.hp >= s.hero.hp
    BY <1>2, HealedFacts DEF HeroStates
  <2>6. QED
    BY <2>2, <2>4, <2>5 DEF Gentle
<1>8. ASSUME t \in ArcaneRecovery(s) PROVE Gentle(s, t)
  <2> DEFINE rested == Rested(s).pools
             pools == [rested EXCEPT !.recovery = rested.recovery - 1,
                                     !.slots = rested.slots + 1]
  <2>1. t = [s EXCEPT !.rest = "recovered", !.pools = pools]
    BY <1>8 DEF ArcaneRecovery
  <2> HIDE DEF pools
  <2>2. QED
    BY <2>1, GentleUpdates
<1>9. ASSUME s.rest # "none", t \in FinishRest(s) PROVE Gentle(s, t)
  <2> DEFINE w == Rested(s)
             v == WithHealth(w, s.hero.hp)
  <2>1. Keeps(w, s, {"pools"})
    BY RestFacts, RestedFacts
  <2>2. w \in States /\ w.hero = s.hero /\ w.creature = s.creature /\ w.pending = s.pending
    BY <2>1 DEF Keeps, Fields
  <2>3. t = [v EXCEPT !.rest = "none"]
    BY <1>9 DEF FinishRest
  <2> HIDE DEF w
  <2>4. v.hero = [s.hero EXCEPT !.hp = s.hero.hp] /\ v.creature = s.creature
        /\ v.pending = s.pending /\ DOMAIN v = DOMAIN w
    BY <2>2 DEF WithHealth, States
  <2> HIDE DEF v
  <2>5. t.hero = v.hero /\ t.creature = v.creature /\ t.pending = v.pending
    BY <2>2, <2>3, <2>4 DEF States
  <2>6. t.hero.hp = s.hero.hp
    BY <1>2, <2>4, <2>5 DEF HeroStates
  <2>7. QED
    BY <1>2, <2>4, <2>5, <2>6 DEF Gentle
<1>10. ASSUME t \in TakeLongRest(s) PROVE Gentle(s, t)
  <2> DEFINE v == WithHealth(u, HeroMaximum)
             hero == [v.hero EXCEPT !.temp = 0]
             pools == [FullPools(s.class) EXCEPT !.hitDice =
                          Lower(s.pools.hitDice + Higher(MaxHitDice \div 2, 1), MaxHitDice)]
             time == v.time + LongRest
             longRest == s.time + LongRest
  <2>1. t = [v EXCEPT !.hero = hero, !.pools = pools, !.time = time, !.longRest = longRest]
    BY <1>10 DEF TakeLongRest, u
  <2>2. u.hero \in HeroStates
    BY <1>3, FieldTypes
  <2>3. v.hero = [u.hero EXCEPT !.hp = HeroMaximum] /\ v.creature = u.creature
        /\ v.pending = u.pending /\ DOMAIN v = DOMAIN u
    BY <1>3 DEF WithHealth, States
  <2> HIDE DEF v
  <2>4. hero.hp = HeroMaximum
    BY <2>2, <2>3 DEF HeroStates
  <2> HIDE DEF hero, pools, time, longRest
  <2>5. t.hero = hero /\ t.creature = v.creature /\ t.pending = v.pending
    BY <1>3, <2>1, <2>3 DEF States
  <2>6. t.hero.hp >= s.hero.hp
    BY <1>2, <2>4, <2>5
  <2>7. QED
    BY <1>3, <2>3, <2>5, <2>6 DEF Gentle
<1>11. QED
  BY <1>6, <1>7, <1>8, <1>9, <1>10

\* Nothing that the hero does, or that is done before or after the encounter, is harmful.
LEMMA OutcomesGentle ==
    ASSUME NEW s \in States, Good(s), s.pending = "none",
           s.status = "active" => s.actor = "hero",
           NEW i, NEW t \in States, t \in Outcomes(s, i)
    PROVE  Gentle(s, t)
<1>1. CanAct(s) => HeroPlays(s)
  BY DEF CanAct, HeroPlays
<1>2. ASSUME t \in OrdinaryOutcomes(s, i) PROVE Gentle(s, t)
  <2>1. CASE i.kind = "start"
    BY <1>2, <2>1, TurnGentle DEF OrdinaryOutcomes
  <2>2. CASE i.kind = "move"
    <3>1. t \in Move(s, i.at)
      BY <1>2, <2>2 DEF OrdinaryOutcomes
    <3>2. HeroPlays(s)
      BY <1>1, <3>1 DEF Move, Offers
    <3>3. QED
      BY <3>1, <3>2, HeroMoveGentle
  <2>3. CASE i.kind = "attack"
    <3>1. t \in Attack(s)
      BY <1>2, <2>3 DEF OrdinaryOutcomes
    <3>2. HeroPlays(s)
      BY <1>1, <3>1 DEF Attack, Offers
    <3>3. QED
      BY <3>1, <3>2, HeroAttackGentle
  <2>4. CASE i.kind = "context"
    BY <1>2, <2>4, ContextGentle DEF OrdinaryOutcomes
  <2>5. CASE i.kind = "endTurn"
    <3>1. t \in EndTurn(s)
      BY <1>2, <2>5 DEF OrdinaryOutcomes
    <3>2. s.status = "active" /\ t = AdvanceTurn(s)
      BY <3>1 DEF EndTurn, Offers, CanAct
    <3>3. QED
      BY <3>2, ActiveFacts, TurnGentle
  <2>6. CASE i.kind = "deathSave"
    BY <1>2, <2>6, DeathSaveGentle DEF OrdinaryOutcomes
  <2>7. CASE i.kind \notin {"start", "move", "attack", "context", "endTurn", "deathSave"}
    BY <1>2, <2>7 DEF OrdinaryOutcomes
  <2>8. QED
    BY <2>1, <2>2, <2>3, <2>4, <2>5, <2>6, <2>7
<1>3. ASSUME i \in Offered(s), t \in OfferedOutcomes(s, i) PROVE Gentle(s, t)
  <2>1. i.kind \notin Answers
    BY <1>3, OffersNeed DEF Answers
  <2>2. CASE i.kind \in Spells
    <3>1. HeroPlays(s)
      BY <1>3, <2>2, OffersNeed DEF Spells
    <3>2. CASE i.kind = "fireBolt"
      BY <1>3, <3>1, <3>2, HeroAttackGentle DEF OfferedOutcomes
    <3>3. CASE i.kind = "magicMissile"
      BY <1>3, <3>1, <3>3, OffersNeed, MissileGentle DEF OfferedOutcomes
    <3>4. CASE i.kind = "light"
      BY <1>3, <3>1, <3>4, OffersNeed, SpellsGentle DEF OfferedOutcomes
    <3>5. CASE i.kind = "hand"
      BY <1>3, <3>1, <3>5, OffersNeed, SpellsGentle DEF OfferedOutcomes
    <3>6. CASE i.kind = "controlHand"
      BY <1>3, <3>1, <3>6, SpellsGentle DEF OfferedOutcomes
    <3>7. CASE i.kind = "dismissHand"
      BY <1>3, <3>1, <3>7, SpellsGentle DEF OfferedOutcomes
    <3>8. CASE i.kind = "sleep"
      BY <1>3, <3>1, <3>8, OffersNeed, SleepGentle DEF OfferedOutcomes
    <3>9. QED
      BY <2>2, <3>2, <3>3, <3>4, <3>5, <3>6, <3>7, <3>8 DEF Spells
  <2>3. CASE i.kind = "secondWind"
    BY <1>3, <2>3, OffersNeed, FeaturesGentle DEF OfferedOutcomes
  <2>4. CASE i.kind = "actionSurge"
    BY <1>3, <2>4, OffersNeed, FeaturesGentle DEF OfferedOutcomes
  <2>5. CASE i.kind \in RestKinds
    <3>1. SafeBoundary(s)
      BY <1>3, <2>5, OffersNeed DEF RestKinds
    <3>2. CASE i.kind = "beginRest"
      BY <1>3, <3>1, <3>2, RestsGentle DEF OfferedOutcomes
    <3>3. CASE i.kind = "hitDie"
      BY <1>3, <3>1, <3>3, OffersNeed, RestsGentle DEF OfferedOutcomes
    <3>4. CASE i.kind = "arcaneRecovery"
      BY <1>3, <3>1, <3>4, RestsGentle DEF OfferedOutcomes
    <3>5. CASE i.kind = "finishRest"
      BY <1>3, <3>1, <3>5, OffersNeed, RestsGentle DEF OfferedOutcomes
    <3>6. CASE i.kind = "longRest"
      BY <1>3, <3>1, <3>6, RestsGentle DEF OfferedOutcomes
    <3>7. QED
      BY <2>5, <3>2, <3>3, <3>4, <3>5, <3>6 DEF RestKinds
  <2>6. CASE i.kind \notin Spells \cup Answers \cup Features \cup RestKinds
    BY <1>3, <2>6 DEF OfferedOutcomes, Spells, Answers, Features, RestKinds
  <2>7. QED
    BY <2>1, <2>2, <2>3, <2>4, <2>5, <2>6 DEF Features
<1>4. QED
  BY <1>2, <1>3 DEF Outcomes, Offers

-----------------------------------------------------------------------------
(* The policy                                                              *)

LEMMA PolicyFacts ==
    ASSUME NEW s \in States, NEW i \in PolicyIntents(s)
    PROVE  /\ s.status = "active" /\ s.actor = "creature" /\ i \in Offered(s)
           /\ i.kind \in {"attack", "move", "endTurn"}
           /\ s.pending = "none"
           /\ s.sleep > 0 => i.kind = "endTurn"
<1>1. /\ s.status = "active" /\ s.actor = "creature" /\ i \in Offered(s)
      /\ i.kind \in {"attack", "move", "endTurn"}
  BY DEF PolicyIntents, Plain, MoveTo
<1>2. s.pending = "none"
  BY <1>1 DEF Offered, Offers, Plain
<1>3. s.sleep > 0 => i.kind = "endTurn"
  BY <1>1, <1>2 DEF Offered, Plain
<1>4. QED
  BY <1>1, <1>2, <1>3

LEMMA PolicyGood ==
    ASSUME NEW s \in States, Good(s), NEW i \in PolicyIntents(s), NEW t \in Outcomes(s, i)
    PROVE  /\ Good(t) /\ t.time = s.time
           /\ s.sleep > 0 => Gentle(s, t)
<1>1. /\ s.status = "active" /\ s.actor = "creature" /\ i \in Offered(s)
      /\ i.kind \in {"attack", "move", "endTurn"} /\ s.pending = "none"
      /\ s.sleep > 0 => i.kind = "endTurn"
  BY PolicyFacts
<1>2. Good(t)
  BY <1>1, OffersAreIntents, OutcomesGood
<1>3. t \in OrdinaryOutcomes(s, i)
  BY <1>1 DEF Outcomes, Offers, OfferedOutcomes
<1>4. t.time = s.time
  <2>1. CASE i.kind = "attack"
    <3>1. t \in Attack(s) /\ s.sleep = 0
      BY <1>1, <1>3, <2>1, OffersAreIntents DEF OrdinaryOutcomes
    <3>2. QED
      BY <1>1, <3>1, AttackGood
  <2>2. CASE i.kind = "move"
    <3>1. t \in Move(s, i.at)
      BY <1>3, <2>2 DEF OrdinaryOutcomes
    <3> DEFINE u == [s EXCEPT !.turn.movement = @ - Distance(PositionOf(s, s.actor), i.at)]
    <3>2. t = [u EXCEPT !.creature.position = i.at]
      BY <1>1, <3>1 DEF Move, Offers
    <3>3. u.time = s.time /\ DOMAIN u = DOMAIN s
      BY DEF States
    <3> HIDE DEF u
    <3>4. t.time = u.time
      BY <3>2, <3>3 DEF States
    <3>5. QED
      BY <3>3, <3>4
  <2>3. CASE i.kind = "endTurn"
    <3>1. t = AdvanceTurn(s)
      BY <1>3, <2>3 DEF OrdinaryOutcomes, EndTurn, Offers
    <3>2. s.actor \in Actors
      BY <1>1 DEF Actors
    <3>3. QED
      BY <3>1, <3>2, AdvanceTurnKeeps DEF Keeps, Fields
  <2>4. QED
    BY <1>1, <2>1, <2>2, <2>3
<1>5. ASSUME s.sleep > 0 PROVE Gentle(s, t)
  <2>1. t = AdvanceTurn(s)
    BY <1>1, <1>3, <1>5 DEF OrdinaryOutcomes, EndTurn, Offers
  <2>2. s.actor \in Actors
    BY <1>1 DEF Actors
  <2>3. QED
    BY <2>1, <2>2, TurnGentle
<1>6. QED
  BY <1>2, <1>4, <1>5

-----------------------------------------------------------------------------
(* Whatever is offered has an outcome                                      *)

LEMMA DistanceFacts ==
    \A a, b \in Positions : Distance(a, b) = Distance(b, a)
<1>1. LastPosition \in Nat
  BY EncounterAssumption
<1>2. QED
  BY <1>1 DEF Distance, Positions

LEMMA OrdinaryOffersNeed ==
    ASSUME NEW s \in States, Good(s), NEW i \in Offered(s)
    PROVE  /\ i.kind = "start" => s.status = "ready"
           /\ i.kind \in {"move", "attack", "context", "endTurn"} => CanAct(s)
           /\ i.kind = "move" => LET d == Distance(PositionOf(s, s.actor), i.at)
                                 IN  d > 0 /\ d <= s.turn.movement
           /\ i.kind = "attack" => s.turn.action /\ Apart(s) <= 1
           /\ i.kind = "context" => /\ s.actor = "hero" /\ s.turn.object /\ ~s.sluiceOpen
                                    /\ From(s, Sluice) <= 1
           /\ i.kind = "deathSave" => /\ s.status = "active" /\ s.actor = "hero"
                                      /\ s.hero.life = "unconscious" /\ s.policy = "raw"
           /\ i.kind \in {"start", "move", "attack", "context", "endTurn", "deathSave"}
                         \cup Spells \cup Answers \cup Features \cup RestKinds
<1>1. CASE s.pending # "none"
  BY <1>1 DEF Offered, Offers, Plain, Answers
<1>2. CASE s.pending = "none" /\ s.status = "ready"
  BY <1>2 DEF Offered, Offers, Plain
<1>3. CASE s.pending = "none" /\ s.status \notin {"ready", "active"}
  <2>1. i \in OfferedRests(s)
    BY <1>3 DEF Offered
  <2>2. QED
    BY <1>3, <2>1 DEF OfferedRests, Offers, Plain, RestKinds
<1>4. CASE s.pending = "none" /\ s.status = "active"
  <2>0. /\ s.hero.life \in {"conscious", "unconscious"} /\ s.policy \in {"story", "raw"}
        /\ s.policy = "story" => s.hero.life = "conscious"
    BY <1>4, ActiveFacts, FieldTypes
  <2>1. CASE s.actor = "hero" /\ s.hero.life # "conscious"
    BY <1>4, <2>0, <2>1 DEF Offered, Plain
  <2>2. CASE s.actor = "creature" /\ s.sleep > 0
    BY <1>4, <2>2 DEF Offered, Plain, CanAct
  <2>3. CASE ~(s.actor = "hero" /\ s.hero.life # "conscious")
             /\ ~(s.actor = "creature" /\ s.sleep > 0)
    <3>1. i \in OfferedOnTurn(s) /\ CanAct(s)
      BY <1>4, <2>3 DEF Offered, CanAct
    <3> DEFINE here == PositionOf(s, s.actor)
               Steps == {q \in Positions : LET d == Distance(q, here)
                                           IN  d > 0 /\ d <= s.turn.movement}
    <3>2. OfferedOnTurn(s) =
              {MoveTo(p) : p \in Steps}
              \cup Offers(s.turn.action /\ Apart(s) <= 1, {Plain("attack")})
              \cup Offers(s.actor = "hero",
                      OfferedSpells(s) \cup OfferedFeatures(s)
                      \cup Offers(s.turn.object /\ ~s.sluiceOpen /\ From(s, Sluice) <= 1,
                                  {Plain("context")}))
              \cup {Plain("endTurn")}
      BY DEF OfferedOnTurn
    <3>3. CASE i \in {MoveTo(p) : p \in Steps}
      <4>1. PICK p \in Steps : i = MoveTo(p)
        BY <3>3
      <4>2. i.kind = "move" /\ i.at = p
        BY <4>1 DEF MoveTo
      <4>3. here \in Positions
        BY FieldTypes, HeroTypes, CreatureTypes DEF PositionOf
      <4>4. Distance(here, i.at) > 0 /\ Distance(here, i.at) <= s.turn.movement
        BY <4>1, <4>2, <4>3, DistanceFacts
      <4>5. QED
        BY <3>1, <4>2, <4>4
    <3> HIDE DEF Steps
    <3>4. CASE i \in Offers(s.turn.action /\ Apart(s) <= 1, {Plain("attack")})
      BY <3>1, <3>4 DEF Offers, Plain
    <3>5. CASE i = Plain("endTurn")
      BY <3>1, <3>5 DEF Plain
    <3>6. CASE s.actor = "hero" /\ i \in OfferedSpells(s)
      BY <3>1, <3>6 DEF OfferedSpells, Offers, Plain, Spells
    <3>7. CASE s.actor = "hero" /\ i \in OfferedFeatures(s)
      BY <3>1, <3>7 DEF OfferedFeatures, Offers, Plain, Features
    <3>8. CASE s.actor = "hero" /\ i \in Offers(s.turn.object /\ ~s.sluiceOpen
                                                 /\ From(s, Sluice) <= 1, {Plain("context")})
      BY <3>1, <3>8 DEF Offers, Plain
    <3>9. QED
      BY <3>1, <3>2, <3>3, <3>4, <3>5, <3>6, <3>7, <3>8 DEF Offers
  <2>4. QED
    BY <2>1, <2>2, <2>3
<1>5. QED
  BY <1>1, <1>2, <1>3, <1>4

LEMMA OffersWork ==
    ASSUME NEW s \in States, Good(s), NEW i \in Offered(s)
    PROVE  Outcomes(s, i) # {}
<1>1. ASSUME NEW x, x \in OrdinaryOutcomes(s, i) \/ x \in OfferedOutcomes(s, i)
      PROVE  Outcomes(s, i) # {}
  BY <1>1 DEF Outcomes, Offers
<1>2. CASE i.kind = "start"
  <2>1. SetTurn([s EXCEPT !.status = "active", !.first = "hero"], "hero") \in Start(s)
    BY <1>2, OrdinaryOffersNeed DEF Start, Offers, Actors
  <2>2. QED
    BY <1>1, <1>2, <2>1 DEF OrdinaryOutcomes
<1>3. CASE i.kind = "move"
  <2>1. \E t : t \in Move(s, i.at)
    BY <1>3, OrdinaryOffersNeed DEF Move, Offers
  <2>2. QED
    BY <1>1, <1>3, <2>1 DEF OrdinaryOutcomes
<1>4. CASE i.kind = "attack"
  <2>1. [s EXCEPT !.turn.action = FALSE] \in Attack(s)
    BY <1>4, OrdinaryOffersNeed DEF Attack, Offers
  <2>2. QED
    BY <1>1, <1>4, <2>1 DEF OrdinaryOutcomes
<1>5. CASE i.kind = "context"
  <2>1. OpenSluice([s EXCEPT !.turn.object = FALSE]) \in Context(s)
    BY <1>5, OrdinaryOffersNeed DEF Context, Offers
  <2>2. QED
    BY <1>1, <1>5, <2>1 DEF OrdinaryOutcomes
<1>6. CASE i.kind = "endTurn"
  <2>1. AdvanceTurn(s) \in EndTurn(s)
    BY <1>6, OrdinaryOffersNeed DEF EndTurn, Offers
  <2>2. QED
    BY <1>1, <1>6, <2>1 DEF OrdinaryOutcomes
<1>7. CASE i.kind = "deathSave"
  <2>1. \E t : t \in DeathSave(s)
    BY <1>7, OrdinaryOffersNeed DEF DeathSave, Offers
  <2>2. QED
    BY <1>1, <1>7, <2>1 DEF OrdinaryOutcomes
<1>8. CASE i.kind \in Spells
  <2>1. PICK damage : damage \in HeroDamage \ {0}
    BY EncounterAssumption
  <2>2. PICK pool : pool \in Pools
    BY EncounterAssumption
  <2>3. CASE i.kind = "fireBolt"
    BY <1>1, <2>3 DEF OfferedOutcomes, FireBolt
  <2>4. CASE i.kind = "magicMissile"
    <3>1. StrikeCreature(Casting(s), damage) \in MagicMissile(s)
      BY <2>1 DEF MagicMissile
    <3>2. QED
      BY <1>1, <2>4, <3>1 DEF OfferedOutcomes
  <2>5. CASE i.kind = "light"
    BY <1>1, <2>5 DEF OfferedOutcomes, Light
  <2>6. CASE i.kind = "hand"
    BY <1>1, <2>6 DEF OfferedOutcomes, MageHand
  <2>7. CASE i.kind = "controlHand"
    BY <1>1, <2>7 DEF OfferedOutcomes, ControlHand
  <2>8. CASE i.kind = "dismissHand"
    BY <1>1, <2>8 DEF OfferedOutcomes, DismissHand
  <2>9. CASE i.kind = "sleep"
    <3>1. \E t : t \in Sleep(s)
      BY <2>2 DEF Sleep
    <3>2. QED
      BY <1>1, <2>9, <3>1 DEF OfferedOutcomes
  <2>10. QED
    BY <1>8, <2>3, <2>4, <2>5, <2>6, <2>7, <2>8, <2>9 DEF Spells
<1>9. ASSUME NEW u PROVE \E t : t \in Settled(u)
  <2>1. PICK damage : damage \in CreatureDamage
    BY EncounterAssumption
  <2> DEFINE critical == u.pending = "critical"
  <2>2. \E d : d \in Rolled(CreatureDamage, critical)
    <3>1. CASE critical
      <4>1. <<damage, damage>> \in CreatureDamage \X CreatureDamage
        BY <2>1
      <4>2. QED
        BY <3>1, <4>1 DEF Rolled
    <3>2. CASE ~critical
      BY <2>1, <3>2 DEF Rolled
    <3>3. QED
      BY <3>1, <3>2
  <2>3. Settled(u) = {StrikeHero([u EXCEPT !.pending = "none"], d, critical) :
                          d \in Rolled(CreatureDamage, critical)}
    BY DEF Settled
  <2> HIDE DEF critical
  <2>4. QED
    BY <2>2, <2>3
<1>10. CASE i.kind = "shield"
  <2> DEFINE warded == [s EXCEPT !.pools.slots = @ - 1, !.reaction = FALSE, !.ward = TRUE]
  <2>1. PICK t : t \in Settled(warded)
    BY <1>9
  <2>2. [t EXCEPT !.ward = t.status = "active"] \in Shield(s)
    BY <2>1 DEF Shield
  <2>3. QED
    BY <1>1, <1>10, <2>2 DEF OfferedOutcomes
<1>11. CASE i.kind = "decline"
  <2>1. PICK t : t \in Settled(s)
    BY <1>9
  <2>2. QED
    BY <1>1, <1>11, <2>1 DEF OfferedOutcomes
<1>12. CASE i.kind \in Features \cup RestKinds
  <2>1. PICK amount : amount \in Healing
    BY EncounterAssumption
  <2>2. CASE i.kind = "secondWind"
    <3>1. \E t : t \in SecondWind(s)
      BY <2>1 DEF SecondWind
    <3>2. QED
      BY <1>1, <2>2, <3>1 DEF OfferedOutcomes
  <2>3. CASE i.kind = "actionSurge"
    BY <1>1, <2>3 DEF OfferedOutcomes, ActionSurge
  <2>4. CASE i.kind = "beginRest"
    BY <1>1, <2>4 DEF OfferedOutcomes, BeginRest
  <2>5. CASE i.kind = "hitDie"
    <3>1. \E t : t \in HitDie(s)
      BY <2>1 DEF HitDie
    <3>2. QED
      BY <1>1, <2>5, <3>1 DEF OfferedOutcomes
  <2>6. CASE i.kind = "arcaneRecovery"
    <3>1. \E t : t \in ArcaneRecovery(s)
      BY DEF ArcaneRecovery
    <3>2. QED
      BY <1>1, <2>6, <3>1 DEF OfferedOutcomes
  <2>7. CASE i.kind = "finishRest"
    BY <1>1, <2>7 DEF OfferedOutcomes, FinishRest
  <2>8. CASE i.kind = "longRest"
    <3>1. \E t : t \in TakeLongRest(s)
      BY DEF TakeLongRest
    <3>2. QED
      BY <1>1, <2>8, <3>1 DEF OfferedOutcomes
  <2>9. QED
    BY <1>12, <2>2, <2>3, <2>4, <2>5, <2>6, <2>7, <2>8 DEF Features, RestKinds
<1>13. QED
  BY <1>2, <1>3, <1>4, <1>5, <1>6, <1>7, <1>8, <1>10, <1>11, <1>12, OrdinaryOffersNeed
     DEF Answers

-----------------------------------------------------------------------------
(* The invariant is inductive                                              *)

LEMMA ReadyIsState ==
    ASSUME NEW policy \in Policies, NEW class \in Classes, NEW warded \in BOOLEAN
    PROVE  Ready(policy, class, warded) \in States
<1> DEFINE hero == [position |-> 0, hp |-> HeroMaximum, temp |-> IF warded THEN Ward ELSE 0,
                    life |-> "conscious", successes |-> 0, failures |-> 0]
           creature == [position |-> CreatureStart, hp |-> CreatureMaximum,
                        temp |-> IF warded THEN Ward ELSE 2 * Ward,
                        life |-> "conscious", veil |-> TRUE, asleep |-> FALSE]
           lights == [o \in Objects |-> 0]
<1>1. /\ HeroMaximum \in Nat \ {0} /\ CreatureMaximum \in Nat \ {0}
      /\ Ward \in Nat /\ Ward <= HeroMaximum /\ 2 * Ward <= CreatureMaximum
      /\ LastPosition \in Nat /\ CreatureStart \in 0..LastPosition
      /\ HandRounds \in Nat /\ SleepRounds \in Nat /\ LightRounds \in Nat
  BY EncounterAssumption
<1>2. hero \in HeroStates
  <2>1. (IF warded THEN Ward ELSE 0) \in 0..HeroMaximum
    BY <1>1
  <2>2. 0 \in Positions
    BY <1>1 DEF Positions
  <2>3. HeroMaximum \in 0..HeroMaximum
    BY <1>1
  <2>4. QED
    BY <2>1, <2>2, <2>3 DEF HeroStates, Lives
<1>3. creature \in CreatureStates
  <2>1. (IF warded THEN Ward ELSE 2 * Ward) \in 0..CreatureMaximum
    BY <1>1
  <2>2. CreatureStart \in Positions
    BY <1>1 DEF Positions
  <2>3. CreatureMaximum \in 0..CreatureMaximum
    BY <1>1
  <2>4. QED
    BY <2>1, <2>2, <2>3 DEF CreatureStates
<1>4. NoTurn \in TurnStates
  BY DEF NoTurn, TurnStates
<1>5. NoHand \in HandStates
  BY <1>1 DEF NoHand, HandStates, Positions
<1>6. NoTransition \in TransitionStates
  BY <1>1 DEF NoTransition, TransitionStates
<1>7. FullPools(class) \in PoolStates
  BY FullPoolsFacts
<1>8. lights \in LightStates
  BY <1>1 DEF LightStates
<1>9. 0 \in Rounds
  BY <1>1 DEF Rounds
<1>10. Ready(policy, class, warded) =
           [status |-> "ready", policy |-> policy, class |-> class, first |-> "none",
            actor |-> "none", turn |-> NoTurn, sluiceOpen |-> FALSE,
            transition |-> NoTransition, hero |-> hero, creature |-> creature,
            pools |-> FullPools(class), lights |-> lights, hand |-> NoHand, sleep |-> 0,
            pending |-> "none", ward |-> FALSE, reaction |-> TRUE,
            rest |-> "none", time |-> 0, longRest |-> 0]
  BY DEF Ready
<1> HIDE DEF hero, creature, lights
<1>11. QED
  BY <1>2, <1>3, <1>4, <1>5, <1>6, <1>7, <1>8, <1>9, <1>10
     DEF States, Statuses, Nobody, PendingHits, Rests

LEMMA InitEncounterInv ==
    EncounterInit => EncounterInv
<1> SUFFICES ASSUME NEW policy \in Policies, NEW class \in Classes, NEW warded \in BOOLEAN
             PROVE  Good(Ready(policy, class, warded))
                    /\ Ready(policy, class, warded).time <= MaxTime
  BY DEF EncounterInit, EncounterInv
<1> DEFINE s == Ready(policy, class, warded)
<1>1. s \in States
  BY ReadyIsState
<1>2. /\ s.status = "ready" /\ s.class = class /\ s.turn = NoTurn /\ s.sluiceOpen = FALSE
      /\ s.hand = NoHand /\ s.sleep = 0 /\ s.pending = "none" /\ s.ward = FALSE
      /\ s.rest = "none" /\ s.time = 0 /\ s.longRest = 0 /\ s.pools = FullPools(class)
      /\ s.hero.hp = HeroMaximum /\ s.hero.life = "conscious"
      /\ s.hero.successes = 0 /\ s.hero.failures = 0
      /\ s.creature.hp = CreatureMaximum /\ s.creature.life = "conscious"
      /\ s.creature.veil = TRUE /\ s.creature.asleep = FALSE
  BY DEF Ready
<1> HIDE DEF s
<1>3. HeroMaximum \in Nat \ {0} /\ CreatureMaximum \in Nat \ {0} /\ MaxTime \in Nat
  BY EncounterAssumption
<1>4. ValidHero(s.hero)
  <2>1. s.hero.temp <= HeroMaximum
    BY <1>1, FieldTypes, HeroTypes
  <2>2. QED
    BY <1>2, <1>3, <2>1 DEF ValidHero
<1>5. ValidCreature(s)
  <2>1. s.creature.temp <= CreatureMaximum
    BY <1>1, FieldTypes, CreatureTypes
  <2>2. QED
    BY <1>2, <1>3, <2>1 DEF ValidCreature
<1>6. ValidEffects(s)
  BY <1>2 DEF ValidEffects
<1>7. PoolsFit(s)
  <2>1. /\ s.pools.slots \in Nat /\ s.pools.recovery \in Nat /\ s.pools.secondWind \in Nat
        /\ s.pools.actionSurge \in Nat /\ s.pools.hitDice \in Nat
    BY <1>1, FieldTypes, PoolTypes
  <2>2. QED
    BY <1>2, <2>1 DEF PoolsFit
<1>8. Lasting(s)
  BY <1>2 DEF Lasting
<1>9. Good(s)
  BY <1>1, <1>2, <1>4, <1>5, <1>6, <1>7, <1>8 DEF Good, Valid
<1>10. QED
  BY <1>2, <1>3, <1>9 DEF s

\* A command of the player that is accepted leads to a good state: one that is not offered
\* is refused, or does what its own checks allow.
LEMMA PlayerCommandGood ==
    ASSUME EncounterInv, NEW i \in Intents, PlayerCommand(i)
    PROVE  EncounterInv'
<1>1. /\ encounter \in States /\ Good(encounter) /\ Lasting(encounter)
      /\ ValidEffects(encounter)
  BY DEF EncounterInv, Good, Valid
<1>2. /\ PlayerControl(encounter) /\ encounter' \in Outcomes(encounter, i)
      /\ Valid(encounter') /\ encounter'.time <= MaxTime
  BY DEF PlayerCommand, Resolved
<1>3. i.kind = "move" => i.at \in Positions
  BY DEF Intents, PlainKinds
<1>4. i.kind = "endTurn" => encounter.pending = "none"
  <2> SUFFICES ASSUME i.kind = "endTurn", encounter.pending # "none"
               PROVE  FALSE
    OBVIOUS
  <2>1. OfferedOutcomes(encounter, i) = {} /\ OrdinaryOutcomes(encounter, i) = EndTurn(encounter)
    BY DEF OfferedOutcomes, OrdinaryOutcomes
  <2>2. encounter' \in EndTurn(encounter)
    BY <1>2, <2>1 DEF Outcomes, Offers
  <2>3. QED
    BY <1>1, <1>2, <2>2, PendingTurnGoesOn
<1>5. i.kind = "attack" /\ encounter.status = "active" /\ encounter.actor = "creature"
          => encounter.sleep = 0
  BY <1>1, <1>2 DEF PlayerControl, SafeBoundary, Lasting
<1>6. Good(encounter')
  BY <1>1, <1>2, <1>3, <1>4, <1>5, OutcomesGood
<1>7. QED
  BY <1>2, <1>6 DEF EncounterInv

LEMMA CreatureCommandGood ==
    ASSUME EncounterInv, CreatureCommand
    PROVE  /\ EncounterInv'
           /\ encounter.sleep > 0 => Gentle(encounter, encounter')
<1>1. encounter \in States /\ Good(encounter) /\ encounter.time <= MaxTime
  BY DEF EncounterInv, Good
<1>2. PICK i \in PolicyIntents(encounter) : encounter' \in Outcomes(encounter, i)
  BY DEF CreatureCommand, Resolved
<1>3. /\ Good(encounter') /\ encounter'.time = encounter.time
      /\ encounter.sleep > 0 => Gentle(encounter, encounter')
  BY <1>1, <1>2, PolicyGood
<1>4. QED
  BY <1>1, <1>3 DEF EncounterInv

LEMMA NextEncounterInv ==
    EncounterInv /\ [EncounterNext]_encounter => EncounterInv'
<1> SUFFICES ASSUME EncounterInv, [EncounterNext]_encounter
             PROVE  EncounterInv'
  OBVIOUS
<1>1. ASSUME NEW i \in Intents, PlayerCommand(i)
      PROVE  EncounterInv'
  BY <1>1, PlayerCommandGood
<1>2. CASE CreatureCommand
  BY <1>2, CreatureCommandGood
<1>3. CASE UNCHANGED encounter
  BY <1>3 DEF EncounterInv
<1>4. QED
  BY <1>1, <1>2, <1>3 DEF EncounterNext

LEMMA EncounterInvHolds ==
    EncounterSpec => []EncounterInv
<1>1. QED
  BY InitEncounterInv, NextEncounterInv, PTL DEF EncounterSpec

-----------------------------------------------------------------------------
(* The theorems                                                            *)

\* The state has its type: a hero's and the wight's hit points, the pools, durations and
\* positions that resolve_encounter hands back are always within their limits.
THEOREM EncounterTypes == EncounterSpec => []EncounterTypeOK
<1>1. ASSUME EncounterInv
      PROVE  EncounterTypeOK
  <2> DEFINE e == encounter
  <2>1. e \in States /\ Good(e) /\ e.time <= MaxTime
    BY <1>1 DEF EncounterInv, Good
  <2>2. /\ e.status \in Statuses /\ e.first \in Nobody /\ e.actor \in Nobody
        /\ e.lights \in LightStates /\ e.hand \in HandStates /\ e.sleep \in Rounds
        /\ e.pending \in PendingHits /\ e.rest \in Rests /\ e.time \in Nat
        /\ e.class \in Classes
    BY <2>1, FieldTypes
  <2>3. /\ e.hero.position \in Positions /\ e.creature.position \in Positions
        /\ e.hero.hp \in 0..HeroMaximum /\ e.creature.hp \in 0..CreatureMaximum
    BY <2>1, FieldTypes DEF HeroStates, CreatureStates
  <2>4. \A p \in DOMAIN e.pools : e.pools[p] \in 0..FullPools(e.class)[p]
    <3>1. PoolsFit(e) /\ e.pools \in PoolStates /\ FullPools(e.class) \in PoolStates
      BY <2>1, <2>2, FieldTypes, FullPoolsFacts DEF Good
    <3>2. DOMAIN e.pools = {"slots", "recovery", "secondWind", "actionSurge", "hitDice"}
      BY <3>1 DEF PoolStates
    <3>3. /\ e.pools.slots \in Nat /\ e.pools.recovery \in Nat /\ e.pools.secondWind \in Nat
          /\ e.pools.actionSurge \in Nat /\ e.pools.hitDice \in Nat
      BY <3>1, PoolTypes
    <3> DEFINE full == FullPools(e.class)
    <3>4. /\ full.slots \in Nat /\ full.recovery \in Nat /\ full.secondWind \in Nat
          /\ full.actionSurge \in Nat /\ full.hitDice \in Nat
      BY <3>1, PoolTypes
    <3>5. /\ e.pools.slots <= full.slots /\ e.pools.recovery <= full.recovery
          /\ e.pools.secondWind <= full.secondWind
          /\ e.pools.actionSurge <= full.actionSurge /\ e.pools.hitDice <= full.hitDice
      BY <3>1 DEF PoolsFit
    <3> HIDE DEF full, e
    <3>6. \A p \in {"slots", "recovery", "secondWind", "actionSurge", "hitDice"} :
              e.pools[p] \in 0..full[p]
      BY <3>3, <3>4, <3>5
    <3>7. QED
      BY <3>2, <3>6 DEF full
  <2>5. e.turn.movement \in 0..Higher(HeroSpeed, CreatureSpeed)
    <3>1. e.turn.movement \in Nat /\ HeroSpeed \in Nat /\ CreatureSpeed \in Nat
      BY <2>1, FieldTypes, TurnTypes, EncounterAssumption
    <3>2. CASE e.status = "active"
      <4>1. e.turn.movement <= IF e.actor = "hero" THEN HeroSpeed ELSE CreatureSpeed
        BY <2>1, <3>2, ActiveFacts DEF ValidTurn
      <4>2. QED
        BY <3>1, <4>1 DEF Higher
    <3>3. CASE e.status # "active"
      <4>1. e.turn = NoTurn
        BY <2>1, <2>2, <3>3 DEF Good, Valid, ValidEnding, Lasting, Statuses
      <4>2. QED
        BY <3>1, <4>1 DEF NoTurn, Higher
    <3>4. QED
      BY <3>2, <3>3
  <2>6. \A o \in Objects : e.lights[o] \in 0..LightRounds
    BY <2>2 DEF LightStates
  <2>7. e.hand.rounds \in 0..HandRounds /\ e.sleep \in 0..SleepRounds
    BY <2>2 DEF HandStates, Rounds
  <2>8. e.time \in 0..MaxTime
    BY <2>1, <2>2, EncounterAssumption
  <2>9. QED
    BY <2>2, <2>3, <2>4, <2>5, <2>6, <2>7, <2>8
       DEF EncounterTypeOK, Statuses, Nobody, PendingHits, Rests
<1>2. QED
  BY <1>1, EncounterInvHolds, PTL

\* Whatever legal_actions offers the player, or the policy picks for the wight, the engine
\* accepts, whatever the dice: it has an outcome, and no outcome fails validation.
THEOREM OfferedActionsAreHonoured == EncounterSpec => []OffersAreHonoured
<1>1. ASSUME EncounterInv
      PROVE  OffersAreHonoured
  <2>1. encounter \in States /\ Good(encounter)
    BY <1>1 DEF EncounterInv, Good
  <2> SUFFICES ASSUME NEW i \in PlayerOffered(encounter) \cup PolicyIntents(encounter)
               PROVE  /\ Outcomes(encounter, i) # {}
                      /\ \A t \in Outcomes(encounter, i) : Valid(t)
    BY DEF OffersAreHonoured
  <2>2. i \in Offered(encounter)
    BY <2>1, PolicyFacts DEF PlayerOffered
  <2>3. Outcomes(encounter, i) # {}
    BY <2>1, <2>2, OffersWork
  <2>4. /\ i.kind = "move" => i.at \in Positions
        /\ i.kind = "endTurn" => encounter.pending = "none"
        /\ i.kind = "attack" => (encounter.actor = "creature" => encounter.sleep = 0)
    BY <2>1, <2>2, OffersAreIntents
  <2>5. \A t \in Outcomes(encounter, i) : Good(t)
    BY <2>1, <2>4, OutcomesGood
  <2>6. QED
    BY <2>3, <2>5 DEF Good
<1>2. QED
  BY <1>1, EncounterInvHolds, PTL

\* The encounter never waits for nobody, and never for two: while it is active either the
\* player is offered something, or plan_creature_turn has exactly one thing to do.
THEOREM SomeoneAlwaysActs == EncounterSpec => []SomeoneActs
<1>1. ASSUME EncounterInv
      PROVE  SomeoneActs
  <2> DEFINE s == encounter
  <2>1. s \in States /\ Good(s)
    BY <1>1 DEF EncounterInv, Good
  <2> SUFFICES ASSUME s.status = "active"
               PROVE  IF PlayerOffered(s) = {} THEN Cardinality(PolicyIntents(s)) = 1
                      ELSE PolicyIntents(s) = {}
    BY DEF SomeoneActs
  <2>2. /\ s.actor \in Actors
        /\ s.pending # "none" => s.actor = "creature"
    BY <2>1, ActiveFacts
  <2> HIDE DEF s
  <2>3. CASE s.pending # "none"
    <3>1. Plain("decline") \in PlayerOffered(s)
      BY <2>3 DEF PlayerOffered, Offered
    <3>2. PolicyIntents(s) = {}
      <4>1. \A i \in PolicyIntents(s) : FALSE
        BY <2>1, <2>3, PolicyFacts
      <4>2. QED
        BY <4>1
    <3>3. QED
      BY <3>1, <3>2
  <2>4. CASE s.pending = "none" /\ s.actor = "creature"
    <3>1. PlayerOffered(s) = {}
      BY <2>4 DEF PlayerOffered
    <3>2. Plain("endTurn") \in Offered(s)
      BY <2>4 DEF Offered, OfferedOnTurn
    <3>3. \E i : PolicyIntents(s) = {i}
      <4> DEFINE step == MoveTo(Approach(s))
      <4> HIDE DEF step
      <4>1. PolicyIntents(s) = IF Plain("attack") \in Offered(s) THEN {Plain("attack")}
                ELSE IF step \in Offered(s) /\ From(s, step.at) < Apart(s) THEN {step}
                ELSE {Plain("endTurn")} \cap Offered(s)
        BY <2>4 DEF PolicyIntents, step
      <4>2. QED
        BY <3>2, <4>1
    <3>4. Cardinality(PolicyIntents(s)) = 1
      BY <3>3, FS_Singleton
    <3>5. QED
      BY <3>1, <3>4
  <2>5. CASE s.pending = "none" /\ s.actor = "hero"
    <3>1. PlayerOffered(s) # {}
      <4>1. CASE s.hero.life # "conscious"
        BY <2>5, <4>1 DEF PlayerOffered, Offered
      <4>2. CASE s.hero.life = "conscious"
        <5>1. Plain("endTurn") \in OfferedOnTurn(s)
          BY DEF OfferedOnTurn
        <5>2. PlayerOffered(s) = OfferedOnTurn(s)
          BY <2>5, <4>2 DEF PlayerOffered, Offered
        <5>3. QED
          BY <5>1, <5>2
      <4>3. QED
        BY <4>1, <4>2
    <3>2. PolicyIntents(s) = {}
      BY <2>5 DEF PolicyIntents
    <3>3. QED
      BY <3>1, <3>2
  <2>6. QED
    BY <2>2, <2>3, <2>4, <2>5 DEF Actors, s
<1>2. QED
  BY <1>1, EncounterInvHolds, PTL

\* A wight that sleeps neither moves nor hurts: no command of the player wakes it into an
\* attack, and the policy, which alone plays its turn, ends that turn.
THEOREM SleepersAlwaysLieStill == EncounterSpec => SleepersLieStill
<1> DEFINE Still == encounter.sleep > 0 =>
               /\ encounter'.creature.position = encounter.creature.position
               /\ encounter'.pending = "none"
               /\ encounter'.hero.hp >= encounter.hero.hp
<1>1. ASSUME EncounterInv, [EncounterNext]_encounter
      PROVE  [Still]_encounter
  <2> SUFFICES ASSUME encounter' # encounter, encounter.sleep > 0
               PROVE  Gentle(encounter, encounter') /\ encounter.pending = "none"
    BY DEF Gentle
  <2>1. /\ encounter \in States /\ Good(encounter) /\ Lasting(encounter)
        /\ Valid(encounter)
    BY <1>1 DEF EncounterInv, Good
  <2>2. encounter.pending = "none"
    BY <2>1, FieldTypes, EncounterAssumption DEF Lasting, Rounds
  <2>3. ASSUME NEW i \in Intents, PlayerCommand(i)
        PROVE  Gentle(encounter, encounter')
    <3>1. EncounterInv'
      BY <1>1, <2>3, PlayerCommandGood
    <3>2. encounter' \in States
      BY <3>1 DEF EncounterInv, Good
    <3>3. encounter' \in Outcomes(encounter, i) /\ PlayerControl(encounter)
      BY <2>3 DEF PlayerCommand, Resolved
    <3>4. encounter.status = "active" => encounter.actor = "hero"
      <4>1. encounter.status = "active" => encounter.actor \in Actors
        BY <2>1, ActiveFacts
      <4>2. QED
        BY <2>2, <3>3, <4>1 DEF PlayerControl, SafeBoundary, Actors
    <3>5. QED
      BY <2>1, <2>2, <3>2, <3>3, <3>4, OutcomesGentle
  <2>4. CASE CreatureCommand
    BY <1>1, <2>2, <2>4, CreatureCommandGood
  <2>5. QED
    BY <1>1, <2>2, <2>3, <2>4 DEF EncounterNext
<1>2. QED
  BY <1>1, EncounterInvHolds, PTL DEF EncounterSpec, SleepersLieStill
=============================================================================
