--------------------- MODULE CampaignCommandsProperties ---------------------
(***************************************************************************)
(* What holds of the commands of a campaign, and what does not.            *)
(***************************************************************************)
EXTENDS CampaignCommands

\* The variables stay within their types: no document, event, receipt or half-served
\* command of application.rs and repository.rs holds a value it cannot hold.
CommandsTypeOK ==
    /\ campaign \in [revision : Nat, sequence : Nat, sitting : Nat]
    /\ turnEvents \in Seq(TurnEvents)
    /\ receipts \subseteq Receipts
    /\ encounter \in [revision : Nat, sitting : Nat]
    /\ hero \in Heroes
    /\ heroAudits \in Seq(Commands)
    /\ sittings \in Nat
    /\ server \in [Servers -> ServerStates]
    /\ inDoubt \subseteq Transactions
    /\ told \subseteq Receipts

-----------------------------------------------------------------------------
(* A command takes effect once.                                            *)

\* Two events of a campaign, or two audits of its hero, never carry the same key:
\* reject_conflicting_receipt finds the receipt of the first.
OncePerKey ==
    /\ \A i, j \in DOMAIN turnEvents :
           turnEvents[i].command.key = turnEvents[j].command.key => i = j
    /\ \A i, j \in DOMAIN heroAudits : heroAudits[i].key = heroAudits[j].key => i = j

\* What a client was told is what the committed receipt says, whether it was told by
\* the transaction's outcome or by the receipt found on a retry.
AcknowledgedIsCommitted == told \subseteq receipts

Told(kinds) == {r \in told : r.command.kind \in kinds}

CampaignLog == INSTANCE CommandLog WITH
    log <- [i \in DOMAIN turnEvents |-> turnEvents[i].command],
    told <- Told(CampaignKinds)
HeroLog == INSTANCE CommandLog WITH
    log <- heroAudits,
    told <- Told(HeroKinds)

\* The commands of a campaign that share commit_session_event_internal behave as one
\* log of commands.
ImplementsCampaignLog == CampaignLog!LogSpec

\* So do the commands of a hero that share commit_hero_character_mutation, though
\* encounter commands advance the hero between them.
ImplementsHeroLog == HeroLog!LogSpec

-----------------------------------------------------------------------------
(* The documents agree with the log.                                       *)

\* The campaign's revision counts its events (application.rs: "every subsequent revision
\* has exactly one corresponding ordered event").
LogFollowsRevision ==
    /\ campaign.revision = Len(turnEvents) + 1
    /\ campaign.sequence = Len(turnEvents)

\* The stored events always replay: project_encounter accepts them, so a campaign is
\* never left in a state that no command can be derived from.
EventsReplay == Replays

LastEvent == turnEvents[Len(turnEvents)]

\* The encounter projection, when there is one, is the state that the last event left.
ProjectionFollowsLog ==
    encounter.revision = IF EncounterStarted THEN LastEvent.state.revision ELSE 0

\* The hero has the hit points the encounter left it with, until it gains a level.
HeroFollowsEncounter ==
    EncounterStarted /\ hero.level = LastEvent.state.level =>
        hero.hitPoints = LastEvent.state.hitPoints

Audits(kind) == {i \in DOMAIN heroAudits : heroAudits[i].kind = kind}

\* The hero holds every reward its audits say it was given, and the level they say it
\* gained: no encounter command that was derived from an older hero overwrites them.
HeroMatchesAudits ==
    /\ hero.experience = Cardinality(Audits("reward"))
    /\ hero.level = IF Audits("levelUp") = {} THEN 1 ELSE 2

-----------------------------------------------------------------------------
(* Disagreements.                                                          *)

Answers(s, reply) == ~At(s, "answered") /\ (At(s, "answered"))' /\ server'[s].reply = reply

Committed(c) == \E r \in receipts : r.command = c

\* A command that has taken effect is not told of a conflict (05-persistence.md: "Resolve
\* exact idempotency-key replay before stale-revision rejection").  It does not hold, and
\* no standing run checks it.
ReplayBeforeConflict ==
    [][\A s \in Servers : Committed(server[s].command) => ~Answers(s, "conflict")]_commandVars

\* An encounter command that has taken effect is not told that the stored state is
\* invalid (CHECKLIST.md: "Make duplicate command retries return the original committed
\* encounter result").  It does not hold, and no standing run checks it.
DuplicateGetsOriginal ==
    [][\A s \in Servers :
          server[s].command # NoCommand /\ Committed(server[s].command)
              /\ server[s].command.kind = "encounter" => ~Answers(s, "invalid")]_commandVars

\* No encounter command is refused because its encounter cannot be found
\* (08-delivery-roadmap.md: a campaign is "stopped, and resumed without operator
\* database repair").  It does not hold, and no standing run checks it: an encounter that is
\* continued in another play session is not found.
EncounterOutlivesSitting == \A s \in Servers : server[s].reply # "encounterMissing"

\* No command finds the stored state invalid (CHECKLIST.md: level-up is to "freeze
\* incompatible adventure commands without corrupting an active encounter").  It does not
\* hold, and no standing run checks it.
LevelUpKeepsEncounter == \A s \in Servers : server[s].reply # "invalid"
=============================================================================
