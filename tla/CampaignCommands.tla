-------------------------- MODULE CampaignCommands --------------------------
(***************************************************************************)
(* The commands of one campaign: social, exploration and encounter         *)
(* commands, which advance the campaign, and hero rewards and level-ups,   *)
(* which do not.  Several server processes share the database; in each, a  *)
(* mutex admits one command at a time.  Each of the reads a command does   *)
(* outside its transaction is a step of its own.  The transaction is one   *)
(* step, which may also come after its server gave up, as                  *)
(* TransactionOutcome allows.                                              *)
(***************************************************************************)
EXTENDS Integers, Sequences, FiniteSets

CONSTANTS
    Servers,        \* server processes
    Keys,           \* idempotency keys
    Kinds,          \* the kinds of command clients send
    Dice,           \* how many values a command may draw from the roll stream
    HitPoints,      \* hit points of a new hero
    NoCommand,      \* no value a command can have
    MaxRevision,    \* bound: campaign revisions
    MaxHeroRevision,    \* bound: hero revisions
    MaxSittings,    \* bound: play sessions started
    MaxInDoubt      \* bound: transactions whose commit is in doubt

CampaignKinds == {"social", "exploration", "encounter"}
HeroKinds == {"reward", "levelUp"}

ASSUME CommandsAssumption ==
    /\ Kinds \subseteq CampaignKinds \cup HeroKinds
    /\ Dice \subseteq Nat
    /\ HitPoints \in Nat
    /\ MaxRevision \in Nat /\ MaxHeroRevision \in Nat
    /\ MaxSittings \in Nat /\ MaxInDoubt \in Nat

VARIABLES
    campaign,       \* the campaign document: revision, last sequence, play session
    turnEvents,     \* the committed events, in order
    receipts,       \* what each key was answered
    encounter,      \* the encounter projection: revision, and its play session
    hero,           \* the hero document
    heroAudits,     \* the committed rewards and level-ups, in order
    sittings,       \* play sessions started so far
    server,         \* what each server holds of the command it serves
    inDoubt,        \* transactions whose server no longer waits for them
    told            \* history: the results clients were told

databaseVars == <<campaign, turnEvents, receipts, encounter, hero, heroAudits>>
commandVars == <<databaseVars, sittings, server, inDoubt, told>>

-----------------------------------------------------------------------------
(* Types.  A command is its key, kind and expected revision; the request's *)
(* fingerprint covers all but the key.                                     *)

Commands == [key : Keys, kind : Kinds, expected : Nat]
Sendable == [key : Keys, kind : Kinds, expected : 0..(MaxRevision + MaxHeroRevision)]

EncounterStates == [revision : Nat, cursor : Nat, level : {1, 2}, hitPoints : Nat]
NoEncounter == [revision |-> 0, cursor |-> 0, level |-> 1, hitPoints |-> 0]
Heroes == [revision : Nat, level : {1, 2}, hitPoints : Nat, experience : Nat]

Sessions == [revision : Nat, sequence : Nat]
NoSession == [revision |-> 0, sequence |-> 0]
NoHero == [revision |-> 0, level |-> 1, hitPoints |-> 0, experience |-> 0]

\* What a transaction would write: the event's sequence, its encounter state and the
\* cursor it rolled from, the hero as the server derived it, and the hero revision it
\* was derived from; and the play session it ran in, once that is in doubt.
Transactions == [command : Commands \cup {NoCommand}, sequence : Nat,
                 state : EncounterStates, rolledFrom : Nat,
                 successor : Heroes, derivedFrom : Nat, sitting : Nat]
NoTransaction == [command |-> NoCommand, sequence |-> 0,
                  state |-> NoEncounter, rolledFrom |-> 0,
                  successor |-> NoHero, derivedFrom |-> 0, sitting |-> 0]

TurnEvents == [command : Commands, state : EncounterStates, rolledFrom : Nat]
Receipts == [command : Commands, result : Nat]

Steps == {"idle", "hero", "receipt", "events", "validate", "prepareHero",
          "commit", "committed", "recheck", "answered"}
Replies == {"none", "done", "conflict", "keyReused", "invalid", "unavailable",
            "noSitting", "encounterMissing"}

ServerStates == [step : Steps, command : Commands \cup {NoCommand}, session : Sessions,
                 hero : Heroes, transaction : Transactions, reply : Replies]
Serving(step, command, session, copy, transaction) ==
    [step |-> step, command |-> command, session |-> session, hero |-> copy,
     transaction |-> transaction, reply |-> "none"]
Idle == Serving("idle", NoCommand, NoSession, NoHero, NoTransaction)

\* A receipt is found by its key in one of two scopes, the campaign and its hero.
SameScope(c, d) == c.kind \in HeroKinds <=> d.kind \in HeroKinds

CommandsInit ==
    /\ campaign = [revision |-> 1, sequence |-> 0, sitting |-> 0]
    /\ turnEvents = <<>>
    /\ receipts = {}
    /\ encounter = [revision |-> 0, sitting |-> 0]
    /\ hero = [revision |-> 0, level |-> 1, hitPoints |-> HitPoints, experience |-> 0]
    /\ heroAudits = <<>>
    /\ sittings = 0
    /\ server = [s \in Servers |-> Idle]
    /\ inDoubt = {}
    /\ told = {}

-----------------------------------------------------------------------------
(* The command a server serves.                                            *)

At(s, step) == server[s].step = step
Goto(s, step) == server' = [server EXCEPT ![s].step = step]

\* The command is answered; what the server held for it is gone.
Answer(s, reply) ==
    server' = [server EXCEPT ![s] =
        [step |-> "answered", command |-> NoCommand, session |-> NoSession,
         hero |-> NoHero, transaction |-> NoTransaction, reply |-> reply]]

\* The transaction is derived; what it was derived from is gone.
Derive(s, transaction, step) ==
    server' = [server EXCEPT ![s] =
        Serving(step, server[s].command, NoSession, NoHero, transaction)]

Refuse(s, reply) == Answer(s, reply) /\ UNCHANGED told

FoundByKind(c) == {r \in receipts : r.command.kind = c.kind /\ r.command.key = c.key}
FoundByFingerprint(c) == {r \in receipts : r.command = c}

Found(c) == {r \in receipts : SameScope(r.command, c) /\ r.command.key = c.key}

\* A receipt answers its own command again and refuses every other.
Replay(s, r) ==
    IF r.command = server[s].command
    THEN Answer(s, "done") /\ told' = told \cup {r}
    ELSE Refuse(s, "keyReused")

\* A client sends a command with a revision it has seen, or sends one again.  A campaign
\* command starts by reading the campaign.
Receive(s, c) ==
    /\ At(s, "idle")
    /\ \/ /\ c.kind \in CampaignKinds
          /\ c.expected < MaxRevision /\ c.expected <= campaign.revision
          /\ server' = [server EXCEPT ![s] =
                Serving(IF c.kind = "encounter" THEN "hero" ELSE "receipt", c,
                        [revision |-> campaign.revision, sequence |-> campaign.sequence],
                        NoHero, NoTransaction)]
       \/ /\ c.kind \in HeroKinds
          /\ c.expected < MaxHeroRevision /\ c.expected <= hero.revision
          /\ server' = [server EXCEPT ![s] =
                Serving("receipt", c, NoSession, NoHero, NoTransaction)]
    /\ UNCHANGED <<databaseVars, sittings, inDoubt, told>>

\* A hero without hit points has no valid combat profile: an encounter command is refused
\* before its receipt is looked for.
Fallen == hero.hitPoints = 0

LoadHero(s) ==
    /\ At(s, "hero")
    /\ \/ Fallen /\ Refuse(s, "invalid")
       \/ /\ ~Fallen
          /\ server' = [server EXCEPT ![s] =
                Serving("receipt", server[s].command, server[s].session, hero, NoTransaction)]
          /\ UNCHANGED told
    /\ UNCHANGED <<databaseVars, sittings, inDoubt>>

LookUpReceipt(s) ==
    /\ At(s, "receipt")
    /\ \/ \E r \in Found(server[s].command) : Replay(s, r)
       \/ Found(server[s].command) = {} /\ Goto(s, "events") /\ UNCHANGED told
    /\ UNCHANGED <<databaseVars, sittings, inDoubt>>

-----------------------------------------------------------------------------
(* The events of the campaign, projected.                                  *)

IsEncounter(i) == turnEvents[i].command.kind = "encounter"
EncounterStarted == \E i \in DOMAIN turnEvents : IsEncounter(i)
Explored == \E i \in DOMAIN turnEvents : turnEvents[i].command.kind = "exploration"

\* The encounter as its events leave it.  One that has not started is derived from
\* the hero, at the start of the roll stream.
Projected(h) ==
    IF EncounterStarted
    THEN turnEvents[Len(turnEvents)].state
    ELSE [revision |-> 1, cursor |-> 0, level |-> h.level, hitPoints |-> h.hitPoints]

\* The events replay: once the encounter has started it alone goes on, and each of its
\* events continues the encounter revision and the roll stream where the last one left
\* them.
Replays ==
    \A i \in DOMAIN turnEvents :
        /\ turnEvents[i].command.expected = i
        /\ IsEncounter(i) => \E j \in 1..(i - 1) : turnEvents[j].command.kind = "exploration"
        /\ i > 1 /\ IsEncounter(i - 1) =>
            /\ IsEncounter(i)
            /\ turnEvents[i].state.revision = turnEvents[i - 1].state.revision + 1
            /\ turnEvents[i].rolledFrom = turnEvents[i - 1].state.cursor
            /\ turnEvents[i].state.level = turnEvents[i - 1].state.level

Profile(x) == <<x.level, x.hitPoints>>

Stale(s) == server[s].command.expected # server[s].session.revision

\* The session was read before an event that is now listed.
TornRead(s) == Len(turnEvents) # server[s].session.sequence

AvailableAnytime(c) == c.kind = "encounter" => Explored

\* The meeting comes first, then the exploration, then the encounter.
Available(c) ==
    /\ c.kind = "social" => turnEvents = <<>>
    /\ c.kind = "exploration" => ~EncounterStarted
    /\ c.kind = "encounter" => Explored

\* The stored events replay and the hero is as the encounter left it.
Playable(s) == Replays /\ Profile(server[s].hero) = Profile(Projected(server[s].hero))

\* The checks in the order of the code: a stale encounter command is found last.
Refusal(s) ==
    IF server[s].command.kind # "encounter" /\ Stale(s) THEN "conflict"
    ELSE IF TornRead(s) THEN "invalid"
    ELSE IF ~Available(server[s].command) THEN "unavailable"
    ELSE IF server[s].command.kind = "encounter" /\ ~Playable(s) THEN "invalid"
    ELSE IF Stale(s) THEN "conflict"
    ELSE "none"

\* The hit points that a command may cost the hero: none when it starts the encounter,
\* and never more than are left.
Losses(s) ==
    {lost \in 0..(HitPoints + 1) :
        lost > 0 => EncounterStarted /\ lost <= server[s].hero.hitPoints}

\* A command that rolls from the stream at its cursor, and may cost the hero a hit
\* point; the hero's copy is advanced only if something changed.
EncounterOutcome(s, rolled, lost) ==
    LET before == Projected(server[s].hero)
        old == server[s].hero
    IN  [command |-> server[s].command,
         sequence |-> server[s].session.sequence + 1,
         state |-> [revision |-> before.revision + 1, cursor |-> before.cursor + rolled,
                    level |-> before.level, hitPoints |-> before.hitPoints - lost],
         rolledFrom |-> before.cursor,
         successor |-> IF lost = 0 THEN old
                       ELSE [revision |-> old.revision + 1, level |-> old.level,
                             hitPoints |-> old.hitPoints - lost,
                             experience |-> old.experience],
         derivedFrom |-> old.revision,
         sitting |-> 0]

\* A social or exploration command only appends its event.
PlainOutcome(s) ==
    [command |-> server[s].command, sequence |-> server[s].session.sequence + 1,
     state |-> NoEncounter, rolledFrom |-> 0,
     successor |-> NoHero, derivedFrom |-> 0, sitting |-> 0]

ListEvents(s) ==
    LET c == server[s].command
    IN  /\ At(s, "events") /\ c.kind \in CampaignKinds
        /\ \/ Refusal(s) # "none" /\ Refuse(s, Refusal(s))
           \/ /\ Refusal(s) = "none" /\ c.kind = "encounter"
              /\ \E rolled \in Dice, lost \in Losses(s) :
                     Derive(s, EncounterOutcome(s, rolled, lost), "validate")
              /\ UNCHANGED told
           \/ /\ Refusal(s) = "none" /\ c.kind # "encounter"
              /\ Derive(s, PlainOutcome(s), "validate")
              /\ UNCHANGED told
        /\ UNCHANGED <<databaseVars, sittings, inDoubt>>

\* Two major rewards are what a supported hero can hold; one makes a hero of level one
\* eligible for level two.
Eligible(kind) ==
    /\ kind = "reward" => hero.experience < 2
    /\ kind = "levelUp" => hero.level = 1 /\ hero.experience > 0

Rewarded == [revision |-> hero.revision + 1, level |-> hero.level,
             hitPoints |-> hero.hitPoints, experience |-> hero.experience + 1]
LeveledUp == [revision |-> hero.revision + 1, level |-> 2,
              hitPoints |-> hero.hitPoints + 1, experience |-> hero.experience]

HeroOutcome(c) ==
    [command |-> c, sequence |-> 0, state |-> NoEncounter, rolledFrom |-> 0,
     successor |-> IF c.kind = "reward" THEN Rewarded ELSE LeveledUp,
     derivedFrom |-> hero.revision, sitting |-> 0]

AdvanceHero(s) ==
    LET c == server[s].command
    IN  /\ At(s, "events") /\ c.kind \in HeroKinds
        /\ \/ c.expected # hero.revision /\ Refuse(s, "conflict")
           \/ c.expected = hero.revision /\ ~Eligible(c.kind) /\ Refuse(s, "unavailable")
           \/ /\ c.expected = hero.revision /\ Eligible(c.kind)
              /\ Derive(s, HeroOutcome(c), "prepareHero")
              /\ UNCHANGED told
        /\ UNCHANGED <<databaseVars, sittings, inDoubt>>

-----------------------------------------------------------------------------
(* The checks before the transaction, and the transaction.                 *)

\* The campaign is read again; a social or exploration command that is now stale is
\* refused, an encounter command looks for its receipt once more.
PreValidate(s) ==
    LET c == server[s].command
        fresh == campaign.revision = c.expected
    IN  /\ At(s, "validate")
        /\ \/ ~fresh /\ c.kind # "encounter" /\ Refuse(s, "conflict")
           \/ ~fresh /\ c.kind = "encounter" /\ Goto(s, "recheck") /\ UNCHANGED told
           \/ fresh /\ c.kind # "encounter" /\ Goto(s, "commit") /\ UNCHANGED told
           \/ fresh /\ c.kind = "encounter" /\ Goto(s, "prepareHero") /\ UNCHANGED told
        /\ UNCHANGED <<databaseVars, sittings, inDoubt>>

\* So is the hero.
PrepareHero(s) ==
    /\ At(s, "prepareHero")
    /\ Goto(s, IF hero.revision = server[s].transaction.derivedFrom THEN "commit"
               ELSE "recheck")
    /\ UNCHANGED <<databaseVars, sittings, inDoubt, told>>

OfCampaign(t) == t.command.kind \in CampaignKinds
OfEncounter(t) == t.command.kind = "encounter"

WritesHeroByHeroCommand(t) == t.command.kind \in HeroKinds

\* The hero document is compared and replaced as a whole, unless the encounter command
\* left the hero as it was.
WritesHero(t) ==
    \/ t.command.kind \in HeroKinds
    \/ OfEncounter(t) /\ t.successor.revision # t.derivedFrom

\* The projection of the encounter belongs to the play session that created it.
Projection == IF encounter.sitting = campaign.sitting THEN encounter.revision ELSE 0

ProjectionAfterCreation(t) ==
    IF OfEncounter(t) /\ encounter.revision = 0
    THEN [revision |-> t.state.revision, sitting |-> campaign.sitting]
    ELSE encounter

ProjectionAfter(t) ==
    IF OfEncounter(t) THEN [revision |-> t.state.revision, sitting |-> campaign.sitting]
    ELSE encounter

\* The receipts that the transaction itself sees under its key.
Recorded(t) == Found(t.command)

StaleCampaignIgnored(t) == FALSE

\* A document is written only at the revision that the command expects or was derived
\* from.
StaleCampaign(t) == OfCampaign(t) /\ campaign.revision # t.command.expected

StaleHeroByHeroCommand(t) == ~OfCampaign(t) /\ hero.revision # t.derivedFrom

StaleHero(t) == WritesHero(t) /\ hero.revision # t.derivedFrom

StaleProjection(t) == OfEncounter(t) /\ Projection \notin {0, t.state.revision - 1}

\* What a transaction finds to object to, in the order it looks.
Objection(t) ==
    IF OfCampaign(t) /\ campaign.sitting = 0 THEN "noSitting"
    ELSE IF \E r \in Recorded(t) : r.command # t.command THEN "keyReused"
    ELSE IF Recorded(t) # {} THEN "done"
    ELSE IF StaleCampaign(t) \/ StaleHero(t) \/ StaleProjection(t) THEN "conflict"
    ELSE IF OfEncounter(t) /\ Projection = 0 /\ t.state.revision # 2 THEN "encounterMissing"
    ELSE "none"

Receipt(t) ==
    [command |-> t.command,
     result |-> IF OfCampaign(t) THEN t.command.expected + 1 ELSE t.successor.revision]

\* Everything the transaction writes.
Installs(t) ==
    /\ receipts' = receipts \cup {Receipt(t)}
    /\ IF OfCampaign(t)
       THEN /\ campaign' = [revision |-> campaign.revision + 1, sequence |-> t.sequence,
                           sitting |-> campaign.sitting]
            /\ turnEvents' = Append(turnEvents, [command |-> t.command, state |-> t.state,
                                                 rolledFrom |-> t.rolledFrom])
            /\ UNCHANGED heroAudits
       ELSE /\ heroAudits' = Append(heroAudits, t.command)
            /\ UNCHANGED <<campaign, turnEvents>>
    /\ hero' = IF WritesHero(t) THEN t.successor ELSE hero
    /\ encounter' = ProjectionAfter(t)

Commit(s) ==
    /\ At(s, "commit")
    /\ Objection(server[s].transaction) = "none"
    /\ Installs(server[s].transaction)
    /\ Goto(s, "committed")
    /\ UNCHANGED <<sittings, inDoubt, told>>

\* The transaction aborts.  A command that was already done looks for its receipt, and
\* so does an encounter or hero command that found something stale.
Abort(s) ==
    LET t == server[s].transaction
        objection == Objection(t)
    IN  /\ At(s, "commit") /\ objection # "none"
        /\ IF \/ objection = "done"
              \/ objection = "conflict" /\ (OfEncounter(t) \/ ~OfCampaign(t))
           THEN Goto(s, "recheck")
           ELSE Answer(s, objection)
        /\ UNCHANGED <<databaseVars, sittings, inDoubt, told>>

Recheck(s) ==
    /\ At(s, "recheck")
    /\ \/ \E r \in Found(server[s].command) : Replay(s, r)
       \/ Found(server[s].command) = {} /\ Refuse(s, "conflict")
    /\ UNCHANGED <<databaseVars, sittings, inDoubt>>

Acknowledge(s) ==
    /\ At(s, "committed")
    /\ Answer(s, "done")
    /\ told' = told \cup {Receipt(server[s].transaction)}
    /\ UNCHANGED <<databaseVars, sittings, inDoubt>>

-----------------------------------------------------------------------------
(* Commits in doubt, interrupted requests and play sessions.               *)

LeaveInDoubtAsDone(s) ==
    /\ At(s, "commit") /\ Cardinality(inDoubt) < MaxInDoubt
    /\ Objection(server[s].transaction) = "none"
    /\ inDoubt' = inDoubt \cup {[server[s].transaction EXCEPT !.sitting = campaign.sitting]}
    /\ Goto(s, "committed")
    /\ UNCHANGED <<databaseVars, sittings, told>>

\* The deadline passes while the database has been asked to commit: the client is told
\* of an error.
LeaveInDoubt(s) ==
    /\ At(s, "commit") /\ Cardinality(inDoubt) < MaxInDoubt
    /\ Objection(server[s].transaction) = "none"
    /\ inDoubt' = inDoubt \cup {[server[s].transaction EXCEPT !.sitting = campaign.sitting]}
    /\ server' = [server EXCEPT ![s] = Idle]
    /\ UNCHANGED <<databaseVars, sittings, told>>

\* It may take effect later, unless something it read or wrote has changed, or be
\* dropped.
LateCommit(t) ==
    /\ Objection(t) = "none"
    /\ OfCampaign(t) => campaign.sitting = t.sitting
    /\ Installs(t)
    /\ inDoubt' = inDoubt \ {t}
    /\ UNCHANGED <<sittings, server, told>>

Discard(t) ==
    /\ inDoubt' = inDoubt \ {t}
    /\ UNCHANGED <<databaseVars, sittings, server, told>>

\* The process stops or the request is dropped, between any two steps.
Interrupt(s) ==
    /\ ~At(s, "idle") /\ ~At(s, "answered")
    /\ server' = [server EXCEPT ![s] = Idle]
    /\ UNCHANGED <<databaseVars, sittings, inDoubt, told>>

Done(s) ==
    /\ At(s, "answered")
    /\ server' = [server EXCEPT ![s] = Idle]
    /\ UNCHANGED <<databaseVars, sittings, inDoubt, told>>

StartSitting ==
    /\ campaign.sitting = 0 /\ sittings < MaxSittings
    /\ sittings' = sittings + 1
    /\ campaign' = [campaign EXCEPT !.sitting = sittings + 1]
    /\ UNCHANGED <<turnEvents, receipts, encounter, hero, heroAudits, server, inDoubt, told>>

EndSitting ==
    /\ campaign.sitting # 0
    /\ campaign' = [campaign EXCEPT !.sitting = 0]
    /\ UNCHANGED <<turnEvents, receipts, encounter, hero, heroAudits, sittings, server,
                   inDoubt, told>>

ServerStep(s) ==
    \/ \E c \in Sendable : Receive(s, c)
    \/ LoadHero(s) \/ LookUpReceipt(s)
    \/ ListEvents(s) \/ AdvanceHero(s) \/ PreValidate(s) \/ PrepareHero(s)
    \/ Commit(s) \/ Abort(s) \/ Recheck(s) \/ Acknowledge(s)
    \/ LeaveInDoubt(s) \/ Interrupt(s) \/ Done(s)

CommandsNext ==
    \/ \E s \in Servers : ServerStep(s)
    \/ \E t \in inDoubt : LateCommit(t) \/ Discard(t)
    \/ StartSitting \/ EndSitting

CommandsSpec == CommandsInit /\ [][CommandsNext]_commandVars
=============================================================================
