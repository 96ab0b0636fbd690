----------------------- MODULE CampaignCommands_proofs -----------------------
(***************************************************************************)
(* Proofs about the commands of a campaign, for every set of servers, keys *)
(* and kinds of command and every bound.                                   *)
(***************************************************************************)
EXTENDS CampaignCommandsProperties, FiniteSetTheorems, TLAPS

(***************************************************************************)
(* The database.  Every event and audit has its receipt, every receipt its *)
(* event or audit, and each took effect on the revision it expected.       *)
(***************************************************************************)
DatabaseTypes ==
    /\ campaign \in [revision : Nat, sequence : Nat, sitting : Nat]
    /\ turnEvents \in Seq(TurnEvents)
    /\ receipts \subseteq Receipts
    /\ encounter \in [revision : Nat, sitting : Nat]
    /\ hero \in Heroes
    /\ heroAudits \in Seq(Commands)

Receipted(c) == \E r \in receipts : r.command = c

EventsLogged ==
    \A i \in DOMAIN turnEvents :
        /\ turnEvents[i].command.kind \in CampaignKinds
        /\ turnEvents[i].command.expected = i
        /\ Receipted(turnEvents[i].command)

AuditsLogged ==
    /\ \A i \in DOMAIN heroAudits :
           /\ heroAudits[i].kind \in HeroKinds
           /\ heroAudits[i].expected < hero.revision
           /\ Receipted(heroAudits[i])
    /\ \A i, j \in DOMAIN heroAudits :
           i < j => heroAudits[i].expected < heroAudits[j].expected

ReceiptsLogged ==
    \A r \in receipts :
        /\ r.result = r.command.expected + 1
        /\ \/ \E i \in DOMAIN turnEvents : turnEvents[i].command = r.command
           \/ \E i \in DOMAIN heroAudits : heroAudits[i] = r.command

DatabaseInv ==
    /\ DatabaseTypes
    /\ EventsLogged /\ AuditsLogged /\ ReceiptsLogged
    /\ OncePerKey /\ LogFollowsRevision

(***************************************************************************)
(* A copy of the hero, or a change to it, is out of date or derived from   *)
(* the hero as it is: its revision tells which.                            *)
(***************************************************************************)
CopyOfHero(h) ==
    /\ h.revision <= hero.revision
    /\ h.revision = hero.revision => h = hero

SucceedsHero(t) ==
    /\ OfEncounter(t) => t.successor.level = hero.level
                         /\ t.successor.experience = hero.experience
    /\ t.command.kind = "reward" => t.successor.level = hero.level
                                    /\ t.successor.experience = hero.experience + 1
    /\ t.command.kind = "levelUp" => t.successor.level = 2
                                     /\ t.successor.experience = hero.experience

Derived(t) ==
    /\ t.command \in Commands
    /\ OfCampaign(t) => t.sequence = t.command.expected
    /\ ~OfCampaign(t) => t.derivedFrom = t.command.expected
    /\ WritesHero(t) =>
           /\ t.successor.revision = t.derivedFrom + 1
           /\ t.derivedFrom <= hero.revision
           /\ t.derivedFrom = hero.revision => SucceedsHero(t)

Working == {"hero", "receipt", "events", "validate", "prepareHero", "commit", "committed",
            "recheck"}

Holds(s) ==
    LET held == server[s]
    IN  /\ held.step \in Working => held.command \in Commands
        /\ held.step = "hero" => held.command.kind = "encounter"
        /\ held.step \in {"hero", "receipt", "events"} /\ held.command.kind \in CampaignKinds
               => held.session.revision = held.session.sequence + 1
        /\ held.step \in {"receipt", "events"} /\ held.command.kind = "encounter"
               => CopyOfHero(held.hero)
        /\ held.step \in {"validate", "prepareHero", "commit"} => Derived(held.transaction)
        /\ held.step = "committed" => Receipt(held.transaction) \in receipts

CommandsInv ==
    /\ DatabaseInv
    /\ sittings \in Nat
    /\ server \in [Servers -> ServerStates]
    /\ \A s \in Servers : Holds(s)
    /\ inDoubt \subseteq Transactions
    /\ \A t \in inDoubt : Derived(t)
    /\ told \subseteq receipts
-----------------------------------------------------------------------------
(* What one transaction does to the database.                              *)

LEMMA Kinded ==
    ASSUME NEW c \in Commands
    PROVE  /\ c.key \in Keys /\ c.expected \in Nat
           /\ c.kind \in CampaignKinds <=> c.kind \notin HeroKinds
BY CommandsAssumption DEF Commands, CampaignKinds, HeroKinds

LEMMA NoObjection ==
    ASSUME NEW t, Objection(t) = "none"
    PROVE  Found(t.command) = {} /\ ~StaleCampaign(t) /\ ~StaleHero(t)
BY DEF Objection, Recorded

(***************************************************************************)
(* The hero document is replaced by one of the next revision, or kept.     *)
(***************************************************************************)
LEMMA InstalledHero ==
    ASSUME DatabaseTypes, NEW t \in Transactions, Derived(t), Objection(t) = "none", Installs(t)
    PROVE  /\ hero' \in Heroes
           /\ WritesHero(t) => /\ hero' = t.successor /\ SucceedsHero(t)
                               /\ t.derivedFrom = hero.revision
                               /\ hero'.revision = hero.revision + 1
           /\ ~WritesHero(t) => hero' = hero
<1>1. t.successor \in Heroes /\ hero \in Heroes
  BY DEF DatabaseTypes, Transactions
<1>2. t.derivedFrom \in Nat /\ hero.revision \in Nat
  BY <1>1 DEF Transactions, Heroes
<1>3. WritesHero(t) => t.derivedFrom = hero.revision
  BY NoObjection DEF StaleHero
<1>4. hero' = IF WritesHero(t) THEN t.successor ELSE hero
  BY DEF Installs
<1>5. QED
  BY <1>1, <1>2, <1>3, <1>4 DEF Derived

LEMMA InstalledReceipt ==
    ASSUME NEW t \in Transactions, Derived(t)
    PROVE  Receipt(t) \in Receipts /\ Receipt(t).command = t.command
           /\ Receipt(t).result = t.command.expected + 1
<1>1. t.command \in Commands /\ t.command.expected \in Nat
  BY Kinded DEF Derived
<1>2. ~OfCampaign(t) => t.successor.revision = t.command.expected + 1
  BY <1>1, Kinded DEF Derived, WritesHero, OfCampaign
<1>3. Receipt(t).result = t.command.expected + 1
  BY <1>2 DEF Receipt
<1>4. QED
  BY <1>1, <1>3 DEF Receipt, Receipts

LEMMA InstallsEvent ==
    ASSUME DatabaseInv, NEW t \in Transactions, Derived(t), Objection(t) = "none", Installs(t),
           OfCampaign(t)
    PROVE  DatabaseInv'
<1> DEFINE e == [command |-> t.command, state |-> t.state, rolledFrom |-> t.rolledFrom]
           n == Len(turnEvents) + 1
<1>1. /\ t.command \in Commands /\ t.command.expected \in Nat /\ t.command.key \in Keys
      /\ t.command.kind \in CampaignKinds /\ t.command.kind \notin HeroKinds
  BY Kinded DEF Derived, OfCampaign
<1>2. e \in TurnEvents /\ t.sequence = t.command.expected
  BY <1>1 DEF TurnEvents, Transactions, Derived
<1>3. /\ turnEvents' = Append(turnEvents, e) /\ heroAudits' = heroAudits
      /\ receipts' = receipts \cup {Receipt(t)}
      /\ campaign' = [revision |-> campaign.revision + 1, sequence |-> t.sequence,
                      sitting |-> campaign.sitting]
      /\ encounter' = ProjectionAfter(t)
  BY DEF Installs
<1>4. /\ turnEvents \in Seq(TurnEvents) /\ n \in Nat /\ n > 0
      /\ campaign \in [revision : Nat, sequence : Nat, sitting : Nat]
      /\ campaign.revision = n /\ t.command.expected = n
  BY <1>1, NoObjection DEF DatabaseInv, DatabaseTypes, LogFollowsRevision, StaleCampaign
<1>5. /\ DOMAIN turnEvents' = 1..n /\ DOMAIN turnEvents = 1..(n - 1)
      /\ turnEvents' \in Seq(TurnEvents) /\ Len(turnEvents') = n
      /\ turnEvents'[n] = e /\ \A i \in 1..(n - 1) : turnEvents'[i] = turnEvents[i]
  BY <1>2, <1>3, <1>4
<1>6. Receipt(t) \in Receipts /\ Receipt(t).command = t.command
      /\ Receipt(t).result = t.command.expected + 1
  BY InstalledReceipt
<1>7. hero' \in Heroes /\ hero'.revision \in Nat /\ hero.revision \in Nat
      /\ hero.revision <= hero'.revision
  BY InstalledHero DEF DatabaseInv, DatabaseTypes, Heroes
<1>8. DatabaseTypes'
  <2>1. encounter' \in [revision : Nat, sitting : Nat]
    BY <1>3, <1>4 DEF ProjectionAfter, DatabaseInv, DatabaseTypes, Transactions, EncounterStates
  <2>2. campaign' \in [revision : Nat, sequence : Nat, sitting : Nat]
    BY <1>1, <1>2, <1>3, <1>4
  <2>3. QED
    BY <2>1, <2>2, <1>3, <1>5, <1>6, <1>7 DEF DatabaseInv, DatabaseTypes
<1>9. \A c : Receipted(c) => Receipted(c)'
  BY <1>3 DEF Receipted
<1>10. EventsLogged'
  <2>1. Receipted(e.command)'
    BY <1>3, <1>6 DEF Receipted
  <2>2. e.command.kind \in CampaignKinds /\ e.command.expected = n
    BY <1>1, <1>4
  <2>3. QED
    BY <2>1, <2>2, <1>5, <1>9 DEF EventsLogged, DatabaseInv
<1>11. AuditsLogged'
  <2>1. heroAudits \in Seq(Commands) /\ \A i \in DOMAIN heroAudits : heroAudits[i].expected \in Nat
    BY Kinded DEF DatabaseInv, DatabaseTypes
  <2>2. QED
    BY <2>1, <1>3, <1>7, <1>9 DEF AuditsLogged, DatabaseInv
<1>12. ReceiptsLogged'
  BY <1>3, <1>5, <1>6 DEF ReceiptsLogged, DatabaseInv
<1>13. OncePerKey'
  <2>1. \A i \in 1..(n - 1) : turnEvents[i].command.key # t.command.key
    <3>1. SUFFICES ASSUME NEW i \in 1..(n - 1), turnEvents[i].command.key = t.command.key
                   PROVE  FALSE
      OBVIOUS
    <3>2. PICK r \in receipts : r.command = turnEvents[i].command
      BY <1>5 DEF DatabaseInv, EventsLogged, Receipted
    <3>3. r.command.kind \notin HeroKinds
      BY <3>2, <1>5 DEF DatabaseInv, EventsLogged, CampaignKinds, HeroKinds
    <3>4. r \in Found(t.command)
      BY <3>1, <3>2, <3>3, <1>1 DEF Found, SameScope
    <3>5. QED
      BY <3>4, NoObjection
  <2>2. QED
    BY <2>1, <1>3, <1>5 DEF OncePerKey, DatabaseInv
<1>14. LogFollowsRevision'
  BY <1>2, <1>3, <1>4, <1>5 DEF LogFollowsRevision
<1>15. QED
  BY <1>8, <1>10, <1>11, <1>12, <1>13, <1>14 DEF DatabaseInv

LEMMA InstallsAudit ==
    ASSUME DatabaseInv, NEW t \in Transactions, Derived(t), Objection(t) = "none", Installs(t),
           ~OfCampaign(t)
    PROVE  DatabaseInv'
<1> DEFINE n == Len(heroAudits) + 1
<1>1. /\ t.command \in Commands /\ t.command.expected \in Nat /\ t.command.key \in Keys
      /\ t.command.kind \in HeroKinds /\ t.command.kind \notin CampaignKinds
  BY Kinded DEF Derived, OfCampaign
<1>2. /\ heroAudits' = Append(heroAudits, t.command) /\ turnEvents' = turnEvents
      /\ receipts' = receipts \cup {Receipt(t)}
      /\ campaign' = campaign /\ encounter' = encounter
  BY <1>1 DEF Installs, ProjectionAfter, OfEncounter, OfCampaign, HeroKinds
<1>3. /\ heroAudits \in Seq(Commands) /\ n \in Nat /\ n > 0
  BY DEF DatabaseInv, DatabaseTypes
<1>4. /\ DOMAIN heroAudits' = 1..n /\ DOMAIN heroAudits = 1..(n - 1)
      /\ heroAudits' \in Seq(Commands) /\ Len(heroAudits') = n
      /\ heroAudits'[n] = t.command /\ \A i \in 1..(n - 1) : heroAudits'[i] = heroAudits[i]
  BY <1>1, <1>2, <1>3
<1>5. Receipt(t) \in Receipts /\ Receipt(t).command = t.command
      /\ Receipt(t).result = t.command.expected + 1
  BY InstalledReceipt
<1>6. /\ hero' \in Heroes /\ hero.revision \in Nat
      /\ hero'.revision = hero.revision + 1 /\ hero.revision = t.command.expected
  BY <1>1, InstalledHero DEF DatabaseInv, DatabaseTypes, Heroes, WritesHero, Derived, OfCampaign
<1>7. DatabaseTypes'
  BY <1>2, <1>4, <1>5, <1>6 DEF DatabaseInv, DatabaseTypes
<1>8. \A c : Receipted(c) => \E r \in receipts' : r.command = c
  BY <1>2 DEF Receipted
<1>9. \E r \in receipts' : r.command = t.command
  BY <1>2, <1>5
<1>10. EventsLogged'
  BY <1>2, <1>8 DEF EventsLogged, DatabaseInv, Receipted
<1>11. AuditsLogged'
  <2>1. \A i \in 1..(n - 1) : heroAudits[i].expected \in Nat
    BY <1>3, <1>4, Kinded
  <2>2. \A i \in 1..(n - 1) :
           /\ heroAudits[i].kind \in HeroKinds /\ heroAudits[i].expected < hero.revision
           /\ \E r \in receipts' : r.command = heroAudits[i]
    BY <1>4, <1>8 DEF AuditsLogged, DatabaseInv
  <2>3. \A i \in 1..n :
           /\ heroAudits'[i].kind \in HeroKinds /\ heroAudits'[i].expected < hero'.revision
           /\ \E r \in receipts' : r.command = heroAudits'[i]
    <3> SUFFICES ASSUME NEW i \in 1..n
                 PROVE  /\ heroAudits'[i].kind \in HeroKinds
                        /\ heroAudits'[i].expected < hero'.revision
                        /\ \E r \in receipts' : r.command = heroAudits'[i]
      OBVIOUS
    <3>1. CASE i = n
      BY <3>1, <1>1, <1>4, <1>6, <1>9
    <3>2. CASE i \in 1..(n - 1)
      <4>1. heroAudits'[i] = heroAudits[i]
        BY <3>2, <1>4
      <4>2. QED
        BY <4>1, <3>2, <2>1, <2>2, <1>6
    <3>3. QED
      BY <3>1, <3>2, <1>3
  <2>4. \A i, j \in 1..n : i < j => heroAudits'[i].expected < heroAudits'[j].expected
    <3> SUFFICES ASSUME NEW i \in 1..n, NEW j \in 1..n, i < j
                 PROVE  heroAudits'[i].expected < heroAudits'[j].expected
      OBVIOUS
    <3>1. i \in 1..(n - 1) /\ heroAudits'[i] = heroAudits[i]
      BY <1>3, <1>4
    <3>2. CASE j = n
      BY <3>1, <3>2, <2>2, <1>4, <1>6
    <3>3. CASE j \in 1..(n - 1)
      BY <3>1, <3>3, <1>4 DEF AuditsLogged, DatabaseInv
    <3>4. QED
      BY <3>2, <3>3, <1>3
  <2>5. QED
    BY <2>3, <2>4, <1>4 DEF AuditsLogged, Receipted
<1>12. ReceiptsLogged'
  BY <1>2, <1>3, <1>4, <1>5 DEF ReceiptsLogged, DatabaseInv
<1>13. OncePerKey'
  <2>1. \A i \in 1..(n - 1) : heroAudits[i].key # t.command.key
    <3>1. SUFFICES ASSUME NEW i \in 1..(n - 1), heroAudits[i].key = t.command.key
                   PROVE  FALSE
      OBVIOUS
    <3>2. PICK r \in receipts : r.command = heroAudits[i]
      BY <1>4 DEF DatabaseInv, AuditsLogged, Receipted
    <3>3. r.command.kind \in HeroKinds
      BY <3>2, <1>4 DEF DatabaseInv, AuditsLogged
    <3>4. r \in Found(t.command)
      BY <3>1, <3>2, <3>3, <1>1 DEF Found, SameScope
    <3>5. QED
      BY <3>4, NoObjection
  <2>2. QED
    BY <2>1, <1>2, <1>4 DEF OncePerKey, DatabaseInv
<1>14. LogFollowsRevision'
  BY <1>2 DEF LogFollowsRevision, DatabaseInv
<1>15. QED
  BY <1>7, <1>10, <1>11, <1>12, <1>13, <1>14 DEF DatabaseInv

(***************************************************************************)
(* A copy that was out of date stays so, and one that was not becomes so   *)
(* when the hero is replaced.                                              *)
(***************************************************************************)
HeroKept == hero' = hero \/ hero'.revision = hero.revision + 1

LEMMA HeldSurvives ==
    ASSUME hero.revision \in Nat, HeroKept
    PROVE  /\ \A h \in Heroes : CopyOfHero(h) => CopyOfHero(h)'
           /\ \A t \in Transactions : Derived(t) => Derived(t)'
<1>1. ASSUME NEW h \in Heroes, CopyOfHero(h) PROVE CopyOfHero(h)'
  BY <1>1 DEF CopyOfHero, HeroKept, Heroes
<1>2. ASSUME NEW t \in Transactions, Derived(t) PROVE Derived(t)'
  <2>1. t.derivedFrom \in Nat
    BY DEF Transactions
  <2>2. SucceedsHero(t) /\ hero' = hero => SucceedsHero(t)'
    BY DEF SucceedsHero, OfEncounter
  <2>3. QED
    BY <1>2, <2>1, <2>2 DEF Derived, HeroKept, OfCampaign, WritesHero, OfEncounter
<1>3. QED
  BY <1>1, <1>2

LEMMA InstallsKeeps ==
    ASSUME DatabaseInv, NEW t \in Transactions, Derived(t), Objection(t) = "none", Installs(t)
    PROVE  DatabaseInv' /\ HeroKept /\ receipts' = receipts \cup {Receipt(t)}
<1>1. DatabaseInv'
  BY InstallsEvent, InstallsAudit
<1>2. HeroKept
  BY InstalledHero DEF DatabaseInv, HeroKept
<1>3. QED
  BY <1>1, <1>2 DEF Installs

-----------------------------------------------------------------------------
(* What one step of a server does to what it holds.                        *)

LEMMA IdleTypes ==
    /\ NoSession \in Sessions /\ NoHero \in Heroes /\ NoEncounter \in EncounterStates
    /\ NoTransaction \in Transactions /\ Idle \in ServerStates
<1>1. NoSession \in Sessions /\ NoHero \in Heroes /\ NoEncounter \in EncounterStates
  BY DEF NoSession, Sessions, NoHero, Heroes, NoEncounter, EncounterStates
<1>2. NoTransaction \in Transactions
  BY <1>1 DEF NoTransaction, Transactions
<1>3. QED
  BY <1>1, <1>2 DEF Idle, Serving, ServerStates, Steps, Replies

(***************************************************************************)
(* A step of one server that leaves the database alone leaves alone what   *)
(* the others hold.                                                        *)
(***************************************************************************)
LEMMA ServerChanges ==
    ASSUME CommandsInv, NEW s \in Servers, NEW v \in ServerStates,
           server' = [server EXCEPT ![s] = v], Holds(s)',
           UNCHANGED <<databaseVars, sittings, inDoubt>>, told' \subseteq receipts
    PROVE  CommandsInv'
<1>1. DatabaseInv'
  BY DEF CommandsInv, databaseVars, DatabaseInv, DatabaseTypes, EventsLogged, AuditsLogged,
     ReceiptsLogged, OncePerKey, LogFollowsRevision, Receipted
<1>2. server' \in [Servers -> ServerStates]
  BY DEF CommandsInv
<1>3. ASSUME NEW r \in Servers PROVE Holds(r)'
  <2>1. CASE r = s
    BY <2>1
  <2>2. CASE r # s
    <3>1. server'[r] = server[r] /\ Holds(r)
      BY <2>2 DEF CommandsInv
    <3>2. QED
      BY <3>1 DEF Holds, databaseVars, CopyOfHero, Derived, SucceedsHero, WritesHero, OfEncounter,
         OfCampaign, Receipt
  <2>3. QED
    BY <2>1, <2>2
<1>4. \A t \in inDoubt' : Derived(t)'
  BY DEF CommandsInv, databaseVars, Derived, SucceedsHero, WritesHero, OfEncounter, OfCampaign
<1>5. QED
  BY <1>1, <1>2, <1>3, <1>4 DEF CommandsInv, databaseVars

LEMMA AnswerKeeps ==
    ASSUME CommandsInv, NEW s \in Servers, NEW reply \in Replies, Answer(s, reply),
           UNCHANGED <<databaseVars, sittings, inDoubt>>, told' \subseteq receipts
    PROVE  CommandsInv'
<1> DEFINE v == [step |-> "answered", command |-> NoCommand, session |-> NoSession,
                 hero |-> NoHero, transaction |-> NoTransaction, reply |-> reply]
<1>1. v \in ServerStates
  BY IdleTypes DEF ServerStates, Steps
<1>2. server' = [server EXCEPT ![s] = v]
  BY DEF Answer
<1>3. server'[s].step = "answered"
  BY <1>2 DEF CommandsInv
<1>4. Holds(s)'
  BY <1>3 DEF Holds, Working
<1>5. QED
  BY <1>1, <1>2, <1>4, ServerChanges

LEMMA IdleKeeps ==
    ASSUME CommandsInv, NEW s \in Servers, server' = [server EXCEPT ![s] = Idle],
           UNCHANGED <<databaseVars, sittings, inDoubt, told>>
    PROVE  CommandsInv'
<1>1. server'[s].step = "idle"
  BY DEF CommandsInv, Idle, Serving
<1>2. Holds(s)'
  BY <1>1 DEF Holds, Working
<1>3. told' \subseteq receipts
  BY DEF CommandsInv
<1>4. QED
  BY <1>2, <1>3, IdleTypes, ServerChanges

(***************************************************************************)
(* Moving on to a step that nothing more is held for.                      *)
(***************************************************************************)
LEMMA GotoKeeps ==
    ASSUME CommandsInv, NEW s \in Servers, NEW step \in {"events", "prepareHero", "commit", "recheck"},
           Goto(s, step), server[s].step \in Working,
           step = "events" => server[s].step = "receipt",
           step \in {"prepareHero", "commit"} => server[s].step \in {"validate", "prepareHero"},
           UNCHANGED <<databaseVars, sittings, inDoubt, told>>
    PROVE  CommandsInv'
<1> DEFINE v == [server[s] EXCEPT !.step = step]
<1>1. v \in ServerStates /\ server[s] \in ServerStates
  BY DEF CommandsInv, ServerStates, Steps
<1>2. server' = [server EXCEPT ![s] = v]
  BY <1>1 DEF Goto, CommandsInv
<1>3. /\ server'[s].step = step /\ server'[s].command = server[s].command
      /\ server'[s].session = server[s].session /\ server'[s].hero = server[s].hero
      /\ server'[s].transaction = server[s].transaction
  BY <1>1, <1>2 DEF CommandsInv, ServerStates
<1>4. Holds(s)
  BY DEF CommandsInv
<1>5. Holds(s)'
  BY <1>3, <1>4 DEF Holds, Working, databaseVars, CopyOfHero, Derived, SucceedsHero, WritesHero,
     OfEncounter, OfCampaign
<1>6. QED
  BY <1>1, <1>2, <1>5, ServerChanges DEF CommandsInv

LEMMA ServingKeeps ==
    ASSUME CommandsInv, NEW s \in Servers, NEW step \in {"hero", "receipt", "validate", "prepareHero"},
           NEW c \in Commands, NEW session \in Sessions, NEW copy \in Heroes,
           NEW t \in Transactions,
           server' = [server EXCEPT ![s] = Serving(step, c, session, copy, t)],
           step = "hero" => c.kind = "encounter",
           step \in {"hero", "receipt"} /\ c.kind \in CampaignKinds
               => session.revision = session.sequence + 1,
           step = "receipt" /\ c.kind = "encounter" => CopyOfHero(copy),
           step \in {"validate", "prepareHero"} => Derived(t),
           UNCHANGED <<databaseVars, sittings, inDoubt, told>>
    PROVE  CommandsInv'
<1> DEFINE v == Serving(step, c, session, copy, t)
<1>1. v \in ServerStates
  BY DEF Serving, ServerStates, Steps, Replies
<1>2. /\ server'[s].step = step /\ server'[s].command = c /\ server'[s].session = session
      /\ server'[s].hero = copy /\ server'[s].transaction = t
  BY DEF CommandsInv, Serving
<1>3. Holds(s)'
  BY <1>2 DEF Holds, Working, databaseVars, CopyOfHero, Derived, SucceedsHero, WritesHero,
     OfEncounter, OfCampaign
<1>4. QED
  BY <1>1, <1>3, ServerChanges DEF CommandsInv

LEMMA ReplayKeeps ==
    ASSUME CommandsInv, NEW s \in Servers, NEW r \in receipts, Replay(s, r),
           UNCHANGED <<databaseVars, sittings, inDoubt>>
    PROVE  CommandsInv'
<1>1. told' \subseteq receipts
  BY DEF Replay, Refuse, CommandsInv
<1>2. Answer(s, "done") \/ Answer(s, "keyReused")
  BY DEF Replay, Refuse
<1>3. QED
  BY <1>1, <1>2, AnswerKeeps DEF Replies

-----------------------------------------------------------------------------
(* The steps, one by one.                                                  *)

LEMMA KeepsReceive ==
    ASSUME CommandsInv, NEW s \in Servers, NEW c \in Sendable,
           Receive(s, c)
    PROVE  CommandsInv'
<1> DEFINE session == [revision |-> campaign.revision, sequence |-> campaign.sequence]
           first == IF c.kind = "encounter" THEN "hero" ELSE "receipt"
<1>1. c \in Commands
  BY CommandsAssumption DEF Commands, Sendable
<1>2. session \in Sessions /\ session.revision = session.sequence + 1
  BY DEF CommandsInv, DatabaseInv, DatabaseTypes, LogFollowsRevision, Sessions
<1>3. CASE c.kind \in CampaignKinds
  <2>1. server' = [server EXCEPT ![s] = Serving(first, c, session, NoHero, NoTransaction)]
    BY <1>3 DEF Receive, CampaignKinds, HeroKinds
  <2>2. first \in {"hero", "receipt"} /\ (first = "hero" <=> c.kind = "encounter")
    OBVIOUS
  <2>3. QED
    BY <1>1, <1>2, <2>1, <2>2, IdleTypes, ServingKeeps DEF Receive
<1>4. CASE c.kind \notin CampaignKinds
  <2>1. server' = [server EXCEPT ![s] = Serving("receipt", c, NoSession, NoHero, NoTransaction)]
    BY <1>4 DEF Receive
  <2>2. c.kind # "encounter"
    BY <1>4 DEF CampaignKinds
  <2>3. QED
    BY <1>1, <1>4, <2>1, <2>2, IdleTypes, ServingKeeps DEF Receive
<1>5. QED
  BY <1>3, <1>4

LEMMA KeepsLoadHero ==
    ASSUME CommandsInv, NEW s \in Servers, LoadHero(s)
    PROVE  CommandsInv'
<1>1. Holds(s) /\ server[s].step = "hero" /\ server[s].session \in Sessions
  BY DEF CommandsInv, LoadHero, At, ServerStates
<1>2. /\ server[s].command \in Commands /\ server[s].command.kind = "encounter"
      /\ server[s].session.revision = server[s].session.sequence + 1
  BY <1>1 DEF Holds, Working, CampaignKinds
<1>3. hero \in Heroes /\ CopyOfHero(hero)
  BY DEF CommandsInv, DatabaseInv, DatabaseTypes, CopyOfHero, Heroes
<1>4. CASE Fallen
  BY <1>4, AnswerKeeps DEF LoadHero, Refuse, CommandsInv, Replies
<1>5. CASE ~Fallen
  BY <1>1, <1>2, <1>3, <1>5, IdleTypes, ServingKeeps DEF LoadHero
<1>6. QED
  BY <1>4, <1>5

LEMMA KeepsLookUpReceipt ==
    ASSUME CommandsInv, NEW s \in Servers, LookUpReceipt(s)
    PROVE  CommandsInv'
<1>1. CASE Goto(s, "events") /\ UNCHANGED told
  BY <1>1, GotoKeeps DEF LookUpReceipt, At, Working
<1>2. CASE \E r \in Found(server[s].command) : Replay(s, r)
  BY <1>2, ReplayKeeps DEF LookUpReceipt, Found
<1>3. QED
  BY <1>1, <1>2 DEF LookUpReceipt

LEMMA KeepsRecheck ==
    ASSUME CommandsInv, NEW s \in Servers, Recheck(s)
    PROVE  CommandsInv'
<1>1. CASE Refuse(s, "conflict")
  BY <1>1, AnswerKeeps DEF Recheck, Refuse, Replies, CommandsInv
<1>2. CASE \E r \in Found(server[s].command) : Replay(s, r)
  BY <1>2, ReplayKeeps DEF Recheck, Found
<1>3. QED
  BY <1>1, <1>2 DEF Recheck

(***************************************************************************)
(* What a server derives is a change of the hero it read.                  *)
(***************************************************************************)
LEMMA DerivedFromCampaign ==
    ASSUME CommandsInv, NEW s \in Servers, At(s, "events"), Refusal(s) = "none",
           server[s].command.kind \in CampaignKinds
    PROVE  /\ server[s].command \in Commands /\ server[s].session.sequence \in Nat
           /\ server[s].session.sequence + 1 = server[s].command.expected
<1>1. Holds(s) /\ server[s].session \in Sessions
  BY DEF CommandsInv, ServerStates
<1>2. ~Stale(s)
  BY DEF Refusal
<1>3. QED
  BY <1>1, <1>2 DEF Holds, At, Working, Stale, Sessions

LEMMA EncounterOutcomeDerived ==
    ASSUME CommandsInv, NEW s \in Servers, At(s, "events"), Refusal(s) = "none",
           server[s].command.kind = "encounter",
           NEW rolled \in Dice, NEW lost \in Losses(s)
    PROVE  /\ EncounterOutcome(s, rolled, lost) \in Transactions
           /\ Derived(EncounterOutcome(s, rolled, lost))
<1> DEFINE before == Projected(server[s].hero)
           old == server[s].hero
           t == EncounterOutcome(s, rolled, lost)
<1>1. /\ server[s].command \in Commands /\ server[s].session.sequence \in Nat
      /\ server[s].session.sequence + 1 = server[s].command.expected
  BY DerivedFromCampaign DEF CampaignKinds
<1>2. old \in Heroes /\ CopyOfHero(old)
  BY DEF CommandsInv, ServerStates, Holds, At
<1>3. lost \in Nat /\ rolled \in Nat /\ lost <= old.hitPoints
  BY <1>2, CommandsAssumption DEF Losses, Heroes
<1>4. before \in EncounterStates
  <2>1. CASE EncounterStarted
    <3>1. Len(turnEvents) \in DOMAIN turnEvents
      BY <2>1 DEF EncounterStarted, CommandsInv, DatabaseInv, DatabaseTypes
    <3>2. turnEvents[Len(turnEvents)] \in TurnEvents
      BY <3>1 DEF CommandsInv, DatabaseInv, DatabaseTypes
    <3>3. QED
      BY <2>1, <3>2 DEF Projected, TurnEvents
  <2>2. CASE ~EncounterStarted
    BY <1>2, <2>2 DEF Projected, EncounterStates, Heroes
  <2>3. QED
    BY <2>1, <2>2
<1>5. before.hitPoints = old.hitPoints
  <2>1. Playable(s)
    BY DEF Refusal
  <2>2. QED
    BY <2>1 DEF Playable, Profile
<1>6. before.hitPoints - lost \in Nat /\ old.hitPoints - lost \in Nat
  BY <1>2, <1>3, <1>5 DEF Heroes
<1>7. /\ t.command = server[s].command /\ t.sequence = server[s].session.sequence + 1
      /\ t.state = [revision |-> before.revision + 1, cursor |-> before.cursor + rolled,
                    level |-> before.level, hitPoints |-> before.hitPoints - lost]
      /\ t.rolledFrom = before.cursor /\ t.derivedFrom = old.revision /\ t.sitting = 0
      /\ t.successor = IF lost = 0 THEN old
                       ELSE [revision |-> old.revision + 1, level |-> old.level,
                             hitPoints |-> old.hitPoints - lost,
                             experience |-> old.experience]
  BY DEF EncounterOutcome
<1>8. t.state \in EncounterStates
  BY <1>3, <1>4, <1>6, <1>7 DEF EncounterStates
<1>9. t.successor \in Heroes
  BY <1>2, <1>6, <1>7 DEF Heroes
<1>10. t \in Transactions
  <2>1. t = [command |-> t.command, sequence |-> t.sequence, state |-> t.state,
             rolledFrom |-> t.rolledFrom, successor |-> t.successor,
             derivedFrom |-> t.derivedFrom, sitting |-> t.sitting]
    BY DEF EncounterOutcome
  <2>2. t.rolledFrom \in Nat /\ t.derivedFrom \in Nat /\ t.sequence \in Nat
    BY <1>1, <1>2, <1>4, <1>7 DEF EncounterStates, Heroes
  <2>3. QED
    BY <2>1, <2>2, <1>1, <1>7, <1>8, <1>9 DEF Transactions
<1>11. Derived(t)
  <2>1. t.command.kind = "encounter" /\ OfCampaign(t) /\ OfEncounter(t)
    BY <1>7 DEF OfCampaign, OfEncounter, CampaignKinds
  <2>2. WritesHero(t) => t.successor = [revision |-> old.revision + 1, level |-> old.level,
                             hitPoints |-> old.hitPoints - lost,
                             experience |-> old.experience]
    BY <2>1, <1>7 DEF WritesHero, HeroKinds
  <2>3. WritesHero(t) /\ t.derivedFrom = hero.revision => SucceedsHero(t)
    BY <2>1, <2>2, <1>2, <1>7 DEF SucceedsHero, CopyOfHero
  <2>4. QED
    BY <2>1, <2>2, <2>3, <1>1, <1>2, <1>7 DEF Derived, CopyOfHero
<1>12. QED
  BY <1>10, <1>11

LEMMA KeepsListEvents ==
    ASSUME CommandsInv, NEW s \in Servers, ListEvents(s)
    PROVE  CommandsInv'
<1>1. /\ At(s, "events") /\ server[s].command.kind \in CampaignKinds
      /\ UNCHANGED <<databaseVars, sittings, inDoubt>>
  BY DEF ListEvents
<1>2. CASE Refuse(s, Refusal(s))
  <2>1. Refusal(s) \in Replies
    BY DEF Refusal, Replies
  <2>2. QED
    BY <1>1, <1>2, <2>1, AnswerKeeps DEF Refuse, CommandsInv
<1>3. ASSUME Refusal(s) = "none", server[s].command.kind = "encounter", UNCHANGED told,
             NEW rolled \in Dice, NEW lost \in Losses(s),
             Derive(s, EncounterOutcome(s, rolled, lost), "validate")
      PROVE  CommandsInv'
  <2>1. /\ EncounterOutcome(s, rolled, lost) \in Transactions
        /\ Derived(EncounterOutcome(s, rolled, lost))
    BY <1>1, <1>3, EncounterOutcomeDerived
  <2>2. server[s].command \in Commands
    BY <1>1, <1>3, DerivedFromCampaign
  <2>3. QED
    BY <1>1, <1>3, <2>1, <2>2, IdleTypes, ServingKeeps DEF Derive
<1>4. ASSUME Refusal(s) = "none", server[s].command.kind # "encounter", UNCHANGED told,
             Derive(s, PlainOutcome(s), "validate")
      PROVE  CommandsInv'
  <2>1. /\ server[s].command \in Commands /\ server[s].session.sequence \in Nat
        /\ server[s].session.sequence + 1 = server[s].command.expected
    BY <1>1, <1>4, DerivedFromCampaign
  <2>2. PlainOutcome(s) \in Transactions
    BY <2>1, IdleTypes DEF PlainOutcome, Transactions
  <2>3. Derived(PlainOutcome(s))
    BY <2>1, <1>1, <1>4 DEF PlainOutcome, Derived, OfCampaign, WritesHero, OfEncounter,
       CampaignKinds, HeroKinds
  <2>4. QED
    BY <1>1, <1>4, <2>1, <2>2, <2>3, IdleTypes, ServingKeeps DEF Derive
<1>5. QED
  BY <1>2, <1>3, <1>4 DEF ListEvents

LEMMA KeepsAdvanceHero ==
    ASSUME CommandsInv, NEW s \in Servers, AdvanceHero(s)
    PROVE  CommandsInv'
<1> DEFINE c == server[s].command
           t == HeroOutcome(c)
<1>1. /\ At(s, "events") /\ c.kind \in HeroKinds /\ c \in Commands
      /\ UNCHANGED <<databaseVars, sittings, inDoubt>>
  BY DEF AdvanceHero, CommandsInv, Holds, At, Working
<1>2. CASE Refuse(s, "conflict") \/ Refuse(s, "unavailable")
  BY <1>1, <1>2, AnswerKeeps DEF Refuse, CommandsInv, Replies
<1>3. CASE c.expected = hero.revision /\ Derive(s, t, "prepareHero") /\ UNCHANGED told
  <2>1. hero \in Heroes
    BY DEF CommandsInv, DatabaseInv, DatabaseTypes
  <2>2. Rewarded \in Heroes /\ LeveledUp \in Heroes
    BY <2>1 DEF Rewarded, LeveledUp, Heroes
  <2>3. t \in Transactions
    BY <1>1, <2>1, <2>2, IdleTypes DEF HeroOutcome, Transactions, Heroes
  <2>4. /\ t.command = c /\ t.derivedFrom = hero.revision
        /\ t.successor = IF c.kind = "reward" THEN Rewarded ELSE LeveledUp
    BY DEF HeroOutcome
  <2>5. SucceedsHero(t)
    BY <1>1, <2>4 DEF SucceedsHero, OfEncounter, HeroKinds, Rewarded, LeveledUp
  <2>6. Derived(t)
    BY <1>1, <1>3, <2>1, <2>4, <2>5, Kinded DEF Derived, OfCampaign, WritesHero, Heroes,
       Rewarded, LeveledUp
  <2>7. QED
    BY <1>1, <1>3, <2>3, <2>6, IdleTypes, ServingKeeps DEF Derive
<1>4. QED
  BY <1>2, <1>3 DEF AdvanceHero

LEMMA KeepsPreValidate ==
    ASSUME CommandsInv, NEW s \in Servers, PreValidate(s)
    PROVE  CommandsInv'
<1>1. server[s].step = "validate" /\ UNCHANGED <<databaseVars, sittings, inDoubt>>
  BY DEF PreValidate, At
<1>2. CASE Refuse(s, "conflict")
  BY <1>1, <1>2, AnswerKeeps DEF Refuse, CommandsInv, Replies
<1>3. CASE /\ Goto(s, "recheck") \/ Goto(s, "commit") \/ Goto(s, "prepareHero")
           /\ UNCHANGED told
  BY <1>1, <1>3, GotoKeeps DEF Working
<1>4. QED
  BY <1>2, <1>3 DEF PreValidate

LEMMA KeepsPrepareHero ==
    ASSUME CommandsInv, NEW s \in Servers, PrepareHero(s)
    PROVE  CommandsInv'
<1>1. Goto(s, "commit") \/ Goto(s, "recheck")
  BY DEF PrepareHero
<1>2. QED
  BY <1>1, GotoKeeps DEF PrepareHero, At, Working

LEMMA KeepsAbort ==
    ASSUME CommandsInv, NEW s \in Servers, Abort(s)
    PROVE  CommandsInv'
<1> DEFINE objection == Objection(server[s].transaction)
<1>1. server[s].step = "commit" /\ UNCHANGED <<databaseVars, sittings, inDoubt, told>>
  BY DEF Abort, At
<1>2. CASE Goto(s, "recheck")
  BY <1>1, <1>2, GotoKeeps DEF Working
<1>3. CASE Answer(s, objection)
  <2>1. objection \in Replies
    BY DEF Objection, Replies
  <2>2. QED
    BY <1>1, <1>3, <2>1, AnswerKeeps DEF CommandsInv
<1>4. QED
  BY <1>2, <1>3 DEF Abort

LEMMA KeepsAcknowledge ==
    ASSUME CommandsInv, NEW s \in Servers, Acknowledge(s)
    PROVE  CommandsInv'
<1>1. Receipt(server[s].transaction) \in receipts
  BY DEF Acknowledge, At, CommandsInv, Holds
<1>2. told' \subseteq receipts
  BY <1>1 DEF Acknowledge, CommandsInv
<1>3. QED
  BY <1>2, AnswerKeeps DEF Acknowledge, Replies

(***************************************************************************)
(* A transaction that takes effect leaves what others hold as good as it   *)
(* was.                                                                    *)
(***************************************************************************)
LEMMA OthersSurvive ==
    ASSUME CommandsInv, NEW r \in Servers, DatabaseInv', HeroKept, receipts \subseteq receipts',
           server'[r] = server[r]
    PROVE  Holds(r)'
<1>1. hero.revision \in Nat
  BY DEF CommandsInv, DatabaseInv, DatabaseTypes, Heroes
<1>2. server[r].hero \in Heroes /\ server[r].transaction \in Transactions
  BY DEF CommandsInv, ServerStates
<1>3. /\ CopyOfHero(server[r].hero) => CopyOfHero(server[r].hero)'
      /\ Derived(server[r].transaction) => Derived(server[r].transaction)'
  <2>1. \A h \in Heroes : CopyOfHero(h) => CopyOfHero(h)'
    BY <1>1, HeldSurvives
  <2>2. \A t \in Transactions : Derived(t) => Derived(t)'
    BY <1>1, HeldSurvives
  <2>3. QED
    BY <1>2, <2>1, <2>2 DEF CopyOfHero, Derived, SucceedsHero, WritesHero, OfEncounter, OfCampaign
<1>4. QED
  BY <1>3 DEF CommandsInv, Holds, CopyOfHero, Derived, SucceedsHero, WritesHero,
     OfEncounter, OfCampaign, Receipt

LEMMA KeepsCommit ==
    ASSUME CommandsInv, NEW s \in Servers, Commit(s)
    PROVE  CommandsInv'
<1> DEFINE t == server[s].transaction
           v == [server[s] EXCEPT !.step = "committed"]
<1>1. /\ server[s].step = "commit" /\ Derived(t) /\ t \in Transactions
      /\ server[s] \in ServerStates /\ server[s].command \in Commands
  BY DEF Commit, At, CommandsInv, Holds, ServerStates, Working
<1>2. DatabaseInv' /\ HeroKept /\ receipts' = receipts \cup {Receipt(t)}
  BY <1>1, InstallsKeeps DEF Commit, CommandsInv
<1>3. v \in ServerStates /\ server' = [server EXCEPT ![s] = v]
  BY <1>1 DEF Commit, Goto, CommandsInv, ServerStates, Steps
<1>4. /\ server'[s].step = "committed" /\ server'[s].command = server[s].command
      /\ server'[s].transaction = t
  BY <1>1, <1>3 DEF CommandsInv, ServerStates
<1>5. Holds(s)'
  BY <1>1, <1>2, <1>4 DEF Holds, Working, Receipt, OfCampaign
<1>6. ASSUME NEW r \in Servers PROVE Holds(r)'
  <2>1. CASE r = s
    BY <1>5, <2>1
  <2>2. CASE r # s
    <3>1. server'[r] = server[r]
      BY <1>3, <2>2 DEF CommandsInv
    <3>2. QED
      BY <3>1, <1>2, OthersSurvive
  <2>3. QED
    BY <2>1, <2>2
<1>7. \A u \in inDoubt' : Derived(u)'
  <2>1. hero.revision \in Nat
    BY DEF CommandsInv, DatabaseInv, DatabaseTypes, Heroes
  <2>2. QED
    BY <1>2, <2>1, HeldSurvives DEF Commit, CommandsInv
<1>8. QED
  BY <1>2, <1>3, <1>6, <1>7 DEF CommandsInv, Commit

LEMMA KeepsLateCommit ==
    ASSUME CommandsInv, NEW t \in inDoubt, LateCommit(t)
    PROVE  CommandsInv'
<1>1. Derived(t) /\ t \in Transactions
  BY DEF CommandsInv
<1>2. DatabaseInv' /\ HeroKept /\ receipts' = receipts \cup {Receipt(t)}
  BY <1>1, InstallsKeeps DEF LateCommit, CommandsInv
<1>3. \A r \in Servers : Holds(r)'
  BY <1>2, OthersSurvive DEF LateCommit
<1>4. \A u \in inDoubt' : Derived(u)'
  <2>1. hero.revision \in Nat
    BY DEF CommandsInv, DatabaseInv, DatabaseTypes, Heroes
  <2>2. QED
    BY <1>2, <2>1, HeldSurvives DEF LateCommit, CommandsInv
<1>5. QED
  BY <1>2, <1>3, <1>4 DEF CommandsInv, LateCommit

LEMMA KeepsLeaveInDoubt ==
    ASSUME CommandsInv, NEW s \in Servers, LeaveInDoubt(s)
    PROVE  CommandsInv'
<1> DEFINE t == server[s].transaction
           u == [t EXCEPT !.sitting = campaign.sitting]
<1>1. t \in Transactions /\ Derived(t) /\ campaign.sitting \in Nat
  BY DEF LeaveInDoubt, At, CommandsInv, Holds, ServerStates, DatabaseInv, DatabaseTypes
<1>2. /\ u \in Transactions /\ u.command = t.command /\ u.sequence = t.sequence
      /\ u.derivedFrom = t.derivedFrom /\ u.successor = t.successor /\ u.state = t.state
  BY <1>1 DEF Transactions
<1>3. Derived(u)
  BY <1>1, <1>2 DEF Derived, OfCampaign, WritesHero, OfEncounter, SucceedsHero
<1>4. DatabaseInv' /\ \A r \in Servers : Holds(r)'
  <2>1. DatabaseInv'
    BY DEF LeaveInDoubt, CommandsInv, databaseVars, DatabaseInv, DatabaseTypes, EventsLogged,
       AuditsLogged, ReceiptsLogged, OncePerKey, LogFollowsRevision, Receipted
  <2>2. HeroKept /\ receipts' = receipts
    BY DEF LeaveInDoubt, databaseVars, HeroKept
  <2>3. ASSUME NEW r \in Servers PROVE Holds(r)'
    <3>1. CASE r = s
      <4>1. server'[r].step = "idle"
        BY <3>1 DEF LeaveInDoubt, CommandsInv, Idle, Serving
      <4>2. QED
        BY <4>1 DEF Holds, Working
    <3>2. CASE r # s
      <4>1. server'[r] = server[r]
        BY <3>2 DEF LeaveInDoubt, CommandsInv
      <4>2. QED
        BY <4>1, <2>1, <2>2, OthersSurvive
    <3>3. QED
      BY <3>1, <3>2
  <2>4. QED
    BY <2>1, <2>3
<1>5. server' \in [Servers -> ServerStates]
  BY IdleTypes DEF LeaveInDoubt, CommandsInv
<1>6. \A d \in inDoubt' : Derived(d)' /\ d \in Transactions
  <2>1. hero' = hero
    BY DEF LeaveInDoubt, databaseVars
  <2>2. \A d \in inDoubt \cup {u} : Derived(d) /\ d \in Transactions
    BY <1>2, <1>3 DEF CommandsInv
  <2>3. QED
    BY <2>1, <2>2 DEF LeaveInDoubt, Derived, OfCampaign, WritesHero, OfEncounter, SucceedsHero
<1>7. QED
  BY <1>4, <1>5, <1>6 DEF CommandsInv, LeaveInDoubt, databaseVars

(***************************************************************************)
(* A play session starts or ends without touching a command.               *)
(***************************************************************************)
LEMMA KeepsSitting ==
    ASSUME CommandsInv, StartSitting \/ EndSitting
    PROVE  CommandsInv'
<1>1. /\ UNCHANGED <<turnEvents, receipts, encounter, hero, heroAudits, server, inDoubt, told>>
      /\ sittings' \in Nat
  BY DEF StartSitting, EndSitting, CommandsInv
<1>2. /\ campaign' \in [revision : Nat, sequence : Nat, sitting : Nat]
      /\ campaign'.revision = campaign.revision /\ campaign'.sequence = campaign.sequence
  BY DEF StartSitting, EndSitting, CommandsInv, DatabaseInv, DatabaseTypes
<1>3. DatabaseInv'
  BY <1>1, <1>2 DEF CommandsInv, DatabaseInv, DatabaseTypes, EventsLogged,
     AuditsLogged, ReceiptsLogged, OncePerKey, LogFollowsRevision, Receipted
<1>4. \A r \in Servers : Holds(r)'
  BY <1>1, <1>3, OthersSurvive DEF HeroKept
<1>5. \A d \in inDoubt' : Derived(d)'
  BY <1>1 DEF CommandsInv, Derived, OfCampaign, WritesHero, OfEncounter, SucceedsHero
<1>6. QED
  BY <1>1, <1>3, <1>4, <1>5 DEF CommandsInv

LEMMA KeepsDiscard ==
    ASSUME CommandsInv, NEW t \in inDoubt, Discard(t)
    PROVE  CommandsInv'
<1>1. UNCHANGED <<databaseVars, sittings, server, told>> /\ inDoubt' \subseteq inDoubt
  BY DEF Discard
<1>2. DatabaseInv'
  BY <1>1 DEF CommandsInv, databaseVars, DatabaseInv, DatabaseTypes, EventsLogged,
     AuditsLogged, ReceiptsLogged, OncePerKey, LogFollowsRevision, Receipted
<1>3. \A r \in Servers : Holds(r)'
  BY <1>1, <1>2, OthersSurvive DEF HeroKept, databaseVars
<1>4. \A d \in inDoubt' : Derived(d)'
  BY <1>1 DEF CommandsInv, databaseVars, Derived, OfCampaign, WritesHero, OfEncounter, SucceedsHero
<1>5. QED
  BY <1>1, <1>2, <1>3, <1>4 DEF CommandsInv, databaseVars

-----------------------------------------------------------------------------
(* The invariant.                                                          *)

LEMMA CommandsInvInit == CommandsInit => CommandsInv
<1> SUFFICES ASSUME CommandsInit PROVE CommandsInv
  OBVIOUS
<1>1. /\ turnEvents \in Seq(TurnEvents) /\ DOMAIN turnEvents = {} /\ Len(turnEvents) = 0
      /\ heroAudits \in Seq(Commands) /\ DOMAIN heroAudits = {}
      /\ receipts = {} /\ inDoubt = {} /\ told = {} /\ sittings = 0
  BY DEF CommandsInit
<1>2. DatabaseTypes
  BY <1>1, CommandsAssumption DEF CommandsInit, DatabaseTypes, Heroes
<1>3. DatabaseInv
  BY <1>1, <1>2 DEF CommandsInit, DatabaseInv, EventsLogged, AuditsLogged, ReceiptsLogged,
     OncePerKey, LogFollowsRevision
<1>4. server \in [Servers -> ServerStates] /\ \A s \in Servers : server[s].step = "idle"
  BY IdleTypes DEF CommandsInit, Idle, Serving
<1>5. \A s \in Servers : Holds(s)
  BY <1>4 DEF Holds, Working
<1>6. QED
  BY <1>1, <1>3, <1>4, <1>5 DEF CommandsInv

LEMMA CommandsInvStep == CommandsInv /\ [CommandsNext]_commandVars => CommandsInv'
<1> SUFFICES ASSUME CommandsInv, [CommandsNext]_commandVars PROVE CommandsInv'
  OBVIOUS
<1>1. ASSUME NEW s \in Servers, ServerStep(s) PROVE CommandsInv'
  <2>1. CASE Interrupt(s) \/ Done(s)
    BY <2>1, IdleKeeps DEF Interrupt, Done
  <2>2. QED
    BY <1>1, <2>1, KeepsReceive, KeepsLoadHero, KeepsLookUpReceipt, KeepsListEvents,
       KeepsAdvanceHero, KeepsPreValidate, KeepsPrepareHero, KeepsCommit, KeepsAbort,
       KeepsRecheck, KeepsAcknowledge, KeepsLeaveInDoubt DEF ServerStep
<1>2. ASSUME NEW t \in inDoubt, LateCommit(t) \/ Discard(t) PROVE CommandsInv'
  BY <1>2, KeepsLateCommit, KeepsDiscard
<1>3. CASE StartSitting \/ EndSitting
  BY <1>3, KeepsSitting
<1>4. CASE UNCHANGED commandVars
  <2>1. DatabaseInv'
    BY <1>4 DEF commandVars, CommandsInv, databaseVars, DatabaseInv, DatabaseTypes, EventsLogged,
       AuditsLogged, ReceiptsLogged, OncePerKey, LogFollowsRevision, Receipted
  <2>2. \A r \in Servers : Holds(r)'
    BY <1>4, <2>1, OthersSurvive DEF commandVars, databaseVars, HeroKept
  <2>3. \A d \in inDoubt' : Derived(d)'
    BY <1>4 DEF commandVars, databaseVars, CommandsInv, Derived, OfCampaign, WritesHero,
       OfEncounter, SucceedsHero
  <2>4. QED
    BY <1>4, <2>1, <2>2, <2>3 DEF commandVars, databaseVars, CommandsInv
<1>5. QED
  BY <1>1, <1>2, <1>3, <1>4 DEF CommandsNext

LEMMA CommandsInvariant == CommandsSpec => []CommandsInv
BY CommandsInvInit, CommandsInvStep, PTL DEF CommandsSpec

(***************************************************************************)
(* The stored documents, the commands being served and the transactions in *)
(* doubt keep to their types, for every set of servers and keys.           *)
(***************************************************************************)
THEOREM CommandsTypes == CommandsSpec => []CommandsTypeOK
<1>1. CommandsInv => CommandsTypeOK
  BY DEF CommandsInv, DatabaseInv, DatabaseTypes, CommandsTypeOK
<1>2. QED
  BY <1>1, CommandsInvariant, PTL

(***************************************************************************)
(* No key takes effect twice on a campaign or a hero, however many servers *)
(* are sent it, and commits in doubt included.                             *)
(***************************************************************************)
THEOREM CommandsTakeEffectOnce == CommandsSpec => []OncePerKey
<1>1. CommandsInv => OncePerKey
  BY DEF CommandsInv, DatabaseInv
<1>2. QED
  BY <1>1, CommandsInvariant, PTL

(***************************************************************************)
(* Every answer a client was given is a committed receipt.                 *)
(***************************************************************************)
THEOREM AnswersAreCommitted == CommandsSpec => []AcknowledgedIsCommitted
<1>1. CommandsInv => AcknowledgedIsCommitted
  BY DEF CommandsInv, AcknowledgedIsCommitted
<1>2. QED
  BY <1>1, CommandsInvariant, PTL

(***************************************************************************)
(* The revision of a campaign counts its events.                           *)
(***************************************************************************)
THEOREM RevisionCountsEvents == CommandsSpec => []LogFollowsRevision
<1>1. CommandsInv => LogFollowsRevision
  BY DEF CommandsInv, DatabaseInv
<1>2. QED
  BY <1>1, CommandsInvariant, PTL

-----------------------------------------------------------------------------
(* Each log of commands.                                                   *)

(***************************************************************************)
(* A step appends to one of the logs, tells a client of one receipt, or    *)
(* leaves both alone.                                                      *)
(***************************************************************************)
Appends(t) ==
    /\ t \in Transactions /\ Derived(t) /\ Objection(t) = "none" /\ Installs(t)
    /\ UNCHANGED told

Answered(r) ==
    /\ r \in receipts /\ told' = told \cup {r}
    /\ UNCHANGED <<turnEvents, heroAudits, hero>>

Quiet == UNCHANGED <<turnEvents, heroAudits, hero, told>>

LEMMA StepKinds ==
    ASSUME CommandsInv, [CommandsNext]_commandVars
    PROVE  (\E t \in Transactions : Appends(t)) \/ (\E r \in receipts : Answered(r)) \/ Quiet
<1>1. ASSUME NEW s \in Servers, ServerStep(s)
      PROVE  (\E t \in Transactions : Appends(t)) \/ (\E r \in receipts : Answered(r)) \/ Quiet
  <2>1. CASE Commit(s)
    <3>1. server[s].transaction \in Transactions /\ Derived(server[s].transaction)
      BY <2>1 DEF Commit, At, CommandsInv, Holds, ServerStates
    <3>2. QED
      BY <3>1, <2>1 DEF Appends, Commit
  <2>2. CASE Acknowledge(s)
    <3>1. Receipt(server[s].transaction) \in receipts
      BY <2>2 DEF Acknowledge, At, CommandsInv, Holds
    <3>2. QED
      BY <3>1, <2>2 DEF Acknowledge, Answered, databaseVars
  <2>3. ASSUME NEW r \in Found(server[s].command), Replay(s, r), UNCHANGED databaseVars
        PROVE  (\E q \in receipts : Answered(q)) \/ Quiet
    BY <2>3 DEF Found, Replay, Refuse, Answered, Quiet, databaseVars
  <2>4. CASE LookUpReceipt(s)
    BY <2>3, <2>4 DEF LookUpReceipt, Quiet, databaseVars
  <2>5. CASE Recheck(s)
    BY <2>3, <2>5 DEF Recheck, Refuse, Quiet, databaseVars
  <2>6. CASE \E c \in Sendable : Receive(s, c)
    BY <2>6 DEF Receive, Quiet, databaseVars
  <2>7. CASE \/ LoadHero(s) \/ ListEvents(s) \/ AdvanceHero(s) \/ PreValidate(s)
             \/ PrepareHero(s) \/ Abort(s) \/ LeaveInDoubt(s) \/ Interrupt(s) \/ Done(s)
    BY <2>7 DEF LoadHero, ListEvents, AdvanceHero, PreValidate, PrepareHero, Abort,
       LeaveInDoubt, Interrupt, Done, Refuse, Quiet, databaseVars
  <2>8. QED
    BY <1>1, <2>1, <2>2, <2>4, <2>5, <2>6, <2>7 DEF ServerStep
<1>2. ASSUME NEW t \in inDoubt, LateCommit(t) \/ Discard(t)
      PROVE  (\E u \in Transactions : Appends(u)) \/ Quiet
  BY <1>2 DEF LateCommit, Discard, CommandsInv, Appends, Quiet, databaseVars
<1>3. CASE StartSitting \/ EndSitting \/ UNCHANGED commandVars
  BY <1>3 DEF StartSitting, EndSitting, commandVars, databaseVars, Quiet
<1>4. QED
  BY <1>1, <1>2, <1>3 DEF CommandsNext

EventCommands(events) == [i \in DOMAIN events |-> events[i].command]

LEMMA AppendedCommand ==
    ASSUME NEW events \in Seq(TurnEvents), NEW e \in TurnEvents
    PROVE  /\ EventCommands(Append(events, e)) = Append(EventCommands(events), e.command)
           /\ EventCommands(Append(events, e)) # <<>>
           /\ Len(EventCommands(Append(events, e))) = Len(events) + 1
           /\ EventCommands(Append(events, e))[Len(events) + 1] = e.command
<1> DEFINE n == Len(events)
           before == EventCommands(events)
           after == EventCommands(Append(events, e))
<1>1. n \in Nat /\ DOMAIN events = 1..n /\ Append(events, e) \in Seq(TurnEvents)
      /\ DOMAIN Append(events, e) = 1..(n + 1)
  OBVIOUS
<1>2. \A i \in 1..n : events[i].command \in Commands
  <2>1. \A i \in 1..n : events[i] \in TurnEvents
    BY <1>1
  <2>2. QED
    BY <2>1 DEF TurnEvents
<1>3. before \in Seq(Commands) /\ Len(before) = n
  BY <1>1, <1>2 DEF EventCommands
<1>4. e.command \in Commands
  BY DEF TurnEvents
<1>5. \A i \in 1..(n + 1) : after[i] = Append(before, e.command)[i]
  <2>1. ASSUME NEW i \in 1..(n + 1) PROVE after[i] = Append(before, e.command)[i]
    <3>1. CASE i = n + 1
      <4>1. Append(events, e)[i] = e /\ Append(before, e.command)[i] = e.command
        BY <3>1, <1>1, <1>3, <1>4
      <4>2. QED
        BY <4>1, <1>1 DEF EventCommands
    <3>2. CASE i \in 1..n
      <4>1. Append(events, e)[i] = events[i] /\ Append(before, e.command)[i] = before[i]
        BY <3>2, <1>1, <1>3, <1>4
      <4>2. QED
        BY <4>1, <3>2, <1>1 DEF EventCommands
    <3>3. i = n + 1 \/ i \in 1..n
      BY <1>1
    <3>4. QED
      BY <3>1, <3>2, <3>3, Zenon
  <2>2. QED
    BY <2>1
<1>6. after = [i \in 1..(n + 1) |-> after[i]]
  BY <1>1 DEF EventCommands
<1>7. Append(before, e.command) = [i \in 1..(n + 1) |-> Append(before, e.command)[i]]
  BY <1>3, <1>4
<1>8. after = Append(before, e.command)
  BY <1>5, <1>6, <1>7
<1>9. QED
  BY <1>1, <1>3, <1>4, <1>8

LEMMA ToldOfOne ==
    ASSUME CommandsInv, NEW r \in receipts, told' = told \cup {r}, NEW kinds
    PROVE  /\ r.command.kind \in kinds => Told(kinds)' = Told(kinds) \cup {r}
           /\ r.command.kind \notin kinds => Told(kinds)' = Told(kinds)
           /\ r = [command |-> r.command, result |-> r.command.expected + 1]
<1>1. r \in Receipts /\ r.result = r.command.expected + 1
  BY DEF CommandsInv, DatabaseInv, DatabaseTypes, ReceiptsLogged
<1>2. r = [command |-> r.command, result |-> r.command.expected + 1]
  BY <1>1 DEF Receipts
<1>3. QED
  BY <1>2 DEF Told

(***************************************************************************)
(* The log of the campaign.                                                *)
(***************************************************************************)
LEMMA CampaignLogStep ==
    CommandsInv /\ CommandsInv' /\ [CommandsNext]_commandVars
        => [CampaignLog!LogNext]_(CampaignLog!logVars)
<1> DEFINE log == EventCommands(turnEvents)
           n == Len(turnEvents) + 1
<1> SUFFICES ASSUME CommandsInv, CommandsInv', [CommandsNext]_commandVars
             PROVE  [CampaignLog!LogNext]_(CampaignLog!logVars)
  OBVIOUS
<1>1. turnEvents \in Seq(TurnEvents) /\ DOMAIN log = 1..(n - 1) /\ DOMAIN turnEvents = 1..(n - 1)
      /\ n \in Nat
  BY DEF EventCommands, CommandsInv, DatabaseInv, DatabaseTypes
<1>2. ASSUME UNCHANGED turnEvents, Told(CampaignKinds)' = Told(CampaignKinds)
      PROVE  UNCHANGED CampaignLog!logVars
  BY <1>2 DEF CampaignLog!logVars
<1>3. ASSUME NEW t \in Transactions, Appends(t), OfCampaign(t) PROVE CampaignLog!LogNext
  <2> DEFINE e == [command |-> t.command, state |-> t.state, rolledFrom |-> t.rolledFrom]
  <2>1. turnEvents' = Append(turnEvents, e) /\ UNCHANGED told
    BY <1>3 DEF Appends, Installs
  <2>2. e \in TurnEvents /\ e.command = t.command
    BY <1>3 DEF Appends, Derived, TurnEvents, Transactions
  <2>3. /\ log' = Append(log, t.command) /\ log' # <<>> /\ Len(log') = n
        /\ log'[n] = t.command
    BY <2>1, <2>2, <1>1, AppendedCommand
  <2>4. /\ DOMAIN turnEvents' = 1..n /\ turnEvents'[n] = e
        /\ \A i \in 1..(n - 1) : turnEvents'[i] = turnEvents[i]
    BY <2>1, <2>2, <1>1
  <2>5. ASSUME NEW i \in 1..(n - 1)
        PROVE  log[i].key # t.command.key /\ log[i].expected < t.command.expected
    <3>1. i \in DOMAIN turnEvents' /\ n \in DOMAIN turnEvents' /\ i # n /\ i < n
      BY <1>1, <2>4
    <3>2. turnEvents'[i].command.key # turnEvents'[n].command.key
      BY <3>1 DEF CommandsInv, DatabaseInv, OncePerKey
    <3>3. turnEvents'[i].command.expected = i /\ turnEvents'[n].command.expected = n
      BY <3>1 DEF CommandsInv, DatabaseInv, EventsLogged
    <3>4. log[i] = turnEvents'[i].command
      BY <1>1, <2>4 DEF EventCommands
    <3>5. QED
      BY <3>1, <3>2, <3>3, <3>4, <2>2, <2>4
  <2>6. Told(CampaignKinds)' = Told(CampaignKinds)
    BY <2>1 DEF Told
  <2>7. QED
    BY <2>3, <2>5, <2>6, <1>1 DEF CampaignLog!LogNext, CampaignLog!TakeEffect, EventCommands
<1>4. ASSUME NEW t \in Transactions, Appends(t), ~OfCampaign(t)
      PROVE  UNCHANGED CampaignLog!logVars
  <2>1. UNCHANGED turnEvents /\ UNCHANGED told
    BY <1>4 DEF Appends, Installs
  <2>2. QED
    BY <2>1, <1>2 DEF Told
<1>5. ASSUME NEW r \in receipts, Answered(r), r.command.kind \in CampaignKinds
      PROVE  CampaignLog!LogNext
  <2>1. /\ Told(CampaignKinds)' = Told(CampaignKinds)
               \cup {[command |-> r.command, result |-> r.command.expected + 1]}
        /\ UNCHANGED turnEvents
    BY <1>5, ToldOfOne DEF Answered
  <2>2. \A i \in DOMAIN heroAudits : heroAudits[i] # r.command
    BY <1>5 DEF CommandsInv, DatabaseInv, AuditsLogged, CampaignKinds, HeroKinds
  <2>3. PICK i \in DOMAIN turnEvents : turnEvents[i].command = r.command
    BY <2>2 DEF CommandsInv, DatabaseInv, ReceiptsLogged
  <2>4. i \in DOMAIN log /\ log[i] = r.command
    BY <2>3 DEF EventCommands
  <2>5. QED
    BY <2>1, <2>4 DEF CampaignLog!LogNext, CampaignLog!Tell, EventCommands
<1>6. ASSUME NEW r \in receipts, Answered(r), r.command.kind \notin CampaignKinds
      PROVE  UNCHANGED CampaignLog!logVars
  BY <1>2, <1>6, ToldOfOne DEF Answered
<1>7. CASE Quiet
  BY <1>2, <1>7 DEF Quiet, Told
<1>8. QED
  BY <1>3, <1>4, <1>5, <1>6, <1>7, StepKinds

LEMMA CampaignLogInitially == CommandsInit => CampaignLog!LogInit
BY DEF CommandsInit, CampaignLog!LogInit, Told

(***************************************************************************)
(* The commands of a campaign are one log: each takes effect once, on the  *)
(* revision its client had seen, and clients are told of nothing else.     *)
(***************************************************************************)
THEOREM CampaignIsALog == CommandsSpec => ImplementsCampaignLog
BY CampaignLogInitially, CampaignLogStep, CommandsInvariant, PTL
   DEF CommandsSpec, ImplementsCampaignLog, CampaignLog!LogSpec

(***************************************************************************)
(* The log of the hero.                                                    *)
(***************************************************************************)
LEMMA HeroLogStep ==
    CommandsInv /\ CommandsInv' /\ [CommandsNext]_commandVars
        => [HeroLog!LogNext]_(HeroLog!logVars)
<1> DEFINE n == Len(heroAudits) + 1
<1> SUFFICES ASSUME CommandsInv, CommandsInv', [CommandsNext]_commandVars
             PROVE  [HeroLog!LogNext]_(HeroLog!logVars)
  OBVIOUS
<1>1. heroAudits \in Seq(Commands) /\ DOMAIN heroAudits = 1..(n - 1) /\ n \in Nat
  BY DEF CommandsInv, DatabaseInv, DatabaseTypes
<1>2. ASSUME UNCHANGED heroAudits, Told(HeroKinds)' = Told(HeroKinds)
      PROVE  UNCHANGED HeroLog!logVars
  BY <1>2 DEF HeroLog!logVars
<1>3. ASSUME NEW t \in Transactions, Appends(t), ~OfCampaign(t) PROVE HeroLog!LogNext
  <2>1. heroAudits' = Append(heroAudits, t.command) /\ UNCHANGED told /\ t.command \in Commands
    BY <1>3 DEF Appends, Installs, Derived
  <2>2. /\ DOMAIN heroAudits' = 1..n /\ Len(heroAudits') = n /\ heroAudits'[n] = t.command
        /\ \A i \in 1..(n - 1) : heroAudits'[i] = heroAudits[i]
        /\ heroAudits' # <<>>
    BY <2>1, <1>1
  <2>3. ASSUME NEW i \in 1..(n - 1)
        PROVE  heroAudits[i].key # t.command.key /\ heroAudits[i].expected < t.command.expected
    <3>1. i \in DOMAIN heroAudits' /\ n \in DOMAIN heroAudits' /\ i # n /\ i < n
      BY <1>1, <2>2
    <3>2. heroAudits'[i].key # heroAudits'[n].key
      BY <3>1 DEF CommandsInv, DatabaseInv, OncePerKey
    <3>3. heroAudits'[i].expected < heroAudits'[n].expected
      BY <3>1 DEF CommandsInv, DatabaseInv, AuditsLogged
    <3>4. QED
      BY <3>2, <3>3, <2>2
  <2>4. Told(HeroKinds)' = Told(HeroKinds)
    BY <2>1 DEF Told
  <2>5. QED
    BY <2>1, <2>2, <2>3, <2>4, <1>1 DEF HeroLog!LogNext, HeroLog!TakeEffect
<1>4. ASSUME NEW t \in Transactions, Appends(t), OfCampaign(t)
      PROVE  UNCHANGED HeroLog!logVars
  <2>1. UNCHANGED heroAudits /\ UNCHANGED told
    BY <1>4 DEF Appends, Installs
  <2>2. QED
    BY <2>1, <1>2 DEF Told
<1>5. ASSUME NEW r \in receipts, Answered(r), r.command.kind \in HeroKinds
      PROVE  HeroLog!LogNext
  <2>1. /\ Told(HeroKinds)' = Told(HeroKinds)
               \cup {[command |-> r.command, result |-> r.command.expected + 1]}
        /\ UNCHANGED heroAudits
    BY <1>5, ToldOfOne DEF Answered
  <2>2. \A i \in DOMAIN turnEvents : turnEvents[i].command # r.command
    BY <1>5 DEF CommandsInv, DatabaseInv, EventsLogged, CampaignKinds, HeroKinds
  <2>3. PICK i \in DOMAIN heroAudits : heroAudits[i] = r.command
    BY <2>2 DEF CommandsInv, DatabaseInv, ReceiptsLogged
  <2>4. QED
    BY <2>1, <2>3 DEF HeroLog!LogNext, HeroLog!Tell
<1>6. ASSUME NEW r \in receipts, Answered(r), r.command.kind \notin HeroKinds
      PROVE  UNCHANGED HeroLog!logVars
  BY <1>2, <1>6, ToldOfOne DEF Answered
<1>7. CASE Quiet
  BY <1>2, <1>7 DEF Quiet, Told
<1>8. QED
  BY <1>3, <1>4, <1>5, <1>6, <1>7, StepKinds

LEMMA HeroLogInitially == CommandsInit => HeroLog!LogInit
BY DEF CommandsInit, HeroLog!LogInit, Told

(***************************************************************************)
(* The rewards and level-ups of a hero are one log too, though encounter   *)
(* commands change the hero between them.                                  *)
(***************************************************************************)
THEOREM HeroIsALog == CommandsSpec => ImplementsHeroLog
BY HeroLogInitially, HeroLogStep, CommandsInvariant, PTL
   DEF CommandsSpec, ImplementsHeroLog, HeroLog!LogSpec

-----------------------------------------------------------------------------
(* The hero and its audits.                                                *)

LEMMA CountedAudits ==
    ASSUME heroAudits \in Seq(Commands), NEW c \in Commands, NEW kind,
           heroAudits' = Append(heroAudits, c)
    PROVE  /\ c.kind = kind => /\ Cardinality(Audits(kind)') = Cardinality(Audits(kind)) + 1
                               /\ Audits(kind)' # {}
           /\ c.kind # kind => Audits(kind)' = Audits(kind)
<1> DEFINE n == Len(heroAudits) + 1
<1>1. /\ n \in Nat /\ DOMAIN heroAudits = 1..(n - 1) /\ DOMAIN heroAudits' = 1..n
      /\ heroAudits'[n] = c /\ \A i \in 1..(n - 1) : heroAudits'[i] = heroAudits[i]
  OBVIOUS
<1>2. CASE c.kind = kind
  <2>1. Audits(kind)' = Audits(kind) \cup {n} /\ n \notin Audits(kind)
    BY <1>1, <1>2 DEF Audits
  <2>2. IsFiniteSet(Audits(kind))
    <3>1. IsFiniteSet(1..(n - 1)) /\ Audits(kind) \subseteq 1..(n - 1)
      BY <1>1, FS_Interval DEF Audits
    <3>2. QED
      BY <3>1, FS_Subset
  <2>3. QED
    BY <1>2, <2>1, <2>2, FS_AddElement
<1>3. CASE c.kind # kind
  BY <1>1, <1>3 DEF Audits
<1>4. QED
  BY <1>2, <1>3

LEMMA AuditedHeroInit == CommandsInit => HeroMatchesAudits
<1> SUFFICES ASSUME CommandsInit PROVE HeroMatchesAudits
  OBVIOUS
<1>1. Audits("reward") = {} /\ Audits("levelUp") = {}
  BY DEF CommandsInit, Audits
<1>2. QED
  BY <1>1, FS_EmptySet DEF CommandsInit, HeroMatchesAudits

(***************************************************************************)
(* A transaction that writes the hero was derived from the hero it         *)
(* replaces, so it keeps what the audits gave.                             *)
(***************************************************************************)
LEMMA AuditedHeroStep ==
    CommandsInv /\ HeroMatchesAudits /\ [CommandsNext]_commandVars => HeroMatchesAudits'
<1> SUFFICES ASSUME CommandsInv, HeroMatchesAudits, [CommandsNext]_commandVars
             PROVE  HeroMatchesAudits'
  OBVIOUS
<1>1. ASSUME NEW t \in Transactions, Appends(t), OfCampaign(t) PROVE HeroMatchesAudits'
  <2>1. UNCHANGED heroAudits
    BY <1>1 DEF Appends, Installs
  <2>2. hero'.level = hero.level /\ hero'.experience = hero.experience
    <3>1. WritesHero(t) => hero' = t.successor /\ SucceedsHero(t)
      BY <1>1, InstalledHero DEF Appends, CommandsInv, DatabaseInv
    <3>2. ~WritesHero(t) => hero' = hero
      BY <1>1, InstalledHero DEF Appends, CommandsInv, DatabaseInv
    <3>3. WritesHero(t) => OfEncounter(t)
      BY <1>1 DEF WritesHero, OfCampaign, CampaignKinds, HeroKinds
    <3>4. QED
      BY <3>1, <3>2, <3>3 DEF SucceedsHero
  <2>3. QED
    BY <2>1, <2>2 DEF HeroMatchesAudits, Audits
<1>2. ASSUME NEW t \in Transactions, Appends(t), ~OfCampaign(t) PROVE HeroMatchesAudits'
  <2>1. t.command \in Commands /\ t.command.kind \in {"reward", "levelUp"}
    BY <1>2, Kinded DEF Appends, Derived, OfCampaign, HeroKinds
  <2>2. heroAudits' = Append(heroAudits, t.command) /\ heroAudits \in Seq(Commands)
    BY <1>2 DEF Appends, Installs, CommandsInv, DatabaseInv, DatabaseTypes
  <2>3. hero' = t.successor /\ SucceedsHero(t)
    BY <1>2, <2>1, InstalledHero DEF Appends, CommandsInv, DatabaseInv, WritesHero, HeroKinds
  <2>4. CASE t.command.kind = "reward"
    <3>1. /\ Cardinality(Audits("reward")') = Cardinality(Audits("reward")) + 1
          /\ Audits("levelUp")' = Audits("levelUp")
      BY <2>1, <2>2, <2>4, CountedAudits
    <3>2. hero'.level = hero.level /\ hero'.experience = hero.experience + 1
      BY <2>3, <2>4 DEF SucceedsHero
    <3>3. QED
      BY <3>1, <3>2 DEF HeroMatchesAudits
  <2>5. CASE t.command.kind = "levelUp"
    <3>1. Audits("levelUp")' # {} /\ Audits("reward")' = Audits("reward")
      BY <2>1, <2>2, <2>5, CountedAudits
    <3>2. hero'.level = 2 /\ hero'.experience = hero.experience
      BY <2>3, <2>5 DEF SucceedsHero
    <3>3. QED
      BY <3>1, <3>2 DEF HeroMatchesAudits
  <2>6. QED
    BY <2>1, <2>4, <2>5
<1>3. ASSUME UNCHANGED <<heroAudits, hero>> PROVE HeroMatchesAudits'
  BY <1>3 DEF HeroMatchesAudits, Audits
<1>4. QED
  BY <1>1, <1>2, <1>3, StepKinds DEF Answered, Quiet

(***************************************************************************)
(* The hero always holds what its audits gave it: an encounter command     *)
(* derived from an older hero never overwrites a reward or a level.        *)
(***************************************************************************)
THEOREM HeroKeepsRewards == CommandsSpec => []HeroMatchesAudits
BY AuditedHeroInit, AuditedHeroStep, CommandsInvariant, PTL DEF CommandsSpec

-----------------------------------------------------------------------------
(* The encounter, its projection and the hero.                             *)

EncounterIsLast == EncounterStarted => IsEncounter(Len(turnEvents))

\* The hero as created, with the hit point its level gave it.
Unhurt(x) == x.hitPoints = HitPoints + x.level - 1

(***************************************************************************)
(* What a transaction derived from the log, or from the hero, as it is     *)
(* would do.  One that expects an older log, or was derived from an older  *)
(* hero, can no longer take effect.                                        *)
(***************************************************************************)
ContinuesLog(t) ==
    /\ t.command.kind = "social" => turnEvents = <<>>
    /\ t.command.kind = "exploration" => ~EncounterStarted
    /\ OfEncounter(t) =>
        /\ Explored /\ t.state.level <= hero.level
        /\ WritesHero(t) => Profile(t.successor) = Profile(t.state)
        /\ EncounterStarted =>
              /\ t.state.revision = LastEvent.state.revision + 1
              /\ t.rolledFrom = LastEvent.state.cursor
              /\ t.state.level = LastEvent.state.level
              /\ ~WritesHero(t) => t.state.hitPoints = LastEvent.state.hitPoints
        /\ ~EncounterStarted => ~WritesHero(t) /\ Unhurt(t.state)

ChangesHero(t) ==
    /\ t.command.kind = "reward" => t.successor.hitPoints = hero.hitPoints
    /\ t.command.kind = "levelUp" => /\ hero.level = 1
                                     /\ t.successor.hitPoints = hero.hitPoints + 1

Continues(t) ==
    /\ OfCampaign(t) => t.command.expected <= Len(turnEvents) + 1
    /\ OfCampaign(t) /\ t.command.expected = Len(turnEvents) + 1 => ContinuesLog(t)
    /\ ~OfCampaign(t) /\ t.derivedFrom = hero.revision => ChangesHero(t)

\* A copy of the hero, which has grown since if it has changed at all.
Grows(h) == h.level <= hero.level /\ (~EncounterStarted => Unhurt(h))

Continuing(s) ==
    LET held == server[s]
    IN  /\ held.step \in {"receipt", "events"} /\ held.command.kind = "encounter"
               => Grows(held.hero)
        /\ held.step \in {"validate", "prepareHero", "commit"} => Continues(held.transaction)

DocumentsAgree ==
    /\ EventsReplay /\ EncounterIsLast
    /\ ProjectionFollowsLog /\ HeroFollowsEncounter
    /\ EncounterStarted => LastEvent.state.level <= hero.level
    /\ ~EncounterStarted => Unhurt(hero)

EncounterInv ==
    /\ DocumentsAgree
    /\ \A s \in Servers : Continuing(s)
    /\ \A t \in inDoubt : Continues(t)

LEMMA LastEventTypes ==
    ASSUME CommandsInv, EncounterStarted
    PROVE  Len(turnEvents) \in DOMAIN turnEvents /\ LastEvent.state \in EncounterStates
<1>1. Len(turnEvents) \in DOMAIN turnEvents
  BY DEF EncounterStarted, CommandsInv, DatabaseInv, DatabaseTypes
<1>2. turnEvents[Len(turnEvents)] \in TurnEvents
  BY <1>1 DEF CommandsInv, DatabaseInv, DatabaseTypes
<1>3. QED
  BY <1>1, <1>2 DEF LastEvent, TurnEvents

(***************************************************************************)
(* The hero never loses a level.                                           *)
(***************************************************************************)
LEMMA LevelsStay ==
    ASSUME CommandsInv, NEW t \in Transactions, Derived(t), Objection(t) = "none", Installs(t)
    PROVE  hero.level \in {1, 2} /\ hero'.level \in {1, 2} /\ hero.level <= hero'.level
<1>1. hero \in Heroes /\ hero' \in Heroes
  BY InstalledHero DEF CommandsInv, DatabaseInv, DatabaseTypes
<1>2. hero'.level = hero.level \/ hero'.level = 2
  <2>1. CASE ~WritesHero(t)
    BY <2>1, InstalledHero DEF CommandsInv, DatabaseInv
  <2>2. CASE WritesHero(t)
    <3>1. hero' = t.successor /\ SucceedsHero(t)
      BY <2>2, InstalledHero DEF CommandsInv, DatabaseInv
    <3>2. OfEncounter(t) \/ t.command.kind \in {"reward", "levelUp"}
      BY <2>2 DEF WritesHero, HeroKinds
    <3>3. QED
      BY <3>1, <3>2 DEF SucceedsHero
  <2>3. QED
    BY <2>1, <2>2
<1>3. QED
  BY <1>1, <1>2 DEF Heroes

(***************************************************************************)
(* An event is appended to the very log it was derived from.               *)
(***************************************************************************)
LEMMA AppendedEvent ==
    ASSUME CommandsInv, NEW t \in Transactions, Derived(t), Objection(t) = "none", Installs(t),
           OfCampaign(t), Continues(t)
    PROVE  /\ ContinuesLog(t)
           /\ Len(turnEvents) \in Nat /\ DOMAIN turnEvents = 1..Len(turnEvents)
           /\ DOMAIN turnEvents' = 1..(Len(turnEvents) + 1)
           /\ Len(turnEvents') = Len(turnEvents) + 1
           /\ turnEvents'[Len(turnEvents) + 1] =
                  [command |-> t.command, state |-> t.state, rolledFrom |-> t.rolledFrom]
           /\ \A i \in 1..Len(turnEvents) : turnEvents'[i] = turnEvents[i]
           /\ OfEncounter(t) \/ ~EncounterStarted
<1> DEFINE e == [command |-> t.command, state |-> t.state, rolledFrom |-> t.rolledFrom]
<1>1. turnEvents \in Seq(TurnEvents) /\ campaign.revision = Len(turnEvents) + 1
  BY DEF CommandsInv, DatabaseInv, DatabaseTypes, LogFollowsRevision
<1>2. t.command \in Commands /\ t.command.expected = campaign.revision
  BY NoObjection DEF StaleCampaign, Derived
<1>3. e \in TurnEvents /\ turnEvents' = Append(turnEvents, e)
  BY <1>2 DEF TurnEvents, Transactions, Installs
<1>4. ContinuesLog(t)
  BY <1>1, <1>2 DEF Continues
<1>5. OfEncounter(t) \/ ~EncounterStarted
  <2>1. turnEvents = <<>> => ~EncounterStarted
    BY DEF EncounterStarted
  <2>2. QED
    BY <1>4, <2>1 DEF OfCampaign, CampaignKinds, OfEncounter, ContinuesLog
<1>6. QED
  BY <1>1, <1>3, <1>4, <1>5

LEMMA ReplaysOn ==
    ASSUME CommandsInv, DocumentsAgree, NEW t \in Transactions, Derived(t),
           Objection(t) = "none", Installs(t), OfCampaign(t), Continues(t)
    PROVE  /\ EventsReplay' /\ EncounterIsLast'
           /\ EncounterStarted' <=> OfEncounter(t)
           /\ OfEncounter(t) => LastEvent'.state = t.state
<1> DEFINE n == Len(turnEvents)
<1>1. /\ n \in Nat /\ DOMAIN turnEvents = 1..n /\ DOMAIN turnEvents' = 1..(n + 1)
      /\ Len(turnEvents') = n + 1 /\ \A i \in 1..n : turnEvents'[i] = turnEvents[i]
      /\ turnEvents'[n + 1].command = t.command /\ turnEvents'[n + 1].state = t.state
      /\ turnEvents'[n + 1].rolledFrom = t.rolledFrom
      /\ OfEncounter(t) \/ ~EncounterStarted
  <2>1. turnEvents'[n + 1] =
            [command |-> t.command, state |-> t.state, rolledFrom |-> t.rolledFrom]
    BY AppendedEvent
  <2>2. /\ n \in Nat /\ DOMAIN turnEvents = 1..n /\ DOMAIN turnEvents' = 1..(n + 1)
        /\ Len(turnEvents') = n + 1 /\ \A i \in 1..n : turnEvents'[i] = turnEvents[i]
        /\ OfEncounter(t) \/ ~EncounterStarted
    BY AppendedEvent
  <2>3. QED
    BY <2>1, <2>2
<1>2. ContinuesLog(t)
  BY AppendedEvent
<1>3. EncounterStarted' <=> OfEncounter(t)
  <2>1. EncounterStarted' <=> \E i \in 1..(n + 1) : turnEvents'[i].command.kind = "encounter"
    BY <1>1 DEF EncounterStarted, IsEncounter
  <2>2. EncounterStarted <=> \E i \in 1..n : turnEvents'[i].command.kind = "encounter"
    BY <1>1 DEF EncounterStarted, IsEncounter
  <2>3. QED
    BY <2>1, <2>2, <1>1 DEF OfEncounter
<1>4. EncounterIsLast'
  BY <1>1, <1>3 DEF EncounterIsLast, IsEncounter, OfEncounter
<1>5. t.command.expected = n + 1
  BY NoObjection DEF StaleCampaign, CommandsInv, DatabaseInv, LogFollowsRevision
<1>6. ASSUME NEW i \in 1..(n + 1)
      PROVE  /\ turnEvents'[i].command.expected = i
             /\ turnEvents'[i].command.kind = "encounter" =>
                    \E j \in 1..(i - 1) : turnEvents'[j].command.kind = "exploration"
             /\ i > 1 /\ turnEvents'[i - 1].command.kind = "encounter" =>
                    /\ turnEvents'[i].command.kind = "encounter"
                    /\ turnEvents'[i].state.revision = turnEvents'[i - 1].state.revision + 1
                    /\ turnEvents'[i].rolledFrom = turnEvents'[i - 1].state.cursor
                    /\ turnEvents'[i].state.level = turnEvents'[i - 1].state.level
  <2>1. CASE i \in 1..n
    <3>1. /\ turnEvents[i].command.expected = i
          /\ turnEvents[i].command.kind = "encounter" =>
                 \E j \in 1..(i - 1) : turnEvents[j].command.kind = "exploration"
          /\ i > 1 /\ turnEvents[i - 1].command.kind = "encounter" =>
                 /\ turnEvents[i].command.kind = "encounter"
                 /\ turnEvents[i].state.revision = turnEvents[i - 1].state.revision + 1
                 /\ turnEvents[i].rolledFrom = turnEvents[i - 1].state.cursor
                 /\ turnEvents[i].state.level = turnEvents[i - 1].state.level
      BY <2>1, <1>1 DEF DocumentsAgree, EventsReplay, Replays, IsEncounter
    <3>2. turnEvents'[i] = turnEvents[i] /\ \A j \in 1..(i - 1) : turnEvents'[j] = turnEvents[j]
      BY <2>1, <1>1
    <3>3. i > 1 => turnEvents'[i - 1] = turnEvents[i - 1]
      BY <2>1, <1>1
    <3>4. QED
      BY <3>1, <3>2, <3>3
  <2>2. CASE i = n + 1
    <3>1. t.command.kind = "encounter" =>
              \E j \in 1..(i - 1) : turnEvents'[j].command.kind = "exploration"
      BY <2>2, <1>1, <1>2 DEF ContinuesLog, OfEncounter, Explored
    <3>2. ASSUME i > 1, turnEvents'[i - 1].command.kind = "encounter"
          PROVE  /\ t.command.kind = "encounter"
                 /\ t.state.revision = turnEvents[n].state.revision + 1
                 /\ t.rolledFrom = turnEvents[n].state.cursor
                 /\ t.state.level = turnEvents[n].state.level
      <4>1. i - 1 = n /\ n \in 1..n /\ turnEvents'[n] = turnEvents[n]
        BY <2>2, <3>2, <1>1
      <4>2. EncounterStarted
        BY <3>2, <4>1, <1>1 DEF EncounterStarted, IsEncounter
      <4>3. QED
        BY <4>2, <1>1, <1>2 DEF ContinuesLog, OfEncounter, LastEvent
    <3>3. i > 1 => turnEvents'[i - 1] = turnEvents[n]
      BY <2>2, <1>1
    <3>4. QED
      BY <2>2, <3>1, <3>2, <3>3, <1>1, <1>5
  <2>3. QED
    BY <2>1, <2>2, <1>1
<1>7. EventsReplay'
  BY <1>1, <1>6 DEF EventsReplay, Replays, IsEncounter
<1>8. QED
  BY <1>1, <1>3, <1>4, <1>7 DEF LastEvent

(***************************************************************************)
(* An encounter event leaves the hero as it leaves the encounter.          *)
(***************************************************************************)
LEMMA EventsAgree ==
    ASSUME CommandsInv, DocumentsAgree, NEW t \in Transactions, Derived(t),
           Objection(t) = "none", Installs(t), OfCampaign(t), Continues(t)
    PROVE  DocumentsAgree'
<1>1. /\ EventsReplay' /\ EncounterIsLast' /\ (EncounterStarted' <=> OfEncounter(t))
      /\ OfEncounter(t) => LastEvent'.state = t.state
  BY ReplaysOn
<1>2. ContinuesLog(t) /\ (OfEncounter(t) \/ ~EncounterStarted)
  BY AppendedEvent
<1>3. /\ WritesHero(t) => hero' = t.successor
      /\ ~WritesHero(t) => hero' = hero
  BY InstalledHero DEF CommandsInv, DatabaseInv
<1>4. /\ hero.level \in {1, 2} /\ hero'.level \in {1, 2} /\ hero.level <= hero'.level
      /\ t.state.level \in {1, 2}
  BY LevelsStay DEF Transactions, EncounterStates
<1>5. encounter' = ProjectionAfter(t)
  BY DEF Installs
<1>6. CASE OfEncounter(t)
  <2>1. ProjectionFollowsLog'
    BY <1>1, <1>5, <1>6 DEF ProjectionFollowsLog, ProjectionAfter
  <2>2. LastEvent'.state.level <= hero'.level
    BY <1>1, <1>2, <1>4, <1>6 DEF ContinuesLog
  <2>3. hero'.level = t.state.level => hero'.hitPoints = t.state.hitPoints
    <3>1. CASE WritesHero(t)
      BY <3>1, <1>2, <1>3, <1>6 DEF ContinuesLog, Profile
    <3>2. CASE ~WritesHero(t) /\ EncounterStarted
      BY <3>2, <1>2, <1>3, <1>6 DEF ContinuesLog, DocumentsAgree, HeroFollowsEncounter
    <3>3. CASE ~WritesHero(t) /\ ~EncounterStarted
      BY <3>3, <1>2, <1>3, <1>6 DEF ContinuesLog, DocumentsAgree, Unhurt
    <3>4. QED
      BY <3>1, <3>2, <3>3
  <2>4. HeroFollowsEncounter'
    BY <2>3, <1>1, <1>6 DEF HeroFollowsEncounter
  <2>5. QED
    BY <2>1, <2>2, <2>4, <1>1, <1>6 DEF DocumentsAgree
<1>7. CASE ~OfEncounter(t)
  <2>1. ~EncounterStarted' /\ ~EncounterStarted /\ encounter' = encounter
    BY <1>1, <1>2, <1>5, <1>7 DEF ProjectionAfter
  <2>2. hero' = hero
    BY <1>3, <1>7 DEF WritesHero, OfCampaign, CampaignKinds, HeroKinds
  <2>3. QED
    BY <2>1, <2>2, <1>1 DEF DocumentsAgree, ProjectionFollowsLog, HeroFollowsEncounter, Unhurt
<1>8. QED
  BY <1>6, <1>7

(***************************************************************************)
(* A reward keeps the hero's hit points; a level gives one, and from then  *)
(* on the hero is no longer the one the encounter knows.                   *)
(***************************************************************************)
LEMMA AuditsAgree ==
    ASSUME CommandsInv, DocumentsAgree, NEW t \in Transactions, Derived(t),
           Objection(t) = "none", Installs(t), ~OfCampaign(t), Continues(t)
    PROVE  DocumentsAgree'
<1>1. turnEvents' = turnEvents /\ encounter' = encounter
  BY DEF Installs, ProjectionAfter, OfEncounter, OfCampaign, CampaignKinds
<1>2. WritesHero(t) /\ t.command.kind \in {"reward", "levelUp"}
  BY Kinded DEF Derived, OfCampaign, WritesHero, HeroKinds
<1>3. hero' = t.successor /\ SucceedsHero(t) /\ ChangesHero(t)
  BY <1>2, InstalledHero DEF CommandsInv, DatabaseInv, Continues
<1>4. hero \in Heroes /\ hero' \in Heroes
  BY InstalledHero DEF CommandsInv, DatabaseInv, DatabaseTypes
<1>5. (EncounterStarted' <=> EncounterStarted) /\ LastEvent' = LastEvent
  BY <1>1 DEF EncounterStarted, IsEncounter, LastEvent
<1>6. EventsReplay' /\ EncounterIsLast' /\ ProjectionFollowsLog'
  BY <1>1, <1>5 DEF DocumentsAgree, EventsReplay, Replays, IsEncounter, EncounterIsLast,
     ProjectionFollowsLog
<1>7. EncounterStarted => LastEvent.state.level \in {1, 2}
  BY LastEventTypes DEF EncounterStates
<1>8. CASE t.command.kind = "reward"
  <2>1. hero'.level = hero.level /\ hero'.hitPoints = hero.hitPoints
    BY <1>3, <1>8 DEF SucceedsHero, ChangesHero
  <2>2. QED
    BY <2>1, <1>5, <1>6 DEF DocumentsAgree, HeroFollowsEncounter, Unhurt
<1>9. CASE t.command.kind = "levelUp"
  <2>1. hero.level = 1 /\ hero'.level = 2 /\ hero'.hitPoints = hero.hitPoints + 1
    BY <1>3, <1>9 DEF SucceedsHero, ChangesHero
  <2>2. EncounterStarted => LastEvent.state.level = 1
    BY <2>1, <1>7 DEF DocumentsAgree
  <2>3. ~EncounterStarted => Unhurt(hero)'
    BY <2>1, <1>4, CommandsAssumption DEF DocumentsAgree, Unhurt, Heroes
  <2>4. QED
    BY <2>1, <2>2, <2>3, <1>5, <1>6 DEF DocumentsAgree, HeroFollowsEncounter
<1>10. QED
  BY <1>2, <1>8, <1>9

(***************************************************************************)
(* What the servers hold, when one of them moves and the database is left  *)
(* alone.                                                                  *)
(***************************************************************************)
LEMMA ServerContinues ==
    ASSUME CommandsInv, EncounterInv, NEW s \in Servers, NEW v,
           server' = [server EXCEPT ![s] = v], Continuing(s)',
           UNCHANGED <<databaseVars, inDoubt>>
    PROVE  EncounterInv'
<1>1. DocumentsAgree'
  BY DEF EncounterInv, DocumentsAgree, databaseVars, EventsReplay, Replays, EncounterIsLast,
     IsEncounter, EncounterStarted, ProjectionFollowsLog, HeroFollowsEncounter, LastEvent, Unhurt
<1>2. ASSUME NEW r \in Servers PROVE Continuing(r)'
  <2>1. CASE r = s
    BY <2>1
  <2>2. CASE r # s
    <3>1. server'[r] = server[r] /\ Continuing(r)
      BY <2>2 DEF EncounterInv, CommandsInv
    <3>2. QED
      BY <3>1 DEF Continuing, databaseVars, Grows, Continues, ContinuesLog, ChangesHero, Unhurt,
         EncounterStarted, IsEncounter, Explored, LastEvent, OfCampaign, OfEncounter, WritesHero,
         Profile
  <2>3. QED
    BY <2>1, <2>2
<1>3. ASSUME NEW t \in inDoubt' PROVE Continues(t)'
  BY <1>3 DEF EncounterInv, databaseVars, Continues, ContinuesLog, ChangesHero, Unhurt,
     EncounterStarted, IsEncounter, Explored, LastEvent, OfCampaign, OfEncounter, WritesHero,
     Profile
<1>4. QED
  BY <1>1, <1>2, <1>3 DEF EncounterInv

LEMMA AnswerContinues ==
    ASSUME CommandsInv, EncounterInv, NEW s \in Servers, NEW reply, Answer(s, reply),
           UNCHANGED <<databaseVars, inDoubt>>
    PROVE  EncounterInv'
<1> DEFINE v == [step |-> "answered", command |-> NoCommand, session |-> NoSession,
                 hero |-> NoHero, transaction |-> NoTransaction, reply |-> reply]
<1>1. server' = [server EXCEPT ![s] = v]
  BY DEF Answer
<1>2. server'[s].step = "answered"
  BY <1>1 DEF CommandsInv
<1>3. Continuing(s)'
  BY <1>2 DEF Continuing
<1>4. QED
  BY <1>1, <1>3, ServerContinues

LEMMA GotoContinues ==
    ASSUME CommandsInv, EncounterInv, NEW s \in Servers,
           NEW step \in {"events", "prepareHero", "commit", "recheck"}, Goto(s, step),
           step = "events" => server[s].step = "receipt",
           step \in {"prepareHero", "commit"} => server[s].step \in {"validate", "prepareHero"},
           UNCHANGED <<databaseVars, inDoubt>>
    PROVE  EncounterInv'
<1> DEFINE v == [server[s] EXCEPT !.step = step]
<1>1. server' = [server EXCEPT ![s] = v] /\ server[s] \in ServerStates
  BY DEF Goto, CommandsInv
<1>2. /\ server'[s].step = step /\ server'[s].command = server[s].command
      /\ server'[s].hero = server[s].hero /\ server'[s].transaction = server[s].transaction
  BY <1>1 DEF CommandsInv, ServerStates
<1>3. Continuing(s)
  BY DEF EncounterInv
<1>4. Continuing(s)'
  BY <1>2, <1>3 DEF Continuing, databaseVars, Grows, Continues, ContinuesLog, ChangesHero, Unhurt,
     EncounterStarted, IsEncounter, Explored, LastEvent, OfCampaign, OfEncounter, WritesHero,
     Profile
<1>5. QED
  BY <1>1, <1>4, ServerContinues

LEMMA ServingContinues ==
    ASSUME CommandsInv, EncounterInv, NEW s \in Servers, NEW step, NEW c, NEW session,
           NEW copy, NEW t,
           server' = [server EXCEPT ![s] = Serving(step, c, session, copy, t)],
           step \in {"receipt", "events"} /\ c.kind = "encounter" => Grows(copy),
           step \in {"validate", "prepareHero", "commit"} => Continues(t),
           UNCHANGED <<databaseVars, inDoubt>>
    PROVE  EncounterInv'
<1>1. server'[s] = Serving(step, c, session, copy, t)
  BY DEF CommandsInv
<1>2. /\ server'[s].step = step /\ server'[s].command = c
      /\ server'[s].hero = copy /\ server'[s].transaction = t
  BY <1>1 DEF Serving
<1>3. /\ step \in {"receipt", "events"} /\ c.kind = "encounter" => Grows(copy)'
      /\ step \in {"validate", "prepareHero", "commit"} => Continues(t)'
  BY DEF databaseVars, Grows, Continues, ContinuesLog, ChangesHero, Unhurt,
     EncounterStarted, IsEncounter, Explored, LastEvent, OfCampaign, OfEncounter, WritesHero,
     Profile
<1>4. Continuing(s)'
  BY <1>2, <1>3 DEF Continuing, Grows, Continues, ContinuesLog, ChangesHero, Unhurt,
     EncounterStarted, IsEncounter, Explored, LastEvent, OfCampaign, OfEncounter, WritesHero,
     Profile
<1>5. QED
  BY <1>4, ServerContinues

(***************************************************************************)
(* What a server derives from the events it lists continues them, since it *)
(* lists as many as the campaign it read counts.                           *)
(***************************************************************************)
LEMMA OutcomeContinues ==
    ASSUME CommandsInv, EncounterInv, NEW s \in Servers, At(s, "events"), Refusal(s) = "none",
           server[s].command.kind = "encounter",
           NEW rolled \in Dice, NEW lost \in Losses(s)
    PROVE  Continues(EncounterOutcome(s, rolled, lost))
<1> DEFINE before == Projected(server[s].hero)
           old == server[s].hero
           t == EncounterOutcome(s, rolled, lost)
<1>1. /\ server[s].command.expected = Len(turnEvents) + 1 /\ Explored /\ Playable(s)
  <2>1. ~TornRead(s) /\ Available(server[s].command) /\ Playable(s)
    BY DEF Refusal
  <2>2. QED
    BY <2>1, DerivedFromCampaign DEF TornRead, Available, CampaignKinds
<1>2. old \in Heroes /\ Grows(old) /\ hero \in Heroes
  BY DEF EncounterInv, Continuing, At, CommandsInv, ServerStates, DatabaseInv, DatabaseTypes
<1>3. before.level = old.level /\ before.hitPoints = old.hitPoints
  BY <1>1 DEF Playable, Profile
<1>4. lost \in Nat /\ (lost > 0 => EncounterStarted)
  BY CommandsAssumption DEF Losses
<1>5. /\ t.command = server[s].command /\ t.rolledFrom = before.cursor
      /\ t.derivedFrom = old.revision
      /\ t.state.revision = before.revision + 1 /\ t.state.level = before.level
      /\ t.state.hitPoints = before.hitPoints - lost
      /\ t.successor = IF lost = 0 THEN old
                       ELSE [revision |-> old.revision + 1, level |-> old.level,
                             hitPoints |-> old.hitPoints - lost,
                             experience |-> old.experience]
  BY DEF EncounterOutcome
<1>6. t.state.level <= hero.level
  <2>1. CASE EncounterStarted
    BY <2>1, <1>5 DEF Projected, LastEvent, EncounterInv, DocumentsAgree
  <2>2. CASE ~EncounterStarted
    BY <2>2, <1>2, <1>5 DEF Projected, Grows
  <2>3. QED
    BY <2>1, <2>2
<1>7. WritesHero(t) <=> lost # 0
  <2>1. WritesHero(t) <=> t.successor.revision # t.derivedFrom
    BY <1>5 DEF WritesHero, OfEncounter, HeroKinds
  <2>2. old.revision \in Nat
    BY <1>2 DEF Heroes
  <2>3. QED
    BY <2>1, <2>2, <1>5
<1>8. WritesHero(t) => Profile(t.successor) = Profile(t.state)
  BY <1>3, <1>5, <1>7 DEF Profile
<1>9. ~WritesHero(t) => t.state.hitPoints = before.hitPoints
  <2>1. before.hitPoints \in Nat
    BY <1>2, <1>3 DEF Heroes
  <2>2. QED
    BY <2>1, <1>4, <1>5, <1>7
<1>10. EncounterStarted => before = LastEvent.state
  BY DEF Projected, LastEvent
<1>11. ~EncounterStarted => ~WritesHero(t) /\ Unhurt(t.state)
  <2>1. ~EncounterStarted => lost = 0 /\ Unhurt(old)
    BY <1>2, <1>4 DEF Grows
  <2>2. QED
    BY <2>1, <1>3, <1>5, <1>7, <1>9 DEF Unhurt
<1>12. ContinuesLog(t)
  BY <1>1, <1>5, <1>6, <1>8, <1>9, <1>10, <1>11 DEF ContinuesLog
<1>13. OfCampaign(t)
  BY <1>5 DEF OfCampaign, CampaignKinds
<1>14. t.command.expected = Len(turnEvents) + 1 /\ Len(turnEvents) + 1 \in Int
  BY <1>1, <1>5 DEF CommandsInv, DatabaseInv, DatabaseTypes
<1>15. QED
  BY <1>12, <1>13, <1>14 DEF Continues

LEMMA ContinuesListEvents ==
    ASSUME CommandsInv, EncounterInv, NEW s \in Servers, ListEvents(s)
    PROVE  EncounterInv'
<1>1. /\ At(s, "events") /\ server[s].command.kind \in CampaignKinds
      /\ UNCHANGED <<databaseVars, inDoubt>>
  BY DEF ListEvents
<1>2. CASE Refuse(s, Refusal(s))
  BY <1>1, <1>2, AnswerContinues DEF Refuse
<1>3. ASSUME Refusal(s) = "none", server[s].command.kind = "encounter",
             NEW rolled \in Dice, NEW lost \in Losses(s),
             Derive(s, EncounterOutcome(s, rolled, lost), "validate")
      PROVE  EncounterInv'
  <2>1. Continues(EncounterOutcome(s, rolled, lost))
    BY <1>1, <1>3, OutcomeContinues
  <2>2. QED
    BY <1>1, <1>3, <2>1, ServingContinues DEF Derive
<1>4. ASSUME Refusal(s) = "none", server[s].command.kind # "encounter",
             Derive(s, PlainOutcome(s), "validate")
      PROVE  EncounterInv'
  <2>1. server[s].command.expected = Len(turnEvents) + 1 /\ Available(server[s].command)
    <3>1. ~TornRead(s) /\ Available(server[s].command)
      BY <1>4 DEF Refusal
    <3>2. QED
      BY <3>1, <1>1, <1>4, DerivedFromCampaign DEF TornRead
  <2>2. PlainOutcome(s).command = server[s].command
    BY DEF PlainOutcome
  <2>3. ContinuesLog(PlainOutcome(s))
    BY <2>1, <2>2, <1>4 DEF ContinuesLog, Available, OfEncounter
  <2>4. Continues(PlainOutcome(s))
    <3>1. Len(turnEvents) + 1 \in Int
      BY DEF CommandsInv, DatabaseInv, DatabaseTypes
    <3>2. QED
      BY <3>1, <2>1, <2>2, <2>3, <1>1 DEF Continues, OfCampaign
  <2>5. QED
    BY <1>1, <1>4, <2>4, ServingContinues DEF Derive
<1>5. QED
  BY <1>2, <1>3, <1>4 DEF ListEvents

LEMMA ContinuesAdvanceHero ==
    ASSUME CommandsInv, EncounterInv, NEW s \in Servers, AdvanceHero(s)
    PROVE  EncounterInv'
<1> DEFINE c == server[s].command
           t == HeroOutcome(c)
<1>1. /\ At(s, "events") /\ c.kind \in HeroKinds /\ UNCHANGED <<databaseVars, inDoubt>>
  BY DEF AdvanceHero
<1>2. CASE Refuse(s, "conflict") \/ Refuse(s, "unavailable")
  BY <1>1, <1>2, AnswerContinues DEF Refuse
<1>3. CASE Eligible(c.kind) /\ Derive(s, t, "prepareHero")
  <2>1. t.command = c /\ t.successor = IF c.kind = "reward" THEN Rewarded ELSE LeveledUp
    BY DEF HeroOutcome
  <2>2. ChangesHero(t)
    BY <2>1, <1>3 DEF ChangesHero, Rewarded, LeveledUp, Eligible
  <2>3. Continues(t)
    BY <2>1, <2>2, <1>1 DEF Continues, OfCampaign, CampaignKinds, HeroKinds
  <2>4. QED
    BY <1>1, <1>3, <2>3, ServingContinues DEF Derive
<1>4. QED
  BY <1>2, <1>3 DEF AdvanceHero

LEMMA ContinuesReading ==
    ASSUME CommandsInv, EncounterInv, NEW s \in Servers,
           \/ \E c \in Sendable : Receive(s, c)
           \/ LoadHero(s) \/ LookUpReceipt(s) \/ Recheck(s)
    PROVE  EncounterInv'
<1>1. ASSUME NEW c \in Sendable, Receive(s, c) PROVE EncounterInv'
  <2>1. CASE c.kind \in CampaignKinds
    <3>1. PICK step \in {"hero", "receipt"} :
              /\ server' = [server EXCEPT ![s] = Serving(step, c,
                     [revision |-> campaign.revision, sequence |-> campaign.sequence],
                     NoHero, NoTransaction)]
              /\ c.kind = "encounter" => step = "hero"
      BY <1>1, <2>1 DEF Receive, CampaignKinds, HeroKinds
    <3>2. QED
      BY <1>1, <3>1, ServingContinues DEF Receive
  <2>2. CASE c.kind \in HeroKinds
    BY <1>1, <2>2, ServingContinues DEF Receive, CampaignKinds, HeroKinds
  <2>3. QED
    BY <1>1, <2>1, <2>2 DEF Receive
<1>2. CASE LoadHero(s)
  <2>1. Grows(hero)
    BY DEF EncounterInv, DocumentsAgree, Grows, CommandsInv, DatabaseInv, DatabaseTypes, Heroes
  <2>2. QED
    BY <1>2, <2>1, AnswerContinues, ServingContinues DEF LoadHero, Refuse
<1>3. ASSUME NEW r, Replay(s, r), UNCHANGED <<databaseVars, inDoubt>> PROVE EncounterInv'
  BY <1>3, AnswerContinues DEF Replay, Refuse
<1>4. CASE LookUpReceipt(s)
  BY <1>3, <1>4, GotoContinues DEF LookUpReceipt, At
<1>5. CASE Recheck(s)
  BY <1>3, <1>5, AnswerContinues DEF Recheck, Refuse
<1>6. QED
  BY <1>1, <1>2, <1>4, <1>5

LEMMA ContinuesChecking ==
    ASSUME CommandsInv, EncounterInv, NEW s \in Servers,
           PreValidate(s) \/ PrepareHero(s) \/ Abort(s) \/ Acknowledge(s)
    PROVE  EncounterInv'
<1>1. CASE PreValidate(s)
  <2>1. server[s].step = "validate" /\ UNCHANGED <<databaseVars, inDoubt>>
    BY <1>1 DEF PreValidate, At
  <2>2. \/ Answer(s, "conflict")
        \/ Goto(s, "recheck") \/ Goto(s, "commit") \/ Goto(s, "prepareHero")
    BY <1>1 DEF PreValidate, Refuse
  <2>3. QED
    BY <2>1, <2>2, AnswerContinues, GotoContinues
<1>2. CASE PrepareHero(s)
  <2>1. Goto(s, "commit") \/ Goto(s, "recheck")
    BY <1>2 DEF PrepareHero
  <2>2. QED
    BY <1>2, <2>1, GotoContinues DEF PrepareHero, At
<1>3. CASE Abort(s)
  <2>1. Goto(s, "recheck") \/ Answer(s, Objection(server[s].transaction))
    BY <1>3 DEF Abort
  <2>2. QED
    BY <1>3, <2>1, AnswerContinues, GotoContinues DEF Abort
<1>4. CASE Acknowledge(s)
  BY <1>4, AnswerContinues DEF Acknowledge
<1>5. QED
  BY <1>1, <1>2, <1>3, <1>4

LEMMA IdleContinues ==
    ASSUME CommandsInv, NEW s \in Servers, server' = [server EXCEPT ![s] = Idle]
    PROVE  Continuing(s)'
<1>1. server'[s].step = "idle"
  BY DEF CommandsInv, Idle, Serving
<1>2. QED
  BY <1>1 DEF Continuing

(***************************************************************************)
(* A transaction that takes effect makes the others on its log, or on its  *)
(* hero, out of date, and leaves the rest as good as they were.            *)
(***************************************************************************)
LEMMA TransactionsContinue ==
    ASSUME CommandsInv, NEW t \in Transactions, Derived(t), Objection(t) = "none",
           Installs(t), Continues(t)
    PROVE  /\ \A h \in Heroes : Grows(h) => Grows(h)'
           /\ \A u \in Transactions : Derived(u) /\ Continues(u) => Continues(u)'
<1>1. /\ hero.level \in {1, 2} /\ hero'.level \in {1, 2} /\ hero.level <= hero'.level
      /\ hero \in Heroes
  BY LevelsStay DEF CommandsInv, DatabaseInv, DatabaseTypes
<1>2. Len(turnEvents) \in Nat
  BY DEF CommandsInv, DatabaseInv, DatabaseTypes
<1>3. CASE OfCampaign(t)
  <2>1. Len(turnEvents') = Len(turnEvents) + 1
    BY <1>3, AppendedEvent
  <2>2. EncounterStarted => EncounterStarted'
    <3>1. EncounterStarted => OfEncounter(t)
      BY <1>3, AppendedEvent
    <3>2. /\ turnEvents'[Len(turnEvents) + 1] =
                [command |-> t.command, state |-> t.state, rolledFrom |-> t.rolledFrom]
          /\ Len(turnEvents) + 1 \in DOMAIN turnEvents'
      BY <1>2, <1>3, AppendedEvent
    <3>3. QED
      BY <3>1, <3>2 DEF EncounterStarted, IsEncounter, OfEncounter
  <2>3. ASSUME NEW h \in Heroes, Grows(h) PROVE Grows(h)'
    BY <2>2, <2>3, <1>1 DEF Grows, Heroes, Unhurt
  <2>4. ASSUME NEW u \in Transactions, Derived(u), Continues(u) PROVE Continues(u)'
    <3>1. OfCampaign(u) => u.command.expected < Len(turnEvents') + 1
      <4>1. u.command.expected \in Nat
        BY <2>4, Kinded DEF Derived
      <4>2. QED
        BY <4>1, <2>1, <2>4, <1>2 DEF Continues
    <3>2. ~OfCampaign(u) /\ u.derivedFrom = hero'.revision => ChangesHero(u)'
      <4>1. SUFFICES ASSUME ~OfCampaign(u), u.derivedFrom = hero'.revision
                     PROVE  ChangesHero(u)'
        OBVIOUS
      <4>2. WritesHero(u)
        BY <2>4, <4>1, Kinded DEF Derived, OfCampaign, WritesHero
      <4>3. u.derivedFrom <= hero.revision /\ hero.revision \in Nat /\ u.derivedFrom \in Nat
        BY <2>4, <4>2, <1>1 DEF Derived, Heroes, Transactions
      <4>4. hero' = hero
        BY <4>1, <4>3, InstalledHero DEF CommandsInv, DatabaseInv
      <4>5. QED
        BY <2>4, <4>1, <4>4 DEF Continues, ChangesHero
    <3>3. OfCampaign(u)' <=> OfCampaign(u)
      BY DEF OfCampaign
    <3>4. QED
      BY <3>1, <3>2, <1>2, <2>1, <2>4, Kinded DEF Continues, OfCampaign, Derived
  <2>5. QED
    BY <2>3, <2>4
<1>4. CASE ~OfCampaign(t)
  <2>1. turnEvents' = turnEvents
    BY <1>4 DEF Installs
  <2>2. (EncounterStarted' <=> EncounterStarted) /\ (Explored' <=> Explored)
        /\ LastEvent' = LastEvent
    BY <2>1 DEF EncounterStarted, IsEncounter, Explored, LastEvent
  <2>3. hero'.revision = hero.revision + 1
    <3>1. WritesHero(t)
      BY <1>4, Kinded DEF Derived, OfCampaign, WritesHero
    <3>2. QED
      BY <3>1, InstalledHero DEF CommandsInv, DatabaseInv
  <2>4. ASSUME NEW h \in Heroes, Grows(h) PROVE Grows(h)'
    BY <2>2, <2>4, <1>1 DEF Grows, Heroes, Unhurt
  <2>5. ASSUME NEW u \in Transactions, Derived(u), Continues(u) PROVE Continues(u)'
    <3>1. ContinuesLog(u) => ContinuesLog(u)'
      <4>1. u.state.level \in {1, 2}
        BY DEF Transactions, EncounterStates
      <4>2. u.state.level <= hero.level => u.state.level <= hero'.level
        BY <4>1, <1>1
      <4>3. QED
        BY <4>2, <2>1, <2>2 DEF ContinuesLog, OfEncounter, WritesHero, Profile, Unhurt
    <3>2. ~OfCampaign(u) => u.derivedFrom # hero'.revision
      <4>1. ~OfCampaign(u) => WritesHero(u)
        BY <2>5, Kinded DEF Derived, OfCampaign, WritesHero
      <4>2. ~OfCampaign(u) => u.derivedFrom <= hero.revision
        BY <2>5, <4>1 DEF Derived
      <4>3. hero.revision \in Nat /\ u.derivedFrom \in Nat
        BY <1>1 DEF Heroes, Transactions
      <4>4. QED
        BY <4>2, <4>3, <2>3
    <3>3. QED
      BY <3>1, <3>2, <2>1, <2>5 DEF Continues, OfCampaign
  <2>6. QED
    BY <2>4, <2>5
<1>5. QED
  BY <1>3, <1>4

LEMMA OthersContinue ==
    ASSUME CommandsInv, EncounterInv, NEW t \in Transactions, Derived(t),
           Objection(t) = "none", Installs(t), Continues(t),
           NEW r \in Servers, server'[r] = server[r]
    PROVE  Continuing(r)'
<1>1. server[r].hero \in Heroes /\ server[r].transaction \in Transactions
  BY DEF CommandsInv, ServerStates
<1>2. PICK h \in Heroes : h = server[r].hero
  BY <1>1
<1>3. PICK u \in Transactions : u = server[r].transaction
  BY <1>1
<1>4. /\ Grows(h) => Grows(h)'
      /\ Derived(u) /\ Continues(u) => Continues(u)'
  BY TransactionsContinue
<1>5. /\ Grows(server[r].hero) => Grows(h)
      /\ Continues(server[r].transaction) => Continues(u)
      /\ Derived(server[r].transaction) => Derived(u)
  BY <1>2, <1>3
<1>6. /\ Grows(h)' => Grows(server[r].hero)'
      /\ Continues(u)' => Continues(server[r].transaction)'
  BY <1>2, <1>3 DEF Grows, Unhurt, Continues, ContinuesLog, ChangesHero, OfCampaign, OfEncounter,
     WritesHero, Profile
<1>7. Continuing(r) /\ Holds(r)
  BY DEF EncounterInv, CommandsInv
<1>8. QED
  BY <1>4, <1>5, <1>6, <1>7 DEF Continuing, Holds

LEMMA ContinuesCommit ==
    ASSUME CommandsInv, EncounterInv, NEW s \in Servers, Commit(s)
    PROVE  EncounterInv'
<1> DEFINE v == [server[s] EXCEPT !.step = "committed"]
<1>1. PICK t \in Transactions : t = server[s].transaction
  BY DEF CommandsInv, ServerStates
<1>2. /\ Derived(t) /\ Objection(t) = "none" /\ Installs(t) /\ Continues(t)
      /\ inDoubt' = inDoubt
  BY <1>1 DEF Commit, At, CommandsInv, Holds, EncounterInv, Continuing
<1>3. DocumentsAgree'
  BY <1>2, EventsAgree, AuditsAgree DEF EncounterInv
<1>4. server' = [server EXCEPT ![s] = v] /\ server[s] \in ServerStates
  BY DEF Commit, Goto, CommandsInv
<1>5. ASSUME NEW r \in Servers PROVE Continuing(r)'
  <2>1. CASE r = s
    <3>1. server'[r].step = "committed"
      BY <2>1, <1>4 DEF CommandsInv, ServerStates
    <3>2. QED
      BY <3>1 DEF Continuing
  <2>2. CASE r # s
    <3>1. server'[r] = server[r]
      BY <2>2, <1>4 DEF CommandsInv
    <3>2. QED
      BY <3>1, <1>2, OthersContinue
  <2>3. QED
    BY <2>1, <2>2
<1>6. ASSUME NEW u \in inDoubt PROVE Continues(u)'
  <2>1. u \in Transactions /\ Derived(u) /\ Continues(u)
    BY DEF CommandsInv, EncounterInv
  <2>2. QED
    BY <2>1, <1>2, TransactionsContinue
<1>7. QED
  BY <1>2, <1>3, <1>5, <1>6 DEF EncounterInv

LEMMA ContinuesLateCommit ==
    ASSUME CommandsInv, EncounterInv, NEW t \in inDoubt, LateCommit(t)
    PROVE  EncounterInv'
<1>1. /\ t \in Transactions /\ Derived(t) /\ Objection(t) = "none" /\ Installs(t)
      /\ Continues(t) /\ inDoubt' \subseteq inDoubt /\ server' = server
  BY DEF LateCommit, CommandsInv, EncounterInv
<1>2. DocumentsAgree'
  BY <1>1, EventsAgree, AuditsAgree DEF EncounterInv
<1>3. \A r \in Servers : Continuing(r)'
  BY <1>1, OthersContinue
<1>4. ASSUME NEW u \in inDoubt PROVE Continues(u)'
  <2>1. u \in Transactions /\ Derived(u) /\ Continues(u)
    BY DEF CommandsInv, EncounterInv
  <2>2. QED
    BY <2>1, <1>1, TransactionsContinue
<1>5. QED
  BY <1>1, <1>2, <1>3, <1>4 DEF EncounterInv

(***************************************************************************)
(* Steps that leave the events, the projection and the hero alone.         *)
(***************************************************************************)
LEMMA QuietContinues ==
    ASSUME CommandsInv, EncounterInv, UNCHANGED <<turnEvents, encounter, hero>>,
           \A r \in Servers : server'[r] = server[r] \/ Continuing(r)',
           \A u \in inDoubt' : u \in inDoubt \/ Continues(u)
    PROVE  EncounterInv'
<1>1. DocumentsAgree'
  BY DEF EncounterInv, DocumentsAgree, EventsReplay, Replays, EncounterIsLast,
     IsEncounter, EncounterStarted, ProjectionFollowsLog, HeroFollowsEncounter, LastEvent, Unhurt
<1>2. ASSUME NEW r \in Servers, server'[r] = server[r] PROVE Continuing(r)'
  BY <1>2 DEF EncounterInv, Continuing, Grows, Continues, ContinuesLog, ChangesHero, Unhurt,
     EncounterStarted, IsEncounter, Explored, LastEvent, OfCampaign, OfEncounter, WritesHero,
     Profile
<1>3. ASSUME NEW u \in inDoubt' PROVE Continues(u)'
  <2>1. Continues(u)
    BY <1>3 DEF EncounterInv
  <2>2. QED
    BY <2>1 DEF Continues, ContinuesLog, ChangesHero, Unhurt, EncounterStarted, IsEncounter,
       Explored, LastEvent, OfCampaign, OfEncounter, WritesHero, Profile
<1>4. QED
  BY <1>1, <1>2, <1>3 DEF EncounterInv

LEMMA ContinuesLeaveInDoubt ==
    ASSUME CommandsInv, EncounterInv, NEW s \in Servers, LeaveInDoubt(s)
    PROVE  EncounterInv'
<1>1. PICK t \in Transactions : t = server[s].transaction
  BY DEF CommandsInv, ServerStates
<1> DEFINE u == [t EXCEPT !.sitting = campaign.sitting]
<1>2. Continues(t)
  BY <1>1 DEF LeaveInDoubt, At, EncounterInv, Continuing
<1>3. /\ u.command = t.command /\ u.derivedFrom = t.derivedFrom /\ u.successor = t.successor
      /\ u.state = t.state /\ u.rolledFrom = t.rolledFrom
  BY DEF Transactions
<1>4. Continues(u)
  BY <1>2, <1>3 DEF Continues, ContinuesLog, ChangesHero, OfCampaign, OfEncounter, WritesHero
<1>5. inDoubt' = inDoubt \cup {u} /\ server' = [server EXCEPT ![s] = Idle]
  BY <1>1 DEF LeaveInDoubt
<1>6. \A r \in Servers : server'[r] = server[r] \/ Continuing(r)'
  <2>1. Continuing(s)'
    BY <1>5, IdleContinues
  <2>2. QED
    BY <2>1, <1>5 DEF CommandsInv
<1>7. QED
  BY <1>4, <1>5, <1>6, QuietContinues DEF LeaveInDoubt, databaseVars

-----------------------------------------------------------------------------
(* The invariant of the encounter.                                         *)

LEMMA EncounterInvInit == CommandsInit => EncounterInv
<1> SUFFICES ASSUME CommandsInit PROVE EncounterInv
  OBVIOUS
<1>1. turnEvents = <<>> /\ inDoubt = {} /\ \A s \in Servers : server[s].step = "idle"
  BY DEF CommandsInit, Idle, Serving
<1>2. ~EncounterStarted
  BY <1>1 DEF EncounterStarted
<1>3. EventsReplay
  BY <1>1 DEF EventsReplay, Replays
<1>4. Unhurt(hero)
  BY CommandsAssumption DEF CommandsInit, Unhurt
<1>5. DocumentsAgree
  BY <1>2, <1>3, <1>4 DEF CommandsInit, DocumentsAgree, EncounterIsLast, ProjectionFollowsLog,
     HeroFollowsEncounter
<1>6. QED
  BY <1>1, <1>5 DEF EncounterInv, Continuing

LEMMA EncounterInvStep ==
    CommandsInv /\ EncounterInv /\ [CommandsNext]_commandVars => EncounterInv'
<1> SUFFICES ASSUME CommandsInv, EncounterInv, [CommandsNext]_commandVars PROVE EncounterInv'
  OBVIOUS
<1>1. ASSUME NEW s \in Servers, ServerStep(s) PROVE EncounterInv'
  <2>1. CASE Interrupt(s) \/ Done(s)
    <3>1. Continuing(s)'
      BY <2>1, IdleContinues DEF Interrupt, Done
    <3>2. QED
      BY <2>1, <3>1, ServerContinues DEF Interrupt, Done
  <2>2. QED
    BY <1>1, <2>1, ContinuesReading, ContinuesListEvents, ContinuesAdvanceHero,
       ContinuesChecking, ContinuesCommit, ContinuesLeaveInDoubt DEF ServerStep
<1>2. ASSUME NEW t \in inDoubt, LateCommit(t) PROVE EncounterInv'
  BY <1>2, ContinuesLateCommit
<1>3. ASSUME NEW t \in inDoubt, Discard(t) PROVE EncounterInv'
  BY <1>3, QuietContinues DEF Discard, databaseVars
<1>4. CASE StartSitting \/ EndSitting \/ UNCHANGED commandVars
  BY <1>4, QuietContinues DEF StartSitting, EndSitting, commandVars, databaseVars
<1>5. QED
  BY <1>1, <1>2, <1>3, <1>4 DEF CommandsNext

LEMMA EncounterInvariant == CommandsSpec => []EncounterInv
BY EncounterInvInit, EncounterInvStep, CommandsInvariant, PTL DEF CommandsSpec

(***************************************************************************)
(* The stored events always replay: project_encounter accepts what the     *)
(* servers committed, whatever raced and whatever commit was in doubt.     *)
(***************************************************************************)
THEOREM StoredEventsReplay == CommandsSpec => []EventsReplay
<1>1. EncounterInv => EventsReplay
  BY DEF EncounterInv, DocumentsAgree
<1>2. QED
  BY <1>1, EncounterInvariant, PTL

(***************************************************************************)
(* The encounter projection is always the state the last event left.       *)
(***************************************************************************)
THEOREM ProjectionIsCurrent == CommandsSpec => []ProjectionFollowsLog
<1>1. EncounterInv => ProjectionFollowsLog
  BY DEF EncounterInv, DocumentsAgree
<1>2. QED
  BY <1>1, EncounterInvariant, PTL

(***************************************************************************)
(* The hero has the hit points the encounter left it with, until it gains  *)
(* a level.                                                                *)
(***************************************************************************)
THEOREM HeroIsAsTheEncounterLeftIt == CommandsSpec => []HeroFollowsEncounter
<1>1. EncounterInv => HeroFollowsEncounter
  BY DEF EncounterInv, DocumentsAgree
<1>2. QED
  BY <1>1, EncounterInvariant, PTL

=============================================================================
