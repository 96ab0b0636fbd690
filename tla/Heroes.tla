-------------------------------- MODULE Heroes --------------------------------
(***************************************************************************)
(* The hero of a local campaign: drafts that choose it step by step, the   *)
(* content pins the first choice seals, its creation, and its rewards,     *)
(* its level-up and the claim of the encounter's reward.  Several server   *)
(* processes share the database; in each, a mutex admits one command at a  *)
(* time.  Each read of a command is a step of its own, its transaction is  *)
(* one step.  A server that ends takes no more steps.                      *)
(***************************************************************************)
EXTENDS HeroRules

CONSTANTS
    Servers,        \* server processes
    Clients,        \* each sends one command per revision it sees, under a key of its own
    Drafts,         \* identities of drafts
    Offers,         \* the choices, with a theme, a client makes for each draft
    Themes,         \* themes a campaign may be pinned to
    Unpinned,       \* no theme
    NoCommand,      \* no command
    Ageing,         \* bound: the drafts that expire
    OfferedTiers,   \* bound: the tiers of rewards given
    Contended,      \* bound: the steps at which servers work at the same time
    CoreSharesAccount,  \* the core character is an active one of the hero's account
    MaxHeroRevision     \* bound: revisions of the hero, for each set of drafts started

Hero == "hero"
HeroChoices == [theme : Themes \cup {Unpinned}, class : Classes \cup {NoClass},
                assignment : [Abilities -> Nat], background : Backgrounds \cup {NoBackground},
                equipment : Equipment, prepared : SUBSET Spells]
NoChoices == [theme |-> Unpinned, class |-> NoClass, assignment |-> NoAssignment,
              background |-> NoBackground, equipment |-> NoEquipment, prepared |-> {}]

ASSUME HeroesAssumption ==
    /\ Unpinned \notin Themes /\ Hero \notin Drafts
    /\ \A d \in Drafts : \A offer \in Offers[d] : offer \in HeroChoices /\ offer.theme \in Themes
    /\ Ageing \subseteq Drafts /\ OfferedTiers \subseteq Tiers /\ Contended \subseteq 0..CommitStep
    /\ CoreSharesAccount \in BOOLEAN
    /\ MaxHeroRevision \in [SUBSET Drafts -> Nat]

VARIABLES
    pins,       \* the theme the campaign is sealed to
    encounter,  \* how the campaign's encounter stands
    drafts,     \* the drafts
    heroes,     \* the hero, and the draft it was created from, if there is one
    receipts,   \* the commands that were committed
    audits,     \* the committed rewards and level-ups, with the revision they changed
    claims,     \* the clients' commands that claimed the encounter's reward
    server      \* what each server holds of the command it serves

databaseVars == <<pins, encounter, drafts, heroes, receipts, audits, claims>>
heroesVars == <<databaseVars, server>>

-----------------------------------------------------------------------------
(* Drafts and commands.                                                    *)

Absent == [age |-> "absent", step |-> 0, choices |-> NoChoices]
Retired == [Absent EXCEPT !.age = "retired"]
NewDraft == [Absent EXCEPT !.age = "live"]
Stored(d) == drafts[d].age \in {"live", "expired"}
Started == {d \in Drafts : drafts[d].age # "absent"}
Pinned == {d \in Drafts : Stored(d) /\ drafts[d].choices.theme # Unpinned}

\* The intent of the draft's step, or a commit without a review.
NextIntents(step) == ({step} \ {Committed}) \cup (IF step = ReviewStep THEN {CommitStep} ELSE {})

Intents(d) ==
    UNION {[kind : {"create"}, client : Clients, draft : {d}, expected : {drafts[d].step},
            intent : {i}, selection : {Selection(i, offer) : offer \in Offers[d]}] :
               i \in NextIntents(drafts[d].step)}
HeroCommands == [kind : {"reward"}, client : Clients, expected : {h.hero.revision : h \in heroes},
                 tier : OfferedTiers]
                    \cup [kind : {"levelUp", "claim"}, client : Clients,
                          expected : {h.hero.revision : h \in heroes}]
Scope(c) == IF c.kind = "create" THEN c.draft ELSE Hero
SameKey(c, d) == Scope(c) = Scope(d) /\ c.client = d.client /\ c.expected = d.expected

Steps == {"idle", "hero", "draft", "pins", "receipt", "create", "apply", "claim", "commit",
          "duplicate", "recheck"}
\* How a command was answered matters only where a property asks; a lost answer is like any
\* other, as clients may send every command again.
Replies == {"answered", "quarantined"}

Idle(reply) == [step |-> "idle", command |-> NoCommand, selected |-> Unpinned,
                successor |-> NoCommand, reply |-> reply]

HeroesInit ==
    /\ pins = Unpinned /\ encounter = "open"
    /\ drafts = [d \in Drafts |-> Absent]
    /\ heroes = {} /\ receipts = {} /\ audits = {} /\ claims = {}
    /\ server = [s \in Servers |-> Idle("answered")]

At(s, step) == server[s].step = step
Goto(s, step) == server' = [server EXCEPT ![s].step = step]
Answer(s, reply) == server' = [server EXCEPT ![s] = Idle(reply)]
Found(c) == {r \in receipts : SameKey(r, c)}

\* Of the commands already committed, the last to change a document is sent again; those
\* before it would find their receipts just the same.
Revision(scope) ==
    IF scope = Hero THEN CHOOSE n \in {h.hero.revision : h \in heroes} : TRUE
                    ELSE drafts[scope].step

Interleaves(c) == c.kind = "create" => c.expected \in Contended

Accept(s, c) ==
    /\ \A t \in Servers \ {s} :
          ~At(t, "idle") => Interleaves(c) /\ Interleaves(server[t].command)
    /\ server' = [server EXCEPT ![s] =
          [Idle("answered") EXCEPT !.step = IF c.kind = "create" THEN "receipt" ELSE "hero",
                                   !.command = c]]

Receive(s) ==
    /\ At(s, "idle")
    /\ \/ \E d \in Drafts :
            /\ drafts[d] = Absent
            /\ \A h \in heroes : h.hero.revision <= MaxHeroRevision[Started \cup {d}]
            /\ Accept(s, [kind |-> "start", draft |-> d])
       \/ \E d \in Started : \E c \in Intents(d) : Accept(s, c)
       \/ \E c \in HeroCommands : c.expected < MaxHeroRevision[Started] /\ Accept(s, c)
       \/ \E c \in receipts : c.expected + 1 >= Revision(Scope(c)) /\ Accept(s, c)
    /\ UNCHANGED databaseVars

-----------------------------------------------------------------------------
(* The campaign's pins: those of the hero, or else of the draft pinned     *)
(* last, must be those the campaign is sealed to.                          *)

\* The hero is read first.
ReadHero(s) ==
    /\ At(s, "hero")
    /\ IF heroes = {} THEN Goto(s, "draft")
       ELSE \E h \in heroes :
               server' = [server EXCEPT ![s].step = "pins", ![s].selected = h.hero.choices.theme]
    /\ UNCHANGED databaseVars

\* Any pinned draft: which one was updated last makes no difference if they agree.
ReadPinnedDraft(s) ==
    /\ At(s, "draft")
    /\ IF Pinned = {} THEN Goto(s, "pins")
       ELSE \E d \in Pinned :
               server' = [server EXCEPT ![s].step = "pins", ![s].selected = drafts[d].choices.theme]
    /\ UNCHANGED databaseVars

SelectsTheme(c) == c.kind = "create" /\ c.intent = ThemeStep

\* An unsealed campaign is quarantined if anything is pinned or its encounter was played.
Quarantined(selected) ==
    IF pins = Unpinned THEN selected # Unpinned \/ encounter # "open"
    ELSE selected \notin {Unpinned, pins}

AfterPins(c) ==
    CASE c.kind = "start" -> "create" [] c.kind = "create" -> "apply" [] OTHER -> "receipt"

ReadPins(s) ==
    LET c == server[s].command IN
    /\ At(s, "pins")
    /\ IF Quarantined(server[s].selected) THEN Answer(s, "quarantined")
       ELSE IF \/ pins = Unpinned /\ c.kind # "start" /\ ~SelectsTheme(c)
               \/ pins # Unpinned /\ SelectsTheme(c) /\ c.selection.theme # pins
            THEN Answer(s, "answered")
       ELSE server' = [server EXCEPT ![s].step = AfterPins(c), ![s].selected = Unpinned]
    /\ UNCHANGED databaseVars

ReadReceipt(s) ==
    LET c == server[s].command IN
    /\ At(s, "receipt")
    /\ IF Found(c) # {} THEN Answer(s, "answered")
       ELSE Goto(s, IF c.kind = "create" THEN "hero" ELSE "apply")
    /\ UNCHANGED databaseVars

-----------------------------------------------------------------------------
(* What a command derives from its second read.                            *)

\* The start deletes retired drafts and creates one.
CreateDraft(s) ==
    LET d == server[s].command.draft IN
    /\ At(s, "create")
    /\ drafts' = IF drafts[d] = Absent THEN [drafts EXCEPT ![d] = NewDraft] ELSE drafts
    /\ Answer(s, "answered")
    /\ UNCHANGED <<pins, encounter, heroes, receipts, audits, claims>>

Successor(draft, c) ==
    [draft EXCEPT !.step = @ + 1, !.choices = Chosen(@, c.selection)]

IntentAllowed(draft, c) ==
    /\ draft.age = "live"
    /\ c.expected = draft.step
    /\ c.intent = draft.step /\ draft.step # Committed
    /\ SelectionAllowed(draft.step, Successor(draft, c).choices)

HeroCommandAllowed(hero, c) ==
    /\ HeroIsValid(hero)
    /\ c.expected = hero.revision
    /\ CASE c.kind = "reward" -> RewardAllowed(hero, c.tier)
         [] c.kind = "levelUp" -> LevelUpAllowed(hero)
         [] c.kind = "claim" -> RewardAllowed(hero, "major")

HeroSuccessor(hero, c) ==
    CASE c.kind = "reward" -> Rewarded(hero, c.tier)
      [] c.kind = "levelUp" -> LeveledUp(hero)
      [] c.kind = "claim" -> Rewarded(hero, "major")

Derived(s, step, successor) ==
    server' = [server EXCEPT ![s].step = step, ![s].successor = successor]

ApplyIntent(s) ==
    LET c == server[s].command
        draft == drafts[c.draft]
    IN  /\ At(s, "apply") /\ c.kind = "create"
        /\ IF IntentAllowed(draft, c) THEN Derived(s, "commit", Successor(draft, c))
           ELSE Answer(s, "answered")
        /\ UNCHANGED databaseVars

\* Mutant: the claims carry a key of their own.
NeverClaimed == FALSE
\* The encounter's reward is claimed once.
Claimed == claims # {}

\* A claim needs a hero that can fight and a victory.
ApplyToHero(s) ==
    LET c == server[s].command IN
    /\ At(s, "apply") /\ c.kind # "create"
    /\ \E h \in heroes :
          IF c.kind = "claim"
          THEN IF CanFight(h.hero) /\ encounter = "victory"
               THEN Derived(s, "claim", h.hero) ELSE Answer(s, "answered")
          ELSE IF HeroCommandAllowed(h.hero, c)
               THEN Derived(s, "commit", HeroSuccessor(h.hero, c)) ELSE Answer(s, "answered")
    /\ UNCHANGED databaseVars

\* The claim is looked up after the hero was read.
ReadClaim(s) ==
    LET c == server[s].command IN
    /\ At(s, "claim")
    /\ IF ~Claimed /\ HeroCommandAllowed(server[s].successor, c)
       THEN Derived(s, "commit", HeroSuccessor(server[s].successor, c))
       ELSE Answer(s, "answered")
    /\ UNCHANGED databaseVars

-----------------------------------------------------------------------------
(* The transactions.                                                       *)

\* A conflict of revisions, pins or receipts, or a duplicate key, aborts the transaction;
\* the server then looks for a receipt.
Abort(s, step) ==
    /\ server' = [server EXCEPT ![s].step = step, ![s].successor = NoCommand]
    /\ UNCHANGED databaseVars

\* The key was used for another command, or what the command is for is gone.
Refuse(s) == Answer(s, "answered") /\ UNCHANGED databaseVars

Commit(s, c) == receipts' = receipts \cup {c} /\ Answer(s, "answered")

\* One active character per account and campaign.
AccountHasCharacter == heroes # {} \/ CoreSharesAccount

\* Mutant: a later choice seals the campaign anew.
SealedAnyway(theme) == TRUE

\* The first choice of a theme seals the campaign, a later one must agree.
Sealed(theme) == pins = Unpinned \/ pins = theme

CommitIntent(s) ==
    LET c == server[s].command
        d == c.draft
        next == server[s].successor
    IN  /\ At(s, "commit") /\ c.kind = "create"
        /\ IF Found(c) # {} THEN IF c \in receipts THEN Abort(s, "recheck") ELSE Refuse(s)
           ELSE IF ~Stored(d) THEN Refuse(s)
           ELSE IF drafts[d].step # c.expected THEN Abort(s, "recheck")
           ELSE IF c.intent = CommitStep /\ AccountHasCharacter THEN Abort(s, "duplicate")
           ELSE IF c.intent = ThemeStep /\ ~Sealed(c.selection.theme) THEN Abort(s, "recheck")
           ELSE /\ drafts' = [drafts EXCEPT ![d] = [next EXCEPT !.age = drafts[d].age]]
                /\ heroes' = IF c.intent # CommitStep THEN heroes
                             ELSE heroes \cup {[hero |-> CreatedHero(next.choices), draft |-> d]}
                /\ pins' = IF c.intent = ThemeStep THEN c.selection.theme ELSE pins
                /\ Commit(s, c)
                /\ UNCHANGED <<encounter, audits, claims>>

CommitHeroCommand(s) ==
    LET c == server[s].command
        next == server[s].successor
    IN  /\ At(s, "commit") /\ c.kind # "create"
        /\ \E h \in heroes :
              IF Found(c) # {} THEN IF c \in receipts THEN Abort(s, "recheck") ELSE Refuse(s)
              ELSE IF h.hero.revision # c.expected THEN Abort(s, "recheck")
              ELSE IF c.kind = "claim" /\ Claimed THEN Abort(s, "duplicate")
              ELSE /\ heroes' = {[h EXCEPT !.hero = next]}
                   /\ audits' = audits \cup
                        {[kind |-> c.kind, client |-> c.client, before |-> c.expected,
                          experience |-> next.experience - h.hero.experience]}
                   /\ claims' = IF c.kind = "claim" THEN claims \cup {c} ELSE claims
                   /\ Commit(s, c)
                   /\ UNCHANGED <<pins, encounter, drafts>>

\* A duplicate key is explained by a receipt of the command, or is an error.
ExplainDuplicate(s) ==
    LET c == server[s].command IN
    /\ At(s, "duplicate")
    /\ IF c \in receipts THEN Goto(s, "recheck")
       ELSE Answer(s, "answered")
    /\ UNCHANGED databaseVars

\* A receipt found is replayed, without one the conflict is reported.
Recheck(s) ==
    /\ At(s, "recheck")
    /\ Answer(s, "answered")
    /\ UNCHANGED databaseVars

-----------------------------------------------------------------------------
(* Everything else.                                                        *)

\* A draft expires after seven days and is deleted thirty days later.
Expire(d) ==
    /\ d \in Ageing
    /\ drafts[d].age = "live"
    /\ drafts' = [drafts EXCEPT ![d].age = "expired"]
    /\ UNCHANGED <<pins, encounter, heroes, receipts, audits, claims, server>>

Retire(d) ==
    /\ drafts[d].age = "expired"
    /\ drafts' = [drafts EXCEPT ![d] = Retired]
    /\ UNCHANGED <<pins, encounter, heroes, receipts, audits, claims, server>>

\* An encounter command or a rest: what it left of the hero, compared and set with the
\* hero's revision in one transaction.  MODULE CampaignCommands has its steps.
LeftByEncounter(hero, end) ==
    IF end = "rested" THEN Synchronized(hero, FullHitPoints(hero), FullPools(hero))
    ELSE Synchronized(hero, IF end = "spent" THEN 1 ELSE 0, [p \in DOMAIN hero.pools |-> 0])

PlayEncounter ==
    /\ pins # Unpinned
    /\ \A h \in heroes : h.hero.revision < MaxHeroRevision[Started] /\ CanFight(h.hero)
    /\ \E h \in heroes, outcome \in {encounter, "victory"}, end \in {"fallen", "spent", "rested"} :
          /\ encounter = "open" /\ outcome = "victory" => end = "spent"
          /\ heroes' = {[h EXCEPT !.hero = LeftByEncounter(h.hero, end)]}
          /\ encounter' = outcome
    /\ UNCHANGED <<pins, drafts, receipts, audits, claims, server>>

Serve(s) ==
    \/ Receive(s) \/ ReadHero(s) \/ ReadPinnedDraft(s) \/ ReadPins(s) \/ ReadReceipt(s)
    \/ CreateDraft(s) \/ ApplyIntent(s) \/ ApplyToHero(s) \/ ReadClaim(s)
    \/ CommitIntent(s) \/ CommitHeroCommand(s) \/ ExplainDuplicate(s) \/ Recheck(s)

HeroesNext ==
    \/ \E s \in Servers : Serve(s)
    \/ \E d \in Drafts : Expire(d) \/ Retire(d)
    \/ PlayEncounter

HeroesSpec == HeroesInit /\ [][HeroesNext]_heroesVars
=============================================================================
