# A formal model of Manchester D&D

This directory holds TLA+ specifications of the game server in this repository,
the TLC configurations that check them on small instances, and TLAPS proofs.
Line numbers refer to the repository at the commit the models were written from;
`PROJECT.json` maps every definition to its lines.

## 1. The system

The server is a Rust modular monolith. `crates/game-core` holds deterministic
rules without I/O; `crates/game-server` holds the application services, the
repositories over MongoDB and the AI generation machinery; `app/` and `server/`
are the Leptos user interface and the process that hosts everything. MongoDB (a
replica set) is the only authority: every multi-document change is one
transaction with snapshot reads and majority writes, run by
`persistence/transaction.rs`. An optional Dragonfly cache holds session lookups.
Several server processes may run against one database. Inside a process,
commands of the local campaign are serialised by a mutex; across processes only
the database decides.

### Inventory

| Component | State it keeps | Operations | What is hard | What makes it correct |
|---|---|---|---|---|
| Generation queue (`repository/jobs.rs`) | job documents: state, attempts, lease, retry time, pending artifact | enqueue, claim, heartbeat, succeed, fail, cancel | expired leases, late answers, retries, a heartbeat outside any transaction | one leased attempt, bounded attempts, an ended job is final, limits per campaign |
| Budgets (`repository/governance.rs`) | four reservation documents per job | admit, charge, settle, release, purge | concurrent admission, unknown usage, overage, every way a job may end | a hold is open exactly while its job is; totals within the allowance |
| Scene-image metadata (`repository/images.rs`) | asset documents, selected artifact of a turn | stage, select, authorise, quarantine, clean up | replacement, stale worker, end of a worker between two transactions | published means succeeded; one selected artifact per turn |
| Image worker, storage (`scene_images.rs`) | the files of a job, what a worker knows | request, cancel, process, deliver, clean up | files and database change separately; lost leases | delivered bytes are those the metadata describes; every request ends |
| Inline ledger (`generation_ledger.rs`) | nothing of its own | begin, finish, publish | a request future may be dropped | a job that was begun ends |
| Transaction helper (`persistence/transaction.rs`) | attempt counters | retry, commit, give up | unknown commit results, deadline | an effect happens at most once; success means it happened |
| Command commit (`application.rs`, `repository.rs`) | campaign revision, event log, receipts, encounter and hero projections | social, exploration, encounter, NPC commands | two processes with one revision, repeated keys, unknown outcomes | each key takes effect once; the log has no gap; replays answer the same |
| Encounter engine (`game-core/encounter.rs`, `rules_matrix.rs`) | initiative, action economy, conditions, hit points, spells, rests | offer actions, resolve a command, validate, select the NPC's intent | offers, resolution and validation are written apart; long sequences of legal commands | what is offered can be done; somebody can always act, never both; resources within their pools |
| Dice (`roll.rs`, `dice.rs`) | a cursor into a seeded stream | roll | retries must not re-roll | a cursor range belongs to one event |
| Exploration (`exploration.rs`) | scene, clocks, attitudes | check, interact | authored transitions | clocks within their segments |
| Typed GM (`typed_gm.rs`, `gm.rs`) | stages of one AI turn | interpret, plan, narrate, fall back | provider failures at each stage | authority never passes to the provider |
| Presentations, recaps | versions per turn, one selected | publish, select, retire | versions published side by side | one selected version |
| Accounts and sessions (`auth.rs`, `persistence/auth.rs`, `cache/`) | accounts, sessions, sign-up tokens, cache entries | sign up, log in, authenticate, rehash, log out, clean up | a cache that is filled late, not cleared, or stale; logins side by side | a revoked session is served for less than one refresh interval; a session in use lasts, less what a refresh interval and a late refresh take |
| Memberships (`repository/memberships.rs`) | members, invitations, characters in the campaign | invite, accept, revoke, remove, assign a character | transactions that only read the campaign | an invitation makes one member; characters belong to members |
| Campaign lifecycle (`repository/lifecycle.rs`) | lifecycle state, deletion preparation, play sessions, receipts | archive, export, prepare and confirm deletion, restore, start and end play | a campaign that comes back with older receipts; a deletion confirmed after a change | one open play session, none in an archive; no effect without its receipt |
| Action points (`repository/action_points.rs`) | balance and ledger | award, spend | repeated commands, limits | balance equals the ledger |
| Player characters (`repository/player_characters.rs`, `application/player_characters.rs`) | drafts, characters, audits, receipts | create, rename, save, commit, delete, assign | a command is several transactions; the browser goes around the service; a deletion beside an assignment | what is answered and recorded did happen, once; a character that plays is in the library |
| Heroes (`repository/hero.rs`, `application/hero.rs`) | drafts, the hero, rewards, levels | choose, commit, reward, level up, reverse | repeated rewards, stale revisions | a reward is granted once |
| Inspiration (`repository/inspiration.rs`, `freeform.rs`) | settings, switch, participants, sources, grants, vetoes, selections, derived work | verify, delete, review, grant, revoke, veto, configure, disable, select, register, publish, abandon | withdrawal racing registration and publication; work and text in two documents; retries answered from receipts | what is withdrawn reaches what was derived from it, and stays withdrawn |
| Operations, pins, vaults, content, configuration, schema | retention, content pins, files, tables | sweep, seal, validate | mostly I/O and static validation | — |
| User interface (`app/`, `server/`) | rendering state | server functions | — | — |

`PROJECT.json` lists the same parts with what is modelled of each, and under
"hazards" what is hard to test, each at its line.

## 2. Modules

| Module | Models |
|---|---|
| `GenerationBudget` | a job's reservation: admission, charging, settlement, release |
| `GenerationQueue` | the queue: one action per operation, any caller, relative time |
| `GenerationQueueProperties` | its invariants, action properties and refinement |
| `JobLifecycle` | abstract: what the queue promises of one job |
| `GenerationWorkers` | image workers and inline text requests driving the queue |
| `GenerationWorkersProperties` | what both must do together |
| `GenerationQueue_proofs` | theorems about the queue and its workers |
| `TransactionOutcome` | abstract: what a caller of `with_transaction` may rely on |
| `TransactionAttempts` | the helper, await by await, and the database that decides |
| `CommandLog` | abstract: what a client may rely on for its commands |
| `CampaignCommands` | the commands of a campaign on several servers |
| `CampaignCommandsProperties` | their invariants, action properties and refinement |
| `CampaignCommands_proofs` | theorems about them |
| `CampaignLifecycle` | one campaign: play sessions, archive, deletion, restoration, members |
| `CampaignLifecycleProperties` | its invariants |
| `Sessions` | the login sessions of an account and the cache before them |
| `SessionsProperties` | its invariants |
| `PlayerCharacters` | the library of an account: characters, drafts, audits, receipts, assignments |
| `PlayerCharactersProperties` | its invariants |
| `Accounts_proofs` | theorems about both |
| `Encounter` | the rules engine of the encounter: offers, outcomes, validation, policy |
| `EncounterProperties` | its invariants and action properties |
| `Encounter_proofs` | theorems about it |
| `HeroRules` | the rules of a hero: choices, derived sheet, rewards, level two, combat profile |
| `Heroes` | the creation of a hero, its pins, rewards, claim and level-up on several servers |
| `HeroesProperties` | its invariants and action property |
| `Inspiration` | private sources, consent, vetoes, and the narration derived from them |
| `InspirationProperties` | its invariants and action properties |
| `LifecycleAndInspiration_proofs` | theorems about it, the life of a campaign and the transaction helper |
| `Narration` | the texts of a campaign: narrations in versions, typed intents, recaps |
| `NarrationProperties` | their invariants |
| `Narration_proofs` | theorems about them |
| `GameMaster` | one service: permits, calls, repairs, a deadline, a circuit, authored answers |
| `GameMasterProperties` | its invariants, action property and liveness |
| `HeroesAndGameMaster_proofs` | theorems about it and about the heroes |
| `SumTheorems` | lemmas about the sums of the community module `Functions` |
| `MC…` | constants for TLC |

### The queue

A job, its attempts, the asset in its publication slot and its reservation are
variables indexed by job. Every operation of `jobs.rs` except the heartbeat is a
snapshot transaction that writes the job document (and the campaign document:
`generation_queue_revision` on enqueue, `generation_claim_revision` on claim), so
two of them that touch the same job, or two claims or two admissions of one
campaign, conflict and one is run again: each is one atomic action. The heartbeat
is a plain `find_one_and_update` whose filter carries the caller's clock, so it
is two actions, `SendHeartbeat` and `ApplyHeartbeat`, with `LoseHeartbeat` for an
update that never arrives. The callers are arbitrary: any lease that was ever
granted may be presented at any time. A fresh lease token is the attempt number.

Abstractions: time is relative (ticks left on a lease, ticks to the retry, age of
a receipt up to a day) and each stored deadline keeps its order with every other;
the order of claims (`available_at`, priority) is dropped, since it only chooses
among claimable jobs; the scan limit of 64 candidates is out of scale; a refused
operation leaves the state alone and is not an action; a business error returned
after partial writes commits them, but the one guard concerned (`Chargeable`) is
shown never to fail (`BudgetFollowsJob`). Not modelled: the purge of ended jobs
(7 or 30 days), the purge of active reservations after 365 days, the diagnostics.

### The workers

`GenerationWorkers` extends the queue and restricts its callers to the two
programs that exist. A scene-image worker polls, generates with a heartbeat,
heartbeats once more, writes the job's directory, registers the artifact,
completes the job and selects the artifact: one action per database or disk call.
An inline text request enqueues, claims that very job and finishes it.
`Abandon` ends any of them between two steps and stands for the death of the
process, a dropped request and an error that ends the step. `HeartbeatErred` is
the error answer of an update that was or was not applied: the periodic heartbeat
fails the attempt, the one before publication is ignored (`scene_images.rs:722-733`).
The three files of a directory are one value, the attempt they came from; the
circuit breaker only postpones a claim and is left out.

### The transactions

`TransactionAttempts` is one call of `with_transaction`. `pc` is the await it is
at; every await has an action for each outcome the code tells apart, and
`Deadline` for the timeout around it. The database is three facts about its
errors, taken from the labels the helper goes by (`error.rs:125-135`): a commit
labelled transient was not applied, an unknown one may have been or may be later,
and one that was applied answers a further commit with success. A transaction that
was sent is decided by `DatabaseCommits` or `DatabaseAborts`, whoever still waits.
`TransactionOutcome` is what the caller keeps: told of success, the effect is
there, once; told that the callback refused, it is not and never will be; told of
any other error, it may come later. The other modules take a transaction as one
step because of that refinement, and `CampaignCommands` also takes the last
outcome, a commit in doubt, into account.

### The commands

A server process serves one command at a time (`command_gate`). `server[s]` holds
what the handler holds between its awaits: the step it is at, the command, the
campaign and the hero as it read them, and, once derived, what its transaction
would write. Each read is an action of its own, since no snapshot covers them:

| Action | Code |
|---|---|
| `Receive` | the request arrives; the campaign is read (`application.rs:739`) |
| `LoadHero`, `LookUpReceipt`, `ListEvents` | `application.rs:741-830`; the event list is validated, replayed and a result is derived from it |
| `AdvanceHero` | a reward or a level-up derived from the hero (`application/hero.rs:528`, `903`) |
| `PreValidate`, `PrepareHero` | the checks outside the transaction (`repository.rs:656-663`, `repository/hero.rs:1263`, `941`) |
| `Commit`, `Abort` | the transaction: `Objection` lists what it finds, in the order it looks, `Installs` what it writes |
| `Recheck`, `Acknowledge` | the receipt looked up after a conflict; the answer |
| `LeaveInDoubt`, `LateCommit`, `Discard` | the deadline strikes during the commit; the database decides later |
| `Interrupt` | the process ends, or the request is dropped, between any two steps |
| `StartSitting`, `EndSitting` | a play session starts and ends, as far as the commands depend on it |

An event keeps its command, the state its encounter was left in and the cursor it
rolled from. `Replays` is what `project_encounter` verifies of a stored stream.
The hero document is written by hero commands always and by encounter commands
that changed it; `hitPoints` stands for hit points and every other resource an
encounter spends. One unit of experience stands for a reward that makes a hero
eligible for level two.

Left out: the second revision an encounter command carries (an early refusal), the
campaign's status and content pins (fixed while it is played), who is in control
of the turn (rules of the encounter engine), the dice of social and exploration
checks (drawn from a source without a cursor and committed with the event), the
claim of an encounter's reward (`Heroes`), recovery of hit points, and the archiving of the
campaign. A late commit takes effect only if nothing it read has changed, which
is what the write conflicts of the database ensure: the campaign and the hero are
compared by revision, the play session by identity.

### The life of a campaign

`CampaignLifecycle` is one campaign and everything that is deleted with it. A
transaction reads a snapshot; two that write the campaign document conflict, so one
that writes it (start, end, archive, restore, delete, accept, remove) is one step,
and one that only reads it is two: `Begin` keeps what it saw in `pending`, and it
commits whatever became of the campaign meanwhile. Those are the invitation and its
revocation, the preparation of a deletion (whose export is a third transaction) and
the assignment of a character. `CharactersBelongToMembers` states exactly how far
that can go wrong: an account that is removed while a character is being assigned to
it keeps the character.

`receipts[k]` is what is known of an idempotency key: nothing, committed, retained
by a deletion, or retired by the creation of the campaign anew. `campaign.done` is
the ghost of the commands whose effect the campaign holds, and travels with exports.
Invitations expire by a clock that is one bit of each. The contents of the campaign
(turns, heroes, presentations) are its revision, and its encounter is the play
session it was begun in, since that is what archiving asks for.

Left out: the checks the application makes before a transaction
(`application/lifecycle.rs:84-91`; they refuse, for instance, the retry of a start
that took effect, whose receipt would have answered), tombstones, the purge of old
receipts, the cleanup of files outside the database, and two local processes of which
one retires receipts while the other restores the campaign: the mutex of the one
process the local campaign is served by is assumed.

### The sessions

`Sessions` is one account. The database transactions of a sign-up and of a
revocation are one step each; the one of a login is two, because it reads the account
without writing it. A request keeps between its awaits what the handler keeps
(`request[r]`), and the clock may tick between any two of its steps. A request reads the
clock before the step that uses it, as the code does: a lookup in the cache, the snapshot
of a login and the refresh of a session (`persistence/auth.rs:646`) each take any time
since the request's step before, so that a refresh may write an older time over a newer
one; only from its snapshot to its commit is the refresh one step, since a write between
them is a conflict. The cache answers, fails, or forgets: every fill and every deletion may
be lost, every lookup may miss, and an entry that was read before a revocation may be
written after it. Two history variables: `issued[d]` is the time the login of a session
returned, and `lag[d]` how far the last write of its times lay behind the clock it had read
(a login's, from its clock to its answer). The recorded time of a revocation is read by
nothing; in the model it is when the revocation took effect.

Left out: the time to live of entries (lookups may miss), the order in which
throttling and validation refuse, password verification itself (one step with the
load of the account), the expiry of tokens and sign-ups, and cryptography. The account
draft and its first snapshot are one step.

### The library

`PlayerCharacters` is the library of one account. A command of the service is a chain of
transactions with one step each: the look-up of its receipt, the change, its audit, its
receipt (`call[r].step` is where it is). Any other caller may come in between two of them,
and `GiveUp` is a caller that gets no further, or a step that is answered with an error. The
browser's renames and deletions (`characters/library.rs`) are the change alone, without
audit and receipt: it calls the repository. Of the service's commands the tests alone make
use. A deletion and an assignment are two steps each, the last read and the write: a
deletion that finds the document changed is run again, as the database runs a transaction
with a write conflict; an assignment changes nothing that a deletion reads in time.
`applied` and `removed` are history variables, what took effect; `overlapped` holds the
assignments that were past their checks when a deletion was past its own.

A fingerprint is the record of the fields it digests, so that commands with equal
fingerprints are those the code cannot tell apart; a name stands for all that normalise to
it. Left out: which choices are valid at which step of a draft, the expiry of drafts but for
their removal, what an instance copies from its source (it never changes), the lists, and
the checks of a campaign before an assignment, which may refuse at any time (`GiveUp`;
`CampaignLifecycle` has them).

### The encounter

`Encounter` is a function of a state and the dice. `Offered` is `legal_actions`,
`Outcomes` are the resolve functions with one outcome for each roll, `Valid` is
`validate`, and `Resolved` what passes it, as in `resolve_encounter`. The player
sends any intent, offered or not, as the application accepts it
(`EncounterMutation::derive_command`), and the wight's come from its policy. The
refusals matter: spells, features, rests and reactions ask `legal_actions` again,
while start, move, attack, the lever, the end of a turn and the death save check
conditions of their own.

Distances are in squares of five feet, on a line of four positions where every reach
that bites can be exceeded (the claw, the lever, the Mage Hand); the other spells reach
the whole battlefield, as 90 and 120 feet do the real one of 60. Dice are sets of one
or two values, a critical hit rolls two of them, and initiative is either order.
Durations are two rounds or one. The hero of class "none" is the fixed one of the
seed, without features. The application uses the story policy only; the engine and its
tests have both. Left out: the round number and revision, armour class and attack
bonus (a hit or a miss), multiples of five feet, the reward and objectives, facts and
narration, the count of rest minutes and hit dice spent, the pins and the two older
schemas, and a fighter below level two.

### Heroes

`HeroRules` translates `hero.rs` as operators on a hero's choices, level and
counters: what each step of the creation accepts, the sheet that is derived, what a
reward, the level-up and an encounter change, and what an encounter asks of the sheet
(`CanFight`). A hero's stored sheet is the derived one or the hero is refused, so it is
not stored here. Texts, equipment lists and spell effects that restate the choices are
left out.

`Heroes` has the commands. Every command resolves the campaign's pins first, by three
reads of three moments: the hero, else the draft pinned last, and the campaign. The
creation looks for its receipt, resolves the pins again, derives the draft's successor
from the draft as it is now, and commits by comparing revisions; commands to the hero
look for a receipt after the pins and derive from one read. A transaction is one step;
a duplicate key is answered by looking for a receipt, as is every conflict. A draft's
revision is its step. The campaign is sealed with the first theme that is committed.
`PlayEncounter` is what a command of an encounter or a rest does to the hero document
(`CampaignCommands` has its steps), down to no hit points; a fallen hero is refused by
every later encounter command, and by the claim.

Left out: the owner and identities, the times of audits, the deletion of the campaign
with its hero (`CampaignLifecycle`), fingerprints (a receipt holds its command), and
lost answers (any committed command may be sent again).

### Private inspiration

`Inspiration` is one campaign, its participants and sources, and the narration requests
that use them. Every operation is a transaction on a snapshot, but three of them only
insert documents of their own and write nothing that they have read: the registration
of a source, a grant, and the registration of derived work. Each is two steps, `Begin…`
which reads and `Insert…`, and whatever is withdrawn between the two is not seen by
them, nor they by it. `overlapped` is a history variable that marks such a grant or
work. All the others are one step: the withdrawals and the publication write the work
they depend on, the settings are compared by revision, and a selection, though it reads
more than it writes, is read by nothing that withdraws.

| Action | Code |
|---|---|
| `ReserveSelection`, `ReplaySelection` | `request_selection`: a source that is eligible, or none; or the one reserved before |
| `BeginWork`, `InsertWork`, `ReplayWork` | `register_derived_work`, from its checks or from its receipt |
| `PublishNarration` | the transaction that publishes, as far as it concerns the work (`presentations.rs:466`, `618`) |
| `AbandonWork`, `StopRequest` | an error on the way cancels the work; the process ends |
| `Withdraw` | `cancel_pending_work` and `apply_completed_work_policy`, part of every withdrawal |
| `SupersedePresentation`, `ExpirePresentation` | another narration of the turn; the database removes a superseded one |

A source has one version, and turns are counted without events. Prompts are data: a
selection takes any eligible source or none. Grants expire at any time. A presentation
is its body (private, redacted or none) and whether it was superseded. Left out: the
lists of lines, veils, exclusions and sensitivities, media (a grant and a selection are
for texts), audience and transformation (one value each), the expiry of sources, a
second work for one selection, the revision of the switch, restricted access records,
the export and the receipts of the operators' commands. The live path asks for the
policy `delete_derived` only; the repository takes all three, and the run asks for a
weaker one so that the comparison with the grants and the redaction happen.

### Narration

`Narration` is the texts of a campaign. A request (`request[r]`) looks for what its key
has produced, begins a job, calls the game master and publishes what that answers; every
await is a step, and it may be dropped between any two, or its lease may lapse. A turn's
`receipts` number the versions of its narration; `body` is what is left of each text.

| Action | Code |
|---|---|
| `Regenerate`, `FindReceipt`, `ReadBody`, `CountVersions`, `PrepareNarration` | the reads before a job is begun, each of its own moment; what the key has published is asked three times |
| `EnqueueJob`, `ClaimJob` | `generation_ledger.rs`: the job of the key, and its only lease |
| `GenerateNarration`, `Publish`, `Close` | the game master's text, then the engine's; the transaction that numbers a version, selects it and ends the job; the job ended without one |
| `SubmitIntent`, `LookUpIntent`, `Interpret`, `FinishInterpretation`, `InsertIntent`, `CommitIntent` | `submit_typed_player_intent`: the pending receipt, the interpretation, the player's command |
| `PlayTurn`, `Revise`, `GenerateRecap`, `ChangePolicy` | what else happens to the campaign, its recaps and its settings |
| `LeaseEnds`, `ExpireText`, `PurgeText`, `Drop` | time, and dropped requests |

Left out: errors of reading a text count as its absence, and the game master's answer is
any text or a refusal (`GameMaster` has its steps); a refusal to begin a job is
nondeterministic; what an intent does after its commit is left out because no intent gets
there. `left` is a history variable, the attempts that a request left without closing
them, each with its reason: it was dropped, the claim committed but was answered with an
error (`freeform.rs:1817-1824`), the call that closes failed, or no text could be published.
`AttemptsAreClosed` excuses the last for every backend but the fake one, since the branch of
the disabled and of the external backend returns there without closing
(`freeform.rs:1908-1917`; section 5). The run has the fake and the disabled backend; the
external one takes the same steps as the disabled one. Two behaviours that the
model shows and no property names: a key whose request was dropped answers "unavailable"
for ever, and a retry that meets its own publication at the limit of versions is told of
the limit.

### The game master

`GameMaster` is the service of one process. A request passes the circuit, waits for a
permit, asks the provider, has a refused proposal repaired once, and is answered with an
authored proposal whatever fails. `Validated` is the order in which a proposal is held
against its request; a proposal is the few facts that those checks tell apart. `Replies`
are the answers of the three backends; the fake's answer to a repair is always malformed.
The deadline includes the wait for a permit, and a wait that ends so counts as a failure
of the provider; once the circuit's time is up, every waiting request passes. The
history `streak` counts the failures since the last accepted proposal, so it stays at the
threshold when the circuit closes because its time is up.

Left out: the texts, the number of attempts and tokens that are reported (a request that
timed out reports one attempt whatever was called), budgets of bytes, the metrics of
promotion, and the circuit of the image worker (`scene_images.rs:1008-1031`), which only
postpones a claim. No production code asks for an absent player's action or uses the
older service of `gm.rs`.

## 3. Runs

| Run | Shows |
|---|---|
| `Workers` | one holder of a lease, one selected artifact per turn, limits and allowances kept, every requested image ends; the queue implements `JobLifecycle` |
| `TransactionAttempts` | the helper keeps its promise over every outcome of every await, and ends |
| `CampaignCommands` | the stored events always replay, the encounter projection and the hero follow them, the hero matches its audits; a campaign is one log of commands |
| `CampaignLifecycle` | through deletion, restoration and creation anew, a campaign has no effect without its receipt, one open play session, members by invitation |
| `Accounts` | however the cache fails, a revoked session is served for less than a refresh interval, and one in use lasts, less what a refresh interval and a late refresh take; what the library answers, audits and records did happen, once, and characters that play are in it |
| `Encounter` | what is offered can be done for every roll, somebody can always act and never both, the sleeping wight lies still |
| `Inspiration` | what is withdrawn reaches the work and the texts derived from it, unless they overlap, and does not come back; counting grants is as good as asking for each |
| `Heroes` | one theme, one hero, every reward and the claim once; the hero stays playable, no choice leads to a dead end, a level-up gives nothing back |
| `Narration` | the versions of a turn are numbered by their receipts and the newest is selected, no attempt is left running without a reason, a recap tells its revision |
| `GameMaster` | the circuit opens by failures in a row alone and is tried again, every request ends |
| `HeroCannotBeCreated`, `IntentNeverCommits` | counterexamples, section 5 |

Bounds. `Workers` has two images of one turn and an inline text of the same campaign,
the least in which a lease that expired is taken over, claims and admissions compete,
and an artifact replaces another; one image has two attempts, so that an expired
attempt is followed by one more and by none. The configuration is changed between their
requests, because a job keeps the limit it was requested with: one image has a limit of
two where the rest have one, so that two admissions can be open side by side. The
allowance covers any two of the three jobs. A report is of zero or an overage, and a job
whose last lease expires makes none. Heartbeats are prompt; delayed ones are left to the
theorems and to **Late heartbeat** (section 5).

Three keys and four revisions are the least for an exploration, the start of an
encounter and a command that costs a hit point. `CampaignCommands` has them with rewards
and a level-up between, on one server: the transaction in doubt, one at a time, takes the
place of the second, and every encounter command rolls once. Its view leaves out what
clients were told, which guards no action and which its properties do not mention. That
the commands of two servers are one log, that each key takes effect once and that clients
are told what was committed, for campaigns and for heroes, are theorems.
`TransactionAttempts` allows six attempts: the configuration accepts at most five retries
(`config.rs:633`).

`CampaignLifecycle` has five keys, the least that start a play session, end it, archive,
delete and restore; two lives; one export, one transaction pending and one account with
one invitation, which is what each of its races is between. `Accounts` explores the sessions
of an account with its library at rest, and the library with the sessions at rest, since they
share nothing. There are two requests; the run allows one live session, so that a login
revokes another's; an idle lifetime of two ticks with a refresh interval of one lets an
entry be fresh, stale or lapsed. The exploration of the sessions is cut in two
(`MCAccounts`): one session for the whole clock of four ticks, which lets one refresh
overtake another and the absolute expiry be reached, and both sessions for the first two
(`ShortTime`), which lets a login end the session of another. The theorems have neither
bound. A limit of two with logins side by
side may be exceeded by the code and takes a third session to show; it is not a
property. The library has two callers and one of four sets of commands: renames under one
key with a rename and a deletion in between, two characters with each other's names, a draft
that is saved twice and committed, and a character that is assigned, renamed and deleted.
Each set is what one race is between, and two revisions let a command come before or after
another. `Encounter` is unbounded but for the time that rests take (`MaxTime`), two
long rests and a short one: everything else is finite by the rules. Two hit points each,
with temporary ones on top, separate a scratch, a wound, a fall and a blow that kills.

`Inspiration` has one source about two participants, since one alone cannot stand in for
another; two grants under way at once, of two policies, since they might be of the same
participant; two requests for one turn, one of which may find the work of the other; and
three revisions of the settings, the least that enable the feature and then pause or
disable it. One veto, one grant of each participant and one turn keep it small; the
theorems have no such bounds.

`Heroes` has two drafts of different themes, one of which may expire, and two servers
that work at once at the first theme, at two steps between and at the commit, and
always on commands to the hero; one client is enough, since any committed command may
be sent again by it. The first draft becomes a fighter or a wizard too dull to prepare
more than one spell, and takes three revisions: a reward, an encounter and the level-up
or the claim.

`Narration` has two requests and three keys for two versions, so that the limit is
reached with a key to spare, or one intent beside a turn and a recap; the policy changes
once in one of these mixes. `GameMaster` has two requests for one permit and a circuit that
opens after two failures and stays open for two ticks, as long as a request may take, so
that a request that passed it may fail when it is open, or tried again; `Candidates` has a
proposal for each reason to refuse one.

The type invariants are theorems. The runs keep to properties
that relate states.

Fairness (`Workers`). Time passes; some idle worker
polls whenever something is claimable (the loop in `app/src/main.rs` sleeps and
polls for as long as the process lives, and a process that dies is restarted); an
answer from the database arrives; a step that was begun is finished unless its
agent is abandoned; a provider call ends (the request has a timeout), strongly
fair because the heartbeat interrupts the wait again and again. `Abandon` has no
fairness and is never excluded. `TransactionAttempts` assumes only that the helper
moves on while it is at an await, which the timeout around each await ensures; the
deadline itself has no fairness, so that `Ends` rests on the counters. The commands
have no liveness property: a client may always be answered with an error. `GameMaster`
assumes that time passes and that the deadline, a timer of its own, strikes; neither
the provider nor the other requests are assumed to do anything.

## 4. Proofs

Every theorem holds for all sets and numbers that the assumptions of its module allow
(`…Assumption`), which are what the types and the configuration checks of the code
guarantee. Each comes from an inductive invariant, stated ahead of its proof. The bounds
that keep the runs finite are constants like the others and may be arbitrarily large.

**The queue** (`GenerationQueue_proofs`): type correctness, `OneLeasedAttempt`,
`AttemptsWithinBound`, `SlotFollowsJob` and `BudgetFollowsJob`, two action properties, the
refinement of `JobLifecycle`, and that with `MaxDelay = 0` at most one illustration of a
campaign runs. None of the four invariants is inductive alone: that a success publishes a
staged asset needs the slot, that a slot can be retired needs the state of the job, that
a settlement finds its reservation open needs both. `QueueInv` is their conjunction, with
the types, two facts about jobs not yet enqueued and the claim that only a running job
has a lease. Every action changes one job only (`StepsAreLocal` names the seven effects
it can have), so `QueueInvStep` shows one job's part per effect and frames the others. The
refinement maps a job's state to a phase, its attempt count to the epoch and its
reservation to a hold; the same effects are steps of `JobLifecycle`.

**The workers** (same module): `OneHolder`, `SelectedIsSingular`, and the budget, the
refinement and the turns of illustrations again, for any number of workers and callers.
A worker is one of the callers the queue allows, but for the selection, which supersedes
an artifact that has been published. So `SlotFollowsJob` does not hold of the workers:
`WorkersInv` splits `QueueInv` into what a selection leaves alone (`QueueCore`) and the
slots, which fit their job or were replaced. It adds that a token an agent holds was
granted, and to no other agent, that only images are staged, and `SelectedIsSingular`.

**Budget and capacity** (same module): `AllowanceHonoured`, whoever drives the queue, and,
with `MaxDelay = 0`, `CapacityWithinLimits` under the workers. Only an admission takes from
the budget: a charge, a settlement and a release leave a reservation counting for no more,
up to its estimate, than before (`StepsEase`), and an admission adds its estimate to totals
that it has just weighed. `CapacityWithinLimits` is not inductive: when the job whose
limit covered the others ends, another one must cover what is left. What is inductive is
that of *every* part of the active jobs one covers that part (`LeasesCovered`,
`SlotsCovered`): the one that was admitted last, beside all the others.

**The transaction helper** (`LifecycleAndInspiration_proofs`, whose transactions it runs): it
implements `TransactionOutcome`, for any number of attempts. The invariant (`AttemptsInv`) relates
where the helper is to the transaction: before a commit was sent nothing can have been
installed, and a transaction that may be run again is gone.

**The commands** (`CampaignCommands_proofs`): type correctness, that each key takes effect
once, that what clients were told is committed, that the revision counts the events, that
the hero holds what its audits record, and that the commands of a campaign and those of a
hero each implement `CommandLog`. The inductive invariant, `CommandsInv`, says that
events, audits and receipts correspond one to one (`DatabaseInv`), what each server
may hold at each of its steps (`Holds`), and what a derived transaction is
(`Derived`). Its core is that a copy of the hero is either out of date by its
revision or equal to the document (`CopyOfHero`), so that a comparison of revisions
is as good as one of documents; a transaction that no longer has a server needs no
more than `Derived`, which is why a late commit is as safe as a prompt one.
`StepKinds` reduces every action to one of three: it appends, it answers, or it
leaves log and answers alone; the two refinements follow from it.

A second invariant on top, `EncounterInv`, proves that the stored events replay, and that
the encounter's projection and the hero are as the last event left them. What a server has
derived is a continuation of the log it has read (`Continuing`, `Continues`), or of one
that is out of date, and then its revision keeps it from being committed: a step that
appends makes vacuous what is claimed of every other transaction of the campaign, one that
replaces the hero what is claimed of every other one of the hero.

**The life of a campaign** (same module): type correctness and the four
invariants of its run. They need each other, and must be known of everything that outlives
the campaign and may become it again: the contents that were exported, those a deletion is
being prepared from, and those the pending transactions have read (`KeptContentsAreGood`);
`GoneIsEmpty` says that nothing of a deleted campaign is left to contradict its
restoration, and `AssignedAreMembers` what an assignment has read.

**The sessions** (`Accounts_proofs`): types, `RevocationIsBounded`, `UsedSessionsStay`, and
that no step revives a session and only a late refresh takes time from one, and no more
than it was late (`SessionsOnlyAge`). A copy of a session, in the cache or held by a request
at one of its awaits, may be fresher than the document, because a refresh with an older
clock may follow. So the invariant says of the time of every copy, from which it may be
served for one refresh interval, that the document lives an idle lifetime beyond it but for
the `lag` of its last write, and that no revocation took effect before it, unless the login
answered later (`Bounded`); every step of every session keeps that (`BoundedStays`). A
request that found a session live before the clock ticked carries the time of its lookup.

**The library** (same module): types, `RecordsTellTheTruth` and `PlayingHaveSources`, for any
number of callers, characters, drafts, campaigns and keys, and every set of commands. The
first is not inductive: that a receipt tells the truth when it is written needs what the
call has done before (`CallOK`, by its step), that the change happened once needs that the
revision of a document is the last command's (`EffectOK`), and a renamed or removed document
may have changed again since. `EffectsAreOrdered` follows from both: a command that may
write comes after all that changed its document (`WritableIsNext`), whence nobody else has
done the same (`WritableIsNew`). For the second, `DeletionOK` and `AssignmentOK` say of the
two transactions past their checks that what one of them has read still holds, or that they
overlapped; and a draft is no character (`LibraryAssumption`). A command that took effect and
has no receipt belongs to one call (`OneOwner`), and that gives a theorem about what the
code was meant to do: a receipt that is loaded after a duplicate key is never the command's
own (`ReloadsAlwaysRefuse`, section 5).

**Inspiration** (same module as the life of a campaign): types, that withdrawals reach what was derived
(`WithdrawalReachesWork`), that counting grants is enough (`CountedGrantsAreComplete`),
that work and texts agree, and that what was withdrawn stays so. The versions of a
participant's grants are dense from one, so that a grant under way that can still be
inserted was read when none was active, and at most one ever is (`GrantsNumbered`): that
is why as many grants as participants are everybody's. What a grant was given for still
holds unless it was overtaken, or the source was quarantined, and then the grants of
somebody are gone (`GrantsStand`). From these, a registration that has counted grants and
the work it inserts are backed by everyone, unless it was overtaken
(`RegistrationsAreSound`, `WorkIsSound`); and every withdrawal reaches exactly the sources
that it stops sparing.

**Narration** (`Narration_proofs`): types, the three invariants of its run, and that the
command of a typed intent never plays a turn (`IntentsPlayNoTurn`). `AttemptsClosed` names
the reasons an attempt may be left for; that its text was not published is one only where
the backend is not the fake one. The proofs need to know which job a request works on at
each of its steps and that turns and recaps are of revisions the campaign has reached;
the last that the receipt of an intent's key is written before its command is sent, and
that a receipt is never removed.

**The game master** (`HeroesAndGameMaster_proofs`): types, `OpenedByFailures`, and that permits come
back. The circuit counts no more failures than there were in a row, and an open one has
counted all it takes.

**The encounter** (`Encounter_proofs`): types, `OffersAreHonoured`, `SomeoneActs` and
`SleepersLieStill`, for every battlefield, hero, wight, dice and both policies. An outcome
that fails the validation is refused, so that `Valid` holds of every state whatever the rules
do; but whether the rules ever make an outcome that is refused depends on more than
`Valid` says. `Good` adds what lasts: no time passes before the end, a story ends with the
hero's fall, the pools stay within those of the class, a Shield was raised against the only
attack of the wight's turn, and that attack was made awake. Without the last, the answer to
a hit could let a sleeping wight hurt the hero. Then, of each intent that is offered, and of each that checks
itself, every outcome from a good state is good (`OutcomesGood`), which is both the
inductive step and half of `OffersAreHonoured`; that it has an outcome at all is
`OffersWork`. One kind of outcome is not good: to end the wight's turn while its hit is
pending. It is never offered, and always refused (`PendingTurnGoesOn`). Each rule is
first reduced to the fields that it changes (`Keeps`). For `SleepersLieStill` the same
is done once more: an outcome of the hero's turn, of a rest or of an ended turn leaves the
wight where it is and takes nothing from the hero (`Gentle`).

**The heroes** (`HeroesAndGameMaster_proofs`): types, `PinsNeverDisagree`,
`RecordsExplainHero`, `HeroIsPlayable`, `SpentStaysSpent` and `NoDeadEnd`, for every theme,
draft, server and client. That a hero is playable is a theorem about `HeroRules`: every choice
that the creation accepts derives a sheet which the rules of combat accept, at level one
and two. `HeroesInv` carries it through the commands: drafts agree with the seal, there is
one hero at most, of the one draft that was committed, and what a server has derived comes
of the revision its command expects, so that the comparison of revisions in its commit is
one of heroes (`DerivedHero`). `RecordsInv` adds what the audits say: there are as many as
receipts, all older than the hero, and the hero's experience is their sum.

That no draft is a dead end (`ThereIsNoDeadEnd`) depends on what clients may send: it is
assumed that they may send, for some draft, whatever the rules accept (`OffersSuffice`).
The invariant is that the parts chosen so far go together (`SoFar`), of the drafts that are
stored and of those that a server has derived and may still store. Whatever has been
accepted can be completed (`Completable`): whatever skills the background gave, two are left
that the class offers, there is equipment for every class, and there are spells for every
order of the abilities. Its counterpart is `NoHeroIsEverCreated`: while the core character
is on the account's own name, as it is in every campaign the program makes, the complete
draft is where every player stays (section 5).

**Sums** (`SumTheorems`). What a fold computes is defined by recursion, and an induction
over sets is out of this prover's reach; but of the sets that violate a lemma one is
smallest, and that is enough (`SmallestSubset`, from the library's theorem on the
subsets of a finite set). A sum does not depend on the order in which its terms are chosen
(`SumWithout`), and so a term can be added, replaced or compared.

Parts of the model were corrected because a proof failed: an invitation is created
with an identity that is unused (`CampaignLifecycle`; the database has it unique), branches
of definitions that overlapped are ordered (`Narration`, `GameMaster`, `Inspiration`),
there is at least one policy a grant may have (`InspirationAssumption`), and the dice of the
encounter have at least one face, the hero's one that hurts (`EncounterAssumption`), without
which a spell or an answer that is offered might have no outcome, and the hero is none of
the drafts and every offer one the rules know (`HeroesAssumption`).

Only model-checked is liveness (`ImagesEnd`, `Ends`, `RequestsEnd`,
`CircuitIsTriedAgain`), which this prover does not do: every invariant and every action
property of the runs is proved. The properties of section 5 that do
not hold have their counterexamples from TLC; the runs `IntentNeverCommits` and
`HeroCannotBeCreated` show one on a small instance each, and the theorems
`IntentsPlayNoTurn` and `NoHeroIsEverCreated` that it is so in every one.

## 5. Disagreements found

With a standing run each, where TLC shows the counterexample:

* **No hero can be created** (`persistence/indexes.rs:184`, run `HeroCannotBeCreated`).
  An account has at most one active character in a campaign, and the core character
  that every local campaign is created with is an active one of the local account
  (`repository.rs:1416-1443`). The commit of a hero meets a duplicate key every time.
  README.md:38 has the reader "Complete the guided hero creator"; the tests hand the core
  character to another account first (`application/hero.rs:1560`), and so does
  `Heroes.cfg`. The theorem `NoHeroIsEverCreated` says that no client, server or draft gets
  around it.
* **An intent never commits** (`repository.rs:1721`, run `IntentNeverCommits`). A typed
  intent writes its pending receipt under the key of the player's command, for an account
  of its own (`repository/presentations.rs:809`). The command that it then commits under
  the same key is refused because of that receipt, which is looked for by key alone (where
  the lookup cannot decode it, the command fails a line earlier, for the same reason); and
  so is every retry, although docs/evidence/slice-3-typed-gm-evaluation.md:65 says that
  "every tested crash/response-loss boundary resumes through the canonical mechanics
  receipt". The theorem `IntentsPlayNoTurn` says that no intent of any campaign ever
  plays a turn.

Noted while modelling. Each is stated in the modules; to see the counterexample, name
the property alone in the configuration given, without its view and its symmetry.

* **Players move the wight** (`encounter.rs:3102`; `CreatureTurnIsNotThePlayers` in
  `Encounter.cfg`). While a hit waits for the player's Shield it is still the wight's
  turn, and `require_player_control` lets any intent through. `resolve_move` asks only
  that the current actor can act, so the player's move moves the wight, though "a creature
  turn never exposes attack, target, movement, or end-turn choices" (`encounter.rs:3073`).
* **Encounter lost** (`repository.rs:2531`; `EncounterOutlivesSitting` in
  `CampaignCommands.cfg` with `MaxSittings = 2`). The encounter projection belongs to the
  play session that created it. In the next one no encounter command succeeds, though
  docs/planning/08-delivery-roadmap.md:171 says a campaign can be "stopped, and resumed
  without operator database repair".
* **Switch and selection** (`repository/inspiration.rs:3463`; `SwitchStopsPublication` in
  `Inspiration.cfg`). Only the selection looks at the global switch. What was selected
  before it was set is registered and published after.
* **Receipt of cancelled work** (`repository/inspiration.rs:3520`; `GeneratesFromPending`
  in `Inspiration.cfg`). A retry finds the receipt of a registration whose work was
  cancelled since, and the prompt's facts go into a generation. Its text is not published.
* **Deleted while it is assigned** (`repository/player_characters.rs:288`,
  `memberships.rs:1265`; `SourcesOutliveInstances` in `Accounts.cfg`). The deletion reads the
  instances and writes the character, the assignment reads the character and writes an
  instance: neither conflicts with the other, and a character that plays is gone from the
  library, though .context/mongo/01-target-data-model.md:32 has "deletion blocked while active
  instances reference it".
* **A duplicate that is never answered** (`application/player_characters.rs:214`;
  `DuplicatesAreAnswered` in `Accounts.cfg`). A rename whose key was taken meanwhile reloads
  the receipt, "A concurrent duplicate won the race", and answers with it. A duplicate that
  lost has lost its revision before it comes to a receipt, and is told of a conflict; so the
  receipt that is reloaded is another command's, and the answer is a refusal of a rename that
  took effect. The theorem `ReloadsAlwaysRefuse` says that it always is.
* **Other choices, same answer** (`application/player_characters.rs:654`;
  `SavesKeepTheirChoices` in `Accounts.cfg`). The fingerprint of a save leaves out its
  choices: a retry with other choices is answered with the first result and not saved, though
  a duplicate request is to fail "fast if the command body changed"
  (`application/player_characters.rs:9-12`).
* **Orphaned request** (`app/src/main.rs:334`; `ExpiredLeasesAreReclaimed` in
  `Workers.cfg`). Expired leases of inline text jobs are reclaimed by nothing:
  the worker loop claims illustrations only (release-operations.md:52 says leases are
  "reclaimed with a new attempt/lease token").
* **Stale publication** (`scene_images.rs:737`; `DeliverableBytesMatch` in
  `Workers.cfg`). A worker that lost its lease after its last heartbeat overwrites
  the files or the staged metadata of its successor.
* **Retry conflict** (`repository.rs:663`; `ReplayBeforeConflict` in
  `CampaignCommands.cfg`). A social or exploration command is compared with the
  campaign's revision before the transaction looks for its receipt, and a conflict found
  there is answered at once. A retry that meets the commit of its first sending is told
  of a conflict with itself; the encounter handler looks again and is not.
* **Level-up mid-encounter** (`application.rs:2276`; `LevelUpKeepsEncounter` in
  `CampaignCommands.cfg`). Nothing keeps a hero from gaining a level while an encounter
  runs, and no encounter command accepts the hero afterwards.
* **Late heartbeat** (`jobs.rs:1494`; `OneIllustrationAtATime` in `Workers.cfg` with
  `LeaseDuration = 2` and `MaxDelay = 1`).
  The clock is read before an update that is not in a transaction. Applied late, it
  renews a lease that a claim of another illustration has since treated as expired,
  and two illustrations of the campaign run. The theorems `PromptHeartbeatsSuffice` and
  `PromptWorkersTakeTurns` show that the delay is the only way.
* **Uncounted request** (`governance.rs:513`; `RequestsAreCounted` in `Workers.cfg`). The request charge is read from the first
  reservation in dimension order, the cost one; with the default zero cost estimate
  no request is charged.
* **Forgotten spend** (`jobs.rs:1677`; `ReleasedSpentNothing` in `Workers.cfg`).
  Cancelling a job that waits for a retry releases a reservation in which usage was
  already recorded.
* **Unselected delivery** (`images.rs:714`; `OnlySelectedIsDelivered` in
  `Workers.cfg`). Delivery does not ask whether the artifact is selected; a
  worker that dies before selecting leaves one that is delivered and never selected.
* **Unpublished attempt** (`freeform.rs:1908`; `UnpublishedAttemptsAreClosed` in
  `Narration.cfg`). With a backend that is disabled or external, `.ok()?` returns when the
  engine's text cannot be stored (the versions used up by another request, the lease lost, a
  failed transaction), and nobody closes the attempt, as the fake backend's branch does
  (`freeform.rs:1893`). It keeps its reservation until its lease ends, and longer, since
  nothing reclaims it (**Orphaned request**).
* **Refresh overtaken** (`persistence/auth.rs:646`; `UseAlwaysExtends` in `Accounts.cfg`).
  The clock of a refresh is read before its snapshot, and its update sets the times whatever
  they were. One that comes late takes back what a newer one gave, while the cache entry of
  the newer one serves on: a session in use may lapse sooner than the idle lifetime less a
  refresh interval, by as much as the refresh was late. A transaction that is answered took
  no longer than its timeout (`persistence/transaction.rs:63`). `UsedSessionsStay` allows
  for it.
* **An absent player's action** (`typed_gm.rs:1121`; `AbsentPlayersAct` in
  `GameMaster.cfg`). What is asked for an absent player is to be one of the actions
  offered, and the request says so; but no proposal is held against what was asked, and a
  narration or a question is accepted in its place.
* **Retry invalid** (`application.rs:765`; `DuplicateGetsOriginal` in
  `CampaignCommands.cfg`). A duplicate encounter command that reads the campaign
  before and the events after the commit of the first is told that the stored state
  is invalid.

Without a property of their own:

* **Defeat is final** (`encounter.rs:676`; the guard `hitPoints > 0` of `HeroIsPlayable`,
  and `Fallen` in `CampaignCommands`). A defeat leaves an authoritative hero with no hit
  points, and its profile is refused from then on, even to look at the encounter
  (docs/planning/12-mvp-policy-resolutions.md:21 has defeat lead to recovery).
* **Drafts outlive the campaign** (`repository/lifecycle.rs:2437`). A deletion leaves the
  drafts of heroes behind; a campaign created anew finds a pinned draft, is not sealed and
  is quarantined. The receipts, audits and claim of a hero stay, too, so that the same
  reward can never be claimed again.
* **Overlapping withdrawal** (`repository/inspiration.rs:3463`, `3726`; `overlapped` in
  `WithdrawalReachesWork`). A registration that has read the vetoes and grants, or a grant
  that has read the source and its participant, is not seen by a withdrawal beside it and
  takes effect after it. `.context/mongo/06-requirements-and-decisions.md:240` asks that
  withdrawals hold "even under races".
* **Character of a removed member** (`memberships.rs:1113`, `overlapped` in
  `CharactersBelongToMembers`). The assignment reads the campaign and the membership
  without writing either, so it and a removal do not see each other.
* **Revocation outlived** (`auth.rs:541`; `RevocationIsBounded` gives the bound). The
  cache serves a revoked session for up to a refresh interval, though
  docs/planning/02-architecture.md:67 says it "cannot extend expiry/revocation".
* **Refresh that changes nothing** (`persistence/auth.rs:666-690`). The second of two
  refreshes within a millisecond modifies no document, and a live session is answered as
  invalid.
* **A retry after a crash** (`application/player_characters.rs:165-210`). A caller that stops
  between a change and its receipt is refused when it sends the command again: the revision it
  expects is gone. The service audits a deletion as "committed" ahead of it
  (`application/player_characters.rs:258`), and a character that plays is then not deleted;
  a browser's rename or deletion leaves no audit at all.
* **Archive blocked**. An encounter that its ended play session left active
  (**Encounter lost**) is runtime that `require_no_open_campaign_runtime` waits for, and
  nothing can end it: the campaign can no longer be archived or deleted.

## 6. Plan

Done: the generation queue with its budgets and workers; the transaction helper;
the commands of a campaign; sessions and cache; the life of a campaign and its
members; the library of an account; the encounter; private inspiration; heroes and their
rules; narrations, intents and recaps; the game master. Theorems about all of them.
Then, in this order:

1. `ActionPoints`: the ledger and its balance. An assignment writes `runtime.bde_balance`
   (`memberships.rs:1214`), the ledger reads `runtime.bde.balance`
   (`repository/action_points.rs:159`): which of them a character starts with comes first.
2. `Exploration`: scenes, clocks and transitions.
3. Retention: the purges, image cleanup, and what they take away from budgets.

The standing runs are kept to a dozen, so that all of them are checked every time: a
new component joins the instance of its neighbour where that stays small, and a
counterexample that is understood makes room for it.

Not planned: the rules matrix and content validation (static tables and their parser),
vault files, configuration, diagnostics, the user interface and the plumbing of the
repositories (codecs, indexes, projections of documents): static data or pure I/O, and
much of the repository's lines; and cryptography.
