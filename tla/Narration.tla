------------------------------ MODULE Narration ------------------------------
(***************************************************************************)
(* The texts of a campaign: narrations of committed turns, in numbered     *)
(* versions (regenerate_narration_presentation and generate_recorded_      *)
(* narration in freeform.rs, presentations.rs); typed intents              *)
(* (submit_typed_player_intent); and recaps (recaps.rs).                   *)
(*                                                                         *)
(* A request looks for what its key has produced, begins a job of the      *)
(* generation queue, calls the game master and publishes what it answers,  *)
(* an await at a time; it may be dropped between any two, and its lease    *)
(* may end.  Jobs are those of GenerationQueue, with one attempt.          *)
(***************************************************************************)
EXTENDS Integers, Sequences, FiniteSets

CONSTANTS
    Requests,       \* requests under way at once
    Keys,           \* idempotency keys of narrations, which a turn tells apart
    CommandKeys,    \* idempotency keys of commands, which the campaign tells apart
    IntentKeys,     \* those that typed intents are sent with
    Uses,           \* bound: the sets of keys one of which the clients use
    NoKey,
    Backends,       \* text backends the server may be configured with
    MaxVersions,    \* versions of a turn's narration, three in the code
    MaxPolicy,      \* bound: the last prompt policy
    PolicyChanges,  \* bound: those of Uses during which the policy changes
    MaxTurn,        \* bound: committed turns
    MaxRevision     \* bound: revisions of the campaign

ASSUME NarrationAssumption ==
    /\ MaxVersions \in Nat \ {0} /\ MaxPolicy \in Nat \ {0}
    /\ IntentKeys \subseteq CommandKeys /\ Uses \subseteq SUBSET (Keys \cup CommandKeys)
    /\ MaxTurn \in Nat /\ MaxRevision \in Nat \ {0}
    /\ Backends \subseteq {"fake", "disabled", "open_ai_compatible"}

VARIABLES
    used,           \* the keys that clients send
    backend,        \* the configured text backend
    policy,         \* the prompt policy, which the settings of the campaign change
    revision,       \* the revision of the campaign
    turns,          \* the revisions its turns were committed at
    claimed,        \* [CommandKeys -> what the receipt of the campaign with that key is of]
    recaps,         \* [Revisions -> the turns its recap lists]
    receipts,       \* [Turns -> the keys that published its versions, in order]
    body,           \* [Turns -> [Versions -> what is left of the text]]
    job,            \* [JobIds -> the generation job]
    request,        \* [Requests -> what a handler holds between its awaits]
    answer,         \* [Requests -> what its last request was answered]
    left            \* history: the jobs that a request left without closing them, and why

settings == <<used, backend, policy>>
campaignVars == <<revision, turns, claimed, recaps>>
textVars == <<receipts, body>>
vars == <<settings, campaignVars, textVars, job, request, answer, left>>

Turns == 1..MaxTurn
Versions == 1..MaxVersions
Revisions == 1..MaxRevision
Bodies == {"none", "selected", "superseded", "expired", "purged"}
JobStates == {"none", "queued", "leased", "lapsed", "ended"}
Steps == {"find", "read", "count", "prepare", "enqueue", "claim", "generate", "publish",
          "author", "close", "look up", "interpret", "act", "explain", "insert", "commit"}
Rounds == {"first", "again", "last"}

\* From the claim of its job until it has closed it, a request holds the attempt.
HoldSteps == {"generate", "publish", "author", "close", "interpret", "act", "explain"}

\* The request was dropped; the claim was made, but answered with an error; the call that
\* closes the attempt failed; or no text could be published.
Reasons == {"dropped", "claim", "close", "text"}

\* A job is known by its key: narration:turn:policy:key, or typed-intent:key, whose policy is
\* part of the fingerprint instead.  Turn 0 stands for the intents.
JobIds == [turn : Turns, key : Keys, policy : 1..MaxPolicy]
              \cup [turn : {0}, key : CommandKeys, policy : 1..MaxPolicy]

Unused == [of |-> "nothing", revision |-> 0]
Receipt(what, n) == [of |-> what, revision |-> n]
NoRecap == <<0>>

Idle == [step |-> "idle", key |-> NoKey, turn |-> 0, policy |-> 0,
         round |-> "first", revision |-> 0]

NarrationTypeOK ==
    /\ used \in Uses
    /\ backend \in Backends
    /\ policy \in 1..MaxPolicy
    /\ revision \in Revisions
    /\ turns \in Seq(Revisions) /\ Len(turns) <= MaxTurn
    /\ claimed \in [CommandKeys -> [of : {"nothing", "turn", "intent", "recap"},
                             revision : 0..MaxRevision]]
    /\ DOMAIN recaps = Revisions
    /\ receipts \in [Turns -> Seq(Keys)]
    /\ body \in [Turns -> [Versions -> Bodies]]
    /\ job \in [JobIds -> JobStates]
    /\ request \in [Requests -> [step : Steps \cup {"idle"}, turn : {0} \cup Turns,
                                 key : Keys \cup CommandKeys \cup {NoKey}, policy : 0..MaxPolicy, round : Rounds,
                                 revision : 0..MaxRevision]]
    /\ left \subseteq [job : JobIds, why : Reasons]

Init ==
    /\ used \in Uses
    /\ backend \in Backends
    /\ policy = 1 /\ revision = 1
    /\ turns = <<>>
    /\ claimed = [k \in CommandKeys |-> Unused]
    /\ recaps = [n \in Revisions |-> NoRecap]
    /\ receipts = [n \in Turns |-> <<>>]
    /\ body = [n \in Turns |-> [v \in Versions |-> "none"]]
    /\ job = [j \in JobIds |-> "none"]
    /\ request = [r \in Requests |-> Idle]
    /\ answer = [r \in Requests |-> "none"]
    /\ left = {}

----------------------------------------------------------------------------
(* What a request does next. *)

At(r, step) == request[r].step = step
MovesTo(r, step) ==
    /\ request' = [request EXCEPT ![r].step = step]
    /\ UNCHANGED answer
Answers(r, what) ==
    /\ request' = [request EXCEPT ![r] = Idle]
    /\ answer' = [answer EXCEPT ![r] = what]

JobOf(r) == [turn |-> request[r].turn, key |-> request[r].key, policy |-> request[r].policy]
IsIntent(r) == request[r].turn = 0
SetJob(r, s) == job' = [job EXCEPT ![JobOf(r)] = s]
LeavesJob(r, why) == left' = left \cup {[job |-> JobOf(r), why |-> why]}
Unavailable(r) == Answers(r, "unavailable")
Fails(r) == Answers(r, IF IsIntent(r) THEN "error" ELSE "unavailable")

----------------------------------------------------------------------------
(* The versions of a turn's narration. *)

Published(n, k) == \E v \in DOMAIN receipts[n] : receipts[n][v] = k
VersionOf(n, k) == CHOOSE v \in DOMAIN receipts[n] : receipts[n][v] = k
Visible(n, v) == body[n][v] \in {"selected", "superseded"}

\* The versions that were ever published: receipts outlive the texts.
VersionCountOfTexts(n) ==                \* mutant: the texts are counted
    Cardinality({v \in Versions : body[n][v] \notin {"none", "purged"}})
VersionCount(n) == Len(receipts[n])

\* finish_generation_with_text_presentation finds the attempt's own text or the key's receipt,
\* or the lease lost, or the turn's versions used up.
Publishable(r) ==
    /\ ~Published(request[r].turn, request[r].key)
    /\ job[JobOf(r)] = "leased"
    /\ VersionCount(request[r].turn) < MaxVersions

Superseded(texts) == [v \in Versions |-> IF texts[v] = "selected" THEN "superseded" ELSE texts[v]]
Publishes(r) ==
    LET n == request[r].turn
        next == VersionCount(n) + 1
    IN  /\ receipts' = [receipts EXCEPT ![n] = Append(@, request[r].key)]
        /\ body' = [body EXCEPT ![n] = [Superseded(@) EXCEPT ![next] = "selected"]]
        /\ SetJob(r, "ended")

----------------------------------------------------------------------------
(* Regenerating a narration *)

\* The request arrives, and the outcome of its turn is loaded.
Regenerate(r, n, k) ==
    /\ At(r, "idle") /\ n \in DOMAIN turns
    /\ request' = [request EXCEPT ![r] = [Idle EXCEPT !.step = "find", !.turn = n, !.key = k]]
    /\ UNCHANGED <<settings, campaignVars, textVars, job, answer, left>>

\* replay_recorded_narration is asked three times; where its key has published nothing, or a
\* read fails, the handler goes on from there.
FoundNothing(r) ==
    \/ request[r].round = "first" /\ MovesTo(r, "count")
    \/ request[r].round = "again" /\ MovesTo(r, "enqueue")
    \/ request[r].round = "last" /\ Unavailable(r)

FindReceipt(r) ==
    /\ At(r, "find")
    /\ \/ Published(request[r].turn, request[r].key) /\ MovesTo(r, "read")
       \/ FoundNothing(r)
    /\ UNCHANGED <<settings, campaignVars, textVars, job, left>>

\* The text is read, and with it the list of the texts that are left.
ReadBody(r) ==
    LET n == request[r].turn
        v == VersionOf(n, request[r].key)
    IN  /\ At(r, "read")
        /\ \/ Visible(n, v) /\ Answers(r, "regenerated")
           \/ ~Visible(n, v) /\ request[r].round = "first" /\ Answers(r, "expired")
           \/ ~Visible(n, v) /\ request[r].round # "first" /\ Unavailable(r)
           \/ FoundNothing(r)
        /\ UNCHANGED <<settings, campaignVars, textVars, job, left>>

CountVersions(r) ==
    /\ At(r, "count")
    /\ \/ VersionCount(request[r].turn) >= MaxVersions /\ Answers(r, "limit")
       \/ VersionCount(request[r].turn) < MaxVersions /\ MovesTo(r, "prepare")
    /\ UNCHANGED <<settings, campaignVars, textVars, job, left>>

\* narration_input takes the policy as it is now.
PrepareNarration(r) ==
    /\ At(r, "prepare")
    /\ request' = [request EXCEPT ![r] = [@ EXCEPT !.step = "find", !.round = "again",
                                                   !.policy = policy]]
    /\ UNCHANGED <<settings, campaignVars, textVars, job, answer, left>>

----------------------------------------------------------------------------
(* begin: the job of the key is enqueued, or found, and claimed at once. *)

Refused(r) == Answers(r, IF IsIntent(r) THEN "already handled" ELSE "unavailable")

\* An intent's key may be bound to a request made under another policy.
BoundElsewhere(r) ==
    /\ IsIntent(r)
    /\ \E p \in (1..MaxPolicy) \ {request[r].policy} :
          job[[JobOf(r) EXCEPT !.policy = p]] # "none"

\* A transaction that fails may have committed all the same; either way it is not told.
EnqueueJob(r) ==
    /\ At(r, "enqueue")
    /\ \/ /\ job[JobOf(r)] = "none" /\ ~BoundElsewhere(r)
          /\ SetJob(r, "queued") /\ (MovesTo(r, "claim") \/ Fails(r))
       \/ job[JobOf(r)] = "queued" /\ MovesTo(r, "claim") /\ UNCHANGED job
       \/ job[JobOf(r)] \notin {"none", "queued"} /\ Refused(r) /\ UNCHANGED job
       \/ BoundElsewhere(r) /\ Answers(r, "conflict") /\ UNCHANGED job
       \/ Fails(r) /\ UNCHANGED job
    /\ UNCHANGED <<settings, campaignVars, textVars, left>>

\* The claim finds the job taken, or no room; one whose lease ended has no attempt left.  A
\* claim that commits and is answered with an error leaves the attempt to nobody.
ClaimJob(r) ==
    /\ At(r, "claim")
    /\ \/ /\ job[JobOf(r)] = "queued" /\ SetJob(r, "leased")
          /\ MovesTo(r, IF IsIntent(r) THEN "interpret"
                        ELSE IF backend = "fake" THEN "generate" ELSE "author")
          /\ UNCHANGED left
       \/ /\ job[JobOf(r)] = "queued" /\ SetJob(r, "leased")
          /\ Fails(r) /\ LeavesJob(r, "claim")
       \/ /\ job[JobOf(r)] = "lapsed" /\ SetJob(r, "ended")
          /\ (Refused(r) \/ Fails(r)) /\ UNCHANGED left
       \/ job[JobOf(r)] # "lapsed" /\ Refused(r) /\ UNCHANGED <<job, left>>
       \/ Fails(r) /\ UNCHANGED <<job, left>>
    /\ UNCHANGED <<settings, campaignVars, textVars>>

----------------------------------------------------------------------------
(* generate_recorded_narration, once the job is claimed *)

\* The game master answers with a narration, with something else, or not at all.
GenerateNarration(r) ==
    /\ At(r, "generate")
    /\ \E next \in {"publish", "close", "author"} : MovesTo(r, next)
    /\ UNCHANGED <<settings, campaignVars, textVars, job, left>>

\* A text that cannot be published is replaced by the engine's; if that cannot be either, the
\* attempt is closed with the fake backend, and with no other.
NotPublishedNorClosed(r) ==                             \* mutant: whatever the backend
    \/ At(r, "publish") /\ MovesTo(r, "author") /\ UNCHANGED left
    \/ At(r, "author") /\ Unavailable(r) /\ LeavesJob(r, "text")
NotPublished(r) ==
    \/ At(r, "publish") /\ MovesTo(r, "author") /\ UNCHANGED left
    \/ At(r, "author") /\ backend = "fake" /\ MovesTo(r, "close") /\ UNCHANGED left
    \/ At(r, "author") /\ backend # "fake" /\ Unavailable(r) /\ LeavesJob(r, "text")

\* The transaction commits, and the request may or may not be told; or it is refused, or fails.
Publish(r) ==
    /\ request[r].step \in {"publish", "author"}
    /\ \/ /\ Publishable(r) /\ Publishes(r)
          /\ \/ /\ request' = [request EXCEPT ![r] = [@ EXCEPT !.step = "find", !.round = "last"]]
                /\ UNCHANGED <<answer, left>>
             \/ NotPublished(r)
       \/ NotPublished(r) /\ UNCHANGED <<textVars, job>>
    /\ UNCHANGED <<settings, campaignVars>>

\* finish_unavailable, whose own failure is ignored.
Close(r) ==
    /\ At(r, "close")
    /\ \/ job[JobOf(r)] = "leased" /\ SetJob(r, "ended") /\ UNCHANGED left
       \/ job[JobOf(r)] # "leased" /\ UNCHANGED <<job, left>>
       \/ LeavesJob(r, "close") /\ UNCHANGED job
    /\ Fails(r)
    /\ UNCHANGED <<settings, campaignVars, textVars>>

----------------------------------------------------------------------------
(* A typed intent *)

\* The campaign is read.
SubmitIntent(r, k) ==
    /\ At(r, "idle")
    /\ request' = [request EXCEPT ![r] = [Idle EXCEPT !.step = "look up", !.key = k,
                                                      !.revision = revision]]
    /\ UNCHANGED <<settings, campaignVars, textVars, job, answer, left>>

\* A receipt of the key resumes its command; otherwise the client must have expected the
\* revision that was read, and the policy is taken as it is now.
LookUpIntent(r) ==
    LET receipt == claimed[request[r].key]
    IN  /\ At(r, "look up")
        /\ \/ /\ receipt.of = "intent"
              /\ request' = [request EXCEPT ![r] = [@ EXCEPT !.step = "commit",
                                                             !.revision = receipt.revision]]
              /\ UNCHANGED answer
           \/ /\ receipt.of # "intent"
              /\ request' = [request EXCEPT ![r] = [@ EXCEPT !.step = "enqueue", !.policy = policy]]
              /\ UNCHANGED answer
           \/ receipt.of # "intent" /\ Answers(r, "conflict")
        /\ UNCHANGED <<settings, campaignVars, textVars, job, left>>

\* The game master names an action, or asks or tells something, or fails.
Interpret(r) ==
    /\ At(r, "interpret")
    /\ \E next \in {"act", "explain", "close"} : MovesTo(r, next)
    /\ UNCHANGED <<settings, campaignVars, textVars, job, left>>

\* finish_typed: an attempt whose lease is lost, or that cannot be finished, is an error.
FinishInterpretation(r) ==
    /\ request[r].step \in {"act", "explain"}
    /\ \/ /\ job[JobOf(r)] = "leased" /\ SetJob(r, "ended") /\ UNCHANGED left
          /\ \/ IF At(r, "act") THEN MovesTo(r, "insert") ELSE Answers(r, "explained")
             \/ Fails(r)
       \/ Fails(r) /\ LeavesJob(r, "close") /\ UNCHANGED job
    /\ UNCHANGED <<settings, campaignVars, textVars>>

\* insert_pending_typed_intent_command_receipt: one receipt for each key of a campaign,
\* whatever it is of.
InsertIntent(r) ==
    LET k == request[r].key
        pending == Receipt("intent", request[r].revision)
    IN  /\ At(r, "insert")
        /\ \/ /\ claimed[k] \in {Unused, pending}
              /\ claimed' = [claimed EXCEPT ![k] = pending]
              /\ (MovesTo(r, "commit") \/ Fails(r))
           \/ /\ claimed[k] \notin {Unused, pending}
              /\ Answers(r, "conflict") /\ UNCHANGED claimed
           \/ Fails(r) /\ UNCHANGED claimed
        /\ UNCHANGED <<settings, revision, turns, recaps, textVars, job, left>>

\* What a command of an encounter finds, and what it writes (CampaignCommands has its steps).
Objection(k, expected) ==
    IF revision # expected THEN "conflict"
    ELSE IF claimed[k] # Unused THEN "key taken" ELSE "none"
Plays(k) ==
    /\ revision' = revision + 1
    /\ turns' = Append(turns, revision')
    /\ claimed' = [claimed EXCEPT ![k] = Receipt("turn", revision')]

\* The encounter command of the intent, under the same key.
CommitIntent(r) ==
    LET objection == Objection(request[r].key, request[r].revision)
    IN  /\ At(r, "commit")
        /\ Answers(r, objection)
        /\ IF objection = "none" THEN Plays(request[r].key)
                                 ELSE UNCHANGED <<revision, turns, claimed>>
        /\ UNCHANGED <<settings, recaps, textVars, job, left>>

----------------------------------------------------------------------------
(* The campaign goes on. *)

PlayTurn(k) ==
    /\ Len(turns) < MaxTurn /\ revision < MaxRevision
    /\ Objection(k, revision) = "none"
    /\ Plays(k)
    /\ UNCHANGED <<settings, recaps, textVars, job, request, answer, left>>

\* A pin is sealed or a membership changes: a revision without a turn.
Revise ==
    /\ revision < MaxRevision
    /\ revision' = revision + 1
    /\ UNCHANGED <<settings, turns, claimed, recaps, textVars, job, request, answer, left>>

ChangePolicy ==
    /\ policy < MaxPolicy /\ used \in PolicyChanges
    /\ policy' = policy + 1
    /\ UNCHANGED <<used, backend, campaignVars, textVars, job, request, answer, left>>

\* generate_private_recap: the recap of this revision is given again, or written from the
\* turns there are.
RecapEver(n) ==                                         \* mutant: of whatever revision
    IF \E m \in Revisions : recaps[m] # NoRecap
    THEN recaps[CHOOSE m \in Revisions : recaps[m] # NoRecap] ELSE turns
RecapAt(n) == IF recaps[n] = NoRecap THEN turns ELSE recaps[n]
GenerateRecap(k) ==
    /\ claimed[k] = Unused
    /\ recaps' = [recaps EXCEPT ![revision] = RecapAt(revision)]
    /\ claimed' = [claimed EXCEPT ![k] = Receipt("recap", revision)]
    /\ UNCHANGED <<settings, revision, turns, textVars, job, request, answer, left>>

----------------------------------------------------------------------------
(* Time, and requests that are dropped *)

LeaseEnds(j) ==
    /\ job[j] = "leased"
    /\ job' = [job EXCEPT ![j] = "lapsed"]
    /\ UNCHANGED <<settings, campaignVars, textVars, request, answer, left>>

\* Thirty days after it was superseded a text is shown no more, and then deleted.
ExpireText(n, v) ==
    /\ body[n][v] = "superseded"
    /\ body' = [body EXCEPT ![n][v] = "expired"]
    /\ UNCHANGED <<settings, campaignVars, receipts, job, request, answer, left>>
PurgeText(n, v) ==
    /\ body[n][v] = "expired"
    /\ body' = [body EXCEPT ![n][v] = "purged"]
    /\ UNCHANGED <<settings, campaignVars, receipts, job, request, answer, left>>

Drop(r) ==
    /\ ~At(r, "idle")
    /\ Answers(r, "none")
    /\ \/ request[r].step \in HoldSteps /\ LeavesJob(r, "dropped")
       \/ request[r].step \notin HoldSteps /\ UNCHANGED left
    /\ UNCHANGED <<settings, campaignVars, textVars, job>>

Next ==
    \/ \E r \in Requests :
          \/ \E n \in Turns, k \in Keys \cap used : Regenerate(r, n, k)
          \/ \E k \in IntentKeys \cap used : SubmitIntent(r, k)
          \/ FindReceipt(r) \/ ReadBody(r) \/ CountVersions(r) \/ PrepareNarration(r)
          \/ EnqueueJob(r) \/ ClaimJob(r) \/ GenerateNarration(r) \/ Publish(r) \/ Close(r)
          \/ LookUpIntent(r) \/ Interpret(r) \/ FinishInterpretation(r) \/ InsertIntent(r)
          \/ CommitIntent(r) \/ Drop(r)
    \/ \E k \in CommandKeys \cap used : PlayTurn(k) \/ GenerateRecap(k)
    \/ Revise \/ ChangePolicy
    \/ \E j \in JobIds : LeaseEnds(j)
    \/ \E n \in Turns, v \in Versions : ExpireText(n, v) \/ PurgeText(n, v)

NarrationSpec == Init /\ [][Next]_vars
=============================================================================
