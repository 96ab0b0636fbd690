------------------------- MODULE GenerationWorkers -------------------------
(***************************************************************************)
(* The programs that drive the generation queue: the scene-image workers   *)
(* (scene_images.rs, one per server process), which poll for illustrations *)
(* and move their files and their metadata into place in several steps;    *)
(* and the requests that generate text inline (generation_ledger.rs),      *)
(* which enqueue a job, claim that very job and finish it themselves.      *)
(*                                                                         *)
(* Any of them may stop between two steps: the process dies, the request   *)
(* is dropped, or an error of the database or the disk ends the step.      *)
(***************************************************************************)
EXTENDS GenerationQueue

CONSTANTS
    Workers,        \* scene-image workers
    Callers         \* requests that generate text inline

VARIABLES
    agent,          \* [Agents -> what it does, for which job, with which token]
    files,          \* [Jobs -> the attempt whose bytes are in the job's directory]
    selected        \* the jobs whose artifact is selected for its turn

Agents == Workers \cup Callers
workerVars == <<agent, files, selected>>
queueVars == vars
allVars == <<vars, workerVars>>

Idle == [doing |-> "idle"]
Doings == {"claiming", "generating", "renewing", "aborting", "confirming",
           "publishing", "registering", "completing", "selecting"}
AgentState == {Idle} \cup [doing : Doings, job : Jobs, token : 0..5]

Images == {j \in Jobs : Purpose[j] = "illustration"}
Texts == Jobs \ Images
SameTurn(j, k) == CampaignOf[j] = CampaignOf[k] /\ TurnScopeOf[j] = TurnScopeOf[k]

WorkersTypeOK ==
    /\ TypeOK
    /\ agent \in [Agents -> AgentState]
    /\ files \in [Jobs -> 0..5]
    /\ selected \subseteq Jobs

WorkersInit ==
    /\ Init
    /\ agent = [a \in Agents |-> Idle]
    /\ files = [j \in Jobs |-> NoLease]
    /\ selected = {}

At(a, what) == agent[a].doing = what
Becomes(a, what) == agent' = [agent EXCEPT ![a].doing = what]
Stops(a) == agent' = [agent EXCEPT ![a] = Idle]
Starts(a, what, j, n) ==
    agent' = [agent EXCEPT ![a] = [doing |-> what, job |-> j, token |-> n]]

----------------------------------------------------------------------------
(* The players: request an image, or cancel it. *)

RequestImage(j) == j \in Images /\ Enqueue(j) /\ UNCHANGED workerVars
CancelImage(j) == j \in Images /\ Cancel(j) /\ UNCHANGED workerVars

----------------------------------------------------------------------------
(* The scene-image worker *)

\* process_next: claim_generation_job_for_purpose(Illustration).
ClaimImage(w, j) ==
    /\ At(w, "idle") /\ j \in Images
    /\ \/ ClaimGrants(j) /\ Starts(w, "generating", j, NextAttempt(j))
       \/ ClaimExhausts(j) /\ UNCHANGED agent
    /\ UNCHANGED <<files, selected>>

\* A heartbeat every 15 s while the provider works, and one before publication.
\* The worker waits for the answer.
SendRenewal(w) ==
    /\ At(w, "generating")
    /\ SendHeartbeat(agent[w].job, agent[w].token)
    /\ Becomes(w, "renewing")
    /\ UNCHANGED <<files, selected>>

ProviderAnswers(w) ==
    /\ At(w, "generating")
    /\ SendHeartbeat(agent[w].job, agent[w].token)
    /\ Becomes(w, "confirming")
    /\ UNCHANGED <<files, selected>>

Awaits(a, h) ==
    /\ agent[a].doing \in {"renewing", "confirming"}
    /\ agent[a].job = h.job /\ agent[a].token = h.token

\* The answer: the lease is renewed, or it is lost and the worker gives up.
HeartbeatAnswered(h) ==
    /\ ApplyHeartbeat(h)
    /\ agent' = [a \in Agents |->
                    IF ~ Awaits(a, h) THEN agent[a]
                    ELSE IF ~ Renews(h) THEN Idle
                    ELSE [agent[a] EXCEPT !.doing =
                             IF @ = "renewing" THEN "generating" ELSE "publishing"]]
    /\ UNCHANGED <<files, selected>>

\* Any other error, of an update that was applied or was not: the periodic
\* heartbeat fails the attempt, the one before publication is not looked at.
HeartbeatErred(h) ==
    /\ ApplyHeartbeat(h) \/ LoseHeartbeat(h)
    /\ agent' = [a \in Agents |->
                    IF ~ Awaits(a, h) THEN agent[a]
                    ELSE [agent[a] EXCEPT !.doing =
                             IF @ = "renewing" THEN "aborting" ELSE "publishing"]]
    /\ UNCHANGED <<files, selected>>

\* finish_failure: the provider failed, timed out or answered with something
\* that is no acceptable image; a lost lease ends it too.
FailAttempt(a, class) ==
    /\ At(a, "generating") \/ (At(a, "aborting") /\ class = "permanent")
    /\ LET j == agent[a].job
           n == agent[a].token
       IN  IF HoldsLease(j, n)
           THEN \E usage \in UsageReports :
                   FailAndRetry(j, n, class, usage) \/ FailForGood(j, n, class, usage)
           ELSE UNCHANGED queueVars
    /\ Stops(a)
    /\ UNCHANGED <<files, selected>>

\* ProtectedImageStorage::publish writes the job's directory.
PublishFiles(w) ==
    /\ At(w, "publishing")
    /\ files' = [files EXCEPT ![agent[w].job] = agent[w].token]
    /\ Becomes(w, "registering")
    /\ UNCHANGED <<queueVars, selected>>

RegisterArtifact(w) ==
    LET j == agent[w].job
    IN  /\ At(w, "registering")
        /\ \/ StageArtifact(j, agent[w].token) /\ Becomes(w, "completing")
           \/ ~ MayStage(j) /\ UNCHANGED queueVars /\ Stops(w)
        /\ UNCHANGED <<files, selected>>

CompleteImage(w) ==
    LET j == agent[w].job
        n == agent[w].token
    IN  /\ At(w, "completing")
        /\ IF HoldsLease(j, n)
           THEN (\E usage \in UsageReports : Succeed(j, n, usage)) /\ Becomes(w, "selecting")
           ELSE UNCHANGED queueVars /\ Stops(w)
        /\ UNCHANGED <<files, selected>>

\* select_scene_image_artifact: the artifact replaces the one selected before.
NothingEarlier(j) == {}                             \* mutant: both stay selected
SelectedEarlier(j) == {k \in selected \ {j} : SameTurn(j, k)}

SelectArtifact(w) ==
    LET j == agent[w].job
        earlier == SelectedEarlier(j)
    IN  /\ At(w, "selecting")
        /\ state[j] = "succeeded"
        /\ selected' = (selected \ earlier) \cup {j}
        /\ asset' = [k \in Jobs |->
                        CASE k \in earlier -> [asset[k] EXCEPT !.state = "superseded"]
                          [] k = j         -> [asset[k] EXCEPT !.state = "published"]
                          [] OTHER         -> asset[k]]
        /\ Stops(w)
        /\ UNCHANGED <<state, attempt, attemptCount, leaseVars, wait, pending,
                       reservation, sinceEnqueue, heartbeats, files>>

----------------------------------------------------------------------------
(* The inline text request *)

\* InlineGenerationLedger::begin enqueues the job, or finds it queued by an
\* earlier request with the same key; any other state is AlreadyHandled.
BeginText(c, j) ==
    /\ At(c, "idle") /\ j \in Texts
    /\ Enqueue(j) \/ (state[j] = "queued" /\ UNCHANGED queueVars)
    /\ Starts(c, "claiming", j, NoLease)
    /\ UNCHANGED <<files, selected>>

\* claim_generation_job_by_id of that job; no grant is ExactJobUnavailable.
ClaimText(c) ==
    LET j == agent[c].job
    IN  /\ At(c, "claiming")
        /\ \/ ClaimGrants(j) /\ Starts(c, "generating", j, NextAttempt(j))
           \/ ClaimExhausts(j) /\ Stops(c)
           \/ ~ (Claimable(j) /\ Admissible(j)) /\ UNCHANGED queueVars /\ Stops(c)
        /\ UNCHANGED <<files, selected>>

FinishText(c) ==
    LET j == agent[c].job
        n == agent[c].token
    IN  /\ c \in Callers /\ At(c, "generating")
        /\ IF HoldsLease(j, n)
           THEN \E usage \in UsageReports : Succeed(j, n, usage)
           ELSE UNCHANGED queueVars
        /\ Stops(c)
        /\ UNCHANGED <<files, selected>>

----------------------------------------------------------------------------
\* The agent goes away between two steps: what it knew is lost.
Abandon(a) ==
    /\ ~ At(a, "idle")
    /\ Stops(a)
    /\ UNCHANGED <<queueVars, files, selected>>

TimePasses == Tick /\ UNCHANGED workerVars

ProviderEnds(w) == ProviderAnswers(w) \/ \E class \in FailureClasses : FailAttempt(w, class)
WorkerProceeds(w) ==
    \/ At(w, "aborting") /\ FailAttempt(w, "permanent")
    \/ PublishFiles(w) \/ RegisterArtifact(w) \/ CompleteImage(w) \/ SelectArtifact(w)
CallerProceeds(c) ==
    ClaimText(c) \/ FinishText(c) \/ \E class \in FailureClasses : FailAttempt(c, class)

WorkersNext ==
    \/ \E j \in Jobs : RequestImage(j) \/ CancelImage(j)
    \/ \E w \in Workers :
         \/ \E j \in Jobs : ClaimImage(w, j)
         \/ SendRenewal(w) \/ ProviderEnds(w) \/ WorkerProceeds(w)
    \/ \E h \in heartbeats : HeartbeatAnswered(h) \/ HeartbeatErred(h)
    \/ \E c \in Callers : CallerProceeds(c) \/ \E j \in Jobs : BeginText(c, j)
    \/ \E a \in Agents : Abandon(a)
    \/ TimePasses

WorkersSpec == WorkersInit /\ [][WorkersNext]_allVars

\* Time passes; an idle worker polls; a step that was begun is finished unless its
\* agent goes away; a provider call ends, by its deadline at the latest, however
\* often the heartbeat interrupts it.
Fairness ==
    /\ WF_allVars(TimePasses)
    /\ WF_allVars(\E w \in Workers, j \in Jobs : ClaimImage(w, j))
    /\ \A h \in Heartbeat : WF_allVars(h \in heartbeats /\ HeartbeatAnswered(h))
    /\ \A w \in Workers : SF_allVars(ProviderEnds(w)) /\ WF_allVars(WorkerProceeds(w))
    /\ \A c \in Callers : WF_allVars(CallerProceeds(c))

FairSpec == WorkersSpec /\ Fairness
=============================================================================
