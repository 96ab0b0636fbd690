--------------------------- MODULE Narration_proofs ---------------------------
(***************************************************************************)
(* What holds of the texts of a campaign for any number of requests, keys, *)
(* turns and versions, whatever the game master answers.  The properties   *)
(* need to know which job a request works on, and that every turn and      *)
(* every recap is of a revision the campaign has reached.                  *)
(***************************************************************************)
EXTENDS NarrationProperties, TLAPS

-----------------------------------------------------------------------------
(* The invariant                                                           *)

NarrationSteps == {"find", "read", "count", "prepare", "generate", "publish", "author"}
IntentSteps == {"look up", "interpret", "act", "explain", "insert", "commit"}
JobSteps == {"enqueue", "claim", "generate", "publish", "author", "close", "interpret",
             "act", "explain"}

\* What a request that is under way holds fits the step it is at.
Fits(q) ==
    /\ q.turn \in Turns /\ q.step # "idle" => q.key \in Keys
    /\ q.turn = 0 /\ q.step # "idle" => q.key \in CommandKeys
    /\ q.step \in NarrationSteps => q.turn \in Turns
    /\ q.step \in IntentSteps => q.turn = 0
    /\ q.step \in JobSteps => q.policy \in 1..MaxPolicy
    /\ q.step \in {"find", "read"} /\ q.round # "first" => q.policy \in 1..MaxPolicy
RequestsFitTheirSteps == \A r \in Requests : Fits(request[r])

\* The command of an intent comes after the receipt of its key.
IntentsAreClaimed ==
    \A r \in Requests : At(r, "commit") => claimed[request[r].key] # Unused

\* Turns and recaps are of the revisions the campaign has had.
TurnsAreReached == \A i \in DOMAIN turns : turns[i] <= revision
RecapsAreReached == \A n \in Revisions : recaps[n] # NoRecap => n <= revision

NarrationInvariant ==
    /\ recaps \in [Revisions -> Seq(Nat)]
    /\ RequestsFitTheirSteps
    /\ IntentsAreClaimed
    /\ TurnsAreReached
    /\ RecapsAreReached
    /\ RecapTellsItsRevision
    /\ VersionsAreNumbered
    /\ AttemptsAreClosed

-----------------------------------------------------------------------------
(* Types                                                                   *)

RequestStates ==
    [step : Steps \cup {"idle"}, turn : {0} \cup Turns,
     key : Keys \cup CommandKeys \cup {NoKey}, policy : 0..MaxPolicy, round : Rounds,
     revision : 0..MaxRevision]

\* The types, those that the runs do not name included.
TypesOK == NarrationTypeOK /\ recaps \in [Revisions -> Seq(Nat)]

LEMMA ZeroIsNoTurn == 0 \notin Turns
  BY NarrationAssumption DEF Turns

LEMMA RequestType == TypesOK => request \in [Requests -> RequestStates]
  BY DEF TypesOK, NarrationTypeOK, RequestStates

\* A request with one field changed.
LEMMA RequestUpdates ==
    ASSUME NEW q \in RequestStates
    PROVE  /\ \A s \in Steps : [q EXCEPT !.step = s] \in RequestStates
           /\ \A n \in Turns : [q EXCEPT !.turn = n] \in RequestStates
           /\ \A k \in Keys \cup CommandKeys : [q EXCEPT !.key = k] \in RequestStates
           /\ \A p \in 0..MaxPolicy : [q EXCEPT !.policy = p] \in RequestStates
           /\ \A x \in Rounds : [q EXCEPT !.round = x] \in RequestStates
           /\ \A n \in 0..MaxRevision : [q EXCEPT !.revision = n] \in RequestStates
  BY DEF RequestStates

LEMMA IdleType == Idle \in RequestStates
  BY NarrationAssumption DEF Idle, RequestStates, Rounds, Steps

\* A request moves to another step.
LEMMA MovesToType ==
    ASSUME NarrationTypeOK, NEW r \in Requests, NEW s \in Steps, MovesTo(r, s)
    PROVE  /\ request' \in [Requests -> RequestStates]
           /\ request' = [request EXCEPT ![r] = [request[r] EXCEPT !.step = s]]
  <1>1. request[r] \in RequestStates /\ [request[r] EXCEPT !.step = s] \in RequestStates
    BY RequestUpdates DEF NarrationTypeOK, RequestStates
  <1>2. QED
    BY <1>1 DEF NarrationTypeOK, RequestStates, MovesTo

\* A request is answered.
LEMMA AnswersType ==
    ASSUME NarrationTypeOK, NEW r \in Requests, NEW what, Answers(r, what)
    PROVE  request' \in [Requests -> RequestStates]
  BY IdleType DEF NarrationTypeOK, RequestStates, Answers

\* The job a request works on is one of the jobs.
LEMMA JobOfRequest ==
    ASSUME NarrationTypeOK, RequestsFitTheirSteps, NEW r \in Requests,
           ~At(r, "idle"), request[r].policy # 0
    PROVE  JobOf(r) \in JobIds
  <1>1. request[r] \in RequestStates
    BY DEF NarrationTypeOK, RequestStates
  <1>2. request[r].policy \in 1..MaxPolicy /\ request[r].turn \in {0} \cup Turns
    BY <1>1, NarrationAssumption DEF RequestStates
  <1>3. QED
    BY <1>2 DEF RequestsFitTheirSteps, Fits, JobOf, JobIds, At

LEMMA SetJobType ==
    ASSUME NarrationTypeOK, NEW r \in Requests, NEW s \in JobStates, SetJob(r, s)
    PROVE  job' \in [JobIds -> JobStates]
  BY DEF NarrationTypeOK, SetJob

LEMMA InitTypes == Init => TypesOK
  <1> SUFFICES ASSUME Init PROVE TypesOK
    OBVIOUS
  <1>1. request \in [Requests -> RequestStates]
    BY IdleType DEF Init
  <1>2. claimed \in [CommandKeys -> [of : {"nothing", "turn", "intent", "recap"},
                                     revision : 0..MaxRevision]]
    BY NarrationAssumption DEF Init, Unused
  <1>3. QED
    BY <1>1, <1>2, NarrationAssumption
    DEF Init, TypesOK, NarrationTypeOK, RequestStates, Revisions, NoRecap, Bodies, JobStates

\* A request arrives, prepares or resumes: two or three fields are set at once.
LEMMA ArrivalTypes ==
    ASSUME NarrationTypeOK, NEW r \in Requests
    PROVE  /\ \A n \in Turns, k \in Keys :
                  [Idle EXCEPT !.step = "find", !.turn = n, !.key = k] \in RequestStates
           /\ \A k \in CommandKeys, n \in 0..MaxRevision :
                  [Idle EXCEPT !.step = "look up", !.key = k, !.revision = n] \in RequestStates
           /\ \A q \in RequestStates, s \in Steps, x \in Rounds :
                  [q EXCEPT !.step = s, !.round = x] \in RequestStates
           /\ \A q \in RequestStates, s \in Steps, p \in 0..MaxPolicy :
                  [q EXCEPT !.step = s, !.policy = p] \in RequestStates
           /\ \A q \in RequestStates, s \in Steps, n \in 0..MaxRevision :
                  [q EXCEPT !.step = s, !.revision = n] \in RequestStates
           /\ \A q \in RequestStates, s \in Steps, x \in Rounds, p \in 0..MaxPolicy :
                  [q EXCEPT !.step = s, !.round = x, !.policy = p] \in RequestStates
  <1>1. ASSUME NEW n \in Turns, NEW k \in Keys
        PROVE  [Idle EXCEPT !.step = "find", !.turn = n, !.key = k] \in RequestStates
    <2> DEFINE found == [Idle EXCEPT !.step = "find"]
               turned == [found EXCEPT !.turn = n]
    <2>1. found \in RequestStates
      BY IdleType, RequestUpdates DEF Steps
    <2>2. turned \in RequestStates
      BY <2>1, RequestUpdates
    <2>3. [turned EXCEPT !.key = k] \in RequestStates
      BY <2>2, RequestUpdates
    <2>4. [Idle EXCEPT !.step = "find", !.turn = n, !.key = k] = [turned EXCEPT !.key = k]
      BY DEF Idle
    <2>5. QED
      BY <2>3, <2>4
  <1>2. ASSUME NEW k \in CommandKeys, NEW n \in 0..MaxRevision
        PROVE  [Idle EXCEPT !.step = "look up", !.key = k, !.revision = n] \in RequestStates
    <2> DEFINE looking == [Idle EXCEPT !.step = "look up"]
               keyed == [looking EXCEPT !.key = k]
    <2>1. looking \in RequestStates
      BY IdleType, RequestUpdates DEF Steps
    <2>2. keyed \in RequestStates
      BY <2>1, RequestUpdates
    <2>3. [keyed EXCEPT !.revision = n] \in RequestStates
      BY <2>2, RequestUpdates
    <2>4. [Idle EXCEPT !.step = "look up", !.key = k, !.revision = n]
              = [keyed EXCEPT !.revision = n]
      BY DEF Idle
    <2>5. QED
      BY <2>3, <2>4
  <1>3. ASSUME NEW q \in RequestStates, NEW s \in Steps
        PROVE  /\ \A x \in Rounds : [q EXCEPT !.step = s, !.round = x] \in RequestStates
               /\ \A p \in 0..MaxPolicy : [q EXCEPT !.step = s, !.policy = p] \in RequestStates
               /\ \A n \in 0..MaxRevision :
                      [q EXCEPT !.step = s, !.revision = n] \in RequestStates
               /\ \A x \in Rounds, p \in 0..MaxPolicy :
                      [q EXCEPT !.step = s, !.round = x, !.policy = p] \in RequestStates
    <2> DEFINE moved == [q EXCEPT !.step = s]
    <2>1. moved \in RequestStates
      BY RequestUpdates
    <2>2. ASSUME NEW x \in Rounds
          PROVE  /\ [moved EXCEPT !.round = x] \in RequestStates
                 /\ [moved EXCEPT !.round = x] = [q EXCEPT !.step = s, !.round = x]
      BY <2>1, RequestUpdates DEF RequestStates
    <2>3. ASSUME NEW p \in 0..MaxPolicy
          PROVE  /\ [moved EXCEPT !.policy = p] \in RequestStates
                 /\ [moved EXCEPT !.policy = p] = [q EXCEPT !.step = s, !.policy = p]
      BY <2>1, RequestUpdates DEF RequestStates
    <2>4. ASSUME NEW n \in 0..MaxRevision
          PROVE  /\ [moved EXCEPT !.revision = n] \in RequestStates
                 /\ [moved EXCEPT !.revision = n] = [q EXCEPT !.step = s, !.revision = n]
      BY <2>1, RequestUpdates DEF RequestStates
    <2>5. ASSUME NEW x \in Rounds, NEW p \in 0..MaxPolicy
          PROVE  [q EXCEPT !.step = s, !.round = x, !.policy = p] \in RequestStates
      <3> DEFINE again == [moved EXCEPT !.round = x]
      <3>1. /\ [again EXCEPT !.policy = p] \in RequestStates
            /\ [again EXCEPT !.policy = p] = [q EXCEPT !.step = s, !.round = x, !.policy = p]
        BY <2>2, RequestUpdates DEF RequestStates
      <3>2. QED
        BY <3>1
    <2>6. QED
      BY <2>2, <2>3, <2>4, <2>5
  <1>4. QED
    BY <1>1, <1>2, <1>3

LEMMA RegenerateTypes ==
    ASSUME TypesOK, RequestsFitTheirSteps, NEW r \in Requests,
           \/ \E n \in Turns, k \in Keys : Regenerate(r, n, k)
           \/ FindReceipt(r) \/ ReadBody(r) \/ CountVersions(r) \/ PrepareNarration(r)
    PROVE  TypesOK'
  <1>1. request' \in [Requests -> RequestStates]
    <2>1. ASSUME NEW n \in Turns, NEW k \in Keys, Regenerate(r, n, k)
          PROVE  request' \in [Requests -> RequestStates]
      <3>1. /\ request' = [request EXCEPT ![r] =
                             [Idle EXCEPT !.step = "find", !.turn = n, !.key = k]]
            /\ [Idle EXCEPT !.step = "find", !.turn = n, !.key = k] \in RequestStates
        BY <2>1, ArrivalTypes DEF Regenerate, TypesOK
      <3>2. QED
        BY <3>1, RequestType
    <2>2. ASSUME FoundNothing(r) \/ (\E what : Answers(r, what))
          PROVE  request' \in [Requests -> RequestStates]
      BY <2>2, MovesToType, AnswersType DEF FoundNothing, Unavailable, TypesOK, Steps
    <2>3. CASE FindReceipt(r)
      BY <2>2, <2>3, MovesToType DEF FindReceipt, TypesOK, Steps
    <2>4. CASE ReadBody(r)
      BY <2>2, <2>4 DEF ReadBody, Unavailable
    <2>5. CASE CountVersions(r)
      BY <2>2, <2>5, MovesToType DEF CountVersions, TypesOK, Steps
    <2>6. CASE PrepareNarration(r)
      <3>1. policy \in 0..MaxPolicy /\ request[r] \in RequestStates
        BY NarrationAssumption DEF TypesOK, NarrationTypeOK, RequestStates
      <3>2. [request[r] EXCEPT !.step = "find", !.round = "again", !.policy = policy]
                \in RequestStates
        BY <3>1, ArrivalTypes DEF TypesOK, Steps, Rounds
      <3>3. QED
        BY <2>6, <3>2 DEF PrepareNarration, TypesOK, NarrationTypeOK, RequestStates
    <2>7. QED
      BY <2>1, <2>3, <2>4, <2>5, <2>6
  <1>2. UNCHANGED <<settings, campaignVars, textVars, job, left>>
    BY DEF Regenerate, FindReceipt, ReadBody, CountVersions, PrepareNarration
  <1>3. QED
    BY <1>1, <1>2
    DEF TypesOK, NarrationTypeOK, RequestStates, settings, campaignVars, textVars

LEMMA JobTypes ==
    ASSUME TypesOK, RequestsFitTheirSteps, NEW r \in Requests,
           \/ EnqueueJob(r) \/ ClaimJob(r) \/ GenerateNarration(r) \/ Close(r)
           \/ Interpret(r) \/ FinishInterpretation(r)
    PROVE  TypesOK'
  <1> USE DEF EnqueueJob, ClaimJob, GenerateNarration, Close, Interpret, FinishInterpretation
  <1>1. \/ \E s \in Steps : MovesTo(r, s)
        \/ \E what : Answers(r, what)
    BY DEF Refused, Fails, Steps
  <1>2. request' \in [Requests -> RequestStates]
    BY <1>1, MovesToType, AnswersType DEF TypesOK
  <1>3. UNCHANGED job \/ \E s \in JobStates : SetJob(r, s)
    BY DEF JobStates
  <1>4. job' \in [JobIds -> JobStates]
    BY <1>3, SetJobType DEF TypesOK, NarrationTypeOK
  <1>5. JobOf(r) \in JobIds \/ UNCHANGED left
    <2>1. CASE UNCHANGED left
      BY <2>1
    <2>2. CASE ~UNCHANGED left
      <3>1. request[r].step \in JobSteps
        BY <2>2 DEF JobSteps, At
      <3>2. request[r].policy # 0 /\ ~At(r, "idle")
        BY <3>1 DEF RequestsFitTheirSteps, Fits, JobSteps, At
      <3>3. QED
        BY <3>2, JobOfRequest DEF TypesOK
    <2>3. QED
      BY <2>1, <2>2
  <1>6. left' \subseteq [job : JobIds, why : Reasons]
    <2>1. UNCHANGED left \/ \E why \in Reasons : LeavesJob(r, why)
      BY DEF Reasons
    <2>2. QED
      BY <1>5, <2>1 DEF LeavesJob, TypesOK, NarrationTypeOK
  <1>7. QED
    BY <1>2, <1>4, <1>6
    DEF TypesOK, NarrationTypeOK, RequestStates, settings, campaignVars, textVars

LEMMA PublishTypes ==
    ASSUME TypesOK, RequestsFitTheirSteps, NEW r \in Requests, Publish(r)
    PROVE  TypesOK'
  <1> DEFINE n == request[r].turn
             next == VersionCount(n) + 1
  <1>1. n \in Turns /\ request[r].key \in Keys /\ JobOf(r) \in JobIds
    <2>1. request[r].step \in NarrationSteps \cap JobSteps /\ ~At(r, "idle")
      BY DEF Publish, NarrationSteps, JobSteps, At
    <2>2. request[r].policy # 0
      BY <2>1 DEF RequestsFitTheirSteps, Fits
    <2>3. QED
      BY <2>1, <2>2, JobOfRequest DEF RequestsFitTheirSteps, Fits, TypesOK, At
  <1>2. request' \in [Requests -> RequestStates]
    <2>1. CASE NotPublished(r)
      BY <2>1, MovesToType, AnswersType DEF NotPublished, Unavailable, TypesOK, Steps
    <2>2. CASE request' = [request EXCEPT ![r] = [@ EXCEPT !.step = "find",
                                                            !.round = "last"]]
      <3>1. request[r] \in RequestStates
        BY RequestType
      <3>2. [request[r] EXCEPT !.step = "find", !.round = "last"] \in RequestStates
        BY <3>1, ArrivalTypes DEF TypesOK, Steps, Rounds
      <3>3. QED
        BY <2>2, <3>2, RequestType
    <2>3. QED
      BY <2>1, <2>2 DEF Publish
  <1>3. left' \subseteq [job : JobIds, why : Reasons]
    BY <1>1 DEF Publish, NotPublished, LeavesJob, Reasons, TypesOK, NarrationTypeOK
  <1>4. /\ receipts' \in [Turns -> Seq(Keys)] /\ body' \in [Turns -> [Versions -> Bodies]]
        /\ job' \in [JobIds -> JobStates]
    <2>1. CASE UNCHANGED <<textVars, job>>
      BY <2>1 DEF textVars, TypesOK, NarrationTypeOK
    <2>2. CASE Publishes(r)
      <3>1. /\ receipts' = [receipts EXCEPT ![n] = Append(receipts[n], request[r].key)]
            /\ body' = [body EXCEPT ![n] = [Superseded(body[n]) EXCEPT ![next] = "selected"]]
            /\ SetJob(r, "ended")
        BY <2>2 DEF Publishes
      <3>2. receipts[n] \in Seq(Keys) /\ body[n] \in [Versions -> Bodies]
        BY <1>1 DEF TypesOK, NarrationTypeOK
      <3>3. [Superseded(body[n]) EXCEPT ![next] = "selected"] \in [Versions -> Bodies]
        BY <3>2 DEF Superseded, Bodies
      <3>4. QED
        BY <1>1, <3>1, <3>2, <3>3, SetJobType DEF TypesOK, NarrationTypeOK, JobStates
    <2>3. QED
      BY <2>1, <2>2 DEF Publish
  <1>5. UNCHANGED <<settings, campaignVars>>
    BY DEF Publish
  <1>6. QED
    BY <1>2, <1>3, <1>4, <1>5
    DEF TypesOK, NarrationTypeOK, RequestStates, settings, campaignVars

\* A receipt of the campaign.
CampaignReceipts == [of : {"nothing", "turn", "intent", "recap"}, revision : 0..MaxRevision]

LEMMA ReceiptType ==
    ASSUME NEW what \in {"turn", "intent", "recap"}, NEW n \in 0..MaxRevision
    PROVE  Receipt(what, n) \in CampaignReceipts /\ Receipt(what, n) # Unused
  BY DEF Receipt, CampaignReceipts, Unused

\* The key of an intent under way is a key of commands, and its commit plays no turn.
LEMMA IntentIsClaimed ==
    ASSUME TypesOK, RequestsFitTheirSteps, IntentsAreClaimed, NEW r \in Requests,
           CommitIntent(r)
    PROVE  UNCHANGED <<revision, turns, claimed>>
  BY DEF CommitIntent, IntentsAreClaimed, Objection

LEMMA IntentTypes ==
    ASSUME TypesOK, RequestsFitTheirSteps, IntentsAreClaimed, NEW r \in Requests,
           \/ \E k \in IntentKeys : SubmitIntent(r, k)
           \/ LookUpIntent(r) \/ InsertIntent(r) \/ CommitIntent(r)
    PROVE  TypesOK'
  <1>1. /\ request[r] \in RequestStates /\ request \in [Requests -> RequestStates]
        /\ revision \in 0..MaxRevision /\ policy \in 0..MaxPolicy
    BY RequestType, NarrationAssumption DEF TypesOK, NarrationTypeOK, Revisions
  <1>2. ASSUME ~At(r, "idle"), request[r].step \in IntentSteps
        PROVE  request[r].key \in CommandKeys
    BY <1>2 DEF RequestsFitTheirSteps, Fits, At
  <1>3. request' \in [Requests -> RequestStates]
    <2>1. ASSUME NEW k \in IntentKeys, SubmitIntent(r, k)
          PROVE  request' \in [Requests -> RequestStates]
      <3>1. [Idle EXCEPT !.step = "look up", !.key = k, !.revision = revision] \in RequestStates
        BY <1>1, ArrivalTypes, NarrationAssumption DEF TypesOK
      <3>2. QED
        BY <1>1, <2>1, <3>1 DEF SubmitIntent
    <2>2. CASE LookUpIntent(r)
      <3>1. claimed[request[r].key].revision \in 0..MaxRevision
        BY <1>2, <2>2 DEF LookUpIntent, At, IntentSteps, TypesOK, NarrationTypeOK
      <3>2. /\ [request[r] EXCEPT !.step = "commit",
                                  !.revision = claimed[request[r].key].revision]
                    \in RequestStates
            /\ [request[r] EXCEPT !.step = "enqueue", !.policy = policy] \in RequestStates
        BY <1>1, <3>1, ArrivalTypes DEF TypesOK, Steps
      <3>3. QED
        BY <1>1, <2>2, <3>2, AnswersType DEF LookUpIntent, TypesOK
    <2>3. CASE InsertIntent(r) \/ CommitIntent(r)
      BY <2>3, MovesToType, AnswersType DEF InsertIntent, CommitIntent, Fails, TypesOK, Steps
    <2>4. QED
      BY <2>1, <2>2, <2>3
  <1>4. claimed' \in [CommandKeys -> CampaignReceipts]
    <2>1. claimed \in [CommandKeys -> CampaignReceipts]
      BY DEF TypesOK, NarrationTypeOK, CampaignReceipts
    <2>2. CASE InsertIntent(r)
      <3>1. request[r].key \in CommandKeys /\ request[r].revision \in 0..MaxRevision
        BY <1>1, <1>2, <2>2 DEF InsertIntent, At, IntentSteps, RequestStates
      <3>2. QED
        BY <2>1, <2>2, <3>1, ReceiptType DEF InsertIntent
    <2>3. QED
      BY <2>1, <2>2, IntentIsClaimed DEF SubmitIntent, LookUpIntent, campaignVars
  <1>5. UNCHANGED <<settings, revision, turns, recaps, textVars, job, left>>
    BY IntentIsClaimed DEF SubmitIntent, LookUpIntent, InsertIntent, CommitIntent, campaignVars
  <1>6. QED
    BY <1>3, <1>4, <1>5
    DEF TypesOK, NarrationTypeOK, RequestStates, CampaignReceipts, settings, textVars

\* A turn that is played, by whichever command, is of the next revision.
LEMMA CampaignTypes ==
    ASSUME TypesOK,
           \/ \E k \in CommandKeys : PlayTurn(k) \/ GenerateRecap(k)
           \/ Revise \/ ChangePolicy
    PROVE  TypesOK'
  <1> USE DEF TypesOK, NarrationTypeOK, settings, campaignVars, textVars
  <1>1. ASSUME NEW k \in CommandKeys, PlayTurn(k)
        PROVE  TypesOK'
    <2>1. revision' = revision + 1 /\ revision' \in Revisions
      BY <1>1, NarrationAssumption DEF PlayTurn, Plays, Revisions
    <2>2. claimed' \in [CommandKeys -> CampaignReceipts]
      <3>1. /\ claimed' = [claimed EXCEPT ![k] = Receipt("turn", revision')]
            /\ claimed \in [CommandKeys -> CampaignReceipts] /\ revision' \in 0..MaxRevision
        BY <1>1, <2>1, NarrationAssumption DEF PlayTurn, Plays, CampaignReceipts, Revisions
      <3>2. Receipt("turn", revision') \in CampaignReceipts
        BY <3>1, ReceiptType
      <3>3. QED
        BY <3>1, <3>2
    <2>3. turns' \in Seq(Revisions) /\ Len(turns') <= MaxTurn
      BY <1>1, <2>1, NarrationAssumption DEF PlayTurn, Plays
    <2>4. QED
      BY <1>1, <2>1, <2>2, <2>3 DEF PlayTurn, CampaignReceipts
  <1>2. ASSUME NEW k \in CommandKeys, GenerateRecap(k)
        PROVE  TypesOK'
    <2>1. RecapAt(revision) \in Seq(Nat)
      <3>1. turns \in Seq(Nat)
        BY NarrationAssumption DEF Revisions
      <3>2. QED
        BY <3>1 DEF RecapAt
    <2>2. recaps' \in [Revisions -> Seq(Nat)] /\ DOMAIN recaps' = Revisions
      BY <1>2, <2>1 DEF GenerateRecap
    <2>3. claimed' \in [CommandKeys -> CampaignReceipts]
      <3>1. /\ claimed' = [claimed EXCEPT ![k] = Receipt("recap", revision)]
            /\ claimed \in [CommandKeys -> CampaignReceipts] /\ revision \in 0..MaxRevision
        BY <1>2, NarrationAssumption DEF GenerateRecap, CampaignReceipts, Revisions
      <3>2. Receipt("recap", revision) \in CampaignReceipts
        BY <3>1, ReceiptType
      <3>3. QED
        BY <3>1, <3>2
    <2>4. QED
      BY <1>2, <2>2, <2>3 DEF GenerateRecap, CampaignReceipts
  <1>3. CASE Revise
    BY <1>3, NarrationAssumption DEF Revise, Revisions
  <1>4. CASE ChangePolicy
    BY <1>4, NarrationAssumption DEF ChangePolicy
  <1>5. QED
    BY <1>1, <1>2, <1>3, <1>4

LEMMA TimeTypes ==
    ASSUME TypesOK, RequestsFitTheirSteps,
           \/ \E j \in JobIds : LeaseEnds(j)
           \/ \E n \in Turns, v \in Versions : ExpireText(n, v) \/ PurgeText(n, v)
           \/ \E r \in Requests : Drop(r)
    PROVE  TypesOK'
  <1>1. ASSUME NEW j \in JobIds, LeaseEnds(j)
        PROVE  TypesOK'
    BY <1>1
    DEF LeaseEnds, TypesOK, NarrationTypeOK, JobStates, settings, campaignVars, textVars
  <1>2. ASSUME NEW n \in Turns, NEW v \in Versions, ExpireText(n, v) \/ PurgeText(n, v)
        PROVE  TypesOK'
    <2>1. body' \in [Turns -> [Versions -> Bodies]]
      <3>1. PICK state \in Bodies : body' = [body EXCEPT ![n][v] = state]
        BY <1>2 DEF ExpireText, PurgeText, Bodies
      <3>2. body \in [Turns -> [Versions -> Bodies]]
        BY DEF TypesOK, NarrationTypeOK
      <3>3. QED
        BY <3>1, <3>2
    <2>2. UNCHANGED <<settings, campaignVars, receipts, job, request, left>>
      BY <1>2 DEF ExpireText, PurgeText
    <2>3. QED
      BY <2>1, <2>2 DEF TypesOK, NarrationTypeOK, settings, campaignVars
  <1>3. ASSUME NEW r \in Requests, Drop(r)
        PROVE  TypesOK'
    <2>1. request' \in [Requests -> RequestStates]
      BY <1>3, AnswersType DEF Drop, TypesOK
    <2>2. left' \subseteq [job : JobIds, why : Reasons]
      <3>1. CASE request[r].step \in HoldSteps
        <4>1. request[r].policy # 0 /\ ~At(r, "idle")
          BY <3>1 DEF RequestsFitTheirSteps, Fits, HoldSteps, JobSteps, At
        <4>2. LeavesJob(r, "dropped") /\ JobOf(r) \in JobIds
          BY <1>3, <3>1, <4>1, JobOfRequest DEF Drop, TypesOK
        <4>3. QED
          BY <4>2 DEF LeavesJob, Reasons, TypesOK, NarrationTypeOK
      <3>2. CASE request[r].step \notin HoldSteps
        BY <1>3, <3>2 DEF Drop, TypesOK, NarrationTypeOK
      <3>3. QED
        BY <3>1, <3>2
    <2>3. QED
      BY <1>3, <2>1, <2>2
      DEF Drop, TypesOK, NarrationTypeOK, RequestStates, settings, campaignVars, textVars
  <1>4. QED
    BY <1>1, <1>2, <1>3

LEMMA StepTypes ==
    TypesOK /\ RequestsFitTheirSteps /\ IntentsAreClaimed /\ [Next]_vars => TypesOK'
  <1> SUFFICES ASSUME TypesOK, RequestsFitTheirSteps, IntentsAreClaimed, [Next]_vars
               PROVE  TypesOK'
    OBVIOUS
  <1>1. CASE UNCHANGED vars
    BY <1>1 DEF vars, settings, campaignVars, textVars, TypesOK, NarrationTypeOK
  <1>2. CASE Next
    BY <1>2, RegenerateTypes, JobTypes, PublishTypes, IntentTypes, CampaignTypes, TimeTypes
    DEF Next
  <1>3. QED
    BY <1>1, <1>2

-----------------------------------------------------------------------------
(* Requests and their steps                                                *)

\* A step changes one request, if any.
LEMMA OneRequestFits ==
    ASSUME RequestsFitTheirSteps, NEW r \in Requests, NEW q,
           request' = [request EXCEPT ![r] = q], Fits(q)
    PROVE  RequestsFitTheirSteps'
  BY DEF RequestsFitTheirSteps, Fits

LEMMA AnswersFits ==
    ASSUME RequestsFitTheirSteps, NEW r \in Requests, NEW what, Answers(r, what)
    PROVE  RequestsFitTheirSteps'
  <1>1. Fits(Idle)
    BY DEF Fits, Idle, NarrationSteps, IntentSteps, JobSteps
  <1>2. QED
    BY <1>1, OneRequestFits DEF Answers

\* A request that moves holds what its next step needs.
LEMMA MovesFits ==
    ASSUME TypesOK, RequestsFitTheirSteps, NEW r \in Requests, NEW s \in Steps, MovesTo(r, s),
           request[r].step # "idle",
           s \in NarrationSteps => request[r].turn \in Turns,
           s \in IntentSteps => request[r].turn = 0,
           s \in JobSteps => request[r].policy \in 1..MaxPolicy,
           s \in {"find", "read"} /\ request[r].round # "first" => request[r].policy \in 1..MaxPolicy
    PROVE  RequestsFitTheirSteps'
  <1>1. request[r] \in RequestStates /\ Fits(request[r])
    BY RequestType DEF RequestsFitTheirSteps
  <1>2. Fits([request[r] EXCEPT !.step = s])
    BY <1>1 DEF Fits, RequestStates
  <1>3. QED
    BY <1>2, OneRequestFits, MovesToType DEF TypesOK

LEMMA RegenerateFits ==
    ASSUME TypesOK, RequestsFitTheirSteps, NEW r \in Requests,
           \/ \E n \in Turns, k \in Keys : Regenerate(r, n, k)
           \/ FindReceipt(r) \/ ReadBody(r) \/ CountVersions(r) \/ PrepareNarration(r)
    PROVE  RequestsFitTheirSteps'
  <1>1. request[r] \in RequestStates /\ Fits(request[r])
    BY RequestType DEF RequestsFitTheirSteps
  <1>2. ASSUME NEW n \in Turns, NEW k \in Keys, Regenerate(r, n, k)
        PROVE  RequestsFitTheirSteps'
    <2>1. n # 0
      BY NarrationAssumption DEF Turns
    <2>2. Fits([Idle EXCEPT !.step = "find", !.turn = n, !.key = k])
      BY <2>1 DEF Fits, Idle, NarrationSteps, IntentSteps, JobSteps
    <2>3. QED
      BY <1>2, <2>2, OneRequestFits DEF Regenerate
  <1>3. ASSUME At(r, "find") \/ At(r, "read"), FoundNothing(r)
        PROVE  RequestsFitTheirSteps'
    <2>1. request[r].turn \in Turns /\ request[r].round \in Rounds
      BY <1>1, <1>3 DEF At, Fits, NarrationSteps, RequestStates
    <2>2. request[r].round # "first" => request[r].policy \in 1..MaxPolicy
      BY <1>1, <1>3 DEF At, Fits
    <2>3. CASE MovesTo(r, "count")
      BY <1>3, <2>1, <2>3, MovesFits DEF At, Steps, IntentSteps, JobSteps
    <2>4. CASE request[r].round = "again" /\ MovesTo(r, "enqueue")
      BY <1>3, <2>2, <2>4, MovesFits DEF At, Steps, NarrationSteps, IntentSteps
    <2>5. CASE Unavailable(r)
      BY <2>5, AnswersFits DEF Unavailable
    <2>6. QED
      BY <1>3, <2>3, <2>4, <2>5 DEF FoundNothing
  <1>4. CASE FindReceipt(r)
    <2>1. CASE FoundNothing(r)
      BY <1>3, <1>4, <2>1 DEF FindReceipt
    <2>2. CASE MovesTo(r, "read")
      <3>1. /\ request[r].step = "find" /\ request[r].turn \in Turns
            /\ request[r].round # "first" => request[r].policy \in 1..MaxPolicy
        BY <1>1, <1>4 DEF FindReceipt, At, Fits, NarrationSteps
      <3>2. QED
        BY <2>2, <3>1, MovesFits DEF Steps, IntentSteps, JobSteps
    <2>3. QED
      BY <1>4, <2>1, <2>2 DEF FindReceipt
  <1>5. CASE ReadBody(r)
    BY <1>3, <1>5, AnswersFits DEF ReadBody, Unavailable
  <1>6. CASE CountVersions(r)
    <2>1. CASE MovesTo(r, "prepare")
      <3>1. request[r].step = "count" /\ request[r].turn \in Turns
        BY <1>1, <1>6 DEF CountVersions, At, Fits, NarrationSteps
      <3>2. QED
        BY <2>1, <3>1, MovesFits DEF Steps, IntentSteps, JobSteps
    <2>2. QED
      BY <1>6, <2>1, AnswersFits DEF CountVersions
  <1>7. CASE PrepareNarration(r)
    <2>1. /\ request[r].step = "prepare" /\ request[r].turn \in Turns
          /\ request[r].turn # 0 /\ request[r].key \in Keys /\ policy \in 1..MaxPolicy
      BY <1>1, <1>7, NarrationAssumption
      DEF PrepareNarration, At, Fits, NarrationSteps, TypesOK, NarrationTypeOK, Turns
    <2> DEFINE q == [request[r] EXCEPT !.step = "find", !.round = "again", !.policy = policy]
    <2>2. /\ q.turn = request[r].turn /\ q.key = request[r].key /\ q.step = "find"
          /\ q.policy = policy
      BY <1>1 DEF RequestStates
    <2>3. Fits(q)
      BY <2>1, <2>2 DEF Fits, IntentSteps
    <2>4. QED
      BY <1>7, <2>3, OneRequestFits DEF PrepareNarration
  <1>8. QED
    BY <1>2, <1>4, <1>5, <1>6, <1>7

LEMMA JobFits ==
    ASSUME TypesOK, RequestsFitTheirSteps, NEW r \in Requests,
           \/ EnqueueJob(r) \/ ClaimJob(r) \/ GenerateNarration(r) \/ Close(r)
           \/ Interpret(r) \/ FinishInterpretation(r)
    PROVE  RequestsFitTheirSteps'
  <1>1. /\ request[r] \in RequestStates /\ Fits(request[r])
        /\ request[r].turn \in {0} \cup Turns
    BY RequestType DEF RequestsFitTheirSteps, RequestStates
  <1>2. request[r].step \in JobSteps => request[r].policy \in 1..MaxPolicy
    BY <1>1 DEF Fits
  <1>3. CASE \E what : Answers(r, what)
    BY <1>3, AnswersFits
  <1>4. ASSUME EnqueueJob(r), MovesTo(r, "claim")
        PROVE  RequestsFitTheirSteps'
    <2>1. request[r].step \in JobSteps /\ request[r].step # "idle"
      BY <1>4 DEF EnqueueJob, At, JobSteps
    <2>2. QED
      BY <1>2, <1>4, <2>1, MovesFits DEF Steps, NarrationSteps, IntentSteps
  <1>5. ASSUME ClaimJob(r), NEW s \in {"interpret", "generate", "author"}, MovesTo(r, s),
               s = "interpret" <=> IsIntent(r)
        PROVE  RequestsFitTheirSteps'
    <2>1. request[r].step \in JobSteps /\ request[r].step # "idle"
      BY <1>5 DEF ClaimJob, At, JobSteps
    <2>2. /\ s \in NarrationSteps => request[r].turn \in Turns
          /\ s \in IntentSteps => request[r].turn = 0
      BY <1>1, <1>5 DEF IsIntent, NarrationSteps, IntentSteps
    <2>3. QED
      BY <1>2, <1>5, <2>1, <2>2, MovesFits DEF Steps
  <1>6. ASSUME GenerateNarration(r), NEW s \in {"publish", "close", "author"}, MovesTo(r, s)
        PROVE  RequestsFitTheirSteps'
    <2>1. /\ request[r].step \in JobSteps /\ request[r].step # "idle"
          /\ request[r].turn \in Turns
      BY <1>1, <1>6 DEF GenerateNarration, At, JobSteps, Fits, NarrationSteps
    <2>2. QED
      BY <1>2, <1>6, <2>1, MovesFits DEF Steps, IntentSteps
  <1>7. ASSUME Interpret(r) \/ FinishInterpretation(r),
               NEW s \in {"act", "explain", "close", "insert"}, MovesTo(r, s)
        PROVE  RequestsFitTheirSteps'
    <2>1. /\ request[r].step \in JobSteps /\ request[r].step # "idle"
          /\ request[r].turn = 0
      BY <1>1, <1>7 DEF Interpret, FinishInterpretation, At, JobSteps, Fits, IntentSteps
    <2>2. QED
      BY <1>2, <1>7, <2>1, MovesFits DEF Steps, NarrationSteps
  <1>8. CASE EnqueueJob(r) \/ Close(r)
    BY <1>3, <1>4, <1>8 DEF EnqueueJob, Close, Refused, Fails
  <1>9. CASE ClaimJob(r)
    <2>1. \/ \E what : Answers(r, what)
          \/ \E s \in {"interpret", "generate", "author"} :
                 MovesTo(r, s) /\ (s = "interpret" <=> IsIntent(r))
      <3>1. CASE IsIntent(r)
        <4>1. (\E what : Answers(r, what)) \/ MovesTo(r, "interpret")
          BY <1>9, <3>1 DEF ClaimJob, Refused, Fails
        <4>2. QED
          BY <3>1, <4>1
      <3>2. CASE ~IsIntent(r)
        <4>1. (\E what : Answers(r, what)) \/ MovesTo(r, "generate") \/ MovesTo(r, "author")
          <5>1. CASE backend = "fake"
            BY <1>9, <3>2, <5>1 DEF ClaimJob, Refused, Fails
          <5>2. CASE backend # "fake"
            BY <1>9, <3>2, <5>2 DEF ClaimJob, Refused, Fails
          <5>3. QED
            BY <5>1, <5>2
        <4>2. "generate" # "interpret" /\ "author" # "interpret"
          OBVIOUS
        <4>3. QED
          BY <3>2, <4>1, <4>2
      <3>3. QED
        BY <3>1, <3>2
    <2>2. QED
      BY <1>3, <1>5, <1>9, <2>1
  <1>10. CASE GenerateNarration(r)
    BY <1>6, <1>10 DEF GenerateNarration
  <1>11. CASE Interpret(r) \/ FinishInterpretation(r)
    BY <1>3, <1>7, <1>11 DEF Interpret, FinishInterpretation, Fails
  <1>12. QED
    BY <1>8, <1>9, <1>10, <1>11

LEMMA PublishFits ==
    ASSUME TypesOK, RequestsFitTheirSteps, NEW r \in Requests, Publish(r)
    PROVE  RequestsFitTheirSteps'
  <1>1. /\ request[r] \in RequestStates /\ Fits(request[r])
        /\ request[r].step \in {"publish", "author"}
    BY RequestType DEF RequestsFitTheirSteps, Publish
  <1>2. /\ request[r].turn \in Turns /\ request[r].policy \in 1..MaxPolicy
        /\ request[r].turn # 0 /\ request[r].key \in Keys
    BY <1>1, NarrationAssumption DEF Fits, NarrationSteps, JobSteps, Turns
  <1>3. ASSUME NEW s \in {"author", "close"}, MovesTo(r, s)
        PROVE  RequestsFitTheirSteps'
    BY <1>1, <1>2, <1>3, MovesFits DEF Steps, IntentSteps
  <1>4. CASE NotPublished(r)
    BY <1>3, <1>4, AnswersFits DEF NotPublished, Unavailable
  <1>5. CASE request' = [request EXCEPT ![r] = [@ EXCEPT !.step = "find", !.round = "last"]]
    <2> DEFINE q == [request[r] EXCEPT !.step = "find", !.round = "last"]
    <2>1. /\ q.turn = request[r].turn /\ q.key = request[r].key /\ q.step = "find"
          /\ q.policy = request[r].policy
      BY <1>1 DEF RequestStates
    <2>2. Fits(q)
      BY <1>2, <2>1 DEF Fits, IntentSteps, JobSteps
    <2>3. QED
      BY <1>5, <2>2, OneRequestFits
  <1>6. QED
    BY <1>4, <1>5 DEF Publish

LEMMA IntentFits ==
    ASSUME TypesOK, RequestsFitTheirSteps, NEW r \in Requests,
           \/ \E k \in IntentKeys : SubmitIntent(r, k)
           \/ LookUpIntent(r) \/ InsertIntent(r) \/ CommitIntent(r) \/ Drop(r)
    PROVE  RequestsFitTheirSteps'
  <1>1. request[r] \in RequestStates /\ Fits(request[r])
    BY RequestType DEF RequestsFitTheirSteps
  <1>2. ASSUME NEW k \in IntentKeys, SubmitIntent(r, k)
        PROVE  RequestsFitTheirSteps'
    <2>1. Fits([Idle EXCEPT !.step = "look up", !.key = k, !.revision = revision])
      BY NarrationAssumption DEF Fits, Idle, NarrationSteps, JobSteps, Turns
    <2>2. QED
      BY <1>2, <2>1, OneRequestFits DEF SubmitIntent
  <1>3. ASSUME At(r, "look up") \/ At(r, "insert")
        PROVE  request[r].turn = 0 /\ request[r].key \in CommandKeys
    BY <1>1, <1>3 DEF At, Fits, IntentSteps
  <1>4. CASE LookUpIntent(r)
    <2> DEFINE resumed == [request[r] EXCEPT !.step = "commit",
                                            !.revision = claimed[request[r].key].revision]
               asked == [request[r] EXCEPT !.step = "enqueue", !.policy = policy]
    <2>1. /\ resumed.turn = request[r].turn /\ resumed.key = request[r].key
          /\ resumed.step = "commit"
      BY <1>1 DEF RequestStates
    <2>2. /\ asked.turn = request[r].turn /\ asked.key = request[r].key
          /\ asked.step = "enqueue" /\ asked.policy = policy
      BY <1>1 DEF RequestStates
    <2>3. /\ request[r].turn = 0 /\ 0 \notin Turns /\ request[r].key \in CommandKeys
          /\ policy \in 1..MaxPolicy
      <3>1. At(r, "look up")
        BY <1>4 DEF LookUpIntent
      <3>2. QED
        BY <1>3, <3>1, ZeroIsNoTurn DEF TypesOK, NarrationTypeOK
    <2>4. Fits(resumed) /\ Fits(asked)
      BY <2>1, <2>2, <2>3 DEF Fits, NarrationSteps, IntentSteps, JobSteps
    <2>5. QED
      BY <1>4, <2>4, OneRequestFits, AnswersFits DEF LookUpIntent
  <1>5. CASE InsertIntent(r)
    <2>1. CASE MovesTo(r, "commit")
      BY <1>3, <1>5, <2>1, MovesFits DEF InsertIntent, At, Steps, NarrationSteps, JobSteps
    <2>2. QED
      BY <1>5, <2>1, AnswersFits DEF InsertIntent, Fails
  <1>6. CASE CommitIntent(r) \/ Drop(r)
    BY <1>6, AnswersFits DEF CommitIntent, Drop
  <1>7. QED
    BY <1>2, <1>4, <1>5, <1>6

LEMMA StepFits ==
    TypesOK /\ RequestsFitTheirSteps /\ [Next]_vars => RequestsFitTheirSteps'
  <1> SUFFICES ASSUME TypesOK, RequestsFitTheirSteps, [Next]_vars
               PROVE  RequestsFitTheirSteps'
    OBVIOUS
  <1>1. CASE UNCHANGED request
    BY <1>1 DEF RequestsFitTheirSteps, Fits
  <1>2. ASSUME ~UNCHANGED request
        PROVE  \E r \in Requests :
                   \/ \E n \in Turns, k \in Keys : Regenerate(r, n, k)
                   \/ \E k \in IntentKeys : SubmitIntent(r, k)
                   \/ FindReceipt(r) \/ ReadBody(r) \/ CountVersions(r) \/ PrepareNarration(r)
                   \/ EnqueueJob(r) \/ ClaimJob(r) \/ GenerateNarration(r) \/ Publish(r)
                   \/ Close(r) \/ LookUpIntent(r) \/ Interpret(r) \/ FinishInterpretation(r)
                   \/ InsertIntent(r) \/ CommitIntent(r) \/ Drop(r)
    BY <1>2 DEF Next, vars, PlayTurn, GenerateRecap, Revise, ChangePolicy, LeaseEnds, ExpireText,
                PurgeText
  <1>3. QED
    BY <1>1, <1>2, RegenerateFits, JobFits, PublishFits, IntentFits

\* What a request may do.
RequestStep(r) ==
    \/ \E n \in Turns, k \in Keys : Regenerate(r, n, k)
    \/ \E k \in IntentKeys : SubmitIntent(r, k)
    \/ FindReceipt(r) \/ ReadBody(r) \/ CountVersions(r) \/ PrepareNarration(r)
    \/ EnqueueJob(r) \/ ClaimJob(r) \/ GenerateNarration(r) \/ Publish(r) \/ Close(r)
    \/ LookUpIntent(r) \/ Interpret(r) \/ FinishInterpretation(r) \/ InsertIntent(r)
    \/ CommitIntent(r) \/ Drop(r)

\* A step changes one request, if any, and brings it to its commit in two ways only.
LEMMA OneRequest ==
    ASSUME TypesOK, [Next]_vars, ~UNCHANGED request
    PROVE  \E r \in Requests :
               /\ RequestStep(r)
               /\ \E q : /\ request' = [request EXCEPT ![r] = q]
                         /\ q.step = "commit" => LookUpIntent(r) \/ InsertIntent(r)
  <1> DEFINE Goal(r) == \E q : /\ request' = [request EXCEPT ![r] = q]
                               /\ q.step = "commit" => LookUpIntent(r) \/ InsertIntent(r)
  <1>1. ASSUME NEW r \in Requests, NEW what, Answers(r, what)
        PROVE  Goal(r)
    <2>1. request' = [request EXCEPT ![r] = Idle] /\ Idle.step # "commit"
      BY <1>1 DEF Answers, Idle
    <2>2. QED
      BY <2>1
  <1>2. ASSUME NEW r \in Requests, NEW s \in Steps \ {"commit"}, MovesTo(r, s)
        PROVE  Goal(r)
    <2>1. /\ request' = [request EXCEPT ![r] = [request[r] EXCEPT !.step = s]]
          /\ [request[r] EXCEPT !.step = s].step = s
      BY <1>2, MovesToType, RequestType DEF TypesOK, RequestStates
    <2>2. QED
      BY <2>1
  <1>3. ASSUME NEW r \in Requests, NEW n, NEW k, Regenerate(r, n, k)
        PROVE  Goal(r)
    <2> DEFINE q == [Idle EXCEPT !.step = "find", !.turn = n, !.key = k]
    <2>1. request' = [request EXCEPT ![r] = q] /\ q.step = "find"
      BY <1>3 DEF Regenerate, Idle
    <2>2. QED
      BY <2>1
  <1>4. ASSUME NEW r \in Requests, NEW k, SubmitIntent(r, k)
        PROVE  Goal(r)
    <2> DEFINE q == [Idle EXCEPT !.step = "look up", !.key = k, !.revision = revision]
    <2>1. request' = [request EXCEPT ![r] = q] /\ q.step = "look up"
      BY <1>4 DEF SubmitIntent, Idle
    <2>2. QED
      BY <2>1
  <1>5. ASSUME NEW r \in Requests, PrepareNarration(r)
        PROVE  Goal(r)
    <2> DEFINE q == [request[r] EXCEPT !.step = "find", !.round = "again", !.policy = policy]
    <2>1. request' = [request EXCEPT ![r] = q] /\ q.step = "find"
      BY <1>5, RequestType DEF PrepareNarration, RequestStates
    <2>2. QED
      BY <2>1
  <1>6. ASSUME NEW r \in Requests, Publish(r)
        PROVE  Goal(r)
    <2> DEFINE q == [request[r] EXCEPT !.step = "find", !.round = "last"]
    <2>1. q.step = "find"
      BY RequestType DEF RequestStates
    <2>2. CASE NotPublished(r)
      BY <1>1, <1>2, <2>2 DEF NotPublished, Unavailable, Steps
    <2>3. QED
      BY <1>6, <2>1, <2>2 DEF Publish
  <1>7. ASSUME NEW r \in Requests, LookUpIntent(r) \/ InsertIntent(r)
        PROVE  Goal(r)
    <2>1. \E q : request' = [request EXCEPT ![r] = q]
      BY <1>7, MovesToType DEF LookUpIntent, InsertIntent, Fails, Answers, Steps, TypesOK
    <2>2. QED
      BY <1>7, <2>1
  <1>8. ASSUME NEW r \in Requests,
               \/ FindReceipt(r) \/ ReadBody(r) \/ CountVersions(r) \/ EnqueueJob(r)
               \/ ClaimJob(r) \/ GenerateNarration(r) \/ Close(r) \/ Interpret(r)
               \/ FinishInterpretation(r) \/ CommitIntent(r) \/ Drop(r)
        PROVE  Goal(r)
    <2>1. \/ \E what : Answers(r, what)
          \/ \E s \in Steps \ {"commit"} : MovesTo(r, s)
      BY <1>8
      DEF FindReceipt, ReadBody, CountVersions, EnqueueJob, ClaimJob, GenerateNarration, Close,
          Interpret, FinishInterpretation, CommitIntent, Drop, FoundNothing, Unavailable, Refused,
          Fails, Steps
    <2>2. QED
      BY <1>1, <1>2, <2>1
  <1>9. PICK r \in Requests : RequestStep(r)
    BY DEF RequestStep, Next, vars, PlayTurn, GenerateRecap, Revise, ChangePolicy, LeaseEnds,
           ExpireText, PurgeText
  <1>10. Goal(r)
    BY <1>3, <1>4, <1>5, <1>6, <1>7, <1>8, <1>9 DEF RequestStep
  <1>11. QED
    BY <1>9, <1>10

\* No receipt of the campaign is given up again.
LEMMA ClaimedStay ==
    ASSUME TypesOK, RequestsFitTheirSteps, IntentsAreClaimed, [Next]_vars,
           NEW j \in CommandKeys, claimed[j] # Unused
    PROVE  claimed'[j] # Unused
  <1>1. CASE UNCHANGED claimed
    BY <1>1
  <1>2. ASSUME NEW k \in CommandKeys, NEW n, NEW what \in {"turn", "intent", "recap"},
               claimed' = [claimed EXCEPT ![k] = Receipt(what, n)]
        PROVE  claimed'[j] # Unused
    BY <1>2 DEF Receipt, Unused, TypesOK, NarrationTypeOK
  <1>3. ASSUME NEW x \in Requests, InsertIntent(x)
        PROVE  claimed'[j] # Unused
    <2>1. request[x].key \in CommandKeys
      BY <1>3 DEF InsertIntent, At, RequestsFitTheirSteps, Fits, IntentSteps
    <2>2. QED
      BY <1>1, <1>2, <1>3, <2>1 DEF InsertIntent
  <1>4. ASSUME ~UNCHANGED claimed
        PROVE  \/ \E x \in Requests : InsertIntent(x)
               \/ \E k \in CommandKeys : PlayTurn(k) \/ GenerateRecap(k)
    <2>1. ASSUME NEW x \in Requests, CommitIntent(x)
          PROVE  FALSE
      BY <1>4, <2>1, IntentIsClaimed
    <2>2. QED
      BY <1>4, <2>1
      DEF Next, vars, campaignVars, Regenerate, SubmitIntent, FindReceipt, ReadBody,
          CountVersions, PrepareNarration, EnqueueJob, ClaimJob, GenerateNarration, Publish,
          Close, LookUpIntent, Interpret, FinishInterpretation, Drop, Revise, ChangePolicy,
          LeaseEnds, ExpireText, PurgeText
  <1>5. QED
    BY <1>1, <1>2, <1>3, <1>4 DEF PlayTurn, GenerateRecap, Plays

LEMMA StepClaimed ==
    /\ TypesOK /\ RequestsFitTheirSteps /\ IntentsAreClaimed /\ [Next]_vars
    => IntentsAreClaimed'
  <1> SUFFICES ASSUME TypesOK, RequestsFitTheirSteps, IntentsAreClaimed, [Next]_vars,
                      NEW r \in Requests, At(r, "commit")'
               PROVE  (claimed[request[r].key] # Unused)'
    BY DEF IntentsAreClaimed
  <1>1. ASSUME request'[r] = request[r]
        PROVE  (claimed[request[r].key] # Unused)'
    <2>1. request[r].key \in CommandKeys /\ claimed[request[r].key] # Unused
      BY <1>1 DEF At, RequestsFitTheirSteps, Fits, IntentSteps, IntentsAreClaimed
    <2>2. QED
      BY <1>1, <2>1, ClaimedStay
  <1>2. CASE LookUpIntent(r)
    <2>1. CASE claimed[request[r].key].of = "intent"
      <3>1. request'[r].key = request[r].key
        <4> DEFINE q == [request[r] EXCEPT !.step = "commit",
                                           !.revision = claimed[request[r].key].revision]
        <4>1. request' = [request EXCEPT ![r] = q]
          BY <1>2, <2>1 DEF LookUpIntent
        <4>2. q.key = request[r].key
          BY RequestType DEF RequestStates
        <4>3. QED
          BY <4>1, <4>2, RequestType
      <3>2. claimed[request[r].key] # Unused /\ UNCHANGED claimed
        <4>1. UNCHANGED campaignVars
          BY <1>2 DEF LookUpIntent
        <4>2. claimed[request[r].key] # Unused
          BY <2>1 DEF Unused
        <4>3. QED
          BY <4>1, <4>2 DEF campaignVars
      <3>3. QED
        BY <3>1, <3>2
    <2>2. CASE claimed[request[r].key].of # "intent"
      <3>1. request'[r].step # "commit"
        <4> DEFINE q == [request[r] EXCEPT !.step = "enqueue", !.policy = policy]
        <4>1. request' = [request EXCEPT ![r] = q] \/ Answers(r, "conflict")
          BY <1>2, <2>2 DEF LookUpIntent
        <4>2. q.step = "enqueue"
          BY RequestType DEF RequestStates
        <4>3. Idle.step # "commit"
          BY DEF Idle
        <4>4. QED
          BY <4>1, <4>2, <4>3, RequestType DEF Answers
      <3>2. QED
        BY <3>1 DEF At
    <2>3. QED
      BY <2>1, <2>2
  <1>3. CASE InsertIntent(r)
    <2>1. request[r].key \in CommandKeys
      BY <1>3 DEF InsertIntent, At, RequestsFitTheirSteps, Fits, IntentSteps
    <2>2. CASE MovesTo(r, "commit")
      <3>1. request'[r].key = request[r].key
        BY <2>2, RequestType DEF MovesTo, RequestStates
      <3>2. claimed'[request[r].key] # Unused
        <4>1. ~Fails(r)
          BY <2>2, RequestType DEF Fails, Answers, MovesTo, Idle, RequestStates
        <4>2. QED
          BY <1>3, <2>1, <2>2, <4>1
          DEF InsertIntent, Receipt, Unused, TypesOK, NarrationTypeOK
      <3>3. QED
        BY <3>1, <3>2
    <2>3. CASE \E what : Answers(r, what)
      BY <2>3, RequestType DEF Answers, Idle, At
    <2>4. QED
      BY <1>3, <2>2, <2>3 DEF InsertIntent, Fails
  <1>4. QED
    <2>1. CASE UNCHANGED request
      BY <1>1, <2>1
    <2>2. CASE ~UNCHANGED request
      <3>1. PICK x \in Requests : \E q :
                /\ request' = [request EXCEPT ![x] = q]
                /\ q.step = "commit" => LookUpIntent(x) \/ InsertIntent(x)
        BY <2>2, OneRequest
      <3>2. CASE x = r
        <4>1. LookUpIntent(r) \/ InsertIntent(r)
          BY <3>1, <3>2, RequestType DEF At
        <4>2. QED
          BY <1>2, <1>3, <4>1
      <3>3. CASE x # r
        BY <1>1, <3>1, <3>3, RequestType
      <3>4. QED
        BY <3>2, <3>3
    <2>3. QED
      BY <2>1, <2>2

-----------------------------------------------------------------------------
(* Turns and recaps                                                        *)

\* The campaign moves by turns, revisions and recaps alone.
LEMMA CampaignSteps ==
    ASSUME TypesOK, RequestsFitTheirSteps, IntentsAreClaimed, [Next]_vars,
           ~UNCHANGED <<revision, turns, recaps>>
    PROVE  Revise \/ \E k \in CommandKeys : PlayTurn(k) \/ GenerateRecap(k)
  <1>1. ASSUME NEW x \in Requests, CommitIntent(x)
        PROVE  FALSE
    BY <1>1, IntentIsClaimed DEF CommitIntent
  <1>2. QED
    BY <1>1
    DEF Next, vars, campaignVars, Regenerate, SubmitIntent, FindReceipt, ReadBody,
        CountVersions, PrepareNarration, EnqueueJob, ClaimJob, GenerateNarration, Publish,
        Close, LookUpIntent, Interpret, FinishInterpretation, InsertIntent, Drop, ChangePolicy,
        LeaseEnds, ExpireText, PurgeText

\* Revisions are numbers.
LEMMA TurnTypes ==
    ASSUME TypesOK
    PROVE  /\ revision \in Nat /\ Revisions \subseteq Nat /\ turns \in Seq(Revisions)
           /\ \A i \in DOMAIN turns : turns[i] \in Nat
  <1>1. revision \in Revisions /\ turns \in Seq(Revisions)
    BY DEF TypesOK, NarrationTypeOK
  <1>2. Revisions \subseteq Nat
    BY NarrationAssumption DEF Revisions
  <1>3. \A i \in DOMAIN turns : turns[i] \in Revisions
    BY <1>1
  <1>4. QED
    BY <1>1, <1>2, <1>3

Reached == TurnsAreReached /\ RecapsAreReached /\ RecapTellsItsRevision

LEMMA TurnReached ==
    ASSUME TypesOK, Reached, NEW k \in CommandKeys, PlayTurn(k)
    PROVE  Reached'
  <1>1. /\ turns' = Append(turns, revision + 1) /\ revision' = revision + 1
        /\ UNCHANGED recaps /\ turns \in Seq(Revisions) /\ revision \in Nat
    BY TurnTypes DEF PlayTurn, Plays
  <1>2. /\ DOMAIN turns' = DOMAIN turns \cup {Len(turns) + 1}
        /\ turns'[Len(turns) + 1] = revision + 1
        /\ \A i \in DOMAIN turns : turns'[i] = turns[i] /\ turns[i] \in Nat
        /\ Len(turns) + 1 \notin DOMAIN turns
    BY <1>1, TurnTypes
  <1>3. TurnsAreReached'
    BY <1>1, <1>2 DEF Reached, TurnsAreReached
  <1>4. RecapsAreReached'
    BY <1>1 DEF Reached, RecapsAreReached, Revisions
  <1>5. ASSUME NEW n \in Revisions, recaps[n] # NoRecap
        PROVE  {i \in DOMAIN turns' : turns'[i] <= n} = {i \in DOMAIN turns : turns[i] <= n}
    <2>1. n <= revision /\ n \in Nat
      BY <1>5 DEF Reached, RecapsAreReached, Revisions
    <2>2. QED
      BY <1>1, <1>2, <2>1
  <1>6. RecapTellsItsRevision'
    BY <1>1, <1>2, <1>5 DEF Reached, RecapTellsItsRevision
  <1>7. QED
    BY <1>3, <1>4, <1>6 DEF Reached

LEMMA RecapReached ==
    ASSUME TypesOK, Reached, NEW k \in CommandKeys, GenerateRecap(k)
    PROVE  Reached'
  <1>1. /\ recaps' = [recaps EXCEPT ![revision] = RecapAt(revision)]
        /\ UNCHANGED <<revision, turns>> /\ DOMAIN recaps = Revisions
        /\ turns \in Seq(Revisions) /\ revision \in Revisions
    BY DEF GenerateRecap, TypesOK, NarrationTypeOK
  <1>2. TurnsAreReached'
    BY <1>1 DEF Reached, TurnsAreReached
  <1>3. RecapsAreReached'
    BY <1>1 DEF Reached, RecapsAreReached, Revisions
  <1>4. ASSUME NEW n \in Revisions, recaps'[n] # NoRecap
        PROVE  /\ DOMAIN recaps'[n] = {i \in DOMAIN turns : turns[i] <= n}
               /\ \A i \in DOMAIN recaps'[n] : recaps'[n][i] = turns[i]
    <2>1. CASE recaps'[n] = recaps[n]
      BY <1>4, <2>1 DEF Reached, RecapTellsItsRevision
    <2>2. CASE n = revision /\ recaps'[n] = turns
      BY <2>2 DEF Reached, TurnsAreReached
    <2>3. QED
      BY <1>1, <2>1, <2>2 DEF RecapAt
  <1>5. QED
    BY <1>1, <1>2, <1>3, <1>4 DEF Reached, RecapTellsItsRevision

LEMMA StepReached ==
    /\ TypesOK /\ RequestsFitTheirSteps /\ IntentsAreClaimed /\ Reached /\ [Next]_vars
    => Reached'
  <1> SUFFICES ASSUME TypesOK, RequestsFitTheirSteps, IntentsAreClaimed, Reached, [Next]_vars
               PROVE  Reached'
    OBVIOUS
  <1>1. CASE UNCHANGED <<revision, turns, recaps>>
    BY <1>1 DEF Reached, TurnsAreReached, RecapsAreReached, RecapTellsItsRevision
  <1>2. CASE Revise
    <2>1. revision' = revision + 1 /\ UNCHANGED <<turns, recaps>>
      BY <1>2 DEF Revise
    <2>2. /\ revision \in Nat /\ \A n \in Revisions : n \in Nat
          /\ \A i \in DOMAIN turns : turns[i] \in Nat
      BY TurnTypes
    <2>3. QED
      BY <2>1, <2>2 DEF Reached, TurnsAreReached, RecapsAreReached, RecapTellsItsRevision
  <1>3. QED
    BY <1>1, <1>2, CampaignSteps, TurnReached, RecapReached

-----------------------------------------------------------------------------
(* Versions                                                                *)

\* A text that expires, or is purged, was superseded.
LEMMA ExpiryNumbered ==
    ASSUME TypesOK, VersionsAreNumbered, NEW n \in Turns, NEW v \in Versions,
           ExpireText(n, v) \/ PurgeText(n, v)
    PROVE  VersionsAreNumbered'
  <1>1. PICK old \in {"superseded", "expired"}, new \in {"expired", "purged"} :
            /\ body[n][v] = old /\ body' = [body EXCEPT ![n][v] = new]
            /\ UNCHANGED receipts
    BY DEF ExpireText, PurgeText
  <1>2. v < Len(receipts[n])
    <2>1. Len(receipts[n]) \in Nat /\ v \in Nat
      BY DEF Versions, TypesOK, NarrationTypeOK
    <2>2. body[n][v] # "selected" /\ body[n][v] # "none"
      BY <1>1
    <2>3. QED
      BY <2>1, <2>2 DEF VersionsAreNumbered
  <1>3. \A m \in Turns, w \in Versions :
            body'[m][w] = IF m = n /\ w = v THEN new ELSE body[m][w]
    BY <1>1 DEF TypesOK, NarrationTypeOK
  <1>4. QED
    BY <1>1, <1>2, <1>3 DEF VersionsAreNumbered, Versions

\* A publication takes the next number, and supersedes what was selected.
LEMMA PublicationNumbered ==
    ASSUME TypesOK, RequestsFitTheirSteps, VersionsAreNumbered,
           NEW r \in Requests, Publish(r)
    PROVE  VersionsAreNumbered'
  <1> DEFINE n == request[r].turn
             key == request[r].key
             newest == Len(receipts[n])
  <1>1. CASE UNCHANGED textVars
    BY <1>1 DEF VersionsAreNumbered, textVars
  <1>2. CASE Publishable(r) /\ Publishes(r)
    <2>1. n \in Turns /\ key \in Keys
      BY DEF Publish, RequestsFitTheirSteps, Fits, NarrationSteps
    <2>2. /\ receipts[n] \in Seq(Keys) /\ body[n] \in [Versions -> Bodies]
          /\ newest < MaxVersions /\ newest \in Nat /\ newest + 1 \in Versions
          /\ \A v \in 1..newest : receipts[n][v] # key
      BY <1>2, <2>1, NarrationAssumption
      DEF TypesOK, NarrationTypeOK, Publishable, VersionCount, Published, Versions
    <2>3. /\ receipts' = [receipts EXCEPT ![n] = Append(receipts[n], key)]
          /\ body' = [body EXCEPT ![n] =
                        [Superseded(body[n]) EXCEPT ![newest + 1] = "selected"]]
      BY <1>2 DEF Publishes, VersionCount
    <2>4. /\ receipts'[n] = Append(receipts[n], key)
          /\ body'[n] = [Superseded(body[n]) EXCEPT ![newest + 1] = "selected"]
          /\ \A m \in Turns \ {n} : receipts'[m] = receipts[m] /\ body'[m] = body[m]
      BY <2>1, <2>3 DEF TypesOK, NarrationTypeOK
    <2>5. /\ Len(receipts'[n]) = newest + 1 /\ receipts'[n][newest + 1] = key
          /\ \A v \in 1..newest : receipts'[n][v] = receipts[n][v]
      BY <2>1, <2>2, <2>4
    <2>6. \A v, w \in 1..(newest + 1) : receipts'[n][v] = receipts'[n][w] => v = w
      <3>1. \A v \in 1..(newest + 1) : v = newest + 1 \/ v \in 1..newest
        BY <2>2
      <3>2. \A v, w \in 1..newest : receipts[n][v] = receipts[n][w] => v = w
        BY <2>1 DEF VersionsAreNumbered
      <3>3. QED
        BY <2>2, <2>5, <3>1, <3>2
    <2>7. ASSUME NEW v \in Versions
          PROVE  /\ v < newest + 1 => body'[n][v] \in {"superseded", "expired", "purged"}
                 /\ v = newest + 1 => body'[n][v] = "selected"
                 /\ v > newest + 1 => body'[n][v] = "none"
      <3>1. body'[n][v] = IF v = newest + 1 THEN "selected"
                          ELSE IF body[n][v] = "selected" THEN "superseded" ELSE body[n][v]
        BY <2>2, <2>4 DEF Superseded
      <3>2. /\ v < newest => body[n][v] \in {"superseded", "expired", "purged"}
            /\ v = newest => body[n][v] = "selected"
            /\ v > newest => body[n][v] = "none"
        BY <2>1 DEF VersionsAreNumbered
      <3>3. v \in Nat
        BY DEF Versions
      <3>4. QED
        BY <2>2, <3>1, <3>2, <3>3
    <2>8. QED
      <3>1. ASSUME NEW m \in Turns, m # n
            PROVE  receipts'[m] = receipts[m] /\ body'[m] = body[m]
        BY <2>4, <3>1
      <3>2. Len(receipts'[n]) <= MaxVersions
        BY <2>2, <2>5, NarrationAssumption
      <3>3. QED
        BY <2>5, <2>6, <2>7, <3>1, <3>2 DEF VersionsAreNumbered
  <1>3. QED
    BY <1>1, <1>2 DEF Publish

LEMMA StepNumbered ==
    TypesOK /\ RequestsFitTheirSteps /\ VersionsAreNumbered /\ [Next]_vars => VersionsAreNumbered'
  <1> SUFFICES ASSUME TypesOK, RequestsFitTheirSteps, VersionsAreNumbered, [Next]_vars
               PROVE  VersionsAreNumbered'
    OBVIOUS
  <1>1. CASE UNCHANGED textVars
    BY <1>1 DEF VersionsAreNumbered, textVars
  <1>2. CASE ~UNCHANGED textVars
    <2>1. \/ \E r \in Requests : Publish(r)
          \/ \E n \in Turns, v \in Versions : ExpireText(n, v) \/ PurgeText(n, v)
      BY <1>2
      DEF Next, vars, Regenerate, SubmitIntent, FindReceipt, ReadBody, CountVersions,
          PrepareNarration, EnqueueJob, ClaimJob, GenerateNarration, Close, LookUpIntent,
          Interpret, FinishInterpretation, InsertIntent, CommitIntent, Drop, PlayTurn,
          GenerateRecap, Revise, ChangePolicy, LeaseEnds
    <2>2. QED
      BY <2>1, PublicationNumbered, ExpiryNumbered
  <1>3. QED
    BY <1>1, <1>2

-----------------------------------------------------------------------------
(* Attempts                                                                *)

\* The reasons for which an attempt was left are not forgotten.
LEMMA ReasonsStay ==
    ASSUME [Next]_vars, NEW j \in JobIds
    PROVE  Excused(j) => Excused(j)'
  <1>1. left \subseteq left'
    BY DEF Next, vars, Regenerate, SubmitIntent, FindReceipt, ReadBody, CountVersions,
           PrepareNarration, EnqueueJob, ClaimJob, GenerateNarration, Publish, NotPublished,
           LeavesJob, Close, LookUpIntent, Interpret, FinishInterpretation, InsertIntent,
           CommitIntent, Drop, PlayTurn, GenerateRecap, Revise, ChangePolicy, LeaseEnds,
           ExpireText, PurgeText
  <1>2. backend' = backend
    BY DEF Next, vars, settings, Regenerate, SubmitIntent, FindReceipt, ReadBody, CountVersions,
           PrepareNarration, EnqueueJob, ClaimJob, GenerateNarration, Publish, Close,
           LookUpIntent, Interpret, FinishInterpretation, InsertIntent, CommitIntent, Drop,
           PlayTurn, GenerateRecap, Revise, ChangePolicy, LeaseEnds, ExpireText, PurgeText
  <1>3. QED
    BY <1>1, <1>2 DEF Excused, LeftFor

LEMMA LeavingExcuses ==
    ASSUME NEW r \in Requests, NEW why \in {"dropped", "claim", "close"}, LeavesJob(r, why),
           NEW j, j = JobOf(r)
    PROVE  Excused(j)'
  <1>1. [job |-> j, why |-> why] \in left'
    BY DEF LeavesJob
  <1>2. LeftFor(j, {"dropped", "claim", "close"})'
    BY <1>1 DEF LeftFor
  <1>3. QED
    BY <1>2 DEF Excused

\* A job is leased by the request that holds it from then on, unless it is told of an error.
LEMMA ClaimsHold ==
    ASSUME TypesOK, RequestsFitTheirSteps, [Next]_vars, NEW j \in JobIds,
           job[j] # "leased", job'[j] = "leased"
    PROVE  Excused(j)' \/ \E r \in Requests : Holds(r, j)'
  <1>1. PICK r \in Requests : ClaimJob(r)
    <2>1. ASSUME NEW r \in Requests,
                 \/ EnqueueJob(r) \/ Publish(r) \/ Close(r) \/ FinishInterpretation(r)
          PROVE  FALSE
      BY <2>1
      DEF EnqueueJob, Publish, Publishes, Close, FinishInterpretation, SetJob, TypesOK,
          NarrationTypeOK
    <2>2. ASSUME NEW i \in JobIds, LeaseEnds(i)
          PROVE  FALSE
      BY <2>2 DEF LeaseEnds, TypesOK, NarrationTypeOK
    <2>3. QED
      BY <2>1, <2>2
      DEF Next, vars, Regenerate, SubmitIntent, FindReceipt, ReadBody, CountVersions,
          PrepareNarration, GenerateNarration, LookUpIntent, Interpret, InsertIntent,
          CommitIntent, Drop, PlayTurn, GenerateRecap, Revise, ChangePolicy, ExpireText,
          PurgeText
  <1>2. /\ SetJob(r, "leased")
        /\ \/ \E s \in HoldSteps : MovesTo(r, s)
           \/ LeavesJob(r, "claim")
    BY <1>1 DEF ClaimJob, SetJob, TypesOK, NarrationTypeOK, HoldSteps
  <1>3. JobOf(r) = j
    BY <1>2 DEF SetJob, TypesOK, NarrationTypeOK
  <1>4. ASSUME NEW s \in HoldSteps, MovesTo(r, s)
        PROVE  Holds(r, j)'
    <2>1. /\ request'[r].step = s /\ request'[r].turn = request[r].turn
          /\ request'[r].key = request[r].key /\ request'[r].policy = request[r].policy
      BY <1>4, RequestType DEF MovesTo, RequestStates
    <2>2. QED
      BY <1>3, <2>1 DEF Holds, JobOf
  <1>5. LeavesJob(r, "claim") => Excused(j)'
    BY <1>3, LeavingExcuses
  <1>6. QED
    BY <1>2, <1>4, <1>5

\* A request that holds a leased job goes on holding it, or leaves it for one of the reasons.
LEMMA HolderKeeps ==
    ASSUME TypesOK, RequestsFitTheirSteps, NEW r \in Requests, RequestStep(r),
           NEW j \in JobIds, Holds(r, j), job'[j] = "leased"
    PROVE  Holds(r, j)' \/ Excused(j)'
  <1>1. request[r].step \in HoldSteps /\ JobOf(r) = j /\ request[r].policy # 0
    BY DEF Holds, HoldSteps, RequestsFitTheirSteps, Fits, JobSteps
  <1>2. ASSUME NEW s \in HoldSteps, MovesTo(r, s)
        PROVE  Holds(r, j)'
    <2>1. /\ request'[r].step = s /\ request'[r].turn = request[r].turn
          /\ request'[r].key = request[r].key /\ request'[r].policy = request[r].policy
      BY <1>2, RequestType DEF MovesTo, RequestStates
    <2>2. QED
      BY <1>1, <2>1 DEF Holds, JobOf
  <1>3. ~SetJob(r, "ended")
    BY <1>1 DEF SetJob, TypesOK, NarrationTypeOK
  <1>4. ASSUME NEW why \in {"dropped", "claim", "close"}, LeavesJob(r, why)
        PROVE  Excused(j)'
    BY <1>1, <1>4, LeavingExcuses
  <1>5. CASE GenerateNarration(r) \/ Interpret(r)
    BY <1>2, <1>5 DEF GenerateNarration, Interpret, HoldSteps
  <1>6. CASE Publish(r)
    <2>1. NotPublished(r)
      BY <1>3, <1>6 DEF Publish, Publishes
    <2>2. CASE \E s \in HoldSteps : MovesTo(r, s)
      BY <1>2, <2>2
    <2>3. CASE backend # "fake" /\ LeavesJob(r, "text")
      <3>1. backend' = backend
        BY <1>6 DEF Publish, settings
      <3>2. [job |-> j, why |-> "text"] \in left'
        BY <1>1, <2>3 DEF LeavesJob
      <3>3. LeftFor(j, {"text"})'
        BY <3>2 DEF LeftFor
      <3>4. QED
        BY <2>3, <3>1, <3>3 DEF Excused
    <2>4. QED
      BY <2>1, <2>2, <2>3 DEF NotPublished, HoldSteps
  <1>7. CASE Close(r) \/ FinishInterpretation(r)
    <2>1. LeavesJob(r, "close")
      BY <1>1, <1>3, <1>7 DEF Close, FinishInterpretation
    <2>2. QED
      BY <1>4, <2>1
  <1>8. CASE Drop(r)
    BY <1>1, <1>4, <1>8 DEF Drop
  <1>9. QED
    BY <1>1, <1>5, <1>6, <1>7, <1>8
    DEF RequestStep, HoldSteps, At, Regenerate, SubmitIntent, FindReceipt, ReadBody,
        CountVersions, PrepareNarration, EnqueueJob, ClaimJob, LookUpIntent, InsertIntent,
        CommitIntent

LEMMA StepClosed ==
    TypesOK /\ RequestsFitTheirSteps /\ AttemptsAreClosed /\ [Next]_vars => AttemptsAreClosed'
  <1> SUFFICES ASSUME TypesOK, RequestsFitTheirSteps, AttemptsAreClosed, [Next]_vars,
                      NEW j \in JobIds, job'[j] = "leased"
               PROVE  Excused(j)' \/ \E r \in Requests : Holds(r, j)'
    BY DEF AttemptsAreClosed
  <1>1. CASE job[j] # "leased"
    BY <1>1, ClaimsHold
  <1>2. CASE Excused(j)
    BY <1>2, ReasonsStay
  <1>3. ASSUME NEW r \in Requests, Holds(r, j)
        PROVE  Excused(j)' \/ Holds(r, j)'
    <2>1. CASE request'[r] = request[r]
      BY <1>3, <2>1 DEF Holds, JobOf
    <2>2. CASE request'[r] # request[r]
      <3>1. RequestStep(r)
        BY <2>2, OneRequest, RequestType
      <3>2. QED
        BY <1>3, <3>1, HolderKeeps
    <2>3. QED
      BY <2>1, <2>2
  <1>4. QED
    BY <1>1, <1>2, <1>3 DEF AttemptsAreClosed

-----------------------------------------------------------------------------
(* The theorems                                                            *)

LEMMA InvariantHolds == NarrationSpec => [](TypesOK /\ NarrationInvariant)
  <1> DEFINE Inv == /\ TypesOK /\ RequestsFitTheirSteps /\ IntentsAreClaimed /\ Reached
                    /\ VersionsAreNumbered /\ AttemptsAreClosed
  <1>1. Init => Inv
    <2> SUFFICES ASSUME Init PROVE Inv
      OBVIOUS
    <2>1. RequestsFitTheirSteps /\ IntentsAreClaimed
      BY DEF Init, RequestsFitTheirSteps, Fits, IntentsAreClaimed, At, Idle, NarrationSteps,
             IntentSteps, JobSteps
    <2>2. Reached
      BY DEF Init, Reached, TurnsAreReached, RecapsAreReached, RecapTellsItsRevision
    <2>3. VersionsAreNumbered /\ AttemptsAreClosed
      BY NarrationAssumption DEF Init, VersionsAreNumbered, Versions, AttemptsAreClosed
    <2>4. QED
      BY <2>1, <2>2, <2>3, InitTypes
  <1>2. Inv /\ [Next]_vars => Inv'
    BY StepTypes, StepFits, StepClaimed, StepReached, StepNumbered, StepClosed
  <1>3. Inv => TypesOK /\ NarrationInvariant
    BY DEF TypesOK, NarrationInvariant, Reached
  <1>4. QED
    BY <1>1, <1>2, <1>3, PTL DEF NarrationSpec

\* Every state of the texts, the jobs and the requests is well typed.  The bound on turns is
\* kept by the commands of intents because none of them ever commits.
THEOREM NarrationTypeCorrect == NarrationSpec => []NarrationTypeOK
  <1>1. TypesOK => NarrationTypeOK
    BY DEF TypesOK
  <1>2. QED
    BY <1>1, InvariantHolds, PTL

\* However many requests race for the versions of a turn, every key publishes once, within the
\* limit, and the newest text alone is selected.
THEOREM VersionsNumbered == NarrationSpec => []VersionsAreNumbered
  <1>1. NarrationInvariant => VersionsAreNumbered
    BY DEF NarrationInvariant
  <1>2. QED
    BY <1>1, InvariantHolds, PTL

\* An attempt whose lease has not ended is held by a request, or was left for one of four
\* reasons: the request that held it was dropped, its claim was answered with an error, the
\* call that closes it failed, or, with a backend that is not the fake one, no text could be
\* published.
THEOREM AttemptsClosed == NarrationSpec => []AttemptsAreClosed
  <1>1. NarrationInvariant => AttemptsAreClosed
    BY DEF NarrationInvariant
  <1>2. QED
    BY <1>1, InvariantHolds, PTL

\* A recap lists exactly the turns that were committed by its revision.
THEOREM RecapsTellTheirRevision == NarrationSpec => []RecapTellsItsRevision
  <1>1. NarrationInvariant => RecapTellsItsRevision
    BY DEF NarrationInvariant
  <1>2. QED
    BY <1>1, InvariantHolds, PTL

\* The command of a typed intent plays no turn: the receipt that the intent wrote under its
\* own key stands in its way, in every interleaving.
THEOREM IntentsPlayNoTurn ==
    NarrationSpec => [][\A r \in Requests : CommitIntent(r) => UNCHANGED <<revision, turns>>]_vars
  <1>1. /\ TypesOK /\ NarrationInvariant /\ [Next]_vars
        => [\A r \in Requests : CommitIntent(r) => UNCHANGED <<revision, turns>>]_vars
    BY IntentIsClaimed DEF NarrationInvariant
  <1>2. QED
    BY <1>1, InvariantHolds, PTL DEF NarrationSpec
=============================================================================
