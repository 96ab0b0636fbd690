----------------------------- MODULE Inspiration -----------------------------
(***************************************************************************)
(* Private inspiration: sources about real participants, their consent,    *)
(* and the narration derived from them.  Every operation is a database     *)
(* transaction on a snapshot.  A grant, the registration of a source and   *)
(* the registration of derived work only insert documents of their own, so *)
(* that nothing they have read makes them conflict: each is two steps, it  *)
(* reads and later it inserts.  Every other operation writes a document    *)
(* that those it depends on write too, or nothing that another one reads,  *)
(* and is one step.  There is one campaign; the settings' lists of lines,  *)
(* veils and exclusions, the media and the revision of the switch are left *)
(* out.                                                                    *)
(***************************************************************************)
EXTENDS Naturals, FiniteSets

CONSTANTS
    Participants,   \* people that sources are about
    Sources,        \* source versions
    Subjects,       \* the participants of each source
    Categories,
    CategoryOf,     \* the category of each source
    NoSource,       \* no source, or the scope of a veto of the whole campaign
    Policies,       \* artifact policies: what becomes of a text when consent is withdrawn
    GrantPolicies,  \* the policies that grants carry
    WorkPolicies,   \* the policies that narration requests ask for
    Rank,           \* the rank of each policy, the strongest highest
    Requests,       \* narration requests that run side by side
    Cooldown,       \* turns between two uses of one source
    MaxTurn,        \* bound: turns
    MaxSettings,    \* bound: revisions of the settings
    MaxVetoes,      \* bound: vetoes
    MaxGrants,      \* bound: grants of one participant for one source
    MaxGranting     \* bound: grants that have read and not inserted

ASSUME InspirationAssumption ==
    /\ Subjects \in [Sources -> SUBSET Participants]
    /\ \A s \in Sources : IsFiniteSet(Subjects[s]) /\ Subjects[s] # {}
    /\ CategoryOf \in [Sources -> Categories]
    /\ NoSource \notin Sources
    /\ Policies # {} /\ Rank \in [Policies -> Nat]
    /\ GrantPolicies \subseteq Policies /\ WorkPolicies \subseteq Policies
    /\ Cooldown \in Nat \ {0}
    /\ MaxTurn \in Nat /\ MaxSettings \in Nat
    /\ MaxVetoes \in Nat /\ MaxGrants \in Nat /\ MaxGranting \in Nat

VARIABLES
    settings,       \* the safety document of the campaign
    disabled,       \* the global switch that disables generation
    participants,   \* the verification of each participant
    tombstones,     \* participants whose deletion is still remembered
    sources,        \* the review state of each source
    registering,    \* sources that are read for and not inserted
    grants,         \* the consents
    granting,       \* grants that have read and not inserted
    vetoes,         \* the scopes of the active vetoes
    turn,           \* the campaign's last committed turn
    selections,     \* the selection reserved for each turn
    work,           \* the derived work of each turn's selection
    presentations,  \* the text derived by each turn's work
    requests        \* what each narration request is doing

controlVars == <<settings, disabled, vetoes>>
peopleVars == <<participants, tombstones, sources, registering>>
consentVars == <<grants, granting>>
derivedVars == <<work, presentations>>
storyVars == <<turn, selections>>
inspirationVars ==
    <<controlVars, peopleVars, consentVars, derivedVars, storyVars, requests>>

-----------------------------------------------------------------------------
(* Documents.                                                              *)

Turns == 1 .. MaxTurn

Settings == [revision : 0 .. MaxSettings, enabled : BOOLEAN, paused : BOOLEAN,
             complete : BOOLEAN]
NoSettings == [revision |-> 0, enabled |-> FALSE, paused |-> FALSE, complete |-> FALSE]

Verifications == {"none", "verified", "revoked"}
ReviewStates == {"none", "pending", "approved", "rejected", "quarantined"}
ConsentStates == {"active", "expired", "revoked"}

\* "overlapped" is history: while the grant was between reading and inserting, something
\* it had read was withdrawn.  Work that rests on such a grant is overlapped too.
Grants == [source : Sources, participant : Participants, version : 1 .. MaxGrants,
           policy : Policies, state : ConsentStates, overlapped : BOOLEAN]

Scopes == [kind : {"campaign"}, of : {NoSource}] \cup [kind : {"category"}, of : Categories]
              \cup [kind : {"source"}, of : Sources]

NoSelection == [made |-> FALSE, source |-> NoSource, revision |-> 0]

WorkStates == {"none", "pending", "cancellation_requested", "completed", "redacted", "deleted"}
Finished == {"completed", "redacted"}
NoWork(p) == [state |-> "none", policy |-> p, overlapped |-> FALSE]
NoText == [body |-> "none", superseded |-> FALSE]

AnyPolicy == CHOOSE p \in Policies : TRUE
Idle == [phase |-> "idle", turn |-> 0, policy |-> AnyPolicy, overlapped |-> FALSE]

SourceOf(t) == selections[t].source
WorkOn(S) == {t \in Turns : work[t].state # "none" /\ SourceOf(t) \in S}

Covered(scope) ==
    {s \in Sources : CASE scope.kind = "campaign" -> TRUE
                       [] scope.kind = "category" -> CategoryOf[s] = scope.of
                       [] OTHER -> s = scope.of}
Vetoed(s) == \E scope \in vetoes : s \in Covered(scope)

ActiveGrants(s) == {g \in grants : g.source = s /\ g.state = "active"}
Consenting(s) == {g.participant : g \in ActiveGrants(s)}
GrantsOf(s, p) == {g \in grants : g.source = s /\ g.participant = p}

InspirationInit ==
    /\ settings = NoSettings
    /\ disabled = FALSE
    /\ participants = [p \in Participants |-> "none"]
    /\ tombstones = {}
    /\ sources = [s \in Sources |-> "none"]
    /\ registering = {}
    /\ grants = {}
    /\ granting = {}
    /\ vetoes = {}
    /\ turn = 0
    /\ selections = [t \in Turns |-> NoSelection]
    /\ work = [t \in Turns |-> NoWork(AnyPolicy)]
    /\ presentations = [t \in Turns |-> NoText]
    /\ requests = [r \in Requests |-> Idle]

-----------------------------------------------------------------------------
(* Withdrawal.  Pending work is cancelled.  What was completed is redacted *)
(* or deleted, as its policy says; if its text is gone, it is deleted.     *)

WithdrawnState(t) ==
    CASE work[t].state = "pending" -> "cancellation_requested"
      [] work[t].state \in Finished ->
           IF work[t].policy = "redact_derived" /\ presentations[t].body # "none"
           THEN "redacted" ELSE "deleted"
      [] OTHER -> work[t].state

WithdrawnText(t) ==
    IF work[t].state \notin Finished THEN presentations[t]
    ELSE IF WithdrawnState(t) = "redacted" THEN [presentations[t] EXCEPT !.body = "redacted"]
    ELSE NoText

Withdraw(T) ==
    /\ work' = [t \in Turns |-> IF t \in T THEN [work[t] EXCEPT !.state = WithdrawnState(t)]
                                           ELSE work[t]]
    /\ presentations' = [t \in Turns |-> IF t \in T THEN WithdrawnText(t) ELSE presentations[t]]

\* History: the registrations and the grants for sources S that are overtaken.
OvertakeRequests(S) ==
    requests' = [r \in Requests |->
        IF requests[r].phase = "registering" /\ SourceOf(requests[r].turn) \in S
        THEN [requests[r] EXCEPT !.overlapped = TRUE] ELSE requests[r]]
OvertakeGrants(G) ==
    granting' = (granting \ G) \cup {[g EXCEPT !.overlapped = TRUE] : g \in G}

RevokedAmong(G) == (grants \ G) \cup {[g EXCEPT !.state = "revoked"] : g \in G}

-----------------------------------------------------------------------------
(* Participants and sources, kept by an operator.                          *)

VerifyParticipant(p) ==
    /\ p \notin tombstones
    /\ participants' = [participants EXCEPT ![p] = "verified"]
    /\ UNCHANGED <<controlVars, tombstones, sources, registering, consentVars, derivedVars,
                   storyVars, requests>>

\* A tombstone is removed when it has expired: by the database, by a purge, or by the next
\* verification.
ForgetDeletion(p) ==
    /\ p \in tombstones
    /\ tombstones' = tombstones \ {p}
    /\ UNCHANGED <<controlVars, participants, sources, registering, consentVars, derivedVars,
                   storyVars, requests>>

BeginSource(s) ==
    /\ sources[s] = "none" /\ s \notin registering
    /\ \A p \in Subjects[s] : participants[p] = "verified"
    /\ registering' = registering \cup {s}
    /\ UNCHANGED <<controlVars, participants, tombstones, sources, consentVars, derivedVars,
                   storyVars, requests>>

InsertSource(s) ==
    /\ s \in registering
    /\ registering' = registering \ {s}
    /\ sources' = [sources EXCEPT ![s] = "pending"]
    /\ UNCHANGED <<controlVars, participants, tombstones, consentVars, derivedVars, storyVars,
                   requests>>

ReviewSource(s, decision) ==
    /\ sources[s] = "pending"
    /\ sources' = [sources EXCEPT ![s] = decision]
    /\ UNCHANGED <<controlVars, participants, tombstones, registering, consentVars, derivedVars,
                   storyVars, requests>>

\* The participant's grants are revoked, their sources quarantined and what was derived from
\* these withdrawn.
DeleteParticipant(p) ==
    LET affected == {s \in Sources : sources[s] # "none" /\ p \in Subjects[s]} IN
    /\ participants[p] # "none" /\ p \notin tombstones
    /\ participants' = [participants EXCEPT ![p] = "revoked"]
    /\ tombstones' = tombstones \cup {p}
    /\ grants' = RevokedAmong({g \in grants : g.participant = p})
    /\ sources' = [s \in Sources |-> IF s \in affected THEN "quarantined" ELSE sources[s]]
    /\ Withdraw(WorkOn(affected))
    /\ OvertakeRequests(affected)
    /\ OvertakeGrants({g \in granting : g.participant = p \/ g.source \in affected})
    /\ UNCHANGED <<controlVars, registering, storyVars>>

-----------------------------------------------------------------------------
(* The settings of the campaign and the global switch.  A command that     *)
(* expects another revision of the settings is refused.                    *)

Changed(enabled, paused, complete) ==
    /\ settings.revision < MaxSettings
    /\ settings' = [revision |-> settings.revision + 1, enabled |-> enabled,
                    paused |-> paused, complete |-> complete]

\* Where the settings disable the feature, every active grant is revoked and all work withdrawn.
RevokeEverything ==
    /\ grants' = RevokedAmong({g \in grants : g.state = "active"})
    /\ Withdraw(WorkOn(Sources))
    /\ OvertakeRequests(Sources)
    /\ OvertakeGrants(granting)

ConfigureCampaign(enabled, complete) ==
    /\ enabled => settings.revision > 0 /\ complete
    /\ Changed(enabled, FALSE, complete)
    /\ IF enabled THEN UNCHANGED <<consentVars, derivedVars, requests>> ELSE RevokeEverything
    /\ UNCHANGED <<disabled, vetoes, peopleVars, storyVars>>

SetCampaignPause(paused) ==
    /\ settings.revision > 0
    /\ Changed(settings.enabled, paused, settings.complete)
    /\ UNCHANGED <<disabled, vetoes, peopleVars, consentVars, derivedVars, storyVars, requests>>

DisableCampaign ==
    /\ settings.revision > 0
    /\ Changed(FALSE, FALSE, settings.complete)
    /\ RevokeEverything
    /\ UNCHANGED <<disabled, vetoes, peopleVars, storyVars>>

\* Setting the switch cancels all pending work and redacts what still has a text, whatever
\* its policy.
Quarantined(t) ==
    CASE work[t].state = "pending" -> "cancellation_requested"
      [] work[t].state \in Finished /\ presentations[t].body # "none" -> "redacted"
      [] OTHER -> work[t].state

SetGlobalControl(on) ==
    /\ disabled' = on
    /\ IF on
       THEN /\ work' = [t \in Turns |-> [work[t] EXCEPT !.state = Quarantined(t)]]
            /\ presentations' = [t \in Turns |->
                   IF work[t].state \in Finished /\ presentations[t].body # "none"
                   THEN [presentations[t] EXCEPT !.body = "redacted"] ELSE presentations[t]]
       ELSE UNCHANGED derivedVars
    /\ UNCHANGED <<settings, vetoes, peopleVars, consentVars, storyVars, requests>>

-----------------------------------------------------------------------------
(* Consent and vetoes.                                                     *)

Grantable(s, p) ==
    /\ settings.enabled /\ settings.complete
    /\ participants[p] = "verified" /\ p \in Subjects[s]
    /\ sources[s] = "approved" /\ ~Vetoed(s)
    /\ \A g \in GrantsOf(s, p) : g.state # "active"

BeginGrant(s, p, policy) ==
    /\ Grantable(s, p)
    /\ Cardinality(granting) < MaxGranting
    /\ Cardinality(GrantsOf(s, p)) < MaxGrants
    /\ granting' = granting \cup
           {[source |-> s, participant |-> p, version |-> Cardinality(GrantsOf(s, p)) + 1,
             policy |-> policy, state |-> "active", overlapped |-> FALSE]}
    /\ UNCHANGED <<controlVars, peopleVars, grants, derivedVars, storyVars, requests>>

\* The version of a grant is unique for its source and participant; a second insertion is
\* started again, and finds the first one active.
UniqueDocument(g) == g \notin grants            \* mutant: any difference will do
Unique(g) == \A h \in GrantsOf(g.source, g.participant) : h.version # g.version

InsertGrant(g) ==
    /\ granting' = granting \ {g}
    /\ grants' = IF Unique(g) THEN grants \cup {g} ELSE grants
    /\ UNCHANGED <<controlVars, peopleVars, derivedVars, storyVars, requests>>

\* A grant counts as expired as soon as its time has come; the next grant marks it so.
ExpireGrant(g) ==
    /\ g.state = "active"
    /\ grants' = (grants \ {g}) \cup {[g EXCEPT !.state = "expired"]}
    /\ UNCHANGED <<controlVars, peopleVars, granting, derivedVars, storyVars, requests>>

RevokeConsent(g) ==
    /\ g.state # "revoked"
    /\ grants' = RevokedAmong({g})
    /\ Withdraw(WorkOn({g.source}))
    /\ OvertakeRequests({g.source})
    /\ UNCHANGED <<controlVars, peopleVars, granting, storyVars>>

ApplyScope(scope) ==
    /\ Cardinality(vetoes) < MaxVetoes
    /\ vetoes' = vetoes \cup {scope}
    /\ Withdraw(WorkOn(Covered(scope)))
    /\ OvertakeRequests(Covered(scope))
    /\ UNCHANGED <<settings, disabled, peopleVars, consentVars, storyVars>>

ApplyVeto(p, scope) ==
    /\ participants[p] = "verified"
    /\ scope.kind = "source" => sources[scope.of] # "none" /\ p \in Subjects[scope.of]
    /\ ApplyScope(scope)

-----------------------------------------------------------------------------
(* What the owner may do to a text that is shown.                          *)

Controllable(t) == presentations[t].body # "none" /\ work[t].state \in Finished

\* Mutant: the work is not told.
RedactTextOnly(t) ==
    /\ Controllable(t)
    /\ presentations' = [presentations EXCEPT ![t].body = "redacted"]
    /\ UNCHANGED work
Redact(t) ==
    /\ Controllable(t)
    /\ presentations' = [presentations EXCEPT ![t].body = "redacted"]
    /\ work' = [work EXCEPT ![t].state = "redacted"]

VeilPresentation(t) ==
    /\ Redact(t)
    /\ UNCHANGED <<controlVars, peopleVars, consentVars, storyVars, requests>>

ReportPresentation(t) ==
    /\ Redact(t)
    /\ Changed(settings.enabled, TRUE, settings.complete)
    /\ UNCHANGED <<disabled, vetoes, peopleVars, consentVars, storyVars, requests>>

VetoPresentation(t, scope) ==
    /\ Controllable(t)
    /\ scope \in {[kind |-> "source", of |-> SourceOf(t)],
                  [kind |-> "category", of |-> CategoryOf[SourceOf(t)]]}
    /\ ApplyScope(scope)

-----------------------------------------------------------------------------
(* A narration request: it reserves a selection, registers derived work,   *)
(* generates a text and publishes it.  Where anything fails the work is    *)
(* abandoned and the turn is told without it; the process may also stop    *)
(* between any two steps, and the turn may be asked for again.             *)

CommitTurn ==
    /\ turn < MaxTurn
    /\ turn' = turn + 1
    /\ UNCHANGED <<controlVars, peopleVars, consentVars, derivedVars, selections, requests>>

CooledDown(s, t) ==
    \A u \in 1 .. (t - 1) : SourceOf(u) = s => t - u >= Cooldown

Eligible(t) ==
    IF disabled \/ ~settings.enabled \/ settings.paused \/ ~settings.complete THEN {}
    ELSE {s \in Sources :
            /\ sources[s] = "approved" /\ ~Vetoed(s)
            /\ \A p \in Subjects[s] : participants[p] = "verified"
            /\ Consenting(s) = Subjects[s]
            /\ Cardinality(ActiveGrants(s)) = Cardinality(Subjects[s])
            /\ CooledDown(s, t)}

Continue(r, t, s) ==
    requests' = [requests EXCEPT
        ![r] = IF s = NoSource THEN Idle ELSE [Idle EXCEPT !.phase = "selected", !.turn = t]]

\* The prompts were read before: a source may have no prompt yet, or none that is eligible.
ReserveSelection(r, t, s) ==
    /\ requests[r].phase = "idle"
    /\ t = turn /\ ~selections[t].made
    /\ settings.revision > 0
    /\ s \in Eligible(t) \cup {NoSource}
    /\ selections' = [selections EXCEPT
           ![t] = [made |-> TRUE, source |-> s, revision |-> settings.revision]]
    /\ Continue(r, t, s)
    /\ UNCHANGED <<controlVars, peopleVars, consentVars, derivedVars, turn>>

\* The settings' revision is part of the request's fingerprint.
ReplaySelection(r, t) ==
    /\ requests[r].phase = "idle"
    /\ selections[t].made /\ selections[t].revision = settings.revision
    /\ SourceOf(t) # NoSource
    /\ Continue(r, t, SourceOf(t))
    /\ UNCHANGED <<controlVars, peopleVars, consentVars, derivedVars, storyVars>>

\* The grants are counted; neither the settings, nor the switch, nor the review of the source,
\* nor the participants are looked at again.
\* Mutant: what the selection has checked is taken for granted.
TrustedSelection(s, policy) ==
    \A g \in ActiveGrants(s) : Rank[policy] >= Rank[g.policy]
Registrable(s, policy) ==
    /\ ~Vetoed(s)
    /\ Cardinality(ActiveGrants(s)) = Cardinality(Subjects[s])
    /\ \A g \in ActiveGrants(s) : Rank[policy] >= Rank[g.policy]

BeginWork(r, policy) ==
    LET s == SourceOf(requests[r].turn) IN
    /\ requests[r].phase = "selected"
    /\ work[requests[r].turn].state = "none"
    /\ Registrable(s, policy)
    /\ requests' = [requests EXCEPT
           ![r] = [@ EXCEPT !.phase = "registering", !.policy = policy,
                            !.overlapped = \E g \in ActiveGrants(s) : g.overlapped]]
    /\ UNCHANGED <<controlVars, peopleVars, consentVars, derivedVars, storyVars>>

\* A registration that has been made is answered from its receipt, before and instead of any
\* check.
ReplayWork(r) ==
    /\ requests[r].phase = "selected"
    /\ work[requests[r].turn].state # "none"
    /\ requests' = [requests EXCEPT ![r].phase = "generating"]
    /\ UNCHANGED <<controlVars, peopleVars, consentVars, derivedVars, storyVars>>

InsertWork(r) ==
    LET t == requests[r].turn IN
    /\ requests[r].phase = "registering"
    /\ work' = IF work[t].state # "none" THEN work
               ELSE [work EXCEPT ![t] = [state |-> "pending", policy |-> requests[r].policy,
                                         overlapped |-> requests[r].overlapped]]
    /\ requests' = [requests EXCEPT ![r] = [Idle EXCEPT !.phase = "generating", !.turn = t]]
    /\ UNCHANGED <<controlVars, peopleVars, consentVars, presentations, storyVars>>

\* Mutant: a cancellation that was only requested is ignored.
PublishableAfterAll(t) == work[t].state \in {"pending", "cancellation_requested"}
Publishable(t) == work[t].state = "pending"

PublishNarration(r) ==
    LET t == requests[r].turn IN
    /\ requests[r].phase = "generating"
    /\ Publishable(t)
    /\ work' = [work EXCEPT ![t].state = "completed"]
    /\ presentations' = [presentations EXCEPT ![t] = [body |-> "private", superseded |-> FALSE]]
    /\ requests' = [requests EXCEPT ![r] = Idle]
    /\ UNCHANGED <<controlVars, peopleVars, consentVars, storyVars>>

AbandonWork(r) ==
    LET t == requests[r].turn IN
    /\ requests[r].phase = "generating"
    /\ work' = IF work[t].state = "pending"
               THEN [work EXCEPT ![t].state = "cancellation_requested"] ELSE work
    /\ requests' = [requests EXCEPT ![r] = Idle]
    /\ UNCHANGED <<controlVars, peopleVars, consentVars, presentations, storyVars>>

\* The registration is refused, or the process stops.
StopRequest(r) ==
    /\ requests[r].phase # "idle"
    /\ requests' = [requests EXCEPT ![r] = Idle]
    /\ UNCHANGED <<controlVars, peopleVars, consentVars, derivedVars, storyVars>>

\* Another version of the turn's narration is published, and the superseded one expires.
SupersedePresentation(t) ==
    /\ presentations[t].body # "none" /\ ~presentations[t].superseded
    /\ presentations' = [presentations EXCEPT ![t].superseded = TRUE]
    /\ UNCHANGED <<controlVars, peopleVars, consentVars, work, storyVars, requests>>

ExpirePresentation(t) ==
    /\ presentations[t].superseded
    /\ presentations' = [presentations EXCEPT ![t] = NoText]
    /\ UNCHANGED <<controlVars, peopleVars, consentVars, work, storyVars, requests>>

-----------------------------------------------------------------------------
OperatorStep ==
    \/ \E p \in Participants : VerifyParticipant(p) \/ ForgetDeletion(p) \/ DeleteParticipant(p)
    \/ \E s \in Sources : BeginSource(s) \/ InsertSource(s)
    \/ \E s \in Sources, d \in {"approved", "rejected", "quarantined"} : ReviewSource(s, d)
    \/ \E e \in BOOLEAN, c \in BOOLEAN : ConfigureCampaign(e, c)
    \/ \E on \in BOOLEAN : SetGlobalControl(on)

ParticipantStep ==
    \/ \E s \in Sources, p \in Participants, policy \in GrantPolicies : BeginGrant(s, p, policy)
    \/ \E g \in granting : InsertGrant(g)
    \/ \E g \in grants : ExpireGrant(g) \/ RevokeConsent(g)
    \/ \E p \in Participants, scope \in Scopes : ApplyVeto(p, scope)

OwnerStep ==
    \/ \E b \in BOOLEAN : SetCampaignPause(b)
    \/ DisableCampaign
    \/ \E t \in Turns : VeilPresentation(t) \/ ReportPresentation(t)
    \/ \E t \in Turns, scope \in Scopes : VetoPresentation(t, scope)

NarrationStep ==
    \/ CommitTurn
    \/ \E r \in Requests, t \in Turns, s \in Sources \cup {NoSource} : ReserveSelection(r, t, s)
    \/ \E r \in Requests, t \in Turns : ReplaySelection(r, t)
    \/ \E r \in Requests, policy \in WorkPolicies : BeginWork(r, policy)
    \/ \E r \in Requests : \/ ReplayWork(r) \/ InsertWork(r) \/ PublishNarration(r)
                           \/ AbandonWork(r) \/ StopRequest(r)
    \/ \E t \in Turns : SupersedePresentation(t) \/ ExpirePresentation(t)

InspirationNext == OperatorStep \/ ParticipantStep \/ OwnerStep \/ NarrationStep

InspirationSpec == InspirationInit /\ [][InspirationNext]_inspirationVars
=============================================================================
