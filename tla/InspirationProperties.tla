------------------------ MODULE InspirationProperties ------------------------
(***************************************************************************)
(* What consent promises: whoever withdraws it reaches what was derived    *)
(* from it, and what was withdrawn does not come back.                     *)
(***************************************************************************)
EXTENDS Inspiration

Phases == {"idle", "selected", "registering", "generating"}

\* Documents and requests stay what they are, and no two grants share a source, participant
\* and version (indexes.rs, mdnd_private_consents_versioned_grant_uq).
InspirationTypeOK ==
    /\ settings \in Settings /\ disabled \in BOOLEAN /\ vetoes \subseteq Scopes
    /\ participants \in [Participants -> Verifications] /\ tombstones \subseteq Participants
    /\ sources \in [Sources -> ReviewStates] /\ registering \subseteq Sources
    /\ grants \subseteq Grants /\ granting \subseteq Grants
    /\ \A g, h \in grants : g.source = h.source /\ g.participant = h.participant
                              /\ g.version = h.version => g = h
    /\ turn \in 0 .. MaxTurn
    /\ selections \in [Turns -> [made : BOOLEAN, source : Sources \cup {NoSource},
                                 revision : 0 .. MaxSettings]]
    /\ work \in [Turns -> [state : WorkStates, policy : Policies, overlapped : BOOLEAN]]
    /\ presentations \in [Turns -> [body : {"none", "private", "redacted"}, superseded : BOOLEAN]]
    /\ requests \in [Requests -> [phase : Phases, turn : 0 .. MaxTurn, policy : Policies,
                                  overlapped : BOOLEAN]]

Live(t) == work[t].state = "pending" \/ presentations[t].body = "private"

\* As long as a text is being derived from a source or is shown, the campaign is enabled, the
\* source approved and free of vetoes, and everyone it is about verified and holding a grant
\* that nobody revoked, unless the registration or a grant it rests on was overtaken by what
\* withdrew it.  The registration looks at the vetoes and the grants only; that nothing else
\* was withdrawn since the selection must follow from them
\* (register_private_inspiration_derived_work, inspiration.rs:3463).
WithdrawalReachesWork ==
    \A t \in Turns : Live(t) /\ ~work[t].overlapped =>
        LET s == SourceOf(t) IN
        /\ settings.enabled
        /\ sources[s] = "approved" /\ ~Vetoed(s)
        /\ \A p \in Subjects[s] :
               /\ participants[p] = "verified"
               /\ \E g \in GrantsOf(s, p) : g.state # "revoked"

\* The registration counts grants: it takes as many as there are participants for all of
\* them.  That is right only if nobody has two active grants for a source, however grants,
\* expiries, revocations and deletions overlap, and only participants of the source have
\* any (policies.len(), inspiration.rs:3618).  It takes no account of audience and
\* transformation, which a grant is unique for too: each has one value so far.
CountedGrantsAreComplete ==
    \A s \in Sources :
        Cardinality(ActiveGrants(s)) = Cardinality(Subjects[s]) => Consenting(s) = Subjects[s]

\* The state of the work and of the text that it made say the same: a text is shown in full
\* only while its work is completed, is redacted exactly where the work is, and is gone where
\* the work is cancelled or deleted; a finished work without a text has lost it to expiry
\* (apply_completed_work_policy, inspiration.rs:1987, and publish, presentations.rs:618).
WorkMatchesPresentation ==
    \A t \in Turns :
        /\ presentations[t].body = "private" => work[t].state = "completed"
        /\ presentations[t].body = "redacted" => work[t].state = "redacted"
        /\ work[t].state \notin Finished => presentations[t].body = "none"

\* What has been cancelled, redacted or deleted stays so, although requests, retries and
\* receipts still speak of the work: it is not published, nor shown in full again
\* (publish, presentations.rs:466).
WithdrawnStaysWithdrawn ==
    [][\A t \in Turns :
         work[t].state \in {"cancellation_requested", "redacted", "deleted"} =>
             /\ work'[t].state \notin {"none", "pending", "completed"}
             /\ presentations'[t].body # "private"]_inspirationVars

\* While the switch is set, no text derived from a private source is published
\* (set_global_inspiration_control, inspiration.rs:593).  It does not hold, and no standing run
\* checks it: a selection reserved before the switch was set is registered and published.
SwitchStopsPublication ==
    [][\A t \in Turns : disabled /\ presentations'[t].body = "private" =>
                            presentations[t].body = "private"]_inspirationVars

\* A request generates only from work that has not been withdrawn when it begins to
\* (reserve_narration_inspiration, freeform.rs:1639).  It does not hold, and no standing run
\* checks it: a retry is answered from the receipt of a registration that was cancelled since.
GeneratesFromPending ==
    [][\A r \in Requests :
         requests'[r].phase = "generating" /\ requests[r].phase # "generating" =>
             work'[requests[r].turn].state \in {"pending", "completed"}]_inspirationVars
=============================================================================
