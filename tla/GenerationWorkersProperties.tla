--------------------- MODULE GenerationWorkersProperties ---------------------
(***************************************************************************)
(* What the workers and the queue must do together.                        *)
(***************************************************************************)
EXTENDS GenerationWorkers

\* However agents die and leases are taken over, at most one live agent holds the
\* unexpired lease of a job, and it is the one whose attempt is running: every
\* other agent that still works on the job is fenced off (jobs.rs:1753-1781).
OneHolder ==
    \A j \in Jobs :
        LET holders == {a \in Agents : /\ agent[a] # Idle /\ agent[a].job = j
                                       /\ agent[a].token # NoLease
                                       /\ HoldsLease(j, agent[a].token)}
        IN  /\ Cardinality(holders) <= 1
            /\ \A a \in holders : agent[a].token = attemptCount[j]

\* At most one artifact is selected for a turn, it is published, and its job
\* succeeded; an artifact that was selected before it is superseded
\* (release-operations.md:54: "selected artifacts remain singular").
SelectedIsSingular ==
    /\ \A j, k \in selected : SameTurn(j, k) => j = k
    /\ \A j \in selected : state[j] = "succeeded" /\ asset[j].state = "published"

\* An image job that was requested ends, whatever workers die on the way: an
\* expired lease is reclaimed and the attempts are bounded (jobs.rs:1156-1484).
ImagesEnd == \A j \in Images :
    (state[j] \in OpenStates) ~> (state[j] \in TerminalStates)

\* A lease that ran out is closed and reclaimed (release-operations.md:52:
\* "Expired leases are closed body-free and reclaimed with a new attempt/lease
\* token").  It does not hold, and no standing run checks it.
ExpiredLeasesAreReclaimed == \A j \in Jobs : LeaseExpired(j) ~> ~ LeaseExpired(j)

\* deliver() finds in the directory of a published artifact the bytes its metadata
\* gives the digest of (CHECKLIST.md:405: "lost lease recover without losing or
\* duplicating artifacts"); otherwise every delivery fails for good.  It
\* does not hold, and no standing run checks it.
DeliverableBytesMatch ==
    \A j \in Jobs : asset[j].state = "published" => files[j] = asset[j].from

\* Only a selected artifact is delivered (planning/04-ai-generation.md:105: "Only
\* campaign-authorized selected web/thumbnail variants are delivered").  It does not
\* hold, and no standing run checks it.
Deliverable(j) == state[j] = "succeeded" /\ asset[j].state \in {"staged", "published"}
OnlySelectedIsDelivered ==
    \A j \in Images : Deliverable(j) => j \in selected
=============================================================================
