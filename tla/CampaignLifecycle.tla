-------------------------- MODULE CampaignLifecycle --------------------------
(***************************************************************************)
(* The life of one campaign: its members, invitations and characters, its  *)
(* play sessions, and its archive, deletion and restoration.  Every        *)
(* operation is a database transaction on a snapshot.  Two that write the  *)
(* campaign document conflict, so such a transaction is one step.  One     *)
(* that only reads the campaign is two: it reads its snapshot and is       *)
(* pending, and it commits whatever became of the campaign meanwhile.      *)
(***************************************************************************)
EXTENDS Naturals, FiniteSets

CONSTANTS
    Accounts,       \* accounts other than the owner's; each has one email address
    Invitations,    \* invitation ids
    Sittings,       \* play session ids
    Deletions,      \* deletion ids
    Keys,           \* idempotency keys of lifecycle commands
    NoSitting,      \* no play session
    NoContents,     \* no export
    MaxMembers,     \* members a campaign may have, removed ones included
    MaxLifecycle,   \* bound: lifecycle revisions
    MaxRevision,    \* bound: campaign revisions
    MaxExports,     \* bound: exports the owner keeps
    MaxLives,       \* bound: times the campaign is created or restored
    MaxPending      \* bound: transactions that are pending

ASSUME LifecycleAssumption ==
    /\ NoSitting \notin Sittings
    /\ MaxMembers \in Nat /\ MaxLifecycle \in Nat /\ MaxRevision \in Nat
    /\ MaxExports \in Nat /\ MaxLives \in Nat /\ MaxPending \in Nat

VARIABLES
    campaign,       \* the campaign document
    playSessions,   \* the state of each play session document
    encounter,      \* the play session whose encounter is active
    instances,      \* the states of each account's characters in the campaign
    receipts,       \* what is known of each key
    invitations,    \* the invitation documents
    preparations,   \* the deletion preparations
    pending,        \* transactions that have read their snapshot
    exports,        \* the exports the owner keeps
    life,           \* history: how often the campaign was created or restored
    joins,          \* history: how many members each invitation made
    overlapped      \* history: accounts given a character while being removed

documentVars == <<campaign, playSessions, encounter, instances, receipts>>
historyVars == <<life, joins, overlapped>>
lifecycleVars == <<documentVars, invitations, preparations, pending, exports, historyVars>>

-----------------------------------------------------------------------------
(* Documents.                                                              *)

States == {"none", "open", "archived"}
Memberships == {"none", "active", "removed"}

\* The campaign document, and with it the commands whose effect it holds.
Campaigns == [state : States, revision : Nat, lifecycle : Nat,
              sitting : Sittings \cup {NoSitting},
              members : [Accounts -> Memberships], done : SUBSET Keys]
NoCampaign == [state |-> "none", revision |-> 0, lifecycle |-> 0, sitting |-> NoSitting,
               members |-> [a \in Accounts |-> "none"], done |-> {}]

ReceiptStates == {"none", "committed", "retained", "retired"}
NoReceipt == [state |-> "none", life |-> 0]
InvitationStates == {"none", "active", "accepted", "expired", "revoked"}
NoInvitation(a) == [state |-> "none", account |-> a, late |-> FALSE]
Preparing(d, contents) == [kind |-> "export", deletion |-> d, contents |-> contents]

Assigning == {t.account : t \in {u \in pending : u.kind = "assign"}}

Exists == campaign.state # "none"
IsMember(a) == campaign.members[a] = "active"
Committed(k) == receipts[k].state \in {"committed", "retained"}

\* What an export holds: the campaign and its documents, but for the invitations, the
\* preparations, and the receipts that were retired.
Contents ==
    [campaign |-> campaign, playSessions |-> playSessions, encounter |-> encounter,
     instances |-> instances,
     receipts |-> [k \in Keys |-> IF Committed(k) THEN receipts[k] ELSE NoReceipt]]

\* A transaction that reads the campaign without writing it takes its snapshot.
Begin(t) ==
    /\ Cardinality(pending) < MaxPending
    /\ pending' = pending \cup {t}
    /\ UNCHANGED <<documentVars, invitations, preparations, exports, historyVars>>

LifecycleInit ==
    /\ campaign = NoCampaign
    /\ playSessions = [p \in Sittings |-> "none"]
    /\ encounter = NoSitting
    /\ instances = [a \in Accounts |-> {}]
    /\ receipts = [k \in Keys |-> NoReceipt]
    /\ invitations = [i \in Invitations |-> NoInvitation(CHOOSE a \in Accounts : TRUE)]
    /\ preparations = [d \in Deletions |-> NoContents]
    /\ pending = {}
    /\ exports = {}
    /\ life = 0
    /\ joins = [i \in Invitations |-> 0]
    /\ overlapped = {}

-----------------------------------------------------------------------------
(* Lifecycle commands.  A key whose receipt is committed is answered with  *)
(* it and changes nothing; one that was retired cannot be written again.   *)
(* Each command carries the lifecycle revision that it expects, and        *)
(* advances it.                                                            *)

Accepts(k) ==
    /\ Exists /\ campaign.lifecycle < MaxLifecycle
    /\ receipts[k].state = "none"

Record(k) == receipts' = [receipts EXCEPT ![k] = [state |-> "committed", life |-> life]]

AdvancedBy(k) ==
    [campaign EXCEPT !.lifecycle = @ + 1, !.done = @ \cup {k}]

NoOpenPlaySession == \A p \in Sittings : playSessions[p] # "active"
NoOpenRuntime == NoOpenPlaySession /\ encounter = NoSitting

StartPlaySession(k, p) ==
    /\ Accepts(k) /\ Record(k)
    /\ campaign.state = "open" /\ campaign.sitting = NoSitting
    /\ NoOpenPlaySession /\ playSessions[p] = "none"
    /\ playSessions' = [playSessions EXCEPT ![p] = "active"]
    /\ campaign' = [AdvancedBy(k) EXCEPT !.sitting = p]
    /\ UNCHANGED <<encounter, instances, invitations, preparations, pending, exports,
                   historyVars>>

EndPlaySession(k, p) ==
    /\ Accepts(k) /\ Record(k)
    /\ campaign.sitting = p /\ playSessions[p] = "active"
    /\ playSessions' = [playSessions EXCEPT ![p] = "closed"]
    /\ campaign' = [AdvancedBy(k) EXCEPT !.sitting = NoSitting]
    /\ UNCHANGED <<encounter, instances, invitations, preparations, pending, exports,
                   historyVars>>

ChangeLifecycle(k, required, target) ==
    /\ Accepts(k) /\ Record(k)
    /\ campaign.state = required /\ campaign.sitting = NoSitting
    /\ NoOpenRuntime
    /\ campaign' = [AdvancedBy(k) EXCEPT !.state = target]
    /\ UNCHANGED <<playSessions, encounter, instances, invitations, preparations, pending,
                   exports, historyVars>>

ArchiveCampaign(k) == ChangeLifecycle(k, "open", "archived")
RestoreArchivedCampaign(k) == ChangeLifecycle(k, "archived", "open")

\* The encounter of the play session that is open, started or finished by its commands.
PlayEncounter ==
    /\ Exists /\ campaign.sitting # NoSitting
    /\ campaign.revision < MaxRevision
    /\ \/ encounter = NoSitting /\ encounter' = campaign.sitting
       \/ encounter = campaign.sitting /\ encounter' = NoSitting
    /\ campaign' = [campaign EXCEPT !.revision = @ + 1]
    /\ UNCHANGED <<playSessions, instances, receipts, invitations, preparations, pending,
                   exports, historyVars>>

-----------------------------------------------------------------------------
(* Export and deletion.                                                    *)

ExportCampaign ==
    /\ Exists /\ Cardinality(exports) < MaxExports
    /\ exports' = exports \cup {Contents}
    /\ UNCHANGED <<documentVars, invitations, preparations, pending, historyVars>>

Deletable == campaign.state = "archived" /\ campaign.sitting = NoSitting

\* A deletion is prepared from an export that a transaction of its own reads.
ExportForDeletion(d) ==
    /\ Deletable /\ preparations[d] = NoContents
    /\ Begin(Preparing(d, Contents))

SameRevisions(contents) ==
    /\ campaign.revision = contents.campaign.revision
    /\ campaign.lifecycle = contents.campaign.lifecycle

\* The preparing transaction finds the campaign as it was exported.
CheckPreparation(t) ==
    /\ t.kind = "export"
    /\ Deletable /\ SameRevisions(t.contents) /\ NoOpenRuntime
    /\ pending' = (pending \ {t}) \cup {[t EXCEPT !.kind = "prepare"]}
    /\ UNCHANGED <<documentVars, invitations, preparations, exports, historyVars>>

PrepareCampaignDeletion(t) ==
    /\ t.kind = "prepare"
    /\ preparations[t.deletion] = NoContents
    /\ preparations' = [preparations EXCEPT ![t.deletion] = t.contents]
    /\ exports' = IF Cardinality(exports) < MaxExports THEN exports \cup {t.contents}
                  ELSE exports
    /\ pending' = pending \ {t}
    /\ UNCHANGED <<documentVars, invitations, historyVars>>

ExpirePreparation(d) ==
    /\ preparations[d] # NoContents
    /\ preparations' = [preparations EXCEPT ![d] = NoContents]
    /\ UNCHANGED <<documentVars, invitations, pending, exports, historyVars>>

\* The receipts a deletion leaves: those marked as retained, its own among them.
ReceiptsAfterDeletion(k) ==
    [j \in Keys |->
        IF j = k THEN [state |-> "retained", life |-> life]
        ELSE IF receipts[j].state = "committed" THEN NoReceipt
        ELSE receipts[j]]

\* The campaign is still what was prepared, and all of it goes.
DeleteArchivedCampaign(k, d) ==
    /\ Accepts(k)
    /\ Deletable /\ NoOpenRuntime
    /\ preparations[d] # NoContents
    /\ SameRevisions(preparations[d]) /\ preparations[d] = Contents
    /\ receipts' = ReceiptsAfterDeletion(k)
    /\ campaign' = NoCampaign
    /\ playSessions' = [p \in Sittings |-> "none"]
    /\ encounter' = NoSitting
    /\ instances' = [a \in Accounts |-> {}]
    /\ invitations' = [i \in Invitations |-> [invitations[i] EXCEPT !.state = "none"]]
    /\ preparations' = [e \in Deletions |-> NoContents]
    /\ joins' = [i \in Invitations |-> 0]
    /\ overlapped' = overlapped \cup Assigning
    /\ UNCHANGED <<pending, exports, life>>

-----------------------------------------------------------------------------
(* Restoring an export, and creating the campaign anew.                    *)

\* Mutant: the receipts of the export are left out.
ReceiptsWithoutExport(c, k) ==
    [receipts EXCEPT ![k] = [state |-> "retained", life |-> life + 1]]

\* The receipts of the export replace those of the same id.
ReceiptsAfterRestore(c, k) ==
    [j \in Keys |->
        IF j = k THEN [state |-> "retained", life |-> life + 1]
        ELSE IF c.receipts[j].state # "none" THEN c.receipts[j]
        ELSE receipts[j]]

\* No other receipt has the key of one of the export.
ReceiptsFit(c) ==
    \A j \in Keys :
        c.receipts[j].state # "none" =>
            receipts[j].state = "none" \/ receipts[j].life = c.receipts[j].life

\* An account with an active character in both keeps the campaign from being restored.
InstancesFit(c) == \A a \in Accounts : "active" \notin instances[a] \cap c.instances[a]

KeptOpen(state) == state                 \* mutant: play sessions return as they were
Closed(state) == IF state = "active" THEN "closed" ELSE state

RestoreCampaignExport(k, c) ==
    /\ ~Exists /\ life < MaxLives
    /\ receipts[k].state = "none" /\ c.receipts[k].state = "none"
    /\ ReceiptsFit(c) /\ InstancesFit(c)
    /\ receipts' = ReceiptsAfterRestore(c, k)
    /\ playSessions' = [p \in Sittings |-> Closed(c.playSessions[p])]
    /\ encounter' = c.encounter
    /\ instances' = [a \in Accounts |-> instances[a] \cup c.instances[a]]
    /\ campaign' = [c.campaign EXCEPT !.sitting = NoSitting, !.lifecycle = @ + 1,
                                      !.done = @ \cup {k}]
    /\ life' = life + 1
    /\ UNCHANGED <<invitations, preparations, pending, exports, joins, overlapped>>

\* The receipts that outlived a deletion are retired before the campaign is created anew,
\* by an update of its own; the creation may then fail.
RetiredReceipts ==
    [k \in Keys |-> IF receipts[k].state = "retained"
                    THEN [receipts[k] EXCEPT !.state = "retired"] ELSE receipts[k]]

RetireDeletedCampaignReceipts ==
    /\ ~Exists
    /\ receipts' = RetiredReceipts
    /\ UNCHANGED <<campaign, playSessions, encounter, instances, invitations, preparations,
                   pending, exports, historyVars>>

CreateCampaign ==
    /\ ~Exists /\ life < MaxLives
    /\ receipts' = RetiredReceipts
    /\ campaign' = [NoCampaign EXCEPT !.state = "open", !.revision = 1, !.lifecycle = 1]
    /\ life' = life + 1
    /\ UNCHANGED <<playSessions, encounter, instances, invitations, preparations, pending,
                   exports, joins, overlapped>>

-----------------------------------------------------------------------------
(* Members, invitations and characters.                                    *)

AuthorizeInvitation(i, a) ==
    /\ campaign.state = "open"
    /\ invitations[i].state = "none"
    /\ Begin([kind |-> "invite", account |-> a, invitation |-> i])

\* One active invitation per address: those that expired make room first.  The id is new.
CreateCampaignInvitation(t) ==
    /\ t.kind = "invite" /\ invitations[t.invitation].state = "none"
    /\ \A i \in Invitations :
           invitations[i].state = "active" /\ invitations[i].account = t.account =>
               invitations[i].late
    /\ invitations' = [i \in Invitations |->
           IF i = t.invitation
           THEN [state |-> "active", account |-> t.account, late |-> FALSE]
           ELSE IF invitations[i].state = "active" /\ invitations[i].account = t.account
           THEN [invitations[i] EXCEPT !.state = "expired"]
           ELSE invitations[i]]
    /\ pending' = pending \ {t}
    /\ UNCHANGED <<documentVars, preparations, exports, historyVars>>

InvitationExpires(i) ==
    /\ invitations[i].state = "active" /\ ~invitations[i].late
    /\ invitations' = [invitations EXCEPT ![i].late = TRUE]
    /\ UNCHANGED <<documentVars, preparations, pending, exports, historyVars>>

AuthorizeRevocation(i) ==
    /\ Exists
    /\ invitations[i].state = "active"
    /\ Begin([kind |-> "revoke", invitation |-> i])

\* Mutant: the invitation is not looked at again.
RevokeUnseen(t) ==
    /\ t.kind = "revoke"
    /\ invitations' = [invitations EXCEPT ![t.invitation].state = "revoked"]
    /\ pending' = pending \ {t}
    /\ UNCHANGED <<documentVars, preparations, exports, historyVars>>

RevokeCampaignInvitation(t) ==
    /\ t.kind = "revoke"
    /\ invitations[t.invitation].state = "active"
    /\ invitations' = [invitations EXCEPT ![t.invitation].state = "revoked"]
    /\ pending' = pending \ {t}
    /\ UNCHANGED <<documentVars, preparations, exports, historyVars>>

\* The owner is a member, and so is everyone who was removed.
Seats == Cardinality({a \in Accounts : campaign.members[a] # "none"}) + 1

AcceptCampaignInvitation(i) ==
    LET a == invitations[i].account
    IN  /\ campaign.state = "open" /\ campaign.revision < MaxRevision
        /\ invitations[i].state = "active" /\ ~invitations[i].late
        /\ ~IsMember(a)
        /\ campaign.members[a] = "none" => Seats < MaxMembers
        /\ campaign' = [campaign EXCEPT !.members[a] = "active", !.revision = @ + 1]
        /\ invitations' = [invitations EXCEPT ![i].state = "accepted"]
        /\ joins' = [joins EXCEPT ![i] = @ + 1]
        /\ UNCHANGED <<playSessions, encounter, instances, receipts, preparations, pending,
                       exports, life, overlapped>>

KeptBy(a) == instances                   \* mutant: the characters stay
RetiredWith(a) ==
    [instances EXCEPT ![a] = IF "active" \in @ THEN {"retired"} ELSE @]

RemoveCampaignMember(a) ==
    /\ Exists /\ IsMember(a) /\ campaign.revision < MaxRevision
    /\ campaign' = [campaign EXCEPT !.members[a] = "removed", !.revision = @ + 1]
    /\ instances' = RetiredWith(a)
    /\ overlapped' = overlapped \cup (Assigning \cap {a})
    /\ UNCHANGED <<playSessions, encounter, receipts, invitations, preparations, pending,
                   exports, life, joins>>

AuthorizeAssignment(a) ==
    /\ campaign.state = "open" /\ IsMember(a)
    /\ Begin([kind |-> "assign", account |-> a])

\* One active character per account and campaign.
AssignCharacterToCampaign(t) ==
    /\ t.kind = "assign"
    /\ "active" \notin instances[t.account]
    /\ instances' = [instances EXCEPT ![t.account] = @ \cup {"active"}]
    /\ pending' = pending \ {t}
    /\ UNCHANGED <<campaign, playSessions, encounter, receipts, invitations, preparations,
                   exports, historyVars>>

\* A transaction fails, or its process stops.
Abandon(t) ==
    /\ pending' = pending \ {t}
    /\ UNCHANGED <<documentVars, invitations, preparations, exports, historyVars>>

-----------------------------------------------------------------------------
PlayStep(k) ==
    \/ \E p \in Sittings : StartPlaySession(k, p) \/ EndPlaySession(k, p)
    \/ ArchiveCampaign(k) \/ RestoreArchivedCampaign(k)
    \/ \E d \in Deletions : DeleteArchivedCampaign(k, d)
    \/ \E c \in exports : RestoreCampaignExport(k, c)

MemberStep(t) ==
    \/ CheckPreparation(t) \/ PrepareCampaignDeletion(t)
    \/ CreateCampaignInvitation(t) \/ RevokeCampaignInvitation(t)
    \/ AssignCharacterToCampaign(t) \/ Abandon(t)

LifecycleNext ==
    \/ \E k \in Keys : PlayStep(k)
    \/ \E t \in pending : MemberStep(t)
    \/ RetireDeletedCampaignReceipts \/ CreateCampaign
    \/ ExportCampaign \/ PlayEncounter
    \/ \E d \in Deletions : ExportForDeletion(d) \/ ExpirePreparation(d)
    \/ \E i \in Invitations, a \in Accounts : AuthorizeInvitation(i, a)
    \/ \E i \in Invitations :
           InvitationExpires(i) \/ AuthorizeRevocation(i) \/ AcceptCampaignInvitation(i)
    \/ \E a \in Accounts : RemoveCampaignMember(a) \/ AuthorizeAssignment(a)

LifecycleSpec == LifecycleInit /\ [][LifecycleNext]_lifecycleVars
=============================================================================
