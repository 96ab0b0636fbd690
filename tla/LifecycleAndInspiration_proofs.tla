------------------- MODULE LifecycleAndInspiration_proofs ---------------------
(***************************************************************************)
(* What holds of the life of a campaign for any number of accounts,        *)
(* invitations, play sessions, keys, deletions and exports, and whatever   *)
(* the bounds.  The four properties are inductive together with what is    *)
(* kept of the campaign outside its documents: the exports, those that a   *)
(* deletion is being prepared from, and the transactions that are pending. *)
(*                                                                         *)
(* Each of those transactions is one action there because with_transaction *)
(* installs its effect once or not at all; that is proved first, for every *)
(* number of attempts.                                                     *)
(*                                                                         *)
(* What was derived from a private inspiration is part of the same         *)
(* campaign: its properties come last, for any participants, sources,      *)
(* grants under way, turns and requests.                                   *)
(***************************************************************************)
EXTENDS CampaignLifecycleProperties, TransactionAttempts, InspirationProperties,
        FiniteSetTheorems, FunctionTheorems, TLAPS

-----------------------------------------------------------------------------
(* The transaction helper                                                  *)

(***************************************************************************)
(* What the await says about the transaction: it is gone before an attempt *)
(* starts, open while the callback runs, and installed means committed.    *)
(***************************************************************************)
AwaitMatchesTransaction ==
    /\ pc = "start" => transaction \in {"none", "aborted"}
    /\ pc \in {"callback", "abort", "retry"} => transaction = "open"
    /\ pc \in {"start", "callback"} => commitAttempt = 0
    /\ pc = "commit" => transaction # "none" /\ commitAttempt < MaxAttempts
    /\ pc = "sent" => transaction \in {"committing", "committed", "aborted"}
    /\ installed = IF transaction = "committed" THEN 1 ELSE 0
    /\ pc = "done" => transaction # "open"

AnswerMatchesTransaction ==
    /\ answer = "none" <=> pc # "done"
    /\ answer = "value" => transaction = "committed"
    /\ answer = "refused" => transaction = "aborted"

AttemptsInv == TypeOK /\ AwaitMatchesTransaction /\ AnswerMatchesTransaction

LEMMA AttemptsInvInit == AttemptsInit => AttemptsInv
BY AttemptsAssumption DEF AttemptsInit, AttemptsInv, TypeOK, AwaitMatchesTransaction,
   AnswerMatchesTransaction, Awaits, Answers

LEMMA AttemptsInvStep == AttemptsInv /\ [AttemptsNext]_attemptVars => AttemptsInv'
<1> USE AttemptsAssumption DEF AttemptsInv, TypeOK, AwaitMatchesTransaction,
        AnswerMatchesTransaction, Awaits, Answers, databaseVars, Return, AttemptsLeft, RunAgain
<1> SUFFICES ASSUME AttemptsInv, [AttemptsNext]_attemptVars PROVE AttemptsInv'
  OBVIOUS
<1>1. CASE Start
  BY <1>1 DEF Start
<1>2. CASE StartFails
  BY <1>2 DEF StartFails
<1>3. CASE CallbackReturns
  BY <1>3 DEF CallbackReturns
<1>4. CASE CallbackFails
  BY <1>4 DEF CallbackFails
<1>5. CASE AbortDone
  BY <1>5 DEF AbortDone
<1>6. CASE AbortFails
  BY <1>6 DEF AbortFails
<1>7. CASE SendCommit
  BY <1>7 DEF SendCommit
<1>8. CASE CommitAnswered
  BY <1>8 DEF CommitAnswered
<1>9. CASE CommitUnknown
  BY <1>9 DEF CommitUnknown
<1>10. CASE CommitTransient
  BY <1>10 DEF CommitTransient
<1>11. CASE CommitFails
  BY <1>11 DEF CommitFails
<1>12. CASE Deadline
  BY <1>12 DEF Deadline
<1>13. CASE DatabaseCommits
  BY <1>13 DEF DatabaseCommits
<1>14. CASE DatabaseAborts
  BY <1>14 DEF DatabaseAborts
<1>15. CASE UNCHANGED attemptVars
  BY <1>15 DEF attemptVars
<1>16. QED
  BY <1>1, <1>2, <1>3, <1>4, <1>5, <1>6, <1>7, <1>8, <1>9, <1>10, <1>11, <1>12, <1>13,
     <1>14, <1>15 DEF AttemptsNext, HelperStep

LEMMA AttemptsInvariant == AttemptsSpec => []AttemptsInv
BY AttemptsInvInit, AttemptsInvStep, PTL DEF AttemptsSpec

(***************************************************************************)
(* A run of the whole transaction that with_transaction may repeat has     *)
(* installed nothing, with any number of attempts.                         *)
(***************************************************************************)
THEOREM NothingIsLeftBehind == AttemptsSpec => []NothingLeftBehind
<1>1. AttemptsInv => NothingLeftBehind
  BY DEF AttemptsInv, AwaitMatchesTransaction, NothingLeftBehind
<1>2. QED
  BY <1>1, AttemptsInvariant, PTL

LEMMA OutcomeInitially == AttemptsInit => Outcome!OutcomeInit
BY DEF AttemptsInit, Outcome!OutcomeInit

(***************************************************************************)
(* Each step of the helper or the database is a step of the promise or     *)
(* leaves it as it was.                                                    *)
(***************************************************************************)
LEMMA OutcomeStep ==
    AttemptsInv /\ AttemptsInv' /\ [AttemptsNext]_attemptVars
        => [Outcome!OutcomeNext]_(Outcome!outcomeVars)
<1> USE DEF Outcome!outcomeVars, Outcome!OutcomeNext, Outcome!Install, Outcome!Succeed,
        Outcome!Refuse, Outcome!LeaveUnknown
<1> SUFFICES ASSUME AttemptsInv, AttemptsInv', [AttemptsNext]_attemptVars
             PROVE [Outcome!OutcomeNext]_(Outcome!outcomeVars)
  OBVIOUS
<1>1. CASE HelperStep
  <2>1. answer = "none" /\ installed' = installed
    BY <1>1 DEF HelperStep, Start, StartFails, CallbackReturns, CallbackFails, AbortDone,
       AbortFails, SendCommit, CommitAnswered, CommitUnknown, CommitTransient, CommitFails,
       Deadline, databaseVars, AttemptsInv, AnswerMatchesTransaction, Awaits
  <2>2. /\ answer' \in Answers
        /\ answer' = "value" => installed = 1
        /\ answer' = "refused" => installed = 0
    BY <2>1 DEF AttemptsInv, TypeOK, AwaitMatchesTransaction, AnswerMatchesTransaction
  <2>3. QED
    BY <2>1, <2>2 DEF Answers
<1>2. CASE DatabaseCommits
  <2>1. installed = 0 /\ installed' = 1 /\ answer' = answer
    BY <1>2 DEF DatabaseCommits, AttemptsInv, AwaitMatchesTransaction
  <2>2. answer \notin {"value", "refused"}
    BY <1>2 DEF DatabaseCommits, AttemptsInv, AnswerMatchesTransaction
  <2>3. QED
    BY <2>1, <2>2
<1>3. CASE DatabaseAborts
  BY <1>3 DEF DatabaseAborts
<1>4. CASE UNCHANGED attemptVars
  BY <1>4 DEF attemptVars
<1>5. QED
  BY <1>1, <1>2, <1>3, <1>4 DEF AttemptsNext

(***************************************************************************)
(* with_transaction keeps its promise: at most one effect, success only    *)
(* after it, refusal only without it.                                      *)
(***************************************************************************)
THEOREM AttemptsImplementOutcome == AttemptsSpec => ImplementsOutcome
BY OutcomeInitially, OutcomeStep, AttemptsInvariant, PTL
   DEF AttemptsSpec, ImplementsOutcome, Outcome!OutcomeSpec

-----------------------------------------------------------------------------
(* Types                                                                   *)

Receipts == [state : ReceiptStates, life : Nat]
PlaySessions == {"none", "active", "closed"}
InstanceStates == {"active", "retired"}
KeptContents == [campaign : Campaigns, playSessions : [Sittings -> PlaySessions],
                 encounter : Sittings \cup {NoSitting},
                 instances : [Accounts -> SUBSET InstanceStates],
                 receipts : [Keys -> Receipts]]
Addressees == Accounts \cup {CHOOSE a \in Accounts : TRUE}
InvitationDocuments == [state : InvitationStates, account : Addressees, late : BOOLEAN]

PendingPreparations ==
    [kind : {"export", "prepare"}, deletion : Deletions, contents : KeptContents]
PendingInvitations == [kind : {"invite"}, account : Accounts, invitation : Invitations]
PendingRevocations == [kind : {"revoke"}, invitation : Invitations]
PendingAssignments == [kind : {"assign"}, account : Accounts]
Pendings == PendingPreparations \cup PendingInvitations
                \cup PendingRevocations \cup PendingAssignments

LifecycleTypeOK ==
    /\ campaign \in Campaigns
    /\ playSessions \in [Sittings -> PlaySessions]
    /\ encounter \in Sittings \cup {NoSitting}
    /\ instances \in [Accounts -> SUBSET InstanceStates]
    /\ receipts \in [Keys -> Receipts]
    /\ invitations \in [Invitations -> InvitationDocuments]
    /\ preparations \in [Deletions -> KeptContents \cup {NoContents}]
    /\ pending \subseteq Pendings
    /\ exports \subseteq KeptContents
    /\ life \in Nat
    /\ joins \in [Invitations -> Nat]
    /\ overlapped \subseteq Accounts

\* What a pending transaction holds, by its kind.
LEMMA PendingKinds ==
    ASSUME NEW t \in Pendings
    PROVE  /\ t.kind \in {"export", "prepare"} => t \in PendingPreparations
           /\ t.kind = "invite" => t \in PendingInvitations
           /\ t.kind = "revoke" => t \in PendingRevocations
           /\ t.kind = "assign" => t \in PendingAssignments
  BY DEF Pendings, PendingPreparations, PendingInvitations, PendingRevocations,
         PendingAssignments

LEMMA NoCampaignType == NoCampaign \in Campaigns
  BY DEF NoCampaign, Campaigns, States, Memberships

LEMMA NoReceiptType == NoReceipt \in Receipts
  BY DEF NoReceipt, Receipts, ReceiptStates

\* An export has the type of one.
LEMMA ContentsType ==
    ASSUME LifecycleTypeOK
    PROVE  Contents \in KeptContents
  BY NoReceiptType DEF LifecycleTypeOK, Contents, KeptContents

\* A transaction that takes its snapshot changes nothing else.
LEMMA BeginType ==
    ASSUME LifecycleTypeOK, NEW t \in Pendings, Begin(t)
    PROVE  LifecycleTypeOK'
  BY DEF Begin, LifecycleTypeOK, documentVars, historyVars

LEMMA InitType == LifecycleInit => LifecycleTypeOK
  <1> SUFFICES ASSUME LifecycleInit PROVE LifecycleTypeOK
    OBVIOUS
  <1>1. invitations \in [Invitations -> InvitationDocuments]
    BY DEF LifecycleInit, NoInvitation, InvitationDocuments, InvitationStates, Addressees
  <1>2. QED
    BY <1>1, NoCampaignType, NoReceiptType
    DEF LifecycleInit, LifecycleTypeOK, PlaySessions, InstanceStates

\* A campaign document with one field changed.
LEMMA CampaignUpdates ==
    ASSUME NEW c \in Campaigns
    PROVE  /\ \A n \in Nat : [c EXCEPT !.revision = n] \in Campaigns
           /\ \A n \in Nat : [c EXCEPT !.lifecycle = n] \in Campaigns
           /\ \A s \in States : [c EXCEPT !.state = s] \in Campaigns
           /\ \A p \in Sittings \cup {NoSitting} : [c EXCEPT !.sitting = p] \in Campaigns
           /\ \A m \in [Accounts -> Memberships] : [c EXCEPT !.members = m] \in Campaigns
           /\ \A d \in SUBSET Keys : [c EXCEPT !.done = d] \in Campaigns
  BY DEF Campaigns

\* A lifecycle command advances the campaign and records its key.
LEMMA AdvancedType ==
    ASSUME LifecycleTypeOK, NEW k \in Keys
    PROVE  /\ AdvancedBy(k) \in Campaigns
           /\ AdvancedBy(k).state = campaign.state
           /\ AdvancedBy(k).sitting = campaign.sitting
           /\ AdvancedBy(k).members = campaign.members
           /\ AdvancedBy(k).done = campaign.done \cup {k}
           /\ Record(k) => receipts' \in [Keys -> Receipts]
  <1> DEFINE next == [campaign EXCEPT !.lifecycle = campaign.lifecycle + 1]
  <1>1. /\ next \in Campaigns /\ next.done = campaign.done
        /\ campaign.done \cup {k} \in SUBSET Keys
    BY DEF LifecycleTypeOK, Campaigns
  <1>2. AdvancedBy(k) = [next EXCEPT !.done = campaign.done \cup {k}]
    BY DEF LifecycleTypeOK, Campaigns, AdvancedBy
  <1>3. AdvancedBy(k) \in Campaigns
    BY <1>1, <1>2, CampaignUpdates
  <1>4. QED
    BY <1>3 DEF LifecycleTypeOK, AdvancedBy, Campaigns, Record, Receipts, ReceiptStates

\* A campaign as a restoration leaves it.
LEMMA RestoredType ==
    ASSUME NEW c \in Campaigns, NEW k \in Keys
    PROVE  LET restored == [c EXCEPT !.sitting = NoSitting, !.lifecycle = @ + 1,
                                     !.done = @ \cup {k}]
           IN  /\ restored \in Campaigns
               /\ restored.state = c.state /\ restored.sitting = NoSitting
               /\ restored.members = c.members /\ restored.done = c.done \cup {k}
  <1> DEFINE closed == [c EXCEPT !.sitting = NoSitting]
             next == [closed EXCEPT !.lifecycle = c.lifecycle + 1]
             restored == [c EXCEPT !.sitting = NoSitting, !.lifecycle = @ + 1,
                                   !.done = @ \cup {k}]
  <1>1. closed \in Campaigns /\ c.lifecycle + 1 \in Nat /\ c.done \cup {k} \in SUBSET Keys
    BY CampaignUpdates DEF Campaigns
  <1>2. next \in Campaigns
    BY <1>1, CampaignUpdates
  <1>3. restored = [next EXCEPT !.done = c.done \cup {k}]
    BY DEF Campaigns
  <1>4. restored \in Campaigns
    BY <1>1, <1>2, <1>3, CampaignUpdates
  <1>5. QED
    BY <1>4 DEF Campaigns

\* A campaign with a member changed.
LEMMA MembersType ==
    ASSUME NEW c \in Campaigns, NEW a, NEW m \in Memberships
    PROVE  LET joined == [c EXCEPT !.members[a] = m, !.revision = @ + 1]
           IN  /\ joined \in Campaigns
               /\ joined.state = c.state /\ joined.sitting = c.sitting
               /\ joined.done = c.done
               /\ joined.members = [c.members EXCEPT ![a] = m]
  <1> DEFINE changed == [c EXCEPT !.members = [c.members EXCEPT ![a] = m]]
             joined == [c EXCEPT !.members[a] = m, !.revision = @ + 1]
  <1>1. [c.members EXCEPT ![a] = m] \in [Accounts -> Memberships]
    BY DEF Campaigns
  <1>2. changed \in Campaigns /\ c.revision + 1 \in Nat
    BY <1>1, CampaignUpdates DEF Campaigns
  <1>3. joined = [changed EXCEPT !.revision = c.revision + 1]
    BY DEF Campaigns
  <1>4. joined \in Campaigns
    BY <1>2, <1>3, CampaignUpdates
  <1>5. QED
    BY <1>4 DEF Campaigns

\* A campaign that was just created.
LEMMA CreatedType ==
    LET created == [NoCampaign EXCEPT !.state = "open", !.revision = 1, !.lifecycle = 1]
    IN  /\ created \in Campaigns
        /\ created.state = "open" /\ created.sitting = NoSitting
        /\ created.done = {} /\ created.members = NoCampaign.members
  <1> DEFINE opened == [NoCampaign EXCEPT !.state = "open"]
             revised == [opened EXCEPT !.revision = 1]
             created == [NoCampaign EXCEPT !.state = "open", !.revision = 1, !.lifecycle = 1]
  <1>1. opened \in Campaigns
    BY NoCampaignType, CampaignUpdates DEF States
  <1>2. revised \in Campaigns
    BY <1>1, CampaignUpdates
  <1>3. created = [revised EXCEPT !.lifecycle = 1]
    BY NoCampaignType DEF Campaigns
  <1>4. created \in Campaigns
    BY <1>2, <1>3, CampaignUpdates
  <1>5. QED
    BY <1>4, NoCampaignType DEF Campaigns, NoCampaign

LEMMA PlayTypes ==
    ASSUME LifecycleTypeOK, NEW k \in Keys, PlayStep(k)
    PROVE  LifecycleTypeOK'
  <1> USE DEF LifecycleTypeOK, historyVars
  <1>1. ASSUME NEW p \in Sittings, StartPlaySession(k, p)
        PROVE  LifecycleTypeOK'
    <2>1. campaign' \in Campaigns
      BY <1>1, AdvancedType DEF StartPlaySession, Campaigns
    <2>2. QED
      BY <1>1, <2>1, AdvancedType DEF StartPlaySession, PlaySessions
  <1>2. ASSUME NEW p \in Sittings, EndPlaySession(k, p)
        PROVE  LifecycleTypeOK'
    <2>1. campaign' \in Campaigns
      BY <1>2, AdvancedType DEF EndPlaySession, Campaigns
    <2>2. QED
      BY <1>2, <2>1, AdvancedType DEF EndPlaySession, PlaySessions
  <1>3. ASSUME ArchiveCampaign(k) \/ RestoreArchivedCampaign(k)
        PROVE  LifecycleTypeOK'
    <2>1. campaign' \in Campaigns
      BY <1>3, AdvancedType
      DEF ArchiveCampaign, RestoreArchivedCampaign, ChangeLifecycle, Campaigns, States
    <2>2. QED
      BY <1>3, <2>1, AdvancedType
      DEF ArchiveCampaign, RestoreArchivedCampaign, ChangeLifecycle
  <1>4. ASSUME NEW d \in Deletions, DeleteArchivedCampaign(k, d)
        PROVE  LifecycleTypeOK'
    <2>1. receipts' \in [Keys -> Receipts]
      BY <1>4, NoReceiptType
      DEF DeleteArchivedCampaign, ReceiptsAfterDeletion, Receipts, ReceiptStates
    <2>2. invitations' \in [Invitations -> InvitationDocuments]
      BY <1>4 DEF DeleteArchivedCampaign, InvitationDocuments, InvitationStates
    <2>3. overlapped' \subseteq Accounts
      BY <1>4, PendingKinds DEF DeleteArchivedCampaign, Assigning, PendingAssignments
    <2>4. QED
      BY <1>4, <2>1, <2>2, <2>3, NoCampaignType DEF DeleteArchivedCampaign, PlaySessions
  <1>5. ASSUME NEW c \in exports, RestoreCampaignExport(k, c)
        PROVE  LifecycleTypeOK'
    <2>1. c \in KeptContents
      OBVIOUS
    <2>2. campaign' \in Campaigns
      BY <1>5, <2>1, RestoredType DEF RestoreCampaignExport, KeptContents
    <2>3. receipts' \in [Keys -> Receipts]
      BY <1>5, <2>1
      DEF RestoreCampaignExport, ReceiptsAfterRestore, KeptContents, Receipts, ReceiptStates
    <2>4. playSessions' \in [Sittings -> PlaySessions]
      BY <1>5, <2>1 DEF RestoreCampaignExport, Closed, KeptContents, PlaySessions
    <2>5. instances' \in [Accounts -> SUBSET InstanceStates]
      BY <1>5, <2>1 DEF RestoreCampaignExport, KeptContents
    <2>6. QED
      BY <1>5, <2>1, <2>2, <2>3, <2>4, <2>5 DEF RestoreCampaignExport, KeptContents
  <1>6. QED
    BY <1>1, <1>2, <1>3, <1>4, <1>5 DEF PlayStep

LEMMA MemberTypes ==
    ASSUME LifecycleTypeOK, NEW t \in pending, MemberStep(t)
    PROVE  LifecycleTypeOK'
  <1> USE DEF LifecycleTypeOK, documentVars, historyVars
  <1>1. CASE CheckPreparation(t)
    <2>1. [t EXCEPT !.kind = "prepare"] \in Pendings
      BY <1>1, PendingKinds DEF CheckPreparation, PendingPreparations, Pendings
    <2>2. QED
      BY <1>1, <2>1 DEF CheckPreparation
  <1>2. CASE PrepareCampaignDeletion(t)
    BY <1>2, PendingKinds DEF PrepareCampaignDeletion, PendingPreparations
  <1>3. CASE CreateCampaignInvitation(t)
    <2>1. t \in PendingInvitations
      BY <1>3, PendingKinds DEF CreateCampaignInvitation
    <2>2. invitations' \in [Invitations -> InvitationDocuments]
      BY <1>3, <2>1
      DEF CreateCampaignInvitation, InvitationDocuments, InvitationStates, Addressees,
          PendingInvitations
    <2>3. QED
      BY <1>3, <2>2 DEF CreateCampaignInvitation
  <1>4. CASE RevokeCampaignInvitation(t)
    BY <1>4 DEF RevokeCampaignInvitation, InvitationDocuments, InvitationStates
  <1>5. CASE AssignCharacterToCampaign(t)
    BY <1>5 DEF AssignCharacterToCampaign, InstanceStates
  <1>6. CASE Abandon(t)
    BY <1>6 DEF Abandon
  <1>7. QED
    BY <1>1, <1>2, <1>3, <1>4, <1>5, <1>6 DEF MemberStep

LEMMA StepType == LifecycleTypeOK /\ [LifecycleNext]_lifecycleVars => LifecycleTypeOK'
  <1> SUFFICES ASSUME LifecycleTypeOK, [LifecycleNext]_lifecycleVars
               PROVE  LifecycleTypeOK'
    OBVIOUS
  <1> USE DEF documentVars, historyVars
  <1>1. CASE RetireDeletedCampaignReceipts \/ CreateCampaign
    <2>1. receipts' \in [Keys -> Receipts]
      BY <1>1 DEF RetireDeletedCampaignReceipts, CreateCampaign, RetiredReceipts,
                  LifecycleTypeOK, Receipts, ReceiptStates
    <2>2. campaign' \in Campaigns
      BY <1>1, CreatedType DEF RetireDeletedCampaignReceipts, CreateCampaign, LifecycleTypeOK
    <2>3. QED
      BY <1>1, <2>1, <2>2 DEF RetireDeletedCampaignReceipts, CreateCampaign, LifecycleTypeOK
  <1>2. CASE ExportCampaign
    BY <1>2, ContentsType DEF ExportCampaign, LifecycleTypeOK
  <1>3. CASE PlayEncounter
    BY <1>3 DEF PlayEncounter, LifecycleTypeOK, Campaigns
  <1>4. ASSUME NEW d \in Deletions, ExportForDeletion(d)
        PROVE  LifecycleTypeOK'
    <2>1. Preparing(d, Contents) \in Pendings
      BY <1>4, ContentsType DEF Preparing, Pendings, PendingPreparations
    <2>2. QED
      BY <1>4, <2>1, BeginType DEF ExportForDeletion
  <1>5. ASSUME NEW d \in Deletions, ExpirePreparation(d)
        PROVE  LifecycleTypeOK'
    BY <1>5 DEF ExpirePreparation, LifecycleTypeOK
  <1>6. ASSUME NEW i \in Invitations, NEW a \in Accounts, AuthorizeInvitation(i, a)
        PROVE  LifecycleTypeOK'
    <2>1. [kind |-> "invite", account |-> a, invitation |-> i] \in Pendings
      BY DEF Pendings, PendingInvitations
    <2>2. QED
      BY <1>6, <2>1, BeginType DEF AuthorizeInvitation
  <1>7. ASSUME NEW i \in Invitations, InvitationExpires(i)
        PROVE  LifecycleTypeOK'
    BY <1>7 DEF InvitationExpires, LifecycleTypeOK, InvitationDocuments
  <1>8. ASSUME NEW i \in Invitations, AuthorizeRevocation(i)
        PROVE  LifecycleTypeOK'
    <2>1. [kind |-> "revoke", invitation |-> i] \in Pendings
      BY DEF Pendings, PendingRevocations
    <2>2. QED
      BY <1>8, <2>1, BeginType DEF AuthorizeRevocation
  <1>9. ASSUME NEW i \in Invitations, AcceptCampaignInvitation(i)
        PROVE  LifecycleTypeOK'
    <2>1. campaign' \in Campaigns
      BY <1>9, MembersType DEF AcceptCampaignInvitation, LifecycleTypeOK, Memberships
    <2>2. invitations' \in [Invitations -> InvitationDocuments]
      BY <1>9
      DEF AcceptCampaignInvitation, LifecycleTypeOK, InvitationDocuments, InvitationStates
    <2>3. QED
      BY <1>9, <2>1, <2>2 DEF AcceptCampaignInvitation, LifecycleTypeOK
  <1>10. ASSUME NEW a \in Accounts, RemoveCampaignMember(a)
         PROVE  LifecycleTypeOK'
    <2>1. campaign' \in Campaigns
      BY <1>10, MembersType DEF RemoveCampaignMember, LifecycleTypeOK, Memberships
    <2>2. instances' \in [Accounts -> SUBSET InstanceStates]
      BY <1>10 DEF RemoveCampaignMember, RetiredWith, LifecycleTypeOK, InstanceStates
    <2>3. QED
      BY <1>10, <2>1, <2>2 DEF RemoveCampaignMember, LifecycleTypeOK
  <1>11. ASSUME NEW a \in Accounts, AuthorizeAssignment(a)
         PROVE  LifecycleTypeOK'
    <2>1. [kind |-> "assign", account |-> a] \in Pendings
      BY DEF Pendings, PendingAssignments
    <2>2. QED
      BY <1>11, <2>1, BeginType DEF AuthorizeAssignment
  <1>12. CASE UNCHANGED lifecycleVars
    BY <1>12 DEF lifecycleVars, LifecycleTypeOK
  <1>13. QED
    BY <1>1, <1>2, <1>3, <1>4, <1>5, <1>6, <1>7, <1>8, <1>9, <1>10, <1>11, <1>12,
       PlayTypes, MemberTypes DEF LifecycleNext

\* Every state of a campaign's life is well typed.
THEOREM LifecycleTypeCorrect == LifecycleSpec => []LifecycleTypeOK
  BY InitType, StepType, PTL DEF LifecycleSpec

-----------------------------------------------------------------------------
(* The invariant                                                           *)

\* What an export may bring back: a campaign whose effects have their receipts, that is
\* no archive with an encounter, and whose active characters belong to its members.
GoodContents(c) ==
    /\ c.campaign.state \in {"open", "archived"}
    /\ c.campaign.state = "archived" => c.encounter = NoSitting
    /\ \A k \in c.campaign.done : c.receipts[k].state \in {"committed", "retained"}
    /\ \A a \in Accounts :
           "active" \in c.instances[a] => c.campaign.members[a] = "active" \/ a \in overlapped

KeptContentsAreGood ==
    /\ \A c \in exports : GoodContents(c)
    /\ \A t \in pending : t.kind \in {"export", "prepare"} => GoodContents(t.contents)

\* A campaign that is gone leaves nothing in its document.
GoneIsEmpty == ~Exists => campaign = NoCampaign

\* A character is only being assigned to a member, or to one the removal overlapped.
AssignedAreMembers == \A a \in Assigning : IsMember(a) \/ a \in overlapped

LifecycleInvariant ==
    /\ SittingFollowsCampaign
    /\ EffectsKeepReceipts
    /\ InvitationsSpentOnce
    /\ CharactersBelongToMembers
    /\ GoneIsEmpty
    /\ AssignedAreMembers
    /\ KeptContentsAreGood

LEMMA InitInvariant == LifecycleInit => LifecycleInvariant
  <1> SUFFICES ASSUME LifecycleInit PROVE LifecycleInvariant
    OBVIOUS
  <1>1. SittingFollowsCampaign /\ EffectsKeepReceipts /\ GoneIsEmpty
    BY LifecycleAssumption
    DEF LifecycleInit, NoCampaign, SittingFollowsCampaign, EffectsKeepReceipts, GoneIsEmpty,
        NoOpenRuntime, NoOpenPlaySession, Exists
  <1>2. InvitationsSpentOnce /\ CharactersBelongToMembers
    BY DEF LifecycleInit, InvitationsSpentOnce, NoInvitation, CharactersBelongToMembers
  <1>3. AssignedAreMembers /\ KeptContentsAreGood
    BY DEF LifecycleInit, AssignedAreMembers, Assigning, KeptContentsAreGood
  <1>4. QED
    BY <1>1, <1>2, <1>3 DEF LifecycleInvariant

\* What an export holds of a campaign that exists is good.
LEMMA ContentsAreGood ==
    ASSUME LifecycleTypeOK, LifecycleInvariant, Exists
    PROVE  GoodContents(Contents)
  BY DEF LifecycleTypeOK, LifecycleInvariant, Exists, GoodContents, Contents, Campaigns, States,
         SittingFollowsCampaign, NoOpenRuntime, EffectsKeepReceipts, Committed,
         CharactersBelongToMembers, IsMember

\* The exports stay good: what becomes of a member only adds to the overlaps.
LEMMA GoodContentsStay ==
    ASSUME KeptContentsAreGood, overlapped \subseteq overlapped',
           \A c \in exports' : c \in exports \/ GoodContents(c),
           \A t \in pending' :
               t \in pending \/ (t.kind \in {"export", "prepare"} => GoodContents(t.contents))
    PROVE  KeptContentsAreGood'
  BY DEF KeptContentsAreGood, GoodContents

\* A transaction that begins, ends or is abandoned leaves the documents as they are.
LEMMA PendingChanges ==
    ASSUME LifecycleInvariant,
           UNCHANGED <<documentVars, invitations, historyVars>>,
           \A c \in exports' : c \in exports \/ GoodContents(c),
           \A t \in pending' :
               \/ t \in pending
               \/ /\ t.kind \in {"export", "prepare"} => GoodContents(t.contents)
                  /\ t.kind = "assign" => IsMember(t.account)
    PROVE  LifecycleInvariant'
  <1> USE DEF LifecycleInvariant, documentVars, historyVars
  <1>1. SittingFollowsCampaign' /\ EffectsKeepReceipts' /\ GoneIsEmpty'
    BY DEF SittingFollowsCampaign, NoOpenRuntime, NoOpenPlaySession, EffectsKeepReceipts,
           Committed, GoneIsEmpty, Exists
  <1>2. InvitationsSpentOnce' /\ CharactersBelongToMembers'
    BY DEF InvitationsSpentOnce, CharactersBelongToMembers, IsMember
  <1>3. AssignedAreMembers'
    BY DEF AssignedAreMembers, Assigning, IsMember
  <1>4. KeptContentsAreGood'
    BY GoodContentsStay
  <1>5. QED
    BY <1>1, <1>2, <1>3, <1>4

-----------------------------------------------------------------------------
(* The lifecycle commands                                                  *)

\* A command that advances an existing campaign, writes no members and no characters, and
\* keeps the play sessions in step.
LEMMA AdvancedInvariant ==
    ASSUME LifecycleTypeOK, LifecycleInvariant, NEW k \in Keys,
           Accepts(k), Record(k),
           campaign'.done = campaign.done \cup {k}, campaign'.members = campaign.members,
           campaign'.state # "none",
           UNCHANGED <<instances, invitations, pending, exports, historyVars>>,
           SittingFollowsCampaign'
    PROVE  LifecycleInvariant'
  <1> USE DEF LifecycleInvariant, historyVars
  <1>1. EffectsKeepReceipts'
    BY DEF EffectsKeepReceipts, Accepts, Record, Committed, LifecycleTypeOK
  <1>2. InvitationsSpentOnce' /\ CharactersBelongToMembers' /\ GoneIsEmpty'
    BY DEF InvitationsSpentOnce, CharactersBelongToMembers, IsMember, GoneIsEmpty, Exists
  <1>3. AssignedAreMembers'
    BY DEF AssignedAreMembers, Assigning, IsMember
  <1>4. KeptContentsAreGood'
    BY GoodContentsStay
  <1>5. QED
    BY <1>1, <1>2, <1>3, <1>4

LEMMA PlayInvariant ==
    ASSUME LifecycleTypeOK, LifecycleInvariant, NEW k \in Keys,
           NEW p \in Sittings, StartPlaySession(k, p) \/ EndPlaySession(k, p)
    PROVE  LifecycleInvariant'
  <1>1. /\ Accepts(k) /\ Record(k)
        /\ UNCHANGED <<encounter, instances, invitations, pending, exports, historyVars>>
    BY DEF StartPlaySession, EndPlaySession
  <1>2. campaign.state = "open"
    BY DEF StartPlaySession, EndPlaySession, LifecycleInvariant, SittingFollowsCampaign,
           NoOpenRuntime, NoOpenPlaySession
  <1>3. /\ campaign'.done = campaign.done \cup {k}
        /\ campaign'.members = campaign.members /\ campaign'.state = "open"
    BY <1>2, AdvancedType DEF StartPlaySession, EndPlaySession, Campaigns
  <1>4. CASE StartPlaySession(k, p)
    <2>1. campaign'.sitting = p
      BY <1>4, AdvancedType DEF StartPlaySession, Campaigns
    <2>2. SittingFollowsCampaign'
      BY <1>3, <1>4, <2>1
      DEF StartPlaySession, SittingFollowsCampaign, NoOpenPlaySession, LifecycleTypeOK
    <2>3. QED
      BY <1>1, <1>3, <2>2, AdvancedInvariant
  <1>5. CASE EndPlaySession(k, p)
    <2>1. campaign'.sitting = NoSitting
      BY <1>5, AdvancedType DEF EndPlaySession, Campaigns
    <2>2. SittingFollowsCampaign'
      BY <1>3, <1>5, <2>1, LifecycleAssumption
      DEF EndPlaySession, LifecycleInvariant, SittingFollowsCampaign, LifecycleTypeOK
    <2>3. QED
      BY <1>1, <1>3, <2>2, AdvancedInvariant
  <1>6. QED
    BY <1>4, <1>5

LEMMA ArchiveInvariant ==
    ASSUME LifecycleTypeOK, LifecycleInvariant, NEW k \in Keys,
           ArchiveCampaign(k) \/ RestoreArchivedCampaign(k)
    PROVE  LifecycleInvariant'
  <1>1. PICK target \in {"open", "archived"} : \E required \in {"open", "archived"} :
            ChangeLifecycle(k, required, target)
    BY DEF ArchiveCampaign, RestoreArchivedCampaign
  <1>2. /\ campaign'.done = campaign.done \cup {k} /\ campaign'.state = target
        /\ campaign'.members = campaign.members /\ campaign'.sitting = NoSitting
    BY <1>1, AdvancedType DEF ChangeLifecycle, Campaigns
  <1>3. SittingFollowsCampaign'
    BY <1>1, <1>2, LifecycleAssumption
    DEF ChangeLifecycle, SittingFollowsCampaign, NoOpenRuntime, NoOpenPlaySession
  <1>4. /\ Accepts(k) /\ Record(k)
        /\ UNCHANGED <<instances, invitations, pending, exports, historyVars>>
    BY <1>1 DEF ChangeLifecycle
  <1>5. QED
    BY <1>2, <1>3, <1>4, AdvancedInvariant

LEMMA DeletionInvariant ==
    ASSUME LifecycleTypeOK, LifecycleInvariant, NEW k \in Keys,
           NEW d \in Deletions, DeleteArchivedCampaign(k, d)
    PROVE  LifecycleInvariant'
  <1>1. /\ campaign'.state = "none" /\ campaign'.sitting = NoSitting /\ campaign'.done = {}
        /\ campaign' = NoCampaign
    BY DEF DeleteArchivedCampaign, NoCampaign
  <1>2. SittingFollowsCampaign' /\ EffectsKeepReceipts' /\ GoneIsEmpty'
    BY <1>1, LifecycleAssumption
    DEF DeleteArchivedCampaign, SittingFollowsCampaign, NoOpenRuntime, NoOpenPlaySession,
        EffectsKeepReceipts, GoneIsEmpty
  <1>3. InvitationsSpentOnce' /\ CharactersBelongToMembers'
    BY DEF DeleteArchivedCampaign, InvitationsSpentOnce, CharactersBelongToMembers,
           LifecycleTypeOK, InvitationDocuments
  <1>4. AssignedAreMembers'
    BY DEF DeleteArchivedCampaign, AssignedAreMembers, Assigning
  <1>5. KeptContentsAreGood'
    BY GoodContentsStay DEF DeleteArchivedCampaign, LifecycleInvariant
  <1>6. QED
    BY <1>2, <1>3, <1>4, <1>5 DEF LifecycleInvariant

\* The export brings its own receipts and members back, and closes what it held open.
LEMMA RestorationInvariant ==
    ASSUME LifecycleTypeOK, LifecycleInvariant, NEW k \in Keys,
           NEW c \in exports, RestoreCampaignExport(k, c)
    PROVE  LifecycleInvariant'
  <1>1. c \in KeptContents /\ c.campaign \in Campaigns
    BY DEF LifecycleTypeOK, KeptContents
  <1>2. GoodContents(c)
    BY DEF LifecycleInvariant, KeptContentsAreGood
  <1>3. /\ campaign'.state = c.campaign.state /\ campaign'.sitting = NoSitting
        /\ campaign'.members = c.campaign.members
        /\ campaign'.done = c.campaign.done \cup {k}
    BY <1>1, RestoredType DEF RestoreCampaignExport
  <1>4. campaign = NoCampaign /\ \A a \in Accounts : ~IsMember(a)
    BY DEF RestoreCampaignExport, LifecycleInvariant, GoneIsEmpty, NoCampaign, IsMember
  <1>5. \A p \in Sittings : playSessions'[p] # "active"
    BY DEF RestoreCampaignExport, Closed
  <1>6. SittingFollowsCampaign' /\ GoneIsEmpty'
    BY <1>2, <1>3, <1>5, LifecycleAssumption
    DEF RestoreCampaignExport, SittingFollowsCampaign, NoOpenRuntime, NoOpenPlaySession,
        GoodContents, GoneIsEmpty, Exists
  <1>7. EffectsKeepReceipts'
    <2>1. ASSUME NEW j \in campaign'.done
          PROVE  receipts'[j].state \in {"committed", "retained"}
      <3>1. j \in Keys
        BY <1>1, <1>3 DEF Campaigns
      <3>2. CASE j = k
        BY <3>1, <3>2 DEF RestoreCampaignExport, ReceiptsAfterRestore
      <3>3. CASE j # k
        BY <1>2, <1>3, <3>1, <3>3
        DEF RestoreCampaignExport, ReceiptsAfterRestore, GoodContents
      <3>4. QED
        BY <3>2, <3>3
    <2>2. QED
      BY <2>1 DEF EffectsKeepReceipts, Committed
  <1>8. InvitationsSpentOnce'
    BY DEF RestoreCampaignExport, LifecycleInvariant, InvitationsSpentOnce
  <1>9. CharactersBelongToMembers'
    BY <1>2, <1>3, <1>4
    DEF RestoreCampaignExport, LifecycleInvariant, CharactersBelongToMembers, GoodContents,
        IsMember
  <1>10. AssignedAreMembers'
    <2>1. Assigning \subseteq Accounts
      BY PendingKinds DEF LifecycleTypeOK, Assigning, PendingAssignments
    <2>2. QED
      BY <1>4, <2>1
      DEF RestoreCampaignExport, LifecycleInvariant, AssignedAreMembers, Assigning
  <1>11. KeptContentsAreGood'
    BY GoodContentsStay DEF RestoreCampaignExport, LifecycleInvariant
  <1>12. QED
    BY <1>6, <1>7, <1>8, <1>9, <1>10, <1>11 DEF LifecycleInvariant

\* The campaign is created where none was, and its receipts retired.
LEMMA CreationInvariant ==
    ASSUME LifecycleTypeOK, LifecycleInvariant,
           RetireDeletedCampaignReceipts \/ CreateCampaign
    PROVE  LifecycleInvariant'
  <1> USE DEF LifecycleInvariant, RetireDeletedCampaignReceipts, CreateCampaign, historyVars
  <1>1. /\ campaign = NoCampaign /\ campaign.sitting = NoSitting
        /\ \A a \in Accounts : ~IsMember(a)
    BY DEF GoneIsEmpty, NoCampaign, IsMember
  <1>2. campaign'.sitting = NoSitting /\ campaign'.done = {}
    BY <1>1, CreatedType DEF NoCampaign
  <1>3. SittingFollowsCampaign'
    BY <1>1, <1>2, CreatedType
    DEF SittingFollowsCampaign, NoOpenRuntime, NoOpenPlaySession
  <1>4. EffectsKeepReceipts' /\ GoneIsEmpty'
    BY <1>1, <1>2, CreatedType DEF EffectsKeepReceipts, GoneIsEmpty, Exists
  <1>5. InvitationsSpentOnce' /\ CharactersBelongToMembers'
    BY <1>1 DEF InvitationsSpentOnce, CharactersBelongToMembers
  <1>6. AssignedAreMembers'
    <2>1. Assigning \subseteq Accounts
      BY PendingKinds DEF LifecycleTypeOK, Assigning, PendingAssignments
    <2>2. QED
      BY <1>1, <2>1 DEF AssignedAreMembers, Assigning
  <1>7. KeptContentsAreGood'
    BY GoodContentsStay
  <1>8. QED
    BY <1>3, <1>4, <1>5, <1>6, <1>7

-----------------------------------------------------------------------------
(* Members, invitations and characters                                     *)

\* A step that only writes the invitations, and counts them as before.
LEMMA InvitationInvariant ==
    ASSUME LifecycleInvariant, UNCHANGED <<documentVars, exports, life, overlapped>>,
           pending' \subseteq pending, InvitationsSpentOnce'
    PROVE  LifecycleInvariant'
  <1> USE DEF LifecycleInvariant, documentVars
  <1>1. SittingFollowsCampaign' /\ EffectsKeepReceipts' /\ GoneIsEmpty'
    BY DEF SittingFollowsCampaign, NoOpenRuntime, NoOpenPlaySession, EffectsKeepReceipts,
           Committed, GoneIsEmpty, Exists
  <1>2. CharactersBelongToMembers' /\ AssignedAreMembers'
    BY DEF CharactersBelongToMembers, AssignedAreMembers, Assigning, IsMember
  <1>3. KeptContentsAreGood'
    BY GoodContentsStay
  <1>4. QED
    BY <1>1, <1>2, <1>3

LEMMA MemberInvariant ==
    ASSUME LifecycleTypeOK, LifecycleInvariant, NEW t \in pending, MemberStep(t)
    PROVE  LifecycleInvariant'
  <1> USE DEF documentVars, historyVars
  <1>1. CASE CheckPreparation(t)
    <2>1. t.kind = "export" /\ t \in PendingPreparations
      BY <1>1, PendingKinds DEF CheckPreparation, LifecycleTypeOK
    <2>2. GoodContents(t.contents)
      BY <2>1 DEF LifecycleInvariant, KeptContentsAreGood
    <2>3. /\ [t EXCEPT !.kind = "prepare"].kind = "prepare"
          /\ [t EXCEPT !.kind = "prepare"].contents = t.contents
      BY <2>1 DEF PendingPreparations
    <2>4. QED
      BY <1>1, <2>2, <2>3, PendingChanges DEF CheckPreparation
  <1>2. CASE PrepareCampaignDeletion(t)
    <2>1. GoodContents(t.contents)
      BY <1>2 DEF PrepareCampaignDeletion, LifecycleInvariant, KeptContentsAreGood
    <2>2. \A c \in exports' : c \in exports \/ GoodContents(c)
      BY <1>2, <2>1 DEF PrepareCampaignDeletion
    <2>3. QED
      BY <1>2, <2>2, PendingChanges DEF PrepareCampaignDeletion
  <1>3. CASE CreateCampaignInvitation(t)
    <2>1. InvitationsSpentOnce'
      BY <1>3
      DEF CreateCampaignInvitation, LifecycleInvariant, InvitationsSpentOnce, LifecycleTypeOK,
          InvitationDocuments
    <2>2. QED
      BY <1>3, <2>1, InvitationInvariant DEF CreateCampaignInvitation
  <1>4. CASE RevokeCampaignInvitation(t)
    <2>1. InvitationsSpentOnce'
      BY <1>4
      DEF RevokeCampaignInvitation, LifecycleInvariant, InvitationsSpentOnce, LifecycleTypeOK,
          InvitationDocuments
    <2>2. QED
      BY <1>4, <2>1, InvitationInvariant DEF RevokeCampaignInvitation
  <1>5. CASE AssignCharacterToCampaign(t)
    <2>1. t.account \in Assigning /\ t.account \in Accounts
      BY <1>5, PendingKinds
      DEF AssignCharacterToCampaign, Assigning, LifecycleTypeOK, PendingAssignments
    <2>2. CharactersBelongToMembers'
      BY <1>5, <2>1
      DEF AssignCharacterToCampaign, LifecycleInvariant, CharactersBelongToMembers,
          AssignedAreMembers, IsMember, LifecycleTypeOK
    <2>3. /\ SittingFollowsCampaign' /\ EffectsKeepReceipts' /\ GoneIsEmpty'
          /\ InvitationsSpentOnce'
      BY <1>5
      DEF AssignCharacterToCampaign, LifecycleInvariant, SittingFollowsCampaign, NoOpenRuntime,
          NoOpenPlaySession, EffectsKeepReceipts, Committed, GoneIsEmpty, Exists,
          InvitationsSpentOnce
    <2>4. AssignedAreMembers' /\ KeptContentsAreGood'
      BY <1>5, GoodContentsStay
      DEF AssignCharacterToCampaign, LifecycleInvariant, AssignedAreMembers, Assigning, IsMember
    <2>5. QED
      BY <2>2, <2>3, <2>4 DEF LifecycleInvariant
  <1>6. CASE Abandon(t)
    BY <1>6, PendingChanges DEF Abandon
  <1>7. QED
    BY <1>1, <1>2, <1>3, <1>4, <1>5, <1>6 DEF MemberStep

\* Whoever accepts becomes a member: nobody else's standing changes.
LEMMA AcceptInvariant ==
    ASSUME LifecycleTypeOK, LifecycleInvariant,
           NEW i \in Invitations, AcceptCampaignInvitation(i)
    PROVE  LifecycleInvariant'
  <1> USE DEF AcceptCampaignInvitation, LifecycleInvariant
  <1>1. /\ campaign'.state = campaign.state /\ campaign'.sitting = campaign.sitting
        /\ campaign'.done = campaign.done
        /\ campaign'.members = [campaign.members EXCEPT ![invitations[i].account] = "active"]
    BY MembersType DEF LifecycleTypeOK, Memberships
  <1>2. \A a \in Accounts : IsMember(a) => IsMember(a)'
    BY <1>1 DEF IsMember, LifecycleTypeOK, Campaigns
  <1>3. SittingFollowsCampaign' /\ EffectsKeepReceipts' /\ GoneIsEmpty'
    BY <1>1
    DEF SittingFollowsCampaign, NoOpenRuntime, NoOpenPlaySession, EffectsKeepReceipts,
        Committed, GoneIsEmpty, Exists
  <1>4. InvitationsSpentOnce'
    BY DEF InvitationsSpentOnce, LifecycleTypeOK, InvitationDocuments
  <1>5. CharactersBelongToMembers'
    BY <1>2 DEF CharactersBelongToMembers
  <1>6. AssignedAreMembers'
    <2>1. Assigning \subseteq Accounts
      BY PendingKinds DEF LifecycleTypeOK, Assigning, PendingAssignments
    <2>2. QED
      BY <1>2, <2>1 DEF AssignedAreMembers, Assigning
  <1>7. KeptContentsAreGood'
    BY GoodContentsStay
  <1>8. QED
    BY <1>3, <1>4, <1>5, <1>6, <1>7

\* Whoever is removed loses the active character, or overlaps with its assignment.
LEMMA RemovalInvariant ==
    ASSUME LifecycleTypeOK, LifecycleInvariant,
           NEW b \in Accounts, RemoveCampaignMember(b)
    PROVE  LifecycleInvariant'
  <1> USE DEF RemoveCampaignMember, LifecycleInvariant
  <1>1. /\ campaign'.state = campaign.state /\ campaign'.sitting = campaign.sitting
        /\ campaign'.done = campaign.done
        /\ campaign'.members = [campaign.members EXCEPT ![b] = "removed"]
    BY MembersType DEF LifecycleTypeOK, Memberships
  <1>2. \A a \in Accounts : a # b => (IsMember(a) <=> IsMember(a)')
    BY <1>1 DEF IsMember, LifecycleTypeOK, Campaigns
  <1>3. SittingFollowsCampaign' /\ EffectsKeepReceipts' /\ GoneIsEmpty'
    BY <1>1
    DEF SittingFollowsCampaign, NoOpenRuntime, NoOpenPlaySession, EffectsKeepReceipts,
        Committed, GoneIsEmpty, Exists
  <1>4. InvitationsSpentOnce'
    BY DEF InvitationsSpentOnce
  <1>5. CharactersBelongToMembers'
    BY <1>2 DEF CharactersBelongToMembers, RetiredWith, LifecycleTypeOK
  <1>6. AssignedAreMembers'
    <2>1. Assigning \subseteq Accounts
      BY PendingKinds DEF LifecycleTypeOK, Assigning, PendingAssignments
    <2>2. QED
      BY <1>2, <2>1 DEF AssignedAreMembers, Assigning
  <1>7. KeptContentsAreGood'
    BY GoodContentsStay
  <1>8. QED
    BY <1>3, <1>4, <1>5, <1>6, <1>7

-----------------------------------------------------------------------------
(* The step, and the theorems                                              *)

LEMMA StepInvariant ==
    LifecycleTypeOK /\ LifecycleInvariant /\ [LifecycleNext]_lifecycleVars => LifecycleInvariant'
  <1> SUFFICES ASSUME LifecycleTypeOK, LifecycleInvariant, [LifecycleNext]_lifecycleVars
               PROVE  LifecycleInvariant'
    OBVIOUS
  <1> USE DEF documentVars, historyVars
  <1>1. CASE \E k \in Keys : PlayStep(k)
    BY <1>1, PlayInvariant, ArchiveInvariant, DeletionInvariant, RestorationInvariant
    DEF PlayStep
  <1>2. CASE ExportCampaign
    BY <1>2, ContentsAreGood, PendingChanges DEF ExportCampaign
  <1>3. CASE PlayEncounter
    <2>1. /\ campaign'.state = campaign.state /\ campaign'.sitting = campaign.sitting
          /\ campaign'.members = campaign.members /\ campaign'.done = campaign.done
      BY <1>3 DEF PlayEncounter, LifecycleTypeOK, Campaigns
    <2>2. campaign.sitting \in Sittings
      BY <1>3 DEF PlayEncounter, LifecycleTypeOK, Campaigns
    <2>3. campaign.state = "open"
      BY <2>2 DEF LifecycleInvariant, SittingFollowsCampaign, NoOpenRuntime, NoOpenPlaySession
    <2>4. SittingFollowsCampaign' /\ EffectsKeepReceipts' /\ GoneIsEmpty'
      BY <1>3, <2>1, <2>3
      DEF PlayEncounter, LifecycleInvariant, SittingFollowsCampaign, EffectsKeepReceipts,
          Committed, GoneIsEmpty, Exists
    <2>5. /\ InvitationsSpentOnce' /\ CharactersBelongToMembers' /\ AssignedAreMembers'
      BY <1>3, <2>1
      DEF PlayEncounter, LifecycleInvariant, InvitationsSpentOnce, CharactersBelongToMembers,
          AssignedAreMembers, Assigning, IsMember
    <2>6. KeptContentsAreGood'
      BY <1>3, GoodContentsStay DEF PlayEncounter, LifecycleInvariant
    <2>7. QED
      BY <2>4, <2>5, <2>6 DEF LifecycleInvariant
  <1>4. ASSUME NEW d \in Deletions, ExportForDeletion(d)
        PROVE  LifecycleInvariant'
    <2>1. Exists
      BY <1>4 DEF ExportForDeletion, Deletable, Exists
    <2>2. QED
      BY <1>4, <2>1, ContentsAreGood, PendingChanges DEF ExportForDeletion, Begin, Preparing
  <1>5. ASSUME NEW d \in Deletions, ExpirePreparation(d)
        PROVE  LifecycleInvariant'
    BY <1>5, PendingChanges DEF ExpirePreparation
  <1>6. ASSUME NEW i \in Invitations, NEW a \in Accounts, AuthorizeInvitation(i, a)
        PROVE  LifecycleInvariant'
    BY <1>6, PendingChanges DEF AuthorizeInvitation, Begin
  <1>7. ASSUME NEW i \in Invitations, InvitationExpires(i)
        PROVE  LifecycleInvariant'
    <2>1. InvitationsSpentOnce'
      BY <1>7
      DEF InvitationExpires, LifecycleInvariant, InvitationsSpentOnce, LifecycleTypeOK,
          InvitationDocuments
    <2>2. QED
      BY <1>7, <2>1, InvitationInvariant DEF InvitationExpires
  <1>8. ASSUME NEW i \in Invitations, AuthorizeRevocation(i)
        PROVE  LifecycleInvariant'
    BY <1>8, PendingChanges DEF AuthorizeRevocation, Begin
  <1>9. ASSUME NEW a \in Accounts, AuthorizeAssignment(a)
        PROVE  LifecycleInvariant'
    BY <1>9, PendingChanges DEF AuthorizeAssignment, Begin
  <1>10. CASE UNCHANGED lifecycleVars
    BY <1>10, PendingChanges DEF lifecycleVars
  <1>11. QED
    BY <1>1, <1>2, <1>3, <1>4, <1>5, <1>6, <1>7, <1>8, <1>9, <1>10, CreationInvariant,
       MemberInvariant, AcceptInvariant, RemovalInvariant DEF LifecycleNext

LEMMA InvariantHolds == LifecycleSpec => []LifecycleInvariant
  BY InitType, StepType, InitInvariant, StepInvariant, PTL DEF LifecycleSpec

\* The play session that is open is the campaign's, and an archived or deleted campaign has
\* neither a play session nor an encounter, whatever is exported and restored.
THEOREM SittingsFollow == LifecycleSpec => []SittingFollowsCampaign
  <1>1. LifecycleInvariant => SittingFollowsCampaign
    BY DEF LifecycleInvariant
  <1>2. QED
    BY <1>1, InvariantHolds, PTL

\* No lifecycle command is executed again after a deletion, a restoration or a creation has
\* rewritten the receipts.
THEOREM ReceiptsAreKept == LifecycleSpec => []EffectsKeepReceipts
  <1>1. LifecycleInvariant => EffectsKeepReceipts
    BY DEF LifecycleInvariant
  <1>2. QED
    BY <1>1, InvariantHolds, PTL

\* An invitation makes one member at most, however many revocations and creations are
\* pending.
THEOREM InvitationsAreSpentOnce == LifecycleSpec => []InvitationsSpentOnce
  <1>1. LifecycleInvariant => InvitationsSpentOnce
    BY DEF LifecycleInvariant
  <1>2. QED
    BY <1>1, InvariantHolds, PTL

\* Only a removal that overlaps with an assignment leaves a character behind.
THEOREM CharactersFollowMembers == LifecycleSpec => []CharactersBelongToMembers
  <1>1. LifecycleInvariant => CharactersBelongToMembers
    BY DEF LifecycleInvariant
  <1>2. QED
    BY <1>1, InvariantHolds, PTL

-----------------------------------------------------------------------------
(* Private inspiration                                                     *)

\* What is told with a source has a selection that names it; a source is registered once.
Told(t) == selections[t].made /\ SourceOf(t) \in Sources

SelectionsAreMade ==
    /\ \A r \in Requests : requests[r].phase # "idle" =>
           requests[r].turn \in Turns /\ Told(requests[r].turn)
    /\ \A t \in Turns : work[t].state # "none" => Told(t)
RegisteredOnce == \A s \in registering : sources[s] = "none"

\* The grants of a participant for a source are numbered from one, also those under way; one
\* that still may be inserted was read when none was active, and so at most one is.
VersionsAreDense ==
    \A g \in grants \cup granting : \A n \in 1 .. (g.version - 1) :
        \E h \in GrantsOf(g.source, g.participant) : h.version = n
NextFindsNoneActive ==
    \A g \in granting : Unique(g) =>
        \A h \in GrantsOf(g.source, g.participant) : h.state # "active"
OneActiveGrant ==
    \A g, h \in grants : /\ g.source = h.source /\ g.participant = h.participant
                         /\ g.state = "active" /\ h.state = "active"
                         => g = h
GrantsOfSubjects == \A g \in grants \cup granting : g.participant \in Subjects[g.source]

\* What a grant has read still holds, unless the grant was overtaken.  The source of an
\* inserted grant may have been quarantined since, but then somebody's grants are all gone.
Missing(s) == \E p \in Subjects[s] : \A h \in GrantsOf(s, p) : h.state = "active" => h.overlapped
GrantsStand ==
    /\ \A g \in granting : ~ g.overlapped =>
           /\ settings.enabled /\ participants[g.participant] = "verified"
           /\ sources[g.source] = "approved"
    /\ \A g \in grants : g.state = "active" /\ ~ g.overlapped =>
           /\ settings.enabled /\ participants[g.participant] = "verified"
           /\ sources[g.source] = "approved" \/ Missing(g.source)

\* Everyone a source is about stands by it.
Sound(s) ==
    /\ settings.enabled /\ sources[s] = "approved" /\ ~ Vetoed(s)
    /\ \A p \in Subjects[s] : /\ participants[p] = "verified"
                              /\ \E g \in GrantsOf(s, p) : g.state # "revoked"
Registers(r) == requests[r].phase = "registering" /\ ~ requests[r].overlapped
RegistrationsAreSound == \A r \in Requests : Registers(r) => Sound(SourceOf(requests[r].turn))
Counts(t) == Live(t) /\ ~ work[t].overlapped
WorkIsSound == \A t \in Turns : Counts(t) => Sound(SourceOf(t))

GrantsNumbered == VersionsAreDense /\ NextFindsNoneActive /\ OneActiveGrant /\ GrantsOfSubjects

ConsentInv ==
    /\ InspirationTypeOK /\ SelectionsAreMade /\ RegisteredOnce
    /\ GrantsNumbered /\ GrantsStand
    /\ WorkMatchesPresentation /\ RegistrationsAreSound /\ WorkIsSound

(***************************************************************************)
(* Types, by groups of variables.                                          *)
(***************************************************************************)
ControlTypes == settings \in Settings /\ disabled \in BOOLEAN /\ vetoes \subseteq Scopes
PeopleTypes ==
    /\ participants \in [Participants -> Verifications] /\ tombstones \subseteq Participants
    /\ sources \in [Sources -> ReviewStates] /\ registering \subseteq Sources
Numbered ==
    \A g, h \in grants : g.source = h.source /\ g.participant = h.participant
                           /\ g.version = h.version => g = h
ConsentTypes == grants \subseteq Grants /\ granting \subseteq Grants /\ Numbered
Works == [state : WorkStates, policy : Policies, overlapped : BOOLEAN]
Texts == [body : {"none", "private", "redacted"}, superseded : BOOLEAN]
DerivedTypes == work \in [Turns -> Works] /\ presentations \in [Turns -> Texts]
StoryTypes ==
    /\ turn \in 0 .. MaxTurn
    /\ selections \in [Turns -> [made : BOOLEAN, source : Sources \cup {NoSource},
                                 revision : 0 .. MaxSettings]]
Asked == [phase : Phases, turn : 0 .. MaxTurn, policy : Policies, overlapped : BOOLEAN]
RequestTypes == requests \in [Requests -> Asked]

LEMMA TypeGroups ==
    InspirationTypeOK <=> /\ ControlTypes /\ PeopleTypes /\ ConsentTypes
                          /\ DerivedTypes /\ StoryTypes /\ RequestTypes
  BY DEF InspirationTypeOK, ControlTypes, PeopleTypes, ConsentTypes, Numbered, DerivedTypes,
     Works, Texts, StoryTypes, Asked, RequestTypes

LEMMA TypeGroupsNext ==
    ControlTypes' /\ PeopleTypes' /\ ConsentTypes' /\ DerivedTypes' /\ StoryTypes' /\ RequestTypes'
        => InspirationTypeOK'
  BY DEF InspirationTypeOK, ControlTypes, PeopleTypes, ConsentTypes, Numbered, DerivedTypes,
     Works, Texts, StoryTypes, Asked, RequestTypes

LEMMA ControlsStay == ASSUME ControlTypes, UNCHANGED controlVars PROVE ControlTypes'
  BY DEF ControlTypes, controlVars
LEMMA PeopleStay == ASSUME PeopleTypes, UNCHANGED peopleVars PROVE PeopleTypes'
  BY DEF PeopleTypes, peopleVars
LEMMA ConsentsStay == ASSUME ConsentTypes, UNCHANGED consentVars PROVE ConsentTypes'
  BY DEF ConsentTypes, consentVars, Numbered
LEMMA DerivedStay == ASSUME DerivedTypes, UNCHANGED derivedVars PROVE DerivedTypes'
  BY DEF DerivedTypes, derivedVars
LEMMA StoryStays == ASSUME StoryTypes, UNCHANGED storyVars PROVE StoryTypes'
  BY DEF StoryTypes, storyVars
LEMMA RequestsStay == ASSUME RequestTypes, UNCHANGED requests PROVE RequestTypes'
  BY DEF RequestTypes

LEMMA IdleType == Idle \in Asked /\ AnyPolicy \in Policies
<1>1. AnyPolicy \in Policies
  BY InspirationAssumption DEF AnyPolicy
<1>2. MaxTurn \in Nat
  BY InspirationAssumption
<1>3. QED
  BY <1>1, <1>2 DEF Idle, Asked, Phases

LEMMA SelectedType ==
    ASSUME NEW t \in Turns
    PROVE  /\ [Idle EXCEPT !.phase = "selected", !.turn = t] \in Asked
           /\ [Idle EXCEPT !.phase = "selected", !.turn = t].phase = "selected"
           /\ [Idle EXCEPT !.phase = "selected", !.turn = t].turn = t
<1>1. MaxTurn \in Nat /\ t \in 0 .. MaxTurn
  BY InspirationAssumption DEF Turns
<1>2. Idle \in Asked
  BY IdleType
<1>3. QED
  BY <1>1, <1>2 DEF Asked, Phases

LEMMA InitTypes == InspirationInit => InspirationTypeOK
<1> SUFFICES ASSUME InspirationInit PROVE InspirationTypeOK
  OBVIOUS
<1>1. MaxTurn \in Nat /\ MaxSettings \in Nat
  BY InspirationAssumption
<1>2. ControlTypes /\ PeopleTypes
  <2>1. NoSettings \in Settings
    BY <1>1 DEF NoSettings, Settings
  <2>2. ControlTypes
    BY <2>1 DEF InspirationInit, ControlTypes
  <2>3. PeopleTypes
    BY DEF InspirationInit, PeopleTypes, Verifications, ReviewStates
  <2>4. QED
    BY <2>2, <2>3
<1>3. ConsentTypes
  BY DEF InspirationInit, ConsentTypes, Numbered
<1>4. DerivedTypes
  BY IdleType DEF InspirationInit, DerivedTypes, NoWork, NoText, Works, Texts, WorkStates
<1>5. StoryTypes /\ RequestTypes
  BY <1>1, IdleType DEF InspirationInit, StoryTypes, RequestTypes, NoSelection
<1>6. QED
  BY <1>2, <1>3, <1>4, <1>5, TypeGroups

\* A closed grant keeps what it is numbered by; one that is active was not touched.
Twin(g, h) ==
    g.source = h.source /\ g.participant = h.participant /\ g.version = h.version
GrantsRestated ==
    /\ \A h \in grants' : \E g \in grants : /\ Twin(g, h) /\ h.overlapped = g.overlapped
                                            /\ h.state = "active" => h = g
    /\ \A g \in grants : \E h \in grants' : Twin(g, h)
GrantingOvertaken ==
    \A h \in granting' : \E g \in granting : Twin(g, h) /\ (~ h.overlapped => h = g)

LEMMA ClosedGrants ==
    ASSUME ConsentTypes, NEW G \in SUBSET grants, NEW st \in {"revoked", "expired"},
           grants' = (grants \ G) \cup {[g EXCEPT !.state = st] : g \in G}
    PROVE  GrantsRestated /\ grants' \subseteq Grants /\ Numbered'
<1>1. ASSUME NEW g \in grants
      PROVE  /\ [g EXCEPT !.state = st] \in Grants /\ Twin(g, [g EXCEPT !.state = st])
             /\ [g EXCEPT !.state = st].overlapped = g.overlapped
             /\ [g EXCEPT !.state = st].state = st
  BY DEF ConsentTypes, Grants, ConsentStates, Twin
<1>2. \A h \in grants' : \/ h \in grants \ G
                         \/ \E g \in G : h = [g EXCEPT !.state = st]
  OBVIOUS
<1>3. ASSUME NEW h \in grants'
      PROVE  \E g \in grants : /\ Twin(g, h) /\ h.overlapped = g.overlapped
                               /\ h.state = "active" => h = g
                               /\ \/ h = g /\ g \notin G
                                  \/ h = [g EXCEPT !.state = st] /\ g \in G
  <2>1. CASE h \in grants \ G
    BY <2>1 DEF Twin
  <2>2. ASSUME NEW g \in G, h = [g EXCEPT !.state = st] 
        PROVE  \E k \in grants : /\ Twin(k, h) /\ h.overlapped = k.overlapped
                                 /\ h.state = "active" => h = k
                                 /\ \/ h = k /\ k \notin G
                                    \/ h = [k EXCEPT !.state = st] /\ k \in G
    <3>1. g \in grants
      OBVIOUS
    <3>2. h.state # "active"
      BY <1>1, <2>2, <3>1
    <3>3. QED
      BY <1>1, <2>2, <3>1, <3>2
  <2>3. QED
    BY <1>2, <2>1, <2>2
<1>4. ASSUME NEW g \in grants PROVE \E h \in grants' : Twin(g, h)
  <2>1. CASE g \in G
    BY <1>1, <2>1
  <2>2. CASE g \notin G
    BY <2>2 DEF Twin
  <2>3. QED
    BY <2>1, <2>2
<1>5. grants' \subseteq Grants
  BY <1>1, <1>2 DEF ConsentTypes
<1>6. ASSUME NEW h \in grants', NEW k \in grants', Twin(h, k) PROVE h = k
  <2>1. PICK g \in grants : /\ Twin(g, h)
                            /\ \/ h = g /\ g \notin G
                               \/ h = [g EXCEPT !.state = st] /\ g \in G
    BY <1>3
  <2>2. PICK l \in grants : /\ Twin(l, k)
                            /\ \/ k = l /\ l \notin G
                               \/ k = [l EXCEPT !.state = st] /\ l \in G
    BY <1>3
  <2>3. g = l
    BY <1>6, <2>1, <2>2 DEF ConsentTypes, Numbered, Twin
  <2>4. QED
    BY <2>1, <2>2, <2>3
<1>7. QED
  BY <1>3, <1>4, <1>5, <1>6 DEF GrantsRestated, Numbered, Twin


(***************************************************************************)
(* The numbering of grants.                                                *)
(***************************************************************************)
LEMMA NumbersStay ==
    ASSUME GrantsNumbered, GrantsRestated, GrantingOvertaken, ConsentTypes'
    PROVE  GrantsNumbered'
<1>1. \A h \in grants' \cup granting' : \E g \in grants \cup granting : Twin(g, h)
  BY DEF GrantsRestated, GrantingOvertaken
<1>2. VersionsAreDense'
  <2> SUFFICES ASSUME NEW h \in grants' \cup granting', NEW n \in 1 .. (h.version - 1)
               PROVE  \E k \in grants' : /\ k.source = h.source /\ k.participant = h.participant
                                         /\ k.version = n
    BY DEF VersionsAreDense, GrantsOf
  <2>1. PICK g \in grants \cup granting : Twin(g, h)
    BY <1>1
  <2>2. PICK l \in grants : l.source = g.source /\ l.participant = g.participant /\ l.version = n
    BY <2>1 DEF GrantsNumbered, VersionsAreDense, GrantsOf, Twin
  <2>3. PICK k \in grants' : Twin(l, k)
    BY DEF GrantsRestated
  <2>4. QED
    BY <2>1, <2>2, <2>3 DEF Twin
<1>3. NextFindsNoneActive'
  <2> SUFFICES ASSUME NEW h \in granting', Unique(h)', NEW k \in grants', k.source = h.source,
                      k.participant = h.participant, k.state = "active"
               PROVE  FALSE
    BY DEF NextFindsNoneActive, GrantsOf
  <2>1. PICK g \in granting : Twin(g, h)
    BY DEF GrantingOvertaken
  <2>2. Unique(g)
    <3> SUFFICES ASSUME NEW l \in grants, Twin(l, g) PROVE FALSE
      BY DEF Unique, GrantsOf, Twin
    <3>1. PICK m \in grants' : Twin(l, m)
      BY DEF GrantsRestated
    <3>2. QED
      BY <2>1, <3>1 DEF Unique, GrantsOf, Twin
  <2>3. k \in grants
    BY DEF GrantsRestated
  <2>4. QED
    BY <2>1, <2>2, <2>3 DEF GrantsNumbered, NextFindsNoneActive, GrantsOf, Twin
<1>4. OneActiveGrant'
  BY DEF OneActiveGrant, GrantsNumbered, GrantsRestated
<1>5. GrantsOfSubjects'
  BY <1>1 DEF GrantsOfSubjects, GrantsNumbered, Twin
<1>6. QED
  BY <1>2, <1>3, <1>4, <1>5 DEF GrantsNumbered

\* A participant's grants for a source are as many as their numbers, and so have the first ones.
LEMMA GrantsAreCounted ==
    ASSUME ConsentTypes, VersionsAreDense, NEW s \in Sources, NEW p \in Participants
    PROVE  /\ Cardinality(GrantsOf(s, p)) \in Nat
           /\ \A n \in 1 .. Cardinality(GrantsOf(s, p)) :
                  \E g \in GrantsOf(s, p) : g.version = n
<1> DEFINE S == GrantsOf(s, p)
           V == {g.version : g \in S}
           f == [g \in S |-> g.version]
<1>1. MaxGrants \in Nat /\ V \subseteq 1 .. MaxGrants
  BY InspirationAssumption DEF ConsentTypes, Grants, GrantsOf
<1>2. IsFiniteSet(V)
  <2>1. MaxGrants \in Int /\ 1 \in Int /\ V \in SUBSET (1 .. MaxGrants)
    BY <1>1
  <2>2. IsFiniteSet(1 .. MaxGrants)
    BY <2>1, FS_Interval
  <2> HIDE DEF V
  <2>3. QED
    BY <2>1, <2>2, FS_Subset
<1>3. f \in Injection(S, V) /\ f \in Surjection(S, V)
  <2>1. f \in [S -> V] /\ \A v \in V : \E g \in S : f[g] = v
    OBVIOUS
  <2>2. \A g, h \in S : f[g] = f[h] => g = h
    BY DEF ConsentTypes, Numbered, GrantsOf
  <2>3. QED
    BY <2>1, <2>2, Fun_IsInj, Fun_IsSurj
<1>4. IsFiniteSet(S) /\ Cardinality(S) = Cardinality(V)
  BY <1>2, <1>3, FS_Injection
<1>5. Cardinality(S) \in Nat /\ Cardinality(V) \in Nat
  BY <1>2, <1>4, FS_CardinalityType
<1>6. ASSUME NEW n \in 1 .. Cardinality(S), n \notin V PROVE FALSE
  <2>1. \A m \in V : m < n
    <3> SUFFICES ASSUME NEW g \in S, n <= g.version PROVE FALSE
      BY <1>1, <1>5
    <3>1. g \in grants /\ g.version \in Nat /\ g.source = s /\ g.participant = p
      BY <1>1 DEF GrantsOf
    <3>2. g.version # n
      BY <1>6
    <3>3. n \in 1 .. (g.version - 1)
      BY <3>1, <3>2, <1>5
    <3>4. \E h \in S : h.version = n
      BY <3>1, <3>3 DEF VersionsAreDense
    <3>5. QED
      BY <3>4, <1>6
  <2>2. \A m \in V : m \in Nat /\ m >= 1
    BY <1>1
  <2> HIDE DEF V
  <2>7. V \subseteq 1 .. (n - 1)
    <3> SUFFICES ASSUME NEW m \in V PROVE m \in 1 .. (n - 1)
      OBVIOUS
    <3>1. QED
      BY <2>1, <2>2, <1>5
  <2>3. n \in Int /\ n - 1 \in Int /\ n >= 1
    BY <1>5
  <2>4. IsFiniteSet(1 .. (n - 1)) /\ Cardinality(1 .. (n - 1)) = n - 1
    BY <2>3, FS_Interval
  <2>5. Cardinality(V) <= n - 1
    BY <2>7, <2>4, FS_Subset
  <2>6. QED
    BY <2>5, <1>4, <1>5
<1>7. QED
  BY <1>5, <1>6

LEMMA BegunGrantNumbered ==
    ASSUME ConsentTypes, GrantsNumbered, NEW s \in Sources, NEW p \in Participants,
           NEW policy \in GrantPolicies, BeginGrant(s, p, policy)
    PROVE  GrantsNumbered' /\ ConsentTypes'
<1> DEFINE n == Cardinality(GrantsOf(s, p)) + 1
           b == [source |-> s, participant |-> p, version |-> n,
                 policy |-> policy, state |-> "active", overlapped |-> FALSE]
<1>1. grants' = grants /\ granting' = granting \cup {b}
  BY DEF BeginGrant
<1>2. n \in 1 .. MaxGrants /\ \A m \in 1 .. (n - 1) : \E g \in GrantsOf(s, p) : g.version = m
  <2>1. Cardinality(GrantsOf(s, p)) \in Nat /\ Cardinality(GrantsOf(s, p)) < MaxGrants
        /\ \A m \in 1 .. Cardinality(GrantsOf(s, p)) : \E g \in GrantsOf(s, p) : g.version = m
    BY GrantsAreCounted DEF GrantsNumbered, BeginGrant
  <2>2. MaxGrants \in Nat /\ n - 1 = Cardinality(GrantsOf(s, p))
    BY <2>1, InspirationAssumption
  <2>3. QED
    BY <2>1, <2>2
<1>3. b \in Grants
  BY <1>2, InspirationAssumption DEF Grants, ConsentStates
<1>4. ConsentTypes'
  BY <1>1, <1>3 DEF ConsentTypes, Numbered
<1>5. p \in Subjects[s] /\ \A g \in GrantsOf(s, p) : g.state # "active"
  BY DEF BeginGrant, Grantable
<1>6. VersionsAreDense'
  BY <1>1, <1>2 DEF GrantsNumbered, VersionsAreDense, GrantsOf
<1>7. NextFindsNoneActive'
  BY <1>1, <1>5 DEF GrantsNumbered, NextFindsNoneActive, GrantsOf, Unique
<1>8. OneActiveGrant' /\ GrantsOfSubjects'
  BY <1>1, <1>5 DEF GrantsNumbered, OneActiveGrant, GrantsOfSubjects
<1>9. QED
  BY <1>4, <1>6, <1>7, <1>8 DEF GrantsNumbered

LEMMA InsertedGrantNumbered ==
    ASSUME ConsentTypes, GrantsNumbered, NEW b \in granting, InsertGrant(b)
    PROVE  GrantsNumbered' /\ ConsentTypes'
<1>1. granting' = granting \ {b} /\ b \in Grants
  BY DEF InsertGrant, ConsentTypes
<1>2. CASE ~ Unique(b)
  <2>1. grants' = grants
    BY <1>2 DEF InsertGrant
  <2>2. ConsentTypes'
    BY <1>1, <2>1 DEF ConsentTypes, Numbered
  <2>3. QED
    BY <1>1, <2>1, <2>2 DEF GrantsNumbered, VersionsAreDense, NextFindsNoneActive, OneActiveGrant,
       GrantsOfSubjects, GrantsOf, Unique
<1>3. CASE Unique(b)
  <2>1. grants' = grants \cup {b}
    BY <1>3 DEF InsertGrant
  <2>2. \A h \in GrantsOf(b.source, b.participant) : h.version # b.version /\ h.state # "active"
    BY <1>3 DEF GrantsNumbered, NextFindsNoneActive, Unique
  <2>3. ConsentTypes'
    BY <1>1, <2>1, <2>2 DEF ConsentTypes, Numbered, GrantsOf
  <2>4. VersionsAreDense'
    BY <1>1, <2>1 DEF GrantsNumbered, VersionsAreDense, GrantsOf
  <2>5. NextFindsNoneActive'
    <3> SUFFICES ASSUME NEW g \in granting, Unique(g)', NEW k \in grants \cup {b},
                        k.source = g.source, k.participant = g.participant, k.state = "active"
                 PROVE  FALSE
      BY <1>1, <2>1 DEF NextFindsNoneActive, GrantsOf
    <3>1. Unique(g) /\ ~ Twin(b, g)
      BY <2>1 DEF Unique, GrantsOf, Twin
    <3>2. k = b
      BY <3>1 DEF GrantsNumbered, NextFindsNoneActive, GrantsOf
    <3>3. g.version \in Nat /\ b.version \in Nat /\ g.version >= 1 /\ b.version >= 1
          /\ g.version # b.version
      BY <1>1, <3>1, <3>2, InspirationAssumption DEF ConsentTypes, Grants, Twin
    <3>4. CASE g.version < b.version
      <4>1. g.version \in 1 .. (b.version - 1)
        BY <3>3, <3>4
      <4>2. QED
        BY <3>1, <3>2, <4>1 DEF GrantsNumbered, VersionsAreDense, GrantsOf, Unique
    <3>5. CASE b.version < g.version
      <4>1. b.version \in 1 .. (g.version - 1)
        BY <3>3, <3>5
      <4>2. QED
        BY <2>2, <3>2, <4>1 DEF GrantsNumbered, VersionsAreDense, GrantsOf
    <3>6. QED
      BY <3>3, <3>4, <3>5
  <2>6. OneActiveGrant' /\ GrantsOfSubjects'
    BY <1>1, <2>1, <2>2 DEF GrantsNumbered, OneActiveGrant, GrantsOfSubjects, GrantsOf
  <2>7. QED
    BY <2>3, <2>4, <2>5, <2>6 DEF GrantsNumbered
<1>4. QED
  BY <1>2, <1>3


(***************************************************************************)
(* What withdrawing does to the work, its texts and the requests.          *)
(***************************************************************************)
Texted(t) == presentations[t].body # "none"
Withdrawal(S) == Withdraw(WorkOn(S)) /\ OvertakeRequests(S) /\ UNCHANGED storyVars

\* What was pending is cancelled and what is shown redacted or gone, wherever it is withdrawn.
LEMMA Withdrawn ==
    ASSUME DerivedTypes, WorkMatchesPresentation, NEW T, Withdraw(T)
    PROVE  /\ DerivedTypes' /\ WorkMatchesPresentation'
           /\ \A t \in Turns : /\ work'[t].overlapped = work[t].overlapped
                               /\ Live(t)' => Live(t) /\ t \notin T
                               /\ work'[t].state = "none" <=> work[t].state = "none"
<1>1. ASSUME NEW t \in Turns
      PROVE  /\ WithdrawnState(t) \in WorkStates /\ WithdrawnText(t) \in Texts
             /\ WithdrawnState(t) # "pending" /\ WithdrawnText(t).body # "private"
             /\ WithdrawnState(t) = "none" <=> work[t].state = "none"
             /\ WithdrawnText(t).body = "redacted" => WithdrawnState(t) = "redacted"
             /\ WithdrawnState(t) \notin Finished => WithdrawnText(t).body = "none"
  <2>1. work[t] \in Works /\ presentations[t] \in Texts
    BY DEF DerivedTypes
  <2>2. /\ presentations[t].body = "private" => work[t].state = "completed"
        /\ presentations[t].body = "redacted" => work[t].state = "redacted"
        /\ work[t].state \notin Finished => presentations[t].body = "none"
    BY DEF WorkMatchesPresentation
  <2>3. CASE work[t].state = "pending"
    BY <2>1, <2>2, <2>3 DEF WithdrawnState, WithdrawnText, Works, WorkStates, Finished, Texts
  <2>4. CASE work[t].state \in Finished
    <3>1. WithdrawnState(t) = IF work[t].policy = "redact_derived" /\ presentations[t].body # "none"
                              THEN "redacted" ELSE "deleted"
      BY <2>4 DEF WithdrawnState, Finished
    <3>2. WithdrawnText(t) = IF WithdrawnState(t) = "redacted"
                             THEN [presentations[t] EXCEPT !.body = "redacted"] ELSE NoText
      BY <2>4 DEF WithdrawnText
    <3>3. [presentations[t] EXCEPT !.body = "redacted"] \in Texts
          /\ [presentations[t] EXCEPT !.body = "redacted"].body = "redacted"
          /\ NoText \in Texts /\ NoText.body = "none"
      BY <2>1 DEF Texts, NoText
    <3>4. QED
      BY <2>4, <3>1, <3>2, <3>3 DEF WorkStates, Finished
  <2>5. CASE work[t].state \notin Finished /\ work[t].state # "pending"
    BY <2>1, <2>2, <2>5 DEF WithdrawnState, WithdrawnText, Works
  <2>6. QED
    BY <2>3, <2>4, <2>5
<1>2. ASSUME NEW t \in Turns
      PROVE  /\ work'[t] \in Works /\ presentations'[t] \in Texts
             /\ work'[t].overlapped = work[t].overlapped
             /\ t \notin T => work'[t] = work[t] /\ presentations'[t] = presentations[t]
             /\ t \in T => work'[t].state = WithdrawnState(t) /\ presentations'[t] = WithdrawnText(t)
  <2>1. work[t] \in Works /\ presentations[t] \in Texts
    BY DEF DerivedTypes
  <2>2. /\ [work[t] EXCEPT !.state = WithdrawnState(t)] \in Works
        /\ [work[t] EXCEPT !.state = WithdrawnState(t)].state = WithdrawnState(t)
        /\ [work[t] EXCEPT !.state = WithdrawnState(t)].overlapped = work[t].overlapped
    BY <1>1, <2>1 DEF Works
  <2>3. QED
    BY <1>1, <2>1, <2>2 DEF Withdraw
<1>3. DerivedTypes'
  BY <1>2 DEF Withdraw, DerivedTypes
<1>4. WorkMatchesPresentation'
  BY <1>1, <1>2 DEF WorkMatchesPresentation
<1>5. QED
  BY <1>1, <1>2, <1>3, <1>4 DEF Live

\* Registrations for the sources are marked, and nothing else changes about requests.
LEMMA Overtaken ==
    ASSUME RequestTypes, NEW S, OvertakeRequests(S)
    PROVE  /\ RequestTypes'
           /\ \A r \in Requests : /\ requests'[r].phase = requests[r].phase
                                  /\ requests'[r].turn = requests[r].turn
                                  /\ Registers(r)' => /\ Registers(r)
                                                      /\ SourceOf(requests[r].turn) \notin S
<1>1. ASSUME NEW r \in Requests
      PROVE  /\ requests[r] \in Asked
             /\ [requests[r] EXCEPT !.overlapped = TRUE] \in Asked
             /\ [requests[r] EXCEPT !.overlapped = TRUE].overlapped
             /\ [requests[r] EXCEPT !.overlapped = TRUE].phase = requests[r].phase
             /\ [requests[r] EXCEPT !.overlapped = TRUE].turn = requests[r].turn
  BY DEF RequestTypes, Asked
<1>2. QED
  BY <1>1 DEF RequestTypes, OvertakeRequests, Registers

\* Grants that are under way are marked, and nothing else changes about them.
LEMMA MarkedGrants ==
    ASSUME ConsentTypes, NEW G \in SUBSET granting, OvertakeGrants(G)
    PROVE  /\ granting' \subseteq Grants /\ GrantingOvertaken
           /\ \A h \in granting' : ~ h.overlapped => h \in granting \ G
<1>1. ASSUME NEW g \in G
      PROVE  /\ [g EXCEPT !.overlapped = TRUE] \in Grants /\ Twin(g, [g EXCEPT !.overlapped = TRUE])
             /\ [g EXCEPT !.overlapped = TRUE].overlapped
  BY DEF ConsentTypes, Grants, Twin
<1>2. ASSUME NEW h \in granting', h \notin granting \ G
      PROVE  \E g \in G : h = [g EXCEPT !.overlapped = TRUE]
  BY <1>2 DEF OvertakeGrants
<1>3. ASSUME NEW h \in granting'
      PROVE  /\ h \in Grants
             /\ \E g \in granting : Twin(g, h) /\ (~ h.overlapped => h = g)
             /\ ~ h.overlapped => h \in granting \ G
  <2>1. CASE h \in granting \ G
    BY <2>1 DEF ConsentTypes, Twin
  <2>2. CASE h \notin granting \ G
    <3>1. PICK g \in G : h = [g EXCEPT !.overlapped = TRUE]
      BY <1>2, <2>2
    <3>2. g \in granting
      OBVIOUS
    <3>3. QED
      BY <1>1, <3>1, <3>2
  <2>3. QED
    BY <2>1, <2>2
<1>4. QED
  BY <1>3 DEF GrantingOvertaken

LEMMA GrantsUntouched ==
    /\ ConsentTypes /\ UNCHANGED grants => GrantsRestated /\ grants' \subseteq Grants /\ Numbered'
    /\ ConsentTypes /\ UNCHANGED granting => GrantingOvertaken /\ granting' \subseteq Grants
  BY DEF ConsentTypes, Numbered, GrantsRestated, GrantingOvertaken, Twin


(***************************************************************************)
(* What keeps the invariant, by the kind of step.                          *)
(***************************************************************************)
\* Nothing that a grant has read is taken back.
PeopleHold ==
    /\ settings.enabled => settings'.enabled
    /\ \A p \in Participants : participants[p] = "verified" => participants'[p] = "verified"
    /\ \A s \in Sources : sources[s] = "approved" => sources'[s] = "approved"

LEMMA GrantsStillStand ==
    ASSUME ConsentTypes, ConsentTypes', GrantsStand, PeopleHold, GrantsRestated, GrantingOvertaken
    PROVE  GrantsStand'
<1>1. ASSUME NEW h \in granting', ~ h.overlapped
      PROVE  /\ settings'.enabled /\ participants'[h.participant] = "verified"
             /\ sources'[h.source] = "approved"
  <2>1. h \in granting /\ h \in Grants
    BY <1>1 DEF GrantingOvertaken, ConsentTypes
  <2>2. h.participant \in Participants /\ h.source \in Sources
    BY <2>1 DEF Grants
  <2>3. QED
    BY <1>1, <2>1, <2>2 DEF GrantsStand, PeopleHold
<1>2. ASSUME NEW h \in grants', h.state = "active", ~ h.overlapped
      PROVE  /\ settings'.enabled /\ participants'[h.participant] = "verified"
             /\ sources'[h.source] = "approved" \/ Missing(h.source)'
  <2>1. h \in grants /\ h \in Grants
    BY <1>2 DEF GrantsRestated, ConsentTypes
  <2>2. h.participant \in Participants /\ h.source \in Sources
    BY <2>1 DEF Grants
  <2>3. Missing(h.source) => Missing(h.source)'
    BY DEF Missing, GrantsOf, GrantsRestated
  <2>4. QED
    BY <1>2, <2>1, <2>2, <2>3 DEF GrantsStand, PeopleHold
<1>3. QED
  BY <1>1, <1>2 DEF GrantsStand

\* Everyone who stood by a source still does, unless the source is one of S.
Spares(S) == \A s \in Sources : s \notin S /\ Sound(s) => Sound(s)'
StillCounts(S) ==
    \A t \in Turns : Counts(t)' =>
        Counts(t) /\ SourceOf(t)' = SourceOf(t) /\ SourceOf(t) \notin S
StillRegisters(S) ==
    \A r \in Requests : Registers(r)' =>
        /\ Registers(r) /\ requests'[r].turn = requests[r].turn
        /\ SourceOf(requests[r].turn)' = SourceOf(requests[r].turn)
        /\ SourceOf(requests[r].turn) \notin S

\* Work that counts has been selected for, and so have requests that register.
LEMMA CountedIsTold ==
    ASSUME SelectionsAreMade, WorkMatchesPresentation
    PROVE  /\ \A t \in Turns : Live(t) => Told(t)
           /\ \A r \in Requests : Registers(r) =>
                  requests[r].turn \in Turns /\ Told(requests[r].turn)
  BY DEF SelectionsAreMade, WorkMatchesPresentation, Live, Registers

LEMMA SoundnessStays ==
    ASSUME SelectionsAreMade, WorkMatchesPresentation, RegistrationsAreSound, WorkIsSound,
           NEW S, Spares(S), StillCounts(S), StillRegisters(S)
    PROVE  RegistrationsAreSound' /\ WorkIsSound'
<1>1. ASSUME NEW t \in Turns, Counts(t)' PROVE Sound(SourceOf(t))'
  <2>1. PICK s \in Sources : s = SourceOf(t)
    BY <1>1, CountedIsTold DEF StillCounts, Counts, Told
  <2>2. Sound(s)'
    BY <1>1, <2>1 DEF StillCounts, WorkIsSound, Spares
  <2>3. SourceOf(t)' = s
    BY <1>1, <2>1 DEF StillCounts
  <2>4. QED
    BY <2>2, <2>3
<1>2. ASSUME NEW r \in Requests, Registers(r)' PROVE Sound(SourceOf(requests[r].turn))'
  <2>1. PICK s \in Sources : s = SourceOf(requests[r].turn)
    BY <1>2, CountedIsTold DEF StillRegisters, Told
  <2>2. Sound(s)'
    BY <1>2, <2>1 DEF StillRegisters, RegistrationsAreSound, Spares
  <2>3. SourceOf(requests[r].turn)' = s
    BY <1>2, <2>1 DEF StillRegisters
  <2>4. QED
    BY <2>2, <2>3
<1>3. QED
  BY <1>1, <1>2 DEF RegistrationsAreSound, WorkIsSound

\* A withdrawal reaches the sources S; whoever stood by another source still does.
LEMMA WithdrawalStep ==
    ASSUME ConsentInv, NEW S \in SUBSET Sources, Withdrawal(S), Spares(S),
           ControlTypes', PeopleTypes', RegisteredOnce', ConsentTypes', GrantsNumbered', GrantsStand'
    PROVE  ConsentInv'
<1>1. /\ DerivedTypes' /\ WorkMatchesPresentation'
      /\ \A t \in Turns : /\ work'[t].overlapped = work[t].overlapped
                          /\ Live(t)' => Live(t) /\ t \notin WorkOn(S)
                          /\ work'[t].state = "none" <=> work[t].state = "none"
  BY Withdrawn, TypeGroups DEF Withdrawal, ConsentInv
<1>2. /\ RequestTypes'
      /\ \A r \in Requests : /\ requests'[r].phase = requests[r].phase
                             /\ requests'[r].turn = requests[r].turn
                             /\ Registers(r)' => /\ Registers(r)
                                                 /\ SourceOf(requests[r].turn) \notin S
  BY Overtaken, TypeGroups DEF Withdrawal, ConsentInv
<1>3. StoryTypes' /\ selections' = selections
  BY StoryStays, TypeGroups DEF Withdrawal, ConsentInv, storyVars
<1>4. SelectionsAreMade'
  BY <1>1, <1>2, <1>3 DEF SelectionsAreMade, ConsentInv, Told, SourceOf
<1>5. StillCounts(S)
  <2> SUFFICES ASSUME NEW t \in Turns, Counts(t)'
               PROVE  Counts(t) /\ SourceOf(t)' = SourceOf(t) /\ SourceOf(t) \notin S
    BY DEF StillCounts
  <2>1. Counts(t) /\ t \notin WorkOn(S)
    BY <1>1 DEF Counts
  <2>2. work[t].state # "none"
    BY <2>1 DEF ConsentInv, WorkMatchesPresentation, Counts, Live
  <2>3. QED
    BY <1>3, <2>1, <2>2 DEF WorkOn, SourceOf
<1>6. StillRegisters(S)
  BY <1>2, <1>3 DEF StillRegisters, SourceOf
<1>7. RegistrationsAreSound' /\ WorkIsSound'
  BY <1>5, <1>6, SoundnessStays DEF ConsentInv
<1>8. QED
  BY <1>1, <1>2, <1>3, <1>4, <1>7, TypeGroupsNext DEF ConsentInv

\* A step that takes nothing back, gives no consent and tells nothing.
LEMMA HarmlessStep ==
    ASSUME ConsentInv, PeopleHold, UNCHANGED <<vetoes, consentVars, storyVars, requests>>,
           ControlTypes', PeopleTypes', RegisteredOnce', DerivedTypes', WorkMatchesPresentation',
           \A t \in Turns : /\ Counts(t)' => Counts(t)
                            /\ work'[t].state = "none" <=> work[t].state = "none"
    PROVE  ConsentInv'
<1>1. ConsentTypes /\ ConsentTypes' /\ StoryTypes' /\ RequestTypes'
  BY ConsentsStay, StoryStays, RequestsStay, TypeGroups DEF ConsentInv
<1>2. SelectionsAreMade'
  BY DEF SelectionsAreMade, ConsentInv, Told, SourceOf, storyVars
<1>3. GrantsRestated /\ GrantingOvertaken
  BY <1>1, GrantsUntouched DEF consentVars
<1>4. GrantsNumbered' /\ GrantsStand'
  BY <1>1, <1>3, NumbersStay, GrantsStillStand DEF ConsentInv
<1>5. Spares({})
  <2> SUFFICES ASSUME NEW s \in Sources, Sound(s) PROVE Sound(s)'
    BY DEF Spares
  <2>1. \A p \in Subjects[s] : p \in Participants
    BY InspirationAssumption
  <2>2. QED
    BY <2>1 DEF Sound, PeopleHold, Vetoed, Covered, GrantsOf, consentVars
<1>6. StillCounts({}) /\ StillRegisters({})
  BY DEF StillCounts, StillRegisters, Registers, SourceOf, storyVars
<1>7. RegistrationsAreSound' /\ WorkIsSound'
  BY <1>5, <1>6, SoundnessStays DEF ConsentInv
<1>8. QED
  BY <1>1, <1>2, <1>4, <1>7, TypeGroupsNext DEF ConsentInv

\* A step that touches grants only.
LEMMA GrantStep ==
    ASSUME ConsentInv, UNCHANGED <<controlVars, peopleVars, derivedVars, storyVars, requests>>,
           ConsentTypes', GrantsNumbered', GrantsStand',
           \A g \in grants : \E h \in grants' : /\ Twin(g, h)
                                                /\ g.state # "revoked" => h.state # "revoked"
    PROVE  ConsentInv'
<1>1. ControlTypes' /\ PeopleTypes' /\ DerivedTypes' /\ StoryTypes' /\ RequestTypes'
  BY ControlsStay, PeopleStay, DerivedStay, StoryStays, RequestsStay, TypeGroups DEF ConsentInv
<1>2. SelectionsAreMade' /\ RegisteredOnce' /\ WorkMatchesPresentation'
  BY DEF SelectionsAreMade, RegisteredOnce, WorkMatchesPresentation, ConsentInv, Told, SourceOf,
     storyVars, peopleVars, derivedVars
<1>3. Spares({})
  <2> SUFFICES ASSUME NEW s \in Sources, Sound(s) PROVE Sound(s)'
    BY DEF Spares
  <2>1. ASSUME NEW p \in Subjects[s] PROVE \E h \in GrantsOf(s, p)' : h.state # "revoked"
    <3>1. PICK g \in grants : g.source = s /\ g.participant = p /\ g.state # "revoked"
      BY DEF Sound, GrantsOf
    <3>2. PICK h \in grants' : Twin(g, h) /\ h.state # "revoked"
      BY <3>1
    <3>3. QED
      BY <3>1, <3>2 DEF GrantsOf, Twin
  <2>2. QED
    BY <2>1 DEF Sound, Vetoed, Covered, controlVars, peopleVars
<1>4. StillCounts({}) /\ StillRegisters({})
  BY DEF StillCounts, StillRegisters, Registers, Counts, Live, SourceOf, storyVars, derivedVars
<1>5. RegistrationsAreSound' /\ WorkIsSound'
  BY <1>3, <1>4, SoundnessStays DEF ConsentInv
<1>6. QED
  BY <1>1, <1>2, <1>5, TypeGroupsNext DEF ConsentInv

\* A step of a narration.
LEMMA NarrationKeeps ==
    ASSUME ConsentInv, UNCHANGED <<controlVars, peopleVars, consentVars>>
    PROVE  /\ ControlTypes' /\ PeopleTypes' /\ ConsentTypes' /\ RegisteredOnce'
           /\ GrantsNumbered' /\ GrantsStand' /\ \A s \in Sources : Sound(s)' <=> Sound(s)
<1>1. ControlTypes' /\ PeopleTypes' /\ ConsentTypes' /\ ConsentTypes
  BY ControlsStay, PeopleStay, ConsentsStay, TypeGroups DEF ConsentInv
<1>2. GrantsRestated /\ GrantingOvertaken /\ PeopleHold
  BY <1>1, GrantsUntouched DEF consentVars, PeopleHold, peopleVars, controlVars
<1>3. GrantsNumbered' /\ GrantsStand'
  BY <1>1, <1>2, NumbersStay, GrantsStillStand DEF ConsentInv
<1>4. RegisteredOnce'
  BY DEF RegisteredOnce, ConsentInv, peopleVars
<1>5. \A s \in Sources : Sound(s)' <=> Sound(s)
  BY DEF Sound, Vetoed, Covered, GrantsOf, controlVars, peopleVars, consentVars
<1>6. QED
  BY <1>1, <1>3, <1>4, <1>5


LEMMA QuietStep ==
    ASSUME ConsentInv, PeopleHold, UNCHANGED <<vetoes, consentVars, derivedVars, storyVars, requests>>,
           ControlTypes', PeopleTypes', RegisteredOnce'
    PROVE  ConsentInv'
<1>1. DerivedTypes' /\ WorkMatchesPresentation'
  BY DerivedStay, TypeGroups DEF ConsentInv, WorkMatchesPresentation, derivedVars
<1>2. \A t \in Turns : /\ Counts(t)' => Counts(t)
                       /\ work'[t].state = "none" <=> work[t].state = "none"
  BY DEF Counts, Live, derivedVars
<1>3. QED
  BY <1>1, <1>2, HarmlessStep

----------------------------------------------------------------------------
(* What an operator does. *)

LEMMA VerificationKeeps ==
    ASSUME ConsentInv, NEW p \in Participants, VerifyParticipant(p) \/ ForgetDeletion(p)
    PROVE  ConsentInv'
<1>1. ControlTypes /\ PeopleTypes
  BY TypeGroups DEF ConsentInv
<1>2. /\ UNCHANGED <<vetoes, consentVars, derivedVars, storyVars, requests>>
      /\ UNCHANGED <<controlVars, sources, registering>>
      /\ participants' \in [Participants -> Verifications] /\ tombstones' \subseteq Participants
      /\ \A q \in Participants : participants[q] = "verified" => participants'[q] = "verified"
  BY <1>1 DEF VerifyParticipant, ForgetDeletion, controlVars, PeopleTypes, Verifications
<1>3. PeopleHold /\ ControlTypes' /\ PeopleTypes' /\ RegisteredOnce'
  BY <1>1, <1>2, ControlsStay
     DEF PeopleHold, PeopleTypes, RegisteredOnce, ConsentInv, controlVars
<1>4. QED
  BY <1>2, <1>3, QuietStep

LEMMA SourcesKeep ==
    ASSUME ConsentInv, NEW s \in Sources,
           \/ BeginSource(s) \/ InsertSource(s)
           \/ \E d \in {"approved", "rejected", "quarantined"} : ReviewSource(s, d)
    PROVE  ConsentInv'
<1>1. ControlTypes /\ PeopleTypes /\ RegisteredOnce
  BY TypeGroups DEF ConsentInv
<1>2. /\ UNCHANGED <<vetoes, consentVars, derivedVars, storyVars, requests>>
      /\ UNCHANGED <<controlVars, participants, tombstones>>
  BY DEF BeginSource, InsertSource, ReviewSource, controlVars
<1>4. /\ sources' \in [Sources -> ReviewStates] /\ registering' \subseteq Sources
      /\ RegisteredOnce'
      /\ \A q \in Sources : sources[q] = "approved" => sources'[q] = "approved"
  <2>1. CASE BeginSource(s)
    BY <1>1, <2>1 DEF BeginSource, PeopleTypes, RegisteredOnce
  <2>2. CASE InsertSource(s)
    BY <1>1, <2>2 DEF InsertSource, PeopleTypes, RegisteredOnce, ReviewStates
  <2>3. ASSUME NEW d \in {"approved", "rejected", "quarantined"}, ReviewSource(s, d)
        PROVE  /\ sources' \in [Sources -> ReviewStates] /\ registering' \subseteq Sources
               /\ RegisteredOnce'
               /\ \A q \in Sources : sources[q] = "approved" => sources'[q] = "approved"
    BY <1>1, <2>3 DEF ReviewSource, PeopleTypes, RegisteredOnce, ReviewStates
  <2>4. QED
    BY <2>1, <2>2, <2>3
<1>5. PeopleHold /\ ControlTypes' /\ PeopleTypes'
  BY <1>1, <1>2, <1>4, ControlsStay DEF PeopleHold, PeopleTypes, controlVars
<1>6. QED
  BY <1>2, <1>4, <1>5, QuietStep

\* Where somebody's active grants were all overtaken, they still are.
LEMMA MissingStays ==
    ASSUME GrantsRestated, NEW s, Missing(s) PROVE Missing(s)'
  BY DEF Missing, GrantsOf, GrantsRestated

LEMMA DeletionKeeps ==
    ASSUME ConsentInv, NEW p \in Participants, DeleteParticipant(p)
    PROVE  ConsentInv'
<1> DEFINE S == {s \in Sources : sources[s] # "none" /\ p \in Subjects[s]}
           G == {g \in grants : g.participant = p}
           H == {g \in granting : g.participant = p \/ g.source \in S}
<1>1. ControlTypes /\ PeopleTypes /\ ConsentTypes /\ RegisteredOnce /\ GrantsStand /\ GrantsNumbered
  BY TypeGroups DEF ConsentInv
<1>2. /\ participants' = [participants EXCEPT ![p] = "revoked"]
      /\ tombstones' = tombstones \cup {p}
      /\ grants' = (grants \ G) \cup {[g EXCEPT !.state = "revoked"] : g \in G}
      /\ sources' = [s \in Sources |-> IF s \in S THEN "quarantined" ELSE sources[s]]
      /\ Withdrawal(S) /\ OvertakeGrants(H)
      /\ UNCHANGED <<controlVars, registering>>
  BY DEF DeleteParticipant, RevokedAmong, Withdrawal
<1>3. ControlTypes' /\ PeopleTypes' /\ RegisteredOnce'
  <2>1. ControlTypes'
    BY <1>1, <1>2, ControlsStay
  <2>2. participants' \in [Participants -> Verifications] /\ tombstones' \subseteq Participants
    BY <1>1, <1>2 DEF PeopleTypes, Verifications
  <2>3. sources' \in [Sources -> ReviewStates] /\ registering' \subseteq Sources
    BY <1>1, <1>2 DEF PeopleTypes, ReviewStates
  <2>4. RegisteredOnce'
    BY <1>1, <1>2 DEF PeopleTypes, RegisteredOnce
  <2>5. QED
    BY <2>1, <2>2, <2>3, <2>4 DEF PeopleTypes
<1>4. GrantsRestated /\ grants' \subseteq Grants /\ Numbered'
  BY <1>1, <1>2, ClosedGrants
<1>5. /\ granting' \subseteq Grants /\ GrantingOvertaken
      /\ \A h \in granting' : ~ h.overlapped => h \in granting \ H
  BY <1>1, <1>2, MarkedGrants
<1>6. ConsentTypes' /\ GrantsNumbered'
  BY <1>1, <1>4, <1>5, NumbersStay DEF ConsentTypes
<1>7. \A h \in grants' : h.participant = p => h.state = "revoked"
  BY <1>1, <1>2 DEF ConsentTypes, Grants
<1>8. \A h \in Grants : h.participant \in Participants /\ h.source \in Sources
  BY DEF Grants
<1>9. GrantsStand'
  <2>1. ASSUME NEW h \in granting', ~ h.overlapped
        PROVE  /\ settings'.enabled /\ participants'[h.participant] = "verified"
               /\ sources'[h.source] = "approved"
    <3>1. h \in granting /\ h.participant # p /\ h.source \notin S /\ h \in Grants
      BY <1>5, <2>1
    <3>2. /\ settings.enabled /\ participants[h.participant] = "verified"
          /\ sources[h.source] = "approved"
      BY <1>1, <2>1, <3>1 DEF GrantsStand
    <3>3. QED
      BY <1>1, <1>2, <1>8, <3>1, <3>2 DEF PeopleTypes, controlVars
  <2>2. ASSUME NEW h \in grants', h.state = "active", ~ h.overlapped
        PROVE  /\ settings'.enabled /\ participants'[h.participant] = "verified"
               /\ sources'[h.source] = "approved" \/ Missing(h.source)'
    <3>1. h \in grants /\ h.participant # p /\ h \in Grants
      BY <1>4, <1>7, <2>2 DEF GrantsRestated
    <3>2. /\ settings.enabled /\ participants[h.participant] = "verified"
          /\ sources[h.source] = "approved" \/ Missing(h.source)
      BY <1>1, <2>2, <3>1 DEF GrantsStand
    <3>3. settings'.enabled /\ participants'[h.participant] = "verified"
      BY <1>1, <1>2, <1>8, <3>1, <3>2 DEF PeopleTypes, controlVars
    <3>4. CASE h.source \in S
      BY <1>7, <3>3, <3>4 DEF Missing, GrantsOf
    <3>5. CASE h.source \notin S
      BY <1>2, <1>4, <1>8, <3>1, <3>2, <3>3, <3>5, MissingStays
    <3>6. QED
      BY <3>4, <3>5
  <2>3. QED
    BY <2>1, <2>2 DEF GrantsStand
<1>10. Spares(S)
  <2> SUFFICES ASSUME NEW s \in Sources, s \notin S, Sound(s) PROVE Sound(s)'
    BY DEF Spares
  <2>1. p \notin Subjects[s] /\ Subjects[s] \subseteq Participants
    BY InspirationAssumption DEF Sound
  <2>2. ASSUME NEW q \in Subjects[s]
        PROVE  participants'[q] = "verified" /\ \E g \in GrantsOf(s, q)' : g.state # "revoked"
    BY <1>1, <1>2, <2>1, <2>2 DEF Sound, GrantsOf, PeopleTypes
  <2>3. QED
    BY <1>2, <2>2 DEF Sound, Vetoed, Covered, controlVars
<1>11. QED
  BY <1>2, <1>3, <1>6, <1>9, <1>10, WithdrawalStep

----------------------------------------------------------------------------
(* The settings and the switch. *)

LEMMA EverythingRevoked ==
    ASSUME ConsentInv, RevokeEverything, UNCHANGED <<peopleVars, storyVars>>, ControlTypes'
    PROVE  ConsentInv'
<1> DEFINE G == {g \in grants : g.state = "active"}
<1>1. PeopleTypes /\ ConsentTypes /\ GrantsNumbered
  BY TypeGroups DEF ConsentInv
<1>2. /\ grants' = (grants \ G) \cup {[g EXCEPT !.state = "revoked"] : g \in G}
      /\ Withdrawal(Sources) /\ OvertakeGrants(granting)
  BY DEF RevokeEverything, RevokedAmong, Withdrawal
<1>3. GrantsRestated /\ grants' \subseteq Grants /\ Numbered'
  BY <1>1, <1>2, ClosedGrants
<1>4. /\ granting' \subseteq Grants /\ GrantingOvertaken
      /\ \A h \in granting' : h.overlapped
  BY <1>1, <1>2, MarkedGrants
<1>5. ConsentTypes' /\ GrantsNumbered'
  BY <1>1, <1>3, <1>4, NumbersStay DEF ConsentTypes
<1>6. \A h \in grants' : h.state # "active"
  BY <1>1, <1>2 DEF ConsentTypes, Grants
<1>7. GrantsStand' /\ Spares(Sources)
  BY <1>4, <1>6 DEF GrantsStand, Spares
<1>8. PeopleTypes' /\ RegisteredOnce'
  BY <1>1, PeopleStay DEF RegisteredOnce, ConsentInv, peopleVars
<1>9. QED
  BY <1>2, <1>5, <1>7, <1>8, WithdrawalStep

LEMMA ChangedTypes ==
    ASSUME ControlTypes, UNCHANGED <<disabled, vetoes>>, NEW e \in BOOLEAN, NEW u \in BOOLEAN,
           NEW c \in BOOLEAN, Changed(e, u, c)
    PROVE  ControlTypes' /\ settings'.enabled = e
<1>1. settings.revision \in Nat /\ MaxSettings \in Nat
  BY InspirationAssumption DEF ControlTypes, Settings
<1>2. settings' \in Settings /\ settings'.enabled = e
  BY <1>1 DEF Changed, Settings
<1>3. QED
  BY <1>2 DEF ControlTypes

LEMMA SettingsKeep ==
    ASSUME ConsentInv,
           \/ \E e, c \in BOOLEAN : ConfigureCampaign(e, c)
           \/ \E b \in BOOLEAN : SetCampaignPause(b)
           \/ DisableCampaign
    PROVE  ConsentInv'
<1>1. /\ ControlTypes /\ PeopleTypes /\ RegisteredOnce
      /\ settings.enabled \in BOOLEAN /\ settings.complete \in BOOLEAN
  BY TypeGroups DEF ConsentInv, ControlTypes, Settings
<1>2. ASSUME NEW e \in BOOLEAN, NEW c \in BOOLEAN, ConfigureCampaign(e, c) PROVE ConsentInv'
  <2>1. /\ ControlTypes' /\ settings'.enabled = e
        /\ UNCHANGED <<vetoes, peopleVars, storyVars>>
    BY <1>1, <1>2, ChangedTypes DEF ConfigureCampaign
  <2>2. CASE e
    <3>1. UNCHANGED <<vetoes, consentVars, derivedVars, storyVars, requests>>
      BY <1>2, <2>2 DEF ConfigureCampaign
    <3>2. PeopleHold /\ PeopleTypes' /\ RegisteredOnce'
      BY <1>1, <2>1, <2>2, PeopleStay DEF PeopleHold, RegisteredOnce, peopleVars
    <3>3. QED
      BY <2>1, <3>1, <3>2, QuietStep
  <2>3. CASE ~ e
    <3>1. RevokeEverything
      BY <1>2, <2>3 DEF ConfigureCampaign
    <3>2. QED
      BY <2>1, <3>1, EverythingRevoked
  <2>4. QED
    BY <2>2, <2>3
<1>3. ASSUME NEW b \in BOOLEAN, SetCampaignPause(b) PROVE ConsentInv'
  <2>1. /\ ControlTypes' /\ settings'.enabled = settings.enabled
        /\ UNCHANGED <<vetoes, peopleVars, consentVars, derivedVars, storyVars, requests>>
    BY <1>1, <1>3, ChangedTypes DEF SetCampaignPause
  <2>2. PeopleHold /\ PeopleTypes' /\ RegisteredOnce'
    BY <1>1, <2>1, PeopleStay DEF PeopleHold, RegisteredOnce, peopleVars
  <2>3. QED
    BY <2>1, <2>2, QuietStep
<1>4. CASE DisableCampaign
  <2>1. /\ ControlTypes' /\ UNCHANGED <<peopleVars, storyVars>> /\ RevokeEverything
    BY <1>1, <1>4, ChangedTypes DEF DisableCampaign
  <2>2. QED
    BY <2>1, EverythingRevoked
<1>5. QED
  BY <1>2, <1>3, <1>4

LEMMA SwitchKeeps ==
    ASSUME ConsentInv, NEW on \in BOOLEAN, SetGlobalControl(on)
    PROVE  ConsentInv'
<1>1. ControlTypes /\ PeopleTypes /\ RegisteredOnce /\ DerivedTypes /\ WorkMatchesPresentation
  BY TypeGroups DEF ConsentInv
<1>2. /\ UNCHANGED <<settings, vetoes, peopleVars, consentVars, storyVars, requests>>
      /\ disabled' = on
  BY DEF SetGlobalControl
<1>3. PeopleHold /\ ControlTypes' /\ PeopleTypes' /\ RegisteredOnce'
  BY <1>1, <1>2, PeopleStay DEF PeopleHold, ControlTypes, RegisteredOnce, peopleVars
<1>4. CASE UNCHANGED derivedVars
  BY <1>2, <1>3, <1>4, QuietStep
<1>5. CASE on
  <2>1. ASSUME NEW t \in Turns
        PROVE  /\ work'[t] \in Works /\ presentations'[t] \in Texts
               /\ work'[t].overlapped = work[t].overlapped
               /\ work'[t].state # "pending" /\ presentations'[t].body # "private"
               /\ work'[t].state = "none" <=> work[t].state = "none"
               /\ presentations'[t].body = "redacted" => work'[t].state = "redacted"
               /\ work'[t].state \notin Finished => presentations'[t].body = "none"
    <3>1. work[t] \in Works /\ presentations[t] \in Texts
      BY <1>1 DEF DerivedTypes
    <3>2. /\ work'[t] = [work[t] EXCEPT !.state = Quarantined(t)]
          /\ presentations'[t] = IF work[t].state \in Finished /\ presentations[t].body # "none"
                                 THEN [presentations[t] EXCEPT !.body = "redacted"]
                                 ELSE presentations[t]
      BY <1>5 DEF SetGlobalControl
    <3>3. /\ presentations[t].body = "private" => work[t].state = "completed"
          /\ presentations[t].body = "redacted" => work[t].state = "redacted"
          /\ work[t].state \notin Finished => presentations[t].body = "none"
      BY <1>1 DEF WorkMatchesPresentation
    <3>4. CASE work[t].state = "pending"
      BY <3>1, <3>2, <3>3, <3>4 DEF Quarantined, Works, WorkStates, Finished
    <3>5. CASE work[t].state \in Finished /\ presentations[t].body # "none"
      BY <3>1, <3>2, <3>3, <3>5 DEF Quarantined, Works, WorkStates, Finished, Texts
    <3>6. CASE work[t].state # "pending" /\ ~(work[t].state \in Finished /\ presentations[t].body # "none")
      BY <3>1, <3>2, <3>3, <3>6 DEF Quarantined, Works, WorkStates, Finished
    <3>7. QED
      BY <3>4, <3>5, <3>6
  <2>2. DerivedTypes'
    BY <1>5, <2>1 DEF SetGlobalControl, DerivedTypes
  <2>3. WorkMatchesPresentation'
    BY <2>1 DEF WorkMatchesPresentation
  <2>4. QED
    BY <1>2, <1>3, <2>1, <2>2, <2>3, HarmlessStep DEF Counts, Live
<1>6. QED
  BY <1>4, <1>5 DEF SetGlobalControl


----------------------------------------------------------------------------
(* What participants and the owner do. *)

LEMMA ConsentKeeps ==
    ASSUME ConsentInv, NEW g \in grants, RevokeConsent(g)
    PROVE  ConsentInv'
<1>1. /\ ControlTypes /\ PeopleTypes /\ ConsentTypes /\ GrantsNumbered /\ GrantsStand
      /\ g.source \in Sources
  BY TypeGroups DEF ConsentInv, ConsentTypes, Grants
<1>2. /\ grants' = (grants \ {g}) \cup {[h EXCEPT !.state = "revoked"] : h \in {g}}
      /\ Withdrawal({g.source})
      /\ UNCHANGED <<controlVars, peopleVars, granting>>
  BY DEF RevokeConsent, RevokedAmong, Withdrawal
<1>3. GrantsRestated /\ grants' \subseteq Grants /\ Numbered'
  BY <1>1, <1>2, ClosedGrants
<1>4. GrantingOvertaken /\ granting' \subseteq Grants
  BY <1>1, <1>2, GrantsUntouched
<1>5. ConsentTypes' /\ GrantsNumbered'
  BY <1>1, <1>3, <1>4, NumbersStay DEF ConsentTypes
<1>6. PeopleHold /\ ControlTypes' /\ PeopleTypes' /\ RegisteredOnce'
  BY <1>1, <1>2, ControlsStay, PeopleStay
     DEF PeopleHold, RegisteredOnce, ConsentInv, controlVars, peopleVars
<1>7. GrantsStand'
  BY <1>1, <1>3, <1>4, <1>5, <1>6, GrantsStillStand
<1>8. Spares({g.source})
  <2> SUFFICES ASSUME NEW s \in Sources, s # g.source, Sound(s) PROVE Sound(s)'
    BY DEF Spares
  <2>1. \A h \in grants : h.source = s => h \in grants'
    BY <1>2
  <2>2. QED
    BY <1>2, <2>1 DEF Sound, Vetoed, Covered, GrantsOf, controlVars, peopleVars
<1>9. QED
  BY <1>1, <1>2, <1>5, <1>6, <1>7, <1>8, WithdrawalStep

LEMMA VetoKeeps ==
    ASSUME ConsentInv, NEW scope \in Scopes, ApplyScope(scope)
    PROVE  ConsentInv'
<1>1. ControlTypes /\ PeopleTypes /\ ConsentTypes /\ GrantsNumbered /\ GrantsStand
  BY TypeGroups DEF ConsentInv
<1>2. /\ vetoes' = vetoes \cup {scope} /\ Withdrawal(Covered(scope))
      /\ UNCHANGED <<settings, disabled, peopleVars, consentVars>>
  BY DEF ApplyScope, Withdrawal
<1>3. ControlTypes' /\ PeopleTypes' /\ ConsentTypes' /\ RegisteredOnce' /\ PeopleHold
  BY <1>1, <1>2, PeopleStay, ConsentsStay
     DEF ControlTypes, PeopleHold, RegisteredOnce, ConsentInv, peopleVars
<1>4. GrantsRestated /\ GrantingOvertaken
  BY <1>1, <1>2, GrantsUntouched DEF consentVars
<1>5. GrantsNumbered' /\ GrantsStand'
  BY <1>1, <1>3, <1>4, NumbersStay, GrantsStillStand
<1>6. Covered(scope) \in SUBSET Sources
  BY DEF Covered
<1>7. Spares(Covered(scope))
  <2> SUFFICES ASSUME NEW s \in Sources, s \notin Covered(scope), Sound(s) PROVE Sound(s)'
    BY DEF Spares
  <2>1. ~ Vetoed(s)'
    BY <1>2 DEF Sound, Vetoed, Covered
  <2>2. QED
    BY <1>2, <2>1 DEF Sound, GrantsOf, peopleVars, consentVars
<1>8. QED
  BY <1>2, <1>3, <1>5, <1>6, <1>7, WithdrawalStep

LEMMA ExpiryKeeps ==
    ASSUME ConsentInv, NEW g \in grants, ExpireGrant(g)
    PROVE  ConsentInv'
<1>1. ConsentTypes /\ GrantsNumbered /\ GrantsStand
  BY TypeGroups DEF ConsentInv
<1>2. /\ grants' = (grants \ {g}) \cup {[h EXCEPT !.state = "expired"] : h \in {g}}
      /\ UNCHANGED <<controlVars, peopleVars, granting, derivedVars, storyVars, requests>>
  BY DEF ExpireGrant
<1>3. GrantsRestated /\ grants' \subseteq Grants /\ Numbered'
  BY <1>1, <1>2, ClosedGrants
<1>4. GrantingOvertaken /\ granting' \subseteq Grants
  BY <1>1, <1>2, GrantsUntouched
<1>5. ConsentTypes' /\ GrantsNumbered'
  BY <1>1, <1>3, <1>4, NumbersStay DEF ConsentTypes
<1>6. PeopleHold
  BY <1>2 DEF PeopleHold, controlVars, peopleVars
<1>7. GrantsStand'
  BY <1>1, <1>3, <1>4, <1>5, <1>6, GrantsStillStand
<1>8. ASSUME NEW k \in grants
      PROVE  \E h \in grants' : Twin(k, h) /\ (k.state # "revoked" => h.state # "revoked")
  <2>1. CASE k = g
    <3>1. [g EXCEPT !.state = "expired"] \in grants'
      BY <1>2
    <3>2. Twin(g, [g EXCEPT !.state = "expired"]) /\ [g EXCEPT !.state = "expired"].state # "revoked"
      BY <1>1 DEF ConsentTypes, Grants, Twin
    <3>3. QED
      BY <2>1, <3>1, <3>2
  <2>2. CASE k # g
    BY <1>2, <2>2 DEF Twin
  <2>3. QED
    BY <2>1, <2>2
<1>9. QED
  BY <1>2, <1>5, <1>7, <1>8, GrantStep

LEMMA BegunGrantKeeps ==
    ASSUME ConsentInv, NEW s \in Sources, NEW p \in Participants, NEW policy \in GrantPolicies,
           BeginGrant(s, p, policy)
    PROVE  ConsentInv'
<1>1. ConsentTypes /\ GrantsNumbered /\ GrantsStand
  BY TypeGroups DEF ConsentInv
<1>2. /\ grants' = grants
      /\ UNCHANGED <<controlVars, peopleVars, derivedVars, storyVars, requests>>
  BY DEF BeginGrant
<1>3. ConsentTypes' /\ GrantsNumbered'
  BY <1>1, BegunGrantNumbered
<1>4. \A g \in granting' : g \in granting \/ (g.source = s /\ g.participant = p)
  BY DEF BeginGrant
<1>5. settings.enabled /\ participants[p] = "verified" /\ sources[s] = "approved"
  BY DEF BeginGrant, Grantable
<1>6. GrantsStand'
  BY <1>1, <1>2, <1>4, <1>5 DEF GrantsStand, Missing, GrantsOf, controlVars, peopleVars
<1>7. QED
  BY <1>2, <1>3, <1>6, GrantStep DEF Twin

LEMMA InsertedGrantKeeps ==
    ASSUME ConsentInv, NEW b \in granting, InsertGrant(b)
    PROVE  ConsentInv'
<1>1. ConsentTypes /\ GrantsNumbered /\ GrantsStand
  BY TypeGroups DEF ConsentInv
<1>2. /\ granting' = granting \ {b} /\ grants \subseteq grants'
      /\ grants' \subseteq grants \cup {b}
      /\ UNCHANGED <<controlVars, peopleVars, derivedVars, storyVars, requests>>
  BY DEF InsertGrant
<1>3. ConsentTypes' /\ GrantsNumbered'
  BY <1>1, InsertedGrantNumbered
<1>4. ASSUME NEW g \in grants', g.state = "active", ~ g.overlapped
      PROVE  /\ settings.enabled /\ participants[g.participant] = "verified"
             /\ sources[g.source] = "approved" \/ Missing(g.source)'
  <2>1. CASE g = b
    BY <1>1, <1>4, <2>1 DEF GrantsStand
  <2>2. CASE g \in grants
    <3>1. /\ settings.enabled /\ participants[g.participant] = "verified"
          /\ sources[g.source] = "approved" \/ Missing(g.source)
      BY <1>1, <1>4, <2>2 DEF GrantsStand
    <3>2. CASE b.source = g.source /\ ~ b.overlapped
      BY <1>1, <3>1, <3>2 DEF GrantsStand
    <3>3. CASE b.source # g.source \/ b.overlapped
      BY <1>2, <3>1, <3>3 DEF Missing, GrantsOf
    <3>4. QED
      BY <3>1, <3>2, <3>3
  <2>3. QED
    BY <1>2, <2>1, <2>2
<1>5. GrantsStand'
  BY <1>1, <1>2, <1>4 DEF GrantsStand, controlVars, peopleVars
<1>6. QED
  BY <1>2, <1>3, <1>5, GrantStep DEF Twin

\* A text that the owner redacts or reports.
LEMMA RedactionKeeps ==
    ASSUME ConsentInv, NEW t \in Turns, VeilPresentation(t) \/ ReportPresentation(t)
    PROVE  ConsentInv'
<1>1. /\ ControlTypes /\ PeopleTypes /\ RegisteredOnce /\ DerivedTypes /\ WorkMatchesPresentation
      /\ settings.enabled \in BOOLEAN /\ settings.complete \in BOOLEAN
  BY TypeGroups DEF ConsentInv, ControlTypes, Settings
<1>2. /\ Redact(t)
      /\ UNCHANGED <<vetoes, peopleVars, consentVars, storyVars, requests>>
  BY DEF VeilPresentation, ReportPresentation, controlVars
<1>3. ControlTypes' /\ settings'.enabled = settings.enabled
  <2>1. CASE VeilPresentation(t)
    BY <1>1, <2>1, ControlsStay DEF VeilPresentation, controlVars
  <2>2. CASE ReportPresentation(t)
    BY <1>1, <2>2, ChangedTypes DEF ReportPresentation
  <2>3. QED
    BY <2>1, <2>2
<1>4. PeopleHold /\ PeopleTypes' /\ RegisteredOnce'
  BY <1>1, <1>2, <1>3, PeopleStay DEF PeopleHold, RegisteredOnce, peopleVars
<1>5. /\ DerivedTypes' /\ work[t].state \in Finished
      /\ work'[t].state = "redacted" /\ presentations'[t].body = "redacted"
      /\ \A u \in Turns : u # t => work'[u] = work[u] /\ presentations'[u] = presentations[u]
  BY <1>1, <1>2 DEF Redact, Controllable, DerivedTypes, Works, Texts, WorkStates
<1>6. WorkMatchesPresentation'
  BY <1>1, <1>5 DEF WorkMatchesPresentation, Finished
<1>7. \A u \in Turns : /\ Counts(u)' => Counts(u)
                       /\ work'[u].state = "none" <=> work[u].state = "none"
  BY <1>5 DEF Counts, Live, Finished
<1>8. QED
  BY <1>2, <1>3, <1>4, <1>5, <1>6, <1>7, HarmlessStep

----------------------------------------------------------------------------
(* What a narration does. *)

\* A step that registers nothing and makes nothing count.
LEMMA TellingStep ==
    ASSUME ConsentInv, UNCHANGED <<controlVars, peopleVars, consentVars>>,
           DerivedTypes', StoryTypes', RequestTypes', SelectionsAreMade', WorkMatchesPresentation',
           StillCounts({}), StillRegisters({})
    PROVE  ConsentInv'
<1>1. Spares({})
  BY NarrationKeeps DEF Spares
<1>2. RegistrationsAreSound' /\ WorkIsSound'
  BY <1>1, SoundnessStays DEF ConsentInv
<1>3. QED
  BY <1>2, NarrationKeeps, TypeGroupsNext DEF ConsentInv

LEMMA SelectionKeeps ==
    ASSUME ConsentInv, NEW r \in Requests, NEW t \in Turns, NEW s \in Sources \cup {NoSource},
           ReserveSelection(r, t, s)
    PROVE  ConsentInv'
<1>1. /\ DerivedTypes /\ StoryTypes /\ RequestTypes /\ SelectionsAreMade /\ WorkMatchesPresentation
      /\ settings.revision \in 0 .. MaxSettings /\ MaxTurn \in Nat /\ NoSource \notin Sources
  BY TypeGroups, InspirationAssumption DEF ConsentInv, ControlTypes, Settings
<1>2. /\ ~ selections[t].made
      /\ selections' = [selections EXCEPT
             ![t] = [made |-> TRUE, source |-> s, revision |-> settings.revision]]
      /\ Continue(r, t, s)
      /\ UNCHANGED <<controlVars, peopleVars, consentVars, derivedVars, turn>>
  BY DEF ReserveSelection
<1>3. DerivedTypes' /\ WorkMatchesPresentation'
  BY <1>1, <1>2, DerivedStay DEF WorkMatchesPresentation, derivedVars
<1>4. /\ StoryTypes' /\ selections'[t].made /\ SourceOf(t)' = s
      /\ \A u \in Turns : u # t => selections'[u] = selections[u]
  BY <1>1, <1>2 DEF StoryTypes, SourceOf
<1>5. /\ RequestTypes'
      /\ \/ requests'[r] = Idle
         \/ requests'[r].phase = "selected" /\ requests'[r].turn = t /\ s \in Sources
      /\ \A q \in Requests : q # r => requests'[q] = requests[q]
  <2>1. /\ [Idle EXCEPT !.phase = "selected", !.turn = t] \in Asked
        /\ [Idle EXCEPT !.phase = "selected", !.turn = t].phase = "selected"
        /\ [Idle EXCEPT !.phase = "selected", !.turn = t].turn = t
    BY SelectedType
  <2>2. PICK a \in Asked : /\ requests' = [requests EXCEPT ![r] = a]
                           /\ \/ a = Idle
                              \/ a.phase = "selected" /\ a.turn = t /\ s \in Sources
    BY <1>2, <2>1, IdleType DEF Continue
  <2>3. QED
    BY <1>1, <2>2 DEF RequestTypes
<1>6. Idle.phase = "idle"
  BY DEF Idle
<1>7. \A u \in Turns : Told(u) => u # t /\ SourceOf(u)' = SourceOf(u) /\ Told(u)'
  BY <1>2, <1>4 DEF Told, SourceOf
<1>8. SelectionsAreMade'
  <2>1. ASSUME NEW q \in Requests, requests'[q].phase # "idle"
        PROVE  \E u \in Turns : u = requests'[q].turn /\ Told(u)'
    <3>1. CASE q = r
      BY <1>4, <1>5, <1>6, <2>1, <3>1 DEF Told
    <3>2. CASE q # r
      BY <1>1, <1>5, <1>7, <2>1, <3>2 DEF SelectionsAreMade
    <3>3. QED
      BY <3>1, <3>2
  <2>2. \A u \in Turns : work'[u].state # "none" => Told(u)'
    BY <1>1, <1>2, <1>7 DEF SelectionsAreMade, derivedVars
  <2>3. QED
    BY <2>1, <2>2 DEF SelectionsAreMade, Told, SourceOf
<1>9. StillCounts({})
  BY <1>1, <1>2, <1>7, CountedIsTold DEF StillCounts, Counts, Live, derivedVars
<1>10. StillRegisters({})
  <2> SUFFICES ASSUME NEW q \in Requests, Registers(q)'
               PROVE  /\ Registers(q) /\ requests'[q].turn = requests[q].turn
                      /\ SourceOf(requests[q].turn)' = SourceOf(requests[q].turn)
    BY DEF StillRegisters
  <2>1. requests'[q] = requests[q] /\ Registers(q)
    BY <1>5, <1>6 DEF Registers
  <2>2. requests[q].turn \in Turns /\ Told(requests[q].turn)
    BY <1>1, <2>1, CountedIsTold
  <2>3. PICK u \in Turns : u = requests[q].turn
    BY <2>2
  <2>4. SourceOf(u)' = SourceOf(u)
    BY <1>7, <2>2, <2>3
  <2>5. QED
    BY <2>1, <2>3, <2>4 DEF SourceOf
<1>11. QED
  BY <1>2, <1>3, <1>4, <1>5, <1>8, <1>9, <1>10, TellingStep


\* A step that changes at most one request, which then does not register, and makes nothing
\* count.
LEMMA RequestStep ==
    ASSUME ConsentInv, UNCHANGED <<controlVars, peopleVars, consentVars, selections>>,
           StoryTypes', NEW r \in Requests, NEW a \in Asked, a.phase # "registering",
           a.phase # "idle" => a.turn \in Turns /\ Told(a.turn),
           requests' = [requests EXCEPT ![r] = a],
           DerivedTypes', WorkMatchesPresentation',
           \A t \in Turns : /\ Counts(t)' => Counts(t)
                            /\ work'[t].state # "none" => work[t].state # "none"
    PROVE  ConsentInv'
<1>1. RequestTypes /\ SelectionsAreMade
  BY TypeGroups DEF ConsentInv
<1>2. /\ RequestTypes' /\ requests'[r] = a
      /\ \A q \in Requests : q # r => requests'[q] = requests[q]
  BY <1>1 DEF RequestTypes
<1>3. \A t \in Turns : (Told(t)' <=> Told(t)) /\ SourceOf(t)' = SourceOf(t)
  BY DEF Told, SourceOf
<1>4. ASSUME NEW q \in Requests, requests'[q].phase # "idle"
      PROVE  \E u \in Turns : u = requests'[q].turn /\ Told(u)'
  <2>1. CASE q = r
    BY <1>2, <1>3, <1>4, <2>1
  <2>2. CASE q # r
    BY <1>1, <1>2, <1>3, <1>4, <2>2 DEF SelectionsAreMade
  <2>3. QED
    BY <2>1, <2>2
<1>5. SelectionsAreMade'
  BY <1>1, <1>3, <1>4 DEF SelectionsAreMade, Told, SourceOf
<1>6. StillCounts({})
  BY <1>3 DEF StillCounts
<1>7. StillRegisters({})
  BY <1>2 DEF StillRegisters, Registers, SourceOf
<1>8. QED
  BY <1>2, <1>5, <1>6, <1>7, TellingStep

\* A step of the story or of a text that touches no request.
LEMMA StoryStep ==
    ASSUME ConsentInv, UNCHANGED <<controlVars, peopleVars, consentVars, selections, requests>>,
           StoryTypes', DerivedTypes', WorkMatchesPresentation',
           \A t \in Turns : (Counts(t)' => Counts(t)) /\ work'[t].state = work[t].state
    PROVE  ConsentInv'
<1>1. RequestTypes'
  BY RequestsStay, TypeGroups DEF ConsentInv
<1>2. SelectionsAreMade' /\ StillCounts({}) /\ StillRegisters({})
  BY DEF SelectionsAreMade, ConsentInv, Told, SourceOf, StillCounts, StillRegisters, Registers
<1>3. QED
  BY <1>1, <1>2, TellingStep

LEMMA CommitKeeps == ASSUME ConsentInv, CommitTurn PROVE ConsentInv'
<1>1. DerivedTypes /\ StoryTypes /\ MaxTurn \in Nat
  BY TypeGroups, InspirationAssumption DEF ConsentInv
<1>2. turn' \in 0 .. MaxTurn
  BY <1>1 DEF CommitTurn, StoryTypes
<1>3. StoryTypes' /\ DerivedTypes' /\ WorkMatchesPresentation'
  BY <1>1, <1>2, DerivedStay
     DEF CommitTurn, StoryTypes, ConsentInv, WorkMatchesPresentation, derivedVars
<1>4. QED
  BY <1>3, StoryStep DEF CommitTurn, Counts, Live, derivedVars

LEMMA TextsKeep ==
    ASSUME ConsentInv, NEW t \in Turns, SupersedePresentation(t) \/ ExpirePresentation(t)
    PROVE  ConsentInv'
<1>1. DerivedTypes /\ StoryTypes /\ WorkMatchesPresentation
  BY TypeGroups DEF ConsentInv
<1>2. /\ UNCHANGED <<controlVars, peopleVars, consentVars, selections, requests, storyVars>>
      /\ work' = work
  BY DEF SupersedePresentation, ExpirePresentation, storyVars
<1>3. /\ presentations' \in [Turns -> Texts]
      /\ \A u \in Turns : presentations'[u].body \in {presentations[u].body, "none"}
  <2>1. presentations[t] \in Texts
    BY <1>1 DEF DerivedTypes
  <2>2. PICK b \in Texts : /\ presentations' = [presentations EXCEPT ![t] = b]
                           /\ b.body \in {presentations[t].body, "none"}
    <3>1. CASE SupersedePresentation(t)
      <4> DEFINE b == [presentations[t] EXCEPT !.superseded = TRUE]
      <4>1. b \in Texts /\ b.body = presentations[t].body
        BY <2>1 DEF Texts
      <4>2. presentations' = [presentations EXCEPT ![t] = b]
        BY <3>1 DEF SupersedePresentation
      <4> HIDE DEF b
      <4>3. QED
        BY <4>1, <4>2
    <3>2. CASE ExpirePresentation(t)
      <4>1. NoText \in Texts /\ NoText.body = "none"
        BY DEF NoText, Texts
      <4>2. QED
        BY <3>2, <4>1 DEF ExpirePresentation
    <3>3. QED
      BY <3>1, <3>2
  <2>3. QED
    BY <1>1, <2>2 DEF DerivedTypes
<1>4. StoryTypes' /\ DerivedTypes' /\ WorkMatchesPresentation'
  BY <1>1, <1>2, <1>3, StoryStays DEF DerivedTypes, WorkMatchesPresentation
<1>5. QED
  BY <1>2, <1>3, <1>4, StoryStep DEF Counts, Live

LEMMA RequestsKeep ==
    ASSUME ConsentInv, NEW r \in Requests,
           \/ \E t \in Turns : ReplaySelection(r, t)
           \/ ReplayWork(r) \/ StopRequest(r)
    PROVE  ConsentInv'
<1>1. /\ DerivedTypes /\ StoryTypes /\ RequestTypes /\ SelectionsAreMade /\ WorkMatchesPresentation
      /\ MaxTurn \in Nat
  BY TypeGroups, InspirationAssumption DEF ConsentInv
<1>2. UNCHANGED <<controlVars, peopleVars, consentVars, derivedVars, storyVars>>
  BY DEF ReplaySelection, ReplayWork, StopRequest
<1>3. /\ StoryTypes' /\ DerivedTypes' /\ WorkMatchesPresentation' /\ UNCHANGED selections
      /\ \A t \in Turns : /\ Counts(t)' => Counts(t)
                          /\ work'[t].state # "none" => work[t].state # "none"
  BY <1>1, <1>2, StoryStays, DerivedStay
     DEF WorkMatchesPresentation, Counts, Live, derivedVars, storyVars
<1>4. ASSUME NEW a \in Asked, a.phase # "registering",
             a.phase # "idle" => a.turn \in Turns /\ Told(a.turn),
             requests' = [requests EXCEPT ![r] = a]
      PROVE  ConsentInv'
  BY <1>2, <1>3, <1>4, RequestStep
<1>5. Idle \in Asked /\ Idle.phase = "idle"
  BY IdleType DEF Idle
<1>6. ASSUME NEW t \in Turns, ReplaySelection(r, t) PROVE ConsentInv'
  <2> DEFINE a == [Idle EXCEPT !.phase = "selected", !.turn = t]
  <2>1. a \in Asked /\ a.phase = "selected" /\ a.turn = t
    BY SelectedType
  <2>2. Told(t)
    BY <1>1, <1>6 DEF ReplaySelection, Told, StoryTypes, SourceOf
  <2>3. requests' = [requests EXCEPT ![r] = a]
    BY <1>6 DEF ReplaySelection, Continue
  <2> HIDE DEF a
  <2>4. QED
    BY <1>4, <2>1, <2>2, <2>3
<1>7. CASE ReplayWork(r)
  <2> DEFINE a == [requests[r] EXCEPT !.phase = "generating"]
  <2>1. a \in Asked /\ a.phase = "generating" /\ a.turn = requests[r].turn
    BY <1>1 DEF RequestTypes, Asked, Phases
  <2>2. requests[r].turn \in Turns /\ Told(requests[r].turn)
    BY <1>1, <1>7 DEF ReplayWork, SelectionsAreMade
  <2>3. requests' = [requests EXCEPT ![r] = a]
    BY <1>7 DEF ReplayWork
  <2> HIDE DEF a
  <2>4. QED
    BY <1>4, <2>1, <2>2, <2>3
<1>8. CASE StopRequest(r)
  BY <1>4, <1>5, <1>8 DEF StopRequest
<1>9. QED
  BY <1>6, <1>7, <1>8

LEMMA WorkEnds ==
    ASSUME ConsentInv, NEW r \in Requests, PublishNarration(r) \/ AbandonWork(r)
    PROVE  ConsentInv'
<1>1. /\ DerivedTypes /\ StoryTypes /\ RequestTypes /\ SelectionsAreMade /\ WorkMatchesPresentation
  BY TypeGroups DEF ConsentInv
<1>2. /\ UNCHANGED <<controlVars, peopleVars, consentVars, storyVars>>
      /\ requests' = [requests EXCEPT ![r] = Idle] /\ requests[r].phase = "generating"
  BY DEF PublishNarration, AbandonWork
<1>3. PICK t \in Turns : t = requests[r].turn
  BY <1>1, <1>2 DEF SelectionsAreMade
<1>4. Idle \in Asked /\ Idle.phase = "idle"
  BY IdleType DEF Idle
<1>5. /\ DerivedTypes' /\ WorkMatchesPresentation'
      /\ \A u \in Turns : /\ Counts(u)' => Counts(u)
                          /\ work'[u].state # "none" => work[u].state # "none"
  <2>1. CASE PublishNarration(r)
    <3>1. /\ work[t].state = "pending" /\ work' = [work EXCEPT ![t].state = "completed"]
          /\ presentations' = [presentations EXCEPT ![t] = [body |-> "private", superseded |-> FALSE]]
      BY <1>3, <2>1 DEF PublishNarration, Publishable
    <3>2. /\ DerivedTypes' /\ work'[t].state = "completed" /\ presentations'[t].body = "private"
          /\ work'[t].overlapped = work[t].overlapped
          /\ \A u \in Turns : u # t => work'[u] = work[u] /\ presentations'[u] = presentations[u]
      BY <1>1, <3>1 DEF DerivedTypes, Works, Texts, WorkStates
    <3>3. QED
      BY <1>1, <3>1, <3>2 DEF WorkMatchesPresentation, Counts, Live, Finished
  <2>2. CASE AbandonWork(r) /\ work[t].state = "pending"
    <3>1. /\ work' = [work EXCEPT ![t].state = "cancellation_requested"]
          /\ presentations' = presentations
      BY <1>3, <2>2 DEF AbandonWork
    <3>2. /\ DerivedTypes' /\ work'[t].state = "cancellation_requested"
          /\ work'[t].overlapped = work[t].overlapped
          /\ \A u \in Turns : u # t => work'[u] = work[u]
      BY <1>1, <3>1 DEF DerivedTypes, Works, WorkStates
    <3>3. QED
      BY <1>1, <2>2, <3>1, <3>2 DEF WorkMatchesPresentation, Counts, Live, Finished
  <2>3. CASE AbandonWork(r) /\ work[t].state # "pending"
    <3>1. work' = work /\ presentations' = presentations
      BY <1>3, <2>3 DEF AbandonWork
    <3>2. QED
      BY <1>1, <3>1 DEF DerivedTypes, WorkMatchesPresentation, Counts, Live
  <2>4. QED
    BY <2>1, <2>2, <2>3
<1>6. StoryTypes' /\ UNCHANGED selections
  BY <1>1, <1>2, StoryStays DEF storyVars
<1>7. QED
  BY <1>2, <1>4, <1>5, <1>6, RequestStep


\* As many active grants as a source has participants are one of each.
LEMMA CountedGrantsAreEveryones ==
    ASSUME ConsentTypes, OneActiveGrant, GrantsOfSubjects, NEW s \in Sources,
           Cardinality(ActiveGrants(s)) = Cardinality(Subjects[s])
    PROVE  Consenting(s) = Subjects[s]
<1> DEFINE A == ActiveGrants(s)
           f == [g \in A |-> g.participant]
<1>1. IsFiniteSet(Subjects[s])
  BY InspirationAssumption
<1>2. \A g \in A : g \in grants /\ g.source = s /\ g.state = "active" /\ g.participant \in Subjects[s]
  BY DEF ActiveGrants, GrantsOfSubjects
<1>3. f \in [A -> Subjects[s]] /\ \A g, h \in A : f[g] = f[h] => g = h
  BY <1>2 DEF OneActiveGrant
<1>4. f \in Injection(A, Subjects[s])
  BY <1>3, Fun_IsInj
<1>5. f \in Surjection(A, Subjects[s])
  BY <1>1, <1>4, FS_Injection
<1>6. \A p \in Subjects[s] : \E g \in A : f[g] = p
  BY <1>5, Fun_SurjectionProperties
<1>7. QED
  BY <1>2, <1>6 DEF Consenting

\* What a registration finds when no grant it counts was overtaken: everyone stands by the source.
LEMMA RegistrableIsSound ==
    ASSUME ConsentInv, NEW s \in Sources, NEW policy, Registrable(s, policy),
           \A g \in ActiveGrants(s) : ~ g.overlapped
    PROVE  Sound(s)
<1>1. ConsentTypes /\ OneActiveGrant /\ GrantsOfSubjects /\ GrantsStand
  BY TypeGroups DEF ConsentInv, GrantsNumbered
<1>2. Consenting(s) = Subjects[s] /\ ~ Vetoed(s)
  BY <1>1, CountedGrantsAreEveryones DEF Registrable
<1>3. ASSUME NEW p \in Subjects[s]
      PROVE  \E g \in grants : /\ g.source = s /\ g.participant = p /\ g.state = "active"
                               /\ ~ g.overlapped
  BY <1>2 DEF Consenting, ActiveGrants
<1>4. ~ Missing(s)
  BY <1>3 DEF Missing, GrantsOf
<1>5. ASSUME NEW p \in Subjects[s]
      PROVE  /\ settings.enabled /\ participants[p] = "verified" /\ sources[s] = "approved"
             /\ \E g \in GrantsOf(s, p) : g.state # "revoked"
  <2>1. PICK g \in grants : /\ g.source = s /\ g.participant = p /\ g.state = "active"
                            /\ ~ g.overlapped
    BY <1>3
  <2>2. /\ settings.enabled /\ participants[g.participant] = "verified"
        /\ sources[g.source] = "approved" \/ Missing(g.source)
    BY <1>1, <2>1 DEF GrantsStand
  <2>3. QED
    BY <1>4, <2>1, <2>2 DEF GrantsOf
<1>6. Subjects[s] # {}
  BY InspirationAssumption
<1>7. QED
  BY <1>2, <1>5, <1>6 DEF Sound

LEMMA BegunWorkKeeps ==
    ASSUME ConsentInv, NEW r \in Requests, NEW policy \in WorkPolicies, BeginWork(r, policy)
    PROVE  ConsentInv'
<1>1. /\ DerivedTypes /\ StoryTypes /\ RequestTypes /\ SelectionsAreMade /\ WorkMatchesPresentation
      /\ policy \in Policies
  BY TypeGroups, InspirationAssumption DEF ConsentInv
<1>2. /\ UNCHANGED <<controlVars, peopleVars, consentVars, derivedVars, storyVars>>
      /\ requests[r].phase = "selected"
  BY DEF BeginWork
<1>3. PICK t \in Turns : t = requests[r].turn /\ Told(t)
  BY <1>1, <1>2 DEF SelectionsAreMade
<1>4. PICK s \in Sources : s = SourceOf(t)
  BY <1>3 DEF Told
<1> DEFINE o == \E g \in ActiveGrants(s) : g.overlapped
           a == [requests[r] EXCEPT !.phase = "registering", !.policy = policy, !.overlapped = o]
<1>5. /\ a \in Asked /\ a.phase = "registering" /\ a.turn = t /\ a.overlapped = o
  <2>1. requests[r] \in Asked
    BY <1>1 DEF RequestTypes
  <2>2. o \in BOOLEAN
    OBVIOUS
  <2> HIDE DEF o
  <2>3. QED
    BY <1>1, <1>3, <2>1, <2>2 DEF Asked, Phases
<1>6. requests' = [requests EXCEPT ![r] = a] /\ Registrable(s, policy)
  BY <1>3, <1>4 DEF BeginWork
<1>7. a.overlapped \/ Sound(s)
  BY <1>5, <1>6, RegistrableIsSound
<1> HIDE DEF a
<1>8. /\ RequestTypes' /\ requests'[r] = a
      /\ \A q \in Requests : q # r => requests'[q] = requests[q]
  BY <1>1, <1>5, <1>6 DEF RequestTypes
<1>9. StoryTypes' /\ DerivedTypes' /\ WorkMatchesPresentation' /\ UNCHANGED <<selections, work, presentations>>
  BY <1>1, <1>2, StoryStays, DerivedStay DEF WorkMatchesPresentation, derivedVars, storyVars
<1>10. ASSUME NEW q \in Requests, requests'[q].phase # "idle"
       PROVE  \E u \in Turns : u = requests'[q].turn /\ Told(u)
  BY <1>1, <1>3, <1>5, <1>8, <1>10 DEF SelectionsAreMade
<1>11. SelectionsAreMade'
  BY <1>1, <1>9, <1>10 DEF SelectionsAreMade, Told, SourceOf
<1>12. \A q \in Sources : Sound(q)' <=> Sound(q)
  BY <1>2, NarrationKeeps
<1>13. ASSUME NEW q \in Requests, Registers(q)' PROVE Sound(SourceOf(requests[q].turn))'
  <2>1. CASE q = r
    <3>1. Sound(s)
      BY <1>5, <1>7, <1>8, <1>13, <2>1 DEF Registers
    <3>2. SourceOf(requests[q].turn)' = s
      BY <1>4, <1>5, <1>8, <1>9, <2>1 DEF SourceOf
    <3>3. QED
      BY <1>12, <3>1, <3>2
  <2>2. CASE q # r
    <3>1. Registers(q) /\ requests'[q].turn = requests[q].turn
      BY <1>8, <1>13, <2>2 DEF Registers
    <3>2. PICK u \in Sources : u = SourceOf(requests[q].turn)
      BY <1>1, <3>1, CountedIsTold DEF Told
    <3>3. Sound(u)
      BY <3>1, <3>2 DEF ConsentInv, RegistrationsAreSound
    <3>4. SourceOf(requests[q].turn)' = u
      BY <1>9, <3>1, <3>2 DEF SourceOf
    <3>5. QED
      BY <1>12, <3>3, <3>4
  <2>3. QED
    BY <2>1, <2>2
<1>14. ASSUME NEW u \in Turns, Counts(u)' PROVE Sound(SourceOf(u))'
  <2>1. Counts(u) /\ SourceOf(u)' = SourceOf(u)
    BY <1>9, <1>14 DEF Counts, Live, SourceOf
  <2>2. PICK q \in Sources : q = SourceOf(u)
    BY <1>1, <2>1, CountedIsTold DEF Told, Counts
  <2>3. QED
    BY <1>12, <2>1, <2>2 DEF ConsentInv, WorkIsSound
<1>15. RegistrationsAreSound' /\ WorkIsSound'
  BY <1>13, <1>14 DEF RegistrationsAreSound, WorkIsSound
<1>16. QED
  BY <1>2, <1>8, <1>9, <1>11, <1>15, NarrationKeeps, TypeGroupsNext DEF ConsentInv

LEMMA InsertedWorkKeeps ==
    ASSUME ConsentInv, NEW r \in Requests, InsertWork(r)
    PROVE  ConsentInv'
<1>1. /\ DerivedTypes /\ StoryTypes /\ RequestTypes /\ SelectionsAreMade /\ WorkMatchesPresentation
  BY TypeGroups DEF ConsentInv
<1>2. /\ UNCHANGED <<controlVars, peopleVars, consentVars, presentations, storyVars>>
      /\ requests[r].phase = "registering"
  BY DEF InsertWork
<1>3. PICK t \in Turns : t = requests[r].turn /\ Told(t)
  BY <1>1, <1>2 DEF SelectionsAreMade
<1>4. PICK s \in Sources : s = SourceOf(t)
  BY <1>3 DEF Told
<1> DEFINE a == [Idle EXCEPT !.phase = "generating", !.turn = t]
<1>5. a \in Asked /\ a.phase = "generating" /\ a.turn = t
  <2>1. Idle \in Asked /\ t \in 0 .. MaxTurn
    BY <1>1, <1>3, IdleType DEF RequestTypes, Asked
  <2>2. QED
    BY <2>1 DEF Asked, Phases
<1>6. requests' = [requests EXCEPT ![r] = a]
  BY <1>3 DEF InsertWork
<1> HIDE DEF a
<1>7. /\ RequestTypes' /\ requests'[r] = a
      /\ \A q \in Requests : q # r => requests'[q] = requests[q]
  BY <1>1, <1>5, <1>6 DEF RequestTypes
<1>8. /\ DerivedTypes' /\ WorkMatchesPresentation'
      /\ \A u \in Turns : \/ work'[u] = work[u]
                          \/ u = t /\ work'[t].overlapped = requests[r].overlapped
      /\ work'[t].state # "none"
  <2>1. CASE work[t].state # "none"
    <3>1. work' = work
      BY <1>3, <2>1 DEF InsertWork
    <3>2. QED
      BY <1>1, <1>2, <2>1, <3>1 DEF DerivedTypes, WorkMatchesPresentation
  <2>2. CASE work[t].state = "none"
    <3> DEFINE w == [state |-> "pending", policy |-> requests[r].policy,
                     overlapped |-> requests[r].overlapped]
    <3>1. work' = [work EXCEPT ![t] = w]
      BY <1>3, <2>2 DEF InsertWork
    <3>2. w \in Works /\ w.state = "pending" /\ w.overlapped = requests[r].overlapped
      BY <1>1 DEF RequestTypes, Asked, Works, WorkStates
    <3> HIDE DEF w
    <3>3. /\ DerivedTypes' /\ work'[t] = w /\ \A u \in Turns : u # t => work'[u] = work[u]
      BY <1>1, <1>2, <3>1, <3>2 DEF DerivedTypes
    <3>4. QED
      BY <1>1, <1>2, <2>2, <3>2, <3>3 DEF WorkMatchesPresentation, Finished
  <2>3. QED
    BY <2>1, <2>2
<1>9. StoryTypes' /\ UNCHANGED <<selections, presentations>>
  BY <1>1, <1>2, StoryStays DEF storyVars
<1>10. ASSUME NEW q \in Requests, requests'[q].phase # "idle"
       PROVE  \E u \in Turns : u = requests'[q].turn /\ Told(u)
  BY <1>1, <1>3, <1>5, <1>7, <1>10 DEF SelectionsAreMade
<1>11. SelectionsAreMade'
  <2>1. \A u \in Turns : work'[u].state # "none" => Told(u)
    BY <1>1, <1>3, <1>8 DEF SelectionsAreMade
  <2>2. QED
    BY <1>9, <1>10, <2>1 DEF SelectionsAreMade, Told, SourceOf
<1>12. \A q \in Sources : Sound(q)' <=> Sound(q)
  BY <1>2, NarrationKeeps
<1>13. ASSUME NEW q \in Requests, Registers(q)' PROVE Sound(SourceOf(requests[q].turn))'
  <2>1. Registers(q) /\ requests'[q].turn = requests[q].turn
    BY <1>5, <1>7, <1>13 DEF Registers
  <2>2. PICK u \in Sources : u = SourceOf(requests[q].turn)
    BY <1>1, <2>1, CountedIsTold DEF Told
  <2>3. Sound(u)
    BY <2>1, <2>2 DEF ConsentInv, RegistrationsAreSound
  <2>4. SourceOf(requests[q].turn)' = u
    BY <1>9, <2>1, <2>2 DEF SourceOf
  <2>5. QED
    BY <1>12, <2>3, <2>4
<1>14. ASSUME NEW u \in Turns, Counts(u)' PROVE Sound(SourceOf(u))'
  <2>1. SourceOf(u)' = SourceOf(u)
    BY <1>9 DEF SourceOf
  <2>2. CASE work'[u] = work[u]
    <3>1. Counts(u)
      BY <1>9, <1>14, <2>2 DEF Counts, Live
    <3>2. PICK q \in Sources : q = SourceOf(u)
      BY <1>1, <3>1, CountedIsTold DEF Told, Counts
    <3>3. QED
      BY <1>12, <2>1, <3>1, <3>2 DEF ConsentInv, WorkIsSound
  <2>3. CASE u = t /\ work'[t].overlapped = requests[r].overlapped
    <3>1. Registers(r)
      BY <1>2, <1>14, <2>3 DEF Registers, Counts
    <3>2. Sound(s)
      BY <1>3, <1>4, <3>1 DEF ConsentInv, RegistrationsAreSound
    <3>3. QED
      BY <1>4, <1>12, <2>1, <2>3, <3>2
  <2>4. QED
    BY <1>8, <2>2, <2>3
<1>15. RegistrationsAreSound' /\ WorkIsSound'
  BY <1>13, <1>14 DEF RegistrationsAreSound, WorkIsSound
<1>16. QED
  BY <1>2, <1>7, <1>8, <1>9, <1>11, <1>15, NarrationKeeps, TypeGroupsNext DEF ConsentInv


----------------------------------------------------------------------------
(* The invariant. *)

LEMMA ConsentInvInit == InspirationInit => ConsentInv
<1> SUFFICES ASSUME InspirationInit PROVE ConsentInv
  OBVIOUS
<1>1. /\ grants = {} /\ granting = {} /\ registering = {}
      /\ \A r \in Requests : requests[r] = Idle
      /\ \A t \in Turns : work[t].state = "none" /\ presentations[t].body = "none"
  BY DEF InspirationInit, NoWork, NoText
<1>2. \A r \in Requests : requests[r].phase = "idle"
  BY <1>1 DEF Idle
<1>3. SelectionsAreMade /\ RegisteredOnce
  BY <1>1, <1>2 DEF SelectionsAreMade, RegisteredOnce
<1>4. GrantsNumbered /\ GrantsStand
  BY <1>1 DEF GrantsNumbered, VersionsAreDense, NextFindsNoneActive, OneActiveGrant,
     GrantsOfSubjects, GrantsStand
<1>5. WorkMatchesPresentation /\ RegistrationsAreSound /\ WorkIsSound
  BY <1>1, <1>2 DEF WorkMatchesPresentation, RegistrationsAreSound, WorkIsSound, Registers,
     Counts, Live
<1>6. QED
  BY <1>3, <1>4, <1>5, InitTypes DEF ConsentInv

LEMMA ConsentInvStep == ConsentInv /\ [InspirationNext]_inspirationVars => ConsentInv'
<1> SUFFICES ASSUME ConsentInv, [InspirationNext]_inspirationVars PROVE ConsentInv'
  OBVIOUS
<1>1. CASE OperatorStep
  BY <1>1, VerificationKeeps, DeletionKeeps, SourcesKeep, SettingsKeep, SwitchKeeps
     DEF OperatorStep
<1>2. CASE ParticipantStep
  BY <1>2, BegunGrantKeeps, InsertedGrantKeeps, ExpiryKeeps, ConsentKeeps, VetoKeeps
     DEF ParticipantStep, ApplyVeto
<1>3. CASE OwnerStep
  BY <1>3, SettingsKeep, RedactionKeeps, VetoKeeps DEF OwnerStep, VetoPresentation
<1>4. CASE NarrationStep
  BY <1>4, CommitKeeps, SelectionKeeps, RequestsKeep, BegunWorkKeeps, InsertedWorkKeeps,
     WorkEnds, TextsKeep DEF NarrationStep
<1>5. CASE UNCHANGED inspirationVars
  <2>1. UNCHANGED <<controlVars, peopleVars, consentVars, selections, requests, storyVars, derivedVars>>
    BY <1>5 DEF inspirationVars, storyVars
  <2>2. StoryTypes' /\ DerivedTypes' /\ WorkMatchesPresentation'
    BY <2>1, StoryStays, DerivedStay, TypeGroups DEF ConsentInv, WorkMatchesPresentation, derivedVars
  <2>3. QED
    BY <2>1, <2>2, StoryStep DEF Counts, Live, derivedVars
<1>6. QED
  BY <1>1, <1>2, <1>3, <1>4, <1>5 DEF InspirationNext

LEMMA ConsentInvariant == InspirationSpec => []ConsentInv
  BY ConsentInvInit, ConsentInvStep, PTL DEF InspirationSpec

\* Documents and requests stay what they are, and no two grants of a participant for a source
\* share a version (indexes.rs, mdnd_private_consents_versioned_grant_uq).
THEOREM InspirationTypes == InspirationSpec => []InspirationTypeOK
<1>1. ConsentInv => InspirationTypeOK
  BY DEF ConsentInv
<1>2. QED
  BY <1>1, ConsentInvariant, PTL

\* Whoever withdraws reaches what was derived: as long as a text is being derived or is shown,
\* everyone the source is about stands by it, although the registration counts grants only and
\* any number of grants, requests, vetoes, reviews and deletions run at once
\* (register_private_inspiration_derived_work, inspiration.rs:3463).
THEOREM WithdrawalReaches == InspirationSpec => []WithdrawalReachesWork
<1>1. ConsentInv => WithdrawalReachesWork
  BY DEF ConsentInv, WorkIsSound, WithdrawalReachesWork, Counts, Sound
<1>2. QED
  BY <1>1, ConsentInvariant, PTL

\* As many active grants as a source has participants are one of each: nobody ever has two
\* (policies.len(), inspiration.rs:3618).
THEOREM CountedGrantsSuffice == InspirationSpec => []CountedGrantsAreComplete
<1>1. ConsentInv => CountedGrantsAreComplete
  BY CountedGrantsAreEveryones, TypeGroups
     DEF ConsentInv, GrantsNumbered, CountedGrantsAreComplete
<1>2. QED
  BY <1>1, ConsentInvariant, PTL

\* The state of the work and of its text say the same, whatever withdraws, redacts, publishes
\* or expires them (apply_completed_work_policy, inspiration.rs:1987; publish,
\* presentations.rs:618).
THEOREM TextsMatchWork == InspirationSpec => []WorkMatchesPresentation
<1>1. ConsentInv => WorkMatchesPresentation
  BY DEF ConsentInv
<1>2. QED
  BY <1>1, ConsentInvariant, PTL


\* What has been cancelled, redacted or deleted stays so, although requests, retries and
\* receipts still speak of the work (publish, presentations.rs:466).
THEOREM WithdrawnIsFinal == InspirationSpec => WithdrawnStaysWithdrawn
<1> DEFINE Gone(t) == work[t].state \in {"cancellation_requested", "redacted", "deleted"}
           Stays(t) == /\ work'[t].state \notin {"none", "pending", "completed"}
                       /\ presentations'[t].body # "private"
           AllStay == \A t \in Turns : Gone(t) => Stays(t)
<1>1. ASSUME ConsentInv, InspirationNext PROVE AllStay
  <2>1. DerivedTypes /\ WorkMatchesPresentation /\ SelectionsAreMade
    BY <1>1, TypeGroups DEF ConsentInv
  <2>2. \A t \in Turns : Gone(t) => presentations[t].body # "private"
    BY <2>1 DEF WorkMatchesPresentation
  <2>3. CASE UNCHANGED derivedVars
    BY <2>2, <2>3 DEF derivedVars
  <2>4. ASSUME NEW T, Withdraw(T) PROVE AllStay
    <3> SUFFICES ASSUME NEW t \in Turns, Gone(t) PROVE Stays(t)
      OBVIOUS
    <3>1. work[t] \in Works
      BY <2>1 DEF DerivedTypes
    <3>2. WithdrawnState(t) \in {"cancellation_requested", "redacted", "deleted"}
      BY DEF WithdrawnState, Finished
    <3>3. work'[t].state \in {"cancellation_requested", "redacted", "deleted"}
      BY <2>4, <3>1, <3>2 DEF Withdraw, Works
    <3>4. ~ Live(t) /\ (Live(t)' => Live(t))
      BY <2>1, <2>2, <2>4, Withdrawn DEF Live
    <3>5. QED
      BY <3>3, <3>4 DEF Live
  <2>5. ASSUME NEW on \in BOOLEAN, SetGlobalControl(on) PROVE AllStay
    <3>1. CASE on
      <4> SUFFICES ASSUME NEW t \in Turns, Gone(t) PROVE Stays(t)
        OBVIOUS
      <4>1. work[t] \in Works /\ presentations[t] \in Texts
        BY <2>1 DEF DerivedTypes
      <4>2. Quarantined(t) \in {"cancellation_requested", "redacted", "deleted"}
        BY DEF Quarantined, Finished
      <4>3. work'[t].state \in {"cancellation_requested", "redacted", "deleted"}
        BY <2>5, <3>1, <4>1, <4>2 DEF SetGlobalControl, Works
      <4>4. presentations'[t].body # "private"
        BY <2>2, <2>5, <3>1, <4>1 DEF SetGlobalControl, Texts
      <4>5. QED
        BY <4>3, <4>4
    <3>2. CASE ~ on
      BY <2>3, <2>5, <3>2 DEF SetGlobalControl
    <3>3. QED
      BY <3>1, <3>2
  <2>6. ASSUME NEW t \in Turns, Redact(t) PROVE AllStay
    BY <2>1, <2>2, <2>6 DEF Redact, DerivedTypes, Works, Texts
  <2>7. ASSUME NEW t \in Turns, SupersedePresentation(t) \/ ExpirePresentation(t) PROVE AllStay
    BY <2>1, <2>2, <2>7 DEF SupersedePresentation, ExpirePresentation, DerivedTypes, Texts, NoText
  <2>8. ASSUME NEW r \in Requests, InsertWork(r) \/ PublishNarration(r) \/ AbandonWork(r)
        PROVE  AllStay
    <3>1. PICK t \in Turns : t = requests[r].turn
      BY <2>1, <2>8 DEF InsertWork, PublishNarration, AbandonWork, SelectionsAreMade
    <3>2. \A u \in Turns : u # t => work'[u] = work[u] /\ presentations'[u] = presentations[u]
      BY <2>1, <2>8, <3>1 DEF InsertWork, PublishNarration, AbandonWork, DerivedTypes
    <3>3. Gone(t) => Stays(t)
      BY <2>1, <2>2, <2>8, <3>1 DEF InsertWork, PublishNarration, AbandonWork, Publishable
    <3>4. QED
      BY <2>2, <3>2, <3>3
  <2>9. CASE OperatorStep
    BY <2>3, <2>4, <2>5, <2>9 DEF OperatorStep, VerifyParticipant, ForgetDeletion, DeleteParticipant,
       BeginSource, InsertSource, ReviewSource, ConfigureCampaign, RevokeEverything
  <2>10. CASE ParticipantStep
    BY <2>3, <2>4, <2>10 DEF ParticipantStep, BeginGrant, InsertGrant, ExpireGrant, RevokeConsent,
       ApplyVeto, ApplyScope
  <2>11. CASE OwnerStep
    BY <2>3, <2>4, <2>6, <2>11 DEF OwnerStep, SetCampaignPause, DisableCampaign, RevokeEverything,
       VeilPresentation, ReportPresentation, VetoPresentation, ApplyScope
  <2>12. CASE NarrationStep
    BY <2>3, <2>7, <2>8, <2>12 DEF NarrationStep, CommitTurn, ReserveSelection, ReplaySelection,
       BeginWork, ReplayWork, StopRequest
  <2>13. QED
    BY <1>1, <2>9, <2>10, <2>11, <2>12 DEF InspirationNext
<1>2. ConsentInv /\ [InspirationNext]_inspirationVars => [AllStay]_inspirationVars
  BY <1>1
<1>3. QED
  BY <1>2, ConsentInvariant, PTL DEF InspirationSpec, WithdrawnStaysWithdrawn
===============================================================================
