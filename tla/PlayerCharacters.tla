--------------------------- MODULE PlayerCharacters ---------------------------
(***************************************************************************)
(* The characters in the library of one account, the drafts of new ones    *)
(* and the campaigns they play in.  A command of the library service is a  *)
(* chain of transactions: the change, its audit, its receipt.  Another     *)
(* caller may come in between any two, and a caller may get no further.    *)
(* The browser renames and deletes without the service, and a campaign may *)
(* take a character while its owner deletes it.                            *)
(***************************************************************************)
EXTENDS Naturals

CONSTANTS
    Callers,        \* requests under way at once
    Characters,     \* ids of characters, each used for one
    Drafts,         \* ids of drafts, each used for one
    Campaigns,      \* campaigns the account is a member of
    Bodies,         \* display names, up to their normalisation, and choices at a step
    Keys,           \* idempotency keys
    Mixes,          \* sets of commands, of one of which all are sent
    NoCharacter,    \* no character
    NoBody,         \* no name and no choices
    NoCommand,      \* no command
    MaxRevision     \* bound: revisions

Scopes == Characters \cup Drafts
Renames == {"rename", "browserRename"}
Deletions == {"delete", "browserDelete"}
Kinds == {"create", "save", "commit", "assign"} \cup Renames \cup Deletions

\* What is sent: a name, choices, the character of a draft or the campaign to play in is its
\* body.  The kinds that take no key, no revision or no body have any.
Commands ==
    {c \in [kind : Kinds, scope : Scopes, key : Keys, expected : 0..(MaxRevision - 1),
            body : Bodies \cup Characters \cup Campaigns] :
        /\ c.scope \in Drafts <=> c.kind \in {"save", "commit"}
        /\ c.kind \in {"create", "save"} \cup Renames => c.body \in Bodies
        /\ c.kind = "commit" => c.body \in Characters
        /\ c.kind = "assign" => c.body \in Campaigns}

ASSUME LibraryAssumption ==
    /\ Characters \cap Drafts = {}
    /\ NoCharacter \notin Characters
    /\ NoBody \notin Bodies \cup Characters \cup Campaigns
    /\ NoCommand \notin Commands
    /\ MaxRevision \in Nat \ {0}
    /\ Mixes # {} /\ Mixes \subseteq SUBSET Commands

VARIABLES
    mix,            \* the commands that are sent
    library,        \* the documents of characters and drafts
    receipts,       \* the receipts of commands
    audits,         \* the audit events
    playing,        \* the source of the active instance in each campaign
    call,           \* what each caller holds
    applied,        \* history: the commands that changed a document
    removed,        \* history: the characters the service deleted
    overlapped      \* history: assignments that overlapped a deletion of their source

recordVars == <<library, receipts, audits, playing, applied, removed, overlapped>>
libraryVars == <<mix, recordVars, call>>

-----------------------------------------------------------------------------
(* Documents, records and callers.                                         *)

\* An editing draft is stored.
Envelopes == [state : {"none", "stored", "committed", "gone"}, revision : 0..MaxRevision,
              content : Bodies \cup {NoBody}]
NoEnvelope == [state |-> "none", revision |-> 0, content |-> NoBody]

Stored(s) == library[s].state \in {"stored", "committed"}

\* The fields of a command that its fingerprint digests: all but the choices of a draft.
Fingerprint(c) == [kind |-> c.kind, scope |-> c.scope, expected |-> c.expected,
                   body |-> IF c.kind = "save" THEN NoBody ELSE c.body]
Fingerprints == [kind : Kinds, scope : Scopes, expected : 0..(MaxRevision - 1),
                 body : Bodies \cup Characters \cup Campaigns \cup {NoBody}]

Receipts == [print : Fingerprints, key : Keys, result : 0..MaxRevision]
Audits == [scope : Characters, action : {"create", "rename", "delete"},
           revision : 0..MaxRevision, name : Bodies \cup {NoBody}]

\* At most one by the unique index.
ReceiptsFor(c) == {x \in receipts : x.print.scope = c.scope /\ x.key = c.key}

CallSteps == {"idle", "lookup", "writing", "auditing", "recording", "reloading", "loading",
              "checking", "reading", "removing", "assigning", "inserting", "answered"}
Calls == [step : CallSteps, command : Commands \cup {NoCommand}, held : Envelopes,
          result : 0..MaxRevision]
AtRest == [step |-> "idle", command |-> NoCommand, held |-> NoEnvelope, result |-> 0]

LibraryInit ==
    /\ mix \in Mixes
    /\ library = [s \in Scopes |-> NoEnvelope]
    /\ receipts = {} /\ audits = {}
    /\ playing = [g \in Campaigns |-> NoCharacter]
    /\ call = [r \in Callers |-> AtRest]
    /\ applied = {} /\ removed = {} /\ overlapped = {}

AtStep(r, step) == call[r].step = step

\* The next step of a call, with what it has read; the answer with the resulting revision;
\* a refusal, after which nothing is held.  Whether a deletion found something is not kept.
Goes(r, step) == call' = [call EXCEPT ![r] = [@ EXCEPT !.step = step]]
Holds(r, step, document) ==
    call' = [call EXCEPT ![r] = [@ EXCEPT !.step = step, !.held = document]]
Results(r, step, revision) ==
    call' = [call EXCEPT ![r] = [@ EXCEPT !.step = step, !.result = revision]]
Ends(r) == call' = [call EXCEPT ![r] = AtRest]

-----------------------------------------------------------------------------
(* The commands of the library.                                            *)

FirstStep(kind) ==
    CASE kind \in {"rename", "save", "commit"} -> "lookup"
      [] kind \in {"create", "browserRename"} -> "writing"
      [] kind \in {"delete", "assign"} -> "loading"
      [] kind = "browserDelete" -> "reading"

Begun(c) == [step |-> FirstStep(c.kind), command |-> c, held |-> NoEnvelope, result |-> 0]

Ask(r) ==
    /\ call[r].step \in {"idle", "answered"}
    /\ \E c \in mix : call' = [call EXCEPT ![r] = Begun(c)]
    /\ UNCHANGED <<mix, recordVars>>

\* A receipt answers a command with its fingerprint, and refuses others under its key.
Resolve(r, x) ==
    \/ x.print = Fingerprint(call[r].command) /\ Results(r, "answered", x.result)
    \/ x.print # Fingerprint(call[r].command) /\ Ends(r)

LookUpReceipt(r) ==
    /\ AtStep(r, "lookup")
    /\ \/ ReceiptsFor(call[r].command) = {} /\ Goes(r, "writing")
       \/ \E x \in ReceiptsFor(call[r].command) : Resolve(r, x)
    /\ UNCHANGED <<mix, recordVars>>

\* No other character of the account has the name.
NameFree(c) ==
    \A other \in Characters \ {c.scope} : Stored(other) => library[other].content # c.body

\* Mutation: a committed draft can be saved.
WritableAfterCommit(c) ==
    /\ IF c.kind = "create"
       THEN library[c.scope].state = "none"
       ELSE Stored(c.scope) /\ library[c.scope].revision = c.expected
    /\ c.kind \in {"create"} \cup Renames => NameFree(c)
    /\ c.kind = "commit" => Stored(c.body)

Writable(c) ==
    /\ IF c.kind = "create"
       THEN library[c.scope].state = "none"
       ELSE library[c.scope].state = "stored" /\ library[c.scope].revision = c.expected
    /\ c.kind \in {"create"} \cup Renames => NameFree(c)
    /\ c.kind = "commit" => Stored(c.body)

ResultOf(c) == IF c.kind = "create" THEN 0 ELSE c.expected + 1
Written(c) ==
    [state |-> IF c.kind = "commit" THEN "committed" ELSE "stored",
     revision |-> ResultOf(c),
     content |-> IF c.kind = "commit" THEN library[c.scope].content ELSE c.body]

AfterWrite(kind) ==
    CASE kind \in {"create", "rename"} -> "auditing"
      [] kind \in {"save", "commit"} -> "recording"
      [] kind = "browserRename" -> "answered"

Write(r) ==
    LET c == call[r].command
    IN  /\ AtStep(r, "writing")
        /\ \/ /\ Writable(c)
              /\ library' = [library EXCEPT ![c.scope] = Written(c)]
              /\ applied' = applied \cup {[command |-> c, result |-> ResultOf(c)]}
              /\ Results(r, AfterWrite(c.kind), ResultOf(c))
           \/ /\ ~Writable(c)
              /\ Ends(r)
              /\ UNCHANGED <<library, applied>>
        /\ UNCHANGED <<mix, receipts, audits, playing, removed, overlapped>>

\* The audit of a deletion is written ahead of it, with what was loaded.
AuditOf(r) ==
    LET c == call[r].command
    IN  [scope |-> c.scope, action |-> c.kind,
         revision |-> IF c.kind = "delete" THEN call[r].held.revision ELSE call[r].result,
         name |-> IF c.kind = "delete" THEN call[r].held.content ELSE c.body]

AfterAudit(kind) ==
    CASE kind = "create" -> "answered"
      [] kind = "rename" -> "recording"
      [] kind = "delete" -> "reading"

WriteAudit(r) ==
    LET c == call[r].command
    IN  /\ AtStep(r, "auditing")
        /\ \/ Stored(c.scope) /\ audits' = audits \cup {AuditOf(r)} /\ Goes(r, AfterAudit(c.kind))
           \/ ~Stored(c.scope) /\ Ends(r) /\ UNCHANGED audits
        /\ UNCHANGED <<mix, library, receipts, playing, applied, removed, overlapped>>

\* A receipt under the key means that another command was faster; it is loaded again.
WriteReceipt(r) ==
    LET c == call[r].command
    IN  /\ AtStep(r, "recording")
        /\ \/ /\ Stored(c.scope) /\ ReceiptsFor(c) = {}
              /\ receipts' = receipts \cup
                    {[print |-> Fingerprint(c), key |-> c.key, result |-> call[r].result]}
              /\ Goes(r, "answered")
           \/ Stored(c.scope) /\ ReceiptsFor(c) # {} /\ Goes(r, "reloading") /\ UNCHANGED receipts
           \/ ~Stored(c.scope) /\ Ends(r) /\ UNCHANGED receipts
        /\ UNCHANGED <<mix, library, audits, playing, applied, removed, overlapped>>

ReloadReceipt(r) ==
    /\ AtStep(r, "reloading")
    /\ \E x \in ReceiptsFor(call[r].command) : Resolve(r, x)
    /\ UNCHANGED <<mix, recordVars>>

-----------------------------------------------------------------------------
(* Deletion and assignment, each a transaction that reads what the other   *)
(* writes and writes what the other reads.                                 *)

AfterLoad(kind) == IF kind = "delete" THEN "auditing" ELSE "checking"

Load(r) ==
    LET c == call[r].command
    IN  /\ AtStep(r, "loading")
        /\ \/ Stored(c.scope) /\ Holds(r, AfterLoad(c.kind), library[c.scope])
           \/ ~Stored(c.scope) /\ Ends(r)
        /\ UNCHANGED <<mix, recordVars>>

\* Mutation: only the document itself is looked at.
DeletableInPlay(c) == Stored(c)

Deletable(c) == Stored(c) /\ \A g \in Campaigns : playing[g] # c

ReadBeforeDelete(r) ==
    LET c == call[r].command
    IN  /\ AtStep(r, "reading")
        /\ \/ Deletable(c.scope) /\ Holds(r, "removing", library[c.scope])
           \/ ~Deletable(c.scope) /\ Ends(r)
        /\ UNCHANGED <<mix, recordVars>>

\* Instances of the character that are being inserted, past all checks.
BeingInserted(c) ==
    {<<call[q].command.body, c>> :
        q \in {q \in Callers : AtStep(q, "inserting") /\ call[q].command.scope = c}}

\* A change of the document since it was read is a write conflict, and the transaction runs
\* again; a new instance is none.
Delete(r) ==
    LET c == call[r].command
    IN  /\ AtStep(r, "removing")
        /\ \/ /\ library[c.scope] = call[r].held
              /\ library' = [library EXCEPT ![c.scope] = [@ EXCEPT !.state = "gone"]]
              /\ removed' = IF c.kind = "delete" THEN removed \cup {c.scope} ELSE removed
              /\ overlapped' = overlapped \cup BeingInserted(c.scope)
              /\ Ends(r)
           \/ /\ library[c.scope] # call[r].held
              /\ Goes(r, "reading")
              /\ UNCHANGED <<library, removed, overlapped>>
        /\ UNCHANGED <<mix, receipts, audits, playing, applied>>

\* The character that was loaded is still the one in the library; and its campaign, which may
\* refuse as well (GiveUp), is one it may play in.
CheckSource(r) ==
    /\ AtStep(r, "checking")
    /\ \/ library[call[r].command.scope] = call[r].held /\ Goes(r, "assigning")
       \/ library[call[r].command.scope] # call[r].held /\ Ends(r)
    /\ UNCHANGED <<mix, recordVars>>

SourceUnchanged(r) ==
    LET source == library[call[r].command.scope]
    IN  source.state = "stored" /\ source.revision = call[r].held.revision

RecheckSource(r) ==
    /\ AtStep(r, "assigning")
    /\ \/ SourceUnchanged(r) /\ Goes(r, "inserting")
       \/ ~SourceUnchanged(r) /\ Ends(r)
    /\ UNCHANGED <<mix, recordVars>>

BeingRemoved(c) == \E q \in Callers : AtStep(q, "removing") /\ call[q].command.scope = c

\* The account has at most one active instance in a campaign.
InsertInstance(r) ==
    LET c == call[r].command
    IN  /\ AtStep(r, "inserting")
        /\ \/ /\ playing[c.body] = NoCharacter
              /\ playing' = [playing EXCEPT ![c.body] = c.scope]
              /\ overlapped' = IF BeingRemoved(c.scope)
                               THEN overlapped \cup {<<c.body, c.scope>>} ELSE overlapped
           \/ playing[c.body] # NoCharacter /\ UNCHANGED <<playing, overlapped>>
        /\ Ends(r)
        /\ UNCHANGED <<mix, library, receipts, audits, applied, removed>>

-----------------------------------------------------------------------------
(* What happens beside the commands.                                       *)

\* The caller gives up or dies, or what a step awaits is an error.
GiveUp(r) ==
    /\ call[r].step \notin {"idle", "answered"}
    /\ Ends(r)
    /\ UNCHANGED <<mix, recordVars>>

\* The member is removed, or the campaign deleted.
RetireInstance(g) ==
    /\ playing[g] # NoCharacter
    /\ playing' = [playing EXCEPT ![g] = NoCharacter]
    /\ UNCHANGED <<mix, library, receipts, audits, call, applied, removed, overlapped>>

CreateDraft(d) ==
    /\ library[d].state = "none"
    /\ library' = [library EXCEPT ![d] = [@ EXCEPT !.state = "stored"]]
    /\ UNCHANGED <<mix, receipts, audits, playing, call, applied, removed, overlapped>>

\* By its owner, by the clean-up or by the database when its time is over.
RemoveDraft(d) ==
    /\ Stored(d)
    /\ library' = [library EXCEPT ![d] = [@ EXCEPT !.state = "gone"]]
    /\ UNCHANGED <<mix, receipts, audits, playing, call, applied, removed, overlapped>>

LibraryNext ==
    \/ \E r \in Callers :
          \/ Ask(r) \/ LookUpReceipt(r) \/ Write(r) \/ WriteAudit(r) \/ WriteReceipt(r)
          \/ ReloadReceipt(r) \/ Load(r) \/ ReadBeforeDelete(r) \/ Delete(r)
          \/ CheckSource(r) \/ RecheckSource(r) \/ InsertInstance(r) \/ GiveUp(r)
    \/ \E g \in Campaigns : RetireInstance(g)
    \/ \E d \in Drafts : CreateDraft(d) \/ RemoveDraft(d)

LibrarySpec == LibraryInit /\ [][LibraryNext]_libraryVars
=============================================================================
