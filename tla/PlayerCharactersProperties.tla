---------------------- MODULE PlayerCharactersProperties ----------------------
(***************************************************************************)
(* What the library promises: its answers, receipts and audits tell what   *)
(* happened to a document, and a campaign's characters have a source.      *)
(***************************************************************************)
EXTENDS PlayerCharacters

\* Documents, records and calls stay what they are (repository/player_characters.rs).
LibraryTypeOK ==
    /\ mix \in Mixes
    /\ library \in [Scopes -> Envelopes]
    /\ receipts \subseteq Receipts
    /\ audits \subseteq Audits
    /\ playing \in [Campaigns -> Characters \cup {NoCharacter}]
    /\ call \in [Callers -> Calls]
    /\ applied \subseteq [command : Commands, result : 0..MaxRevision]
    /\ removed \subseteq Characters
    /\ overlapped \subseteq Campaigns \X Characters

-----------------------------------------------------------------------------
(* What is told.                                                           *)

TookEffect(print, result) ==
    \E a \in applied : Fingerprint(a.command) = print /\ a.result = result

\* The answer to a command is the revision after the one it was sent for.
AnswersTell ==
    \A r \in Callers : AtStep(r, "answered") =>
        /\ call[r].result = ResultOf(call[r].command)
        /\ TookEffect(Fingerprint(call[r].command), call[r].result)

ReceiptsTell == \A x \in receipts : TookEffect(x.print, x.result)

RenameAudited(scope, revision, name) ==
    \E a \in audits : a.action = "rename" /\ a.scope = scope /\ a.revision = revision
                      /\ a.name = name
DeletionAudited(c) == \E a \in audits : a.action = "delete" /\ a.scope = c

\* An audited rename took effect; one that is answered or has a receipt is audited; and no
\* character is deleted by the service without a trace.
AuditsTell ==
    /\ \A a \in audits : a.action = "rename" =>
          \E p \in applied : p.command.kind = "rename" /\ p.command.scope = a.scope
                             /\ p.result = a.revision /\ p.command.body = a.name
    /\ \A r \in Callers : AtStep(r, "answered") /\ call[r].command.kind = "rename" =>
          RenameAudited(call[r].command.scope, call[r].result, call[r].command.body)
    /\ \A x \in receipts : x.print.kind = "rename" =>
          RenameAudited(x.print.scope, x.result, x.print.body)
    /\ \A c \in removed : DeletionAudited(c)

\* No two commands changed one revision of a document, and none a committed draft.
EffectsAreOrdered ==
    \A a, b \in applied : a.command.scope = b.command.scope =>
        /\ a.result = b.result => a = b
        /\ a.command.kind = "commit" => b.result <= a.result

\* However the steps of commands interleave, wherever a caller stops, and whatever is renamed,
\* removed or sent again meanwhile, what callers, receipts and audits tell of a command
\* did happen, once (application/player_characters.rs:132-239, 318-465).
RecordsTellTheTruth == AnswersTell /\ ReceiptsTell /\ AuditsTell /\ EffectsAreOrdered

-----------------------------------------------------------------------------
(* Characters in campaigns.                                                *)

\* A character that plays in a campaign is in the library, unless its assignment and its
\* deletion had both passed their checks before either took effect
\* (delete_player_character, repository/player_characters.rs:257, and
\* assign_character_to_campaign, repository/memberships.rs:1113).
PlayingHaveSources ==
    \A g \in Campaigns : playing[g] # NoCharacter =>
        Stored(playing[g]) \/ <<g, playing[g]>> \in overlapped

-----------------------------------------------------------------------------
(* What does not hold.                                                     *)

\* No retry of a save is answered for other choices: "fails fast if the command body changed"
\* (application/player_characters.rs:9).
SavesKeepTheirChoices ==
    \A r \in Callers : AtStep(r, "answered") /\ call[r].command.kind = "save" =>
        \E a \in applied : a.command.scope = call[r].command.scope
                           /\ a.result = call[r].result
                           /\ a.command.body = call[r].command.body

\* What is loaded after a duplicate key is an answer: "a concurrent duplicate won the race"
\* (application/player_characters.rs:212).
DuplicatesAreAnswered ==
    \A r \in Callers : AtStep(r, "reloading") =>
        \E x \in ReceiptsFor(call[r].command) : x.print = Fingerprint(call[r].command)

\* What does hold of it: the receipt belongs to another command, which is the refusal of one
\* that has taken effect.
ReloadsOnlyRefuse ==
    \A r \in Callers : AtStep(r, "reloading") =>
        \A x \in ReceiptsFor(call[r].command) : x.print # Fingerprint(call[r].command)

\* No deletion overlaps an assignment unseen.
SourcesOutliveInstances ==
    \A g \in Campaigns : playing[g] # NoCharacter => Stored(playing[g])
=============================================================================
