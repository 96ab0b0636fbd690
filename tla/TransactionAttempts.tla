------------------------ MODULE TransactionAttempts ------------------------
(***************************************************************************)
(* One call of MongoStore::with_transaction: the attempts, the commits     *)
(* that are sent again, the deadline, and the database that decides.       *)
(*                                                                         *)
(* Outside the helper, and modelled from the error labels it goes by: a    *)
(* commit labelled TransientTransactionError was not applied; one labelled *)
(* UnknownTransactionCommitResult may have been, or may be later; a        *)
(* transaction that was applied answers every further commit with success. *)
(***************************************************************************)
EXTENDS Integers

CONSTANT MaxAttempts    \* transaction_max_retries + 1

ASSUME AttemptsAssumption == MaxAttempts \in Nat \ {0}

VARIABLES
    pc,             \* the await the helper is at
    attempt,        \* runs of the whole transaction so far
    commitAttempt,  \* commits sent for the present one
    transaction,    \* the present transaction at the database
    installed,      \* how often the callback's effect was installed
    answer          \* what the caller was told

attemptVars == <<pc, attempt, commitAttempt, transaction, installed, answer>>
databaseVars == <<transaction, installed>>

Awaits == {"start", "callback", "abort", "retry", "commit", "sent"}
Answers == {"none", "value", "refused", "failed", "exhausted", "deadline"}

TypeOK ==
    /\ pc \in Awaits \cup {"done"}
    /\ attempt \in 1..MaxAttempts
    /\ commitAttempt \in 0..MaxAttempts
    /\ transaction \in {"none", "open", "committing", "committed", "aborted"}
    /\ installed \in Nat
    /\ answer \in Answers

AttemptsInit ==
    /\ pc = "start" /\ attempt = 1 /\ commitAttempt = 0
    /\ transaction = "none" /\ installed = 0
    /\ answer = "none"

Return(result) ==
    /\ pc' = "done" /\ answer' = result
    /\ UNCHANGED <<attempt, commitAttempt>>

AttemptsLeft == attempt < MaxAttempts

\* Another run that is not counted.
RunAgainUncounted ==
    IF AttemptsLeft
    THEN /\ pc' = "start" /\ commitAttempt' = 0
         /\ UNCHANGED <<answer, attempt>>
    ELSE Return("exhausted")

\* Another run of everything, or the error that says there was none left.
RunAgain ==
    IF AttemptsLeft
    THEN /\ pc' = "start" /\ attempt' = attempt + 1 /\ commitAttempt' = 0
         /\ UNCHANGED answer
    ELSE Return("exhausted")

Start ==
    /\ pc = "start"
    /\ pc' = "callback" /\ transaction' = "open"
    /\ UNCHANGED <<attempt, commitAttempt, installed, answer>>

StartFails ==
    /\ pc = "start"
    /\ RunAgain \/ Return("failed")
    /\ transaction' = "none"
    /\ UNCHANGED installed

CallbackReturns ==
    /\ pc = "callback"
    /\ pc' = "commit"
    /\ UNCHANGED <<attempt, commitAttempt, databaseVars, answer>>

\* The error is remembered while the transaction is aborted: a refusal of the
\* callback's own goes to the caller, a transient one to another attempt.
CallbackFails ==
    /\ pc = "callback"
    /\ pc' \in {"abort", "retry"}
    /\ UNCHANGED <<attempt, commitAttempt, databaseVars, answer>>

AbortDone ==
    /\ pc \in {"abort", "retry"}
    /\ transaction' = "aborted"
    /\ IF pc = "retry" THEN RunAgain ELSE Return("refused")
    /\ UNCHANGED installed

AbortFails ==
    /\ pc \in {"abort", "retry"}
    /\ Return("failed")
    /\ transaction' = "aborted"
    /\ UNCHANGED installed

SendCommit ==
    /\ pc = "commit"
    /\ pc' = "sent" /\ commitAttempt' = commitAttempt + 1
    /\ transaction' = IF transaction = "open" THEN "committing" ELSE transaction
    /\ UNCHANGED <<attempt, installed, answer>>

CommitAnswered ==
    /\ pc = "sent" /\ transaction = "committed"
    /\ Return("value")
    /\ UNCHANGED databaseVars

\* UnknownTransactionCommitResult: the commit alone is sent again.
CommitUnknown ==
    /\ pc = "sent"
    /\ IF commitAttempt < MaxAttempts
       THEN pc' = "commit" /\ UNCHANGED <<attempt, commitAttempt, answer>>
       ELSE Return("exhausted")
    /\ UNCHANGED databaseVars

\* TransientTransactionError: the transaction is gone, all of it is run again.
CommitTransient ==
    /\ pc = "sent" /\ transaction = "aborted"
    /\ RunAgain
    /\ UNCHANGED databaseVars

\* An unlabelled commit error reported like an error of the callback.
CommitFailsAsRefusal ==
    /\ pc = "sent"
    /\ Return("refused")
    /\ UNCHANGED databaseVars

CommitFails ==
    /\ pc = "sent"
    /\ Return("failed")
    /\ UNCHANGED databaseVars

\* Time runs out at an await. The session is dropped, and with it a transaction
\* that was not being committed.
Deadline ==
    /\ pc \in Awaits
    /\ Return("deadline")
    /\ transaction' = IF transaction = "open" THEN "aborted" ELSE transaction
    /\ UNCHANGED installed

\* The database decides a commit it received, whoever still waits for it.
DatabaseCommits ==
    /\ transaction = "committing"
    /\ transaction' = "committed" /\ installed' = installed + 1
    /\ UNCHANGED <<pc, attempt, commitAttempt, answer>>

DatabaseAborts ==
    /\ transaction = "committing"
    /\ transaction' = "aborted"
    /\ UNCHANGED <<pc, attempt, commitAttempt, installed, answer>>

HelperStep ==
    \/ Start \/ StartFails
    \/ CallbackReturns \/ CallbackFails
    \/ AbortDone \/ AbortFails
    \/ SendCommit \/ CommitAnswered \/ CommitUnknown \/ CommitTransient \/ CommitFails
    \/ Deadline

AttemptsNext == HelperStep \/ DatabaseCommits \/ DatabaseAborts

AttemptsSpec == AttemptsInit /\ [][AttemptsNext]_attemptVars

\* Every await of the helper ends: the timeout around it sees to that.
AttemptsFairSpec == AttemptsSpec /\ WF_attemptVars(HelperStep)
-----------------------------------------------------------------------------

\* Every run of the whole transaction that is retried left nothing behind: while
\* the helper may run it again, its effect is not installed.
NothingLeftBehind ==
    pc \in {"start", "callback", "abort", "retry"} => installed = 0

\* The helper's promise to its callers. Only an error of the callback is a
\* refusal; every error of the transaction itself leaves the effect unknown.
Outcome == INSTANCE TransactionOutcome WITH
    effect <- IF installed = 0 THEN "absent" ELSE "installed",
    answer <- CASE answer = "value" -> "success"
                [] answer = "refused" -> "refused"
                [] answer = "none" -> "none"
                [] OTHER -> "unknown"

\* with_transaction keeps that promise, however often it retries.
ImplementsOutcome == Outcome!OutcomeSpec

\* The helper never retries without end, even if its deadline never struck: its
\* attempts, and the commits of each, are counted.
Ends == <>(pc = "done")
=============================================================================
