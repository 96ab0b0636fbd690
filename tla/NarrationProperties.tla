------------------------- MODULE NarrationProperties -------------------------
(***************************************************************************)
(* What the texts of a campaign owe to their requests.                     *)
(***************************************************************************)
EXTENDS Narration

\* The receipts of a turn number its narrations: a key publishes once, there are never more
\* than the limit, the newest is selected and no other, and a number is not given again when
\* its text has expired or was deleted (presentations.rs:475-560).
VersionsAreNumbered ==
    \A n \in Turns :
        LET newest == Len(receipts[n])
        IN  /\ newest <= MaxVersions
            /\ \A v, w \in 1..newest : receipts[n][v] = receipts[n][w] => v = w
            /\ \A v \in Versions :
                  /\ v < newest => body[n][v] \in {"superseded", "expired", "purged"}
                  /\ v = newest => body[n][v] = "selected"
                  /\ v > newest => body[n][v] = "none"

\* Whatever the game master, the policy and the other requests do, an attempt is running only
\* while a request holds it, but for these: the request was dropped while it held the attempt;
\* the claim committed and was answered with an error; the call that closes the attempt
\* failed; or no text could be published, and the backend is not the fake one
\* (freeform.rs:1802-1917, 518-535).
Holds(r, j) == request[r].step \in HoldSteps /\ JobOf(r) = j
LeftFor(j, reasons) == \E why \in reasons : [job |-> j, why |-> why] \in left
Excused(j) ==
    \/ LeftFor(j, {"dropped", "claim", "close"})
    \/ backend # "fake" /\ LeftFor(j, {"text"})
AttemptsAreClosed ==
    \A j \in JobIds : job[j] = "leased" => Excused(j) \/ \E r \in Requests : Holds(r, j)

\* The same without the last exception, which does not hold: with a backend that is disabled
\* or external the attempt is left when nothing is published (freeform.rs:1908-1917).
UnpublishedAttemptsAreClosed ==
    \A j \in JobIds : job[j] = "leased" =>
        \/ LeftFor(j, {"dropped", "claim", "close"})
        \/ \E r \in Requests : Holds(r, j)

\* A recap lists the turns that were committed by its revision, and none that came later,
\* however many revisions and requests for it there were between (recaps.rs:199-245).
RecapTellsItsRevision ==
    \A n \in Revisions : recaps[n] # NoRecap =>
        /\ DOMAIN recaps[n] = {i \in DOMAIN turns : turns[i] <= n}
        /\ \A i \in DOMAIN recaps[n] : recaps[n][i] = turns[i]

\* A request is not refused because of the receipt it wrote itself
\* (docs/evidence/slice-3-typed-gm-evaluation.md:65).  It always is.
IntentIsNoConflict == \A r \in Requests : answer[r] # "key taken"
=============================================================================
