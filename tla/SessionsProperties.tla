-------------------------- MODULE SessionsProperties --------------------------
(***************************************************************************)
(* What sessions promise: a revoked session is not served for long, and a  *)
(* session in use does not lapse.                                          *)
(***************************************************************************)
EXTENDS Sessions

\* Documents, cache entries and requests stay what they are, and no document outlives
\* its absolute expiry by being refreshed (auth.rs and persistence/auth.rs).
SessionsTypeOK ==
    /\ now \in 1..MaxTime /\ version \in 0..MaxVersion
    /\ signup \in [token : TokenStates, session : {"none", "active", "completed"}]
    /\ sessions \in [Sessions -> SessionDocuments]
    /\ \A d \in Sessions : sessions[d].idle <= sessions[d].absolute
    /\ cache \in [Sessions -> Entries]
    /\ request \in [Requests -> RequestStates]
    /\ issued \in [Sessions -> Times] /\ lag \in [Sessions -> Times]

\* However deletions and fills of the cache are lost or delayed, a request is served only
\* by a session that had not expired when it read the clock, but for what a late refresh
\* took from it, and whose password version was current when it looked into the cache or
\* later; and if the session was revoked, the request began less than one refresh
\* interval after that, or after the login that issued it (authenticate, auth.rs:541).
RevocationIsBounded ==
    \A r \in Requests : At(r, "accepted") =>
        LET d == request[r].session
            document == sessions[d]
            began == request[r].began
        IN  /\ began < document.absolute
            /\ began < document.idle + lag[d]
            /\ request[r].version >= request[r].since
            /\ document.revokedAt > 0 =>
                   began < Greatest(document.revokedAt, issued[d]) + RefreshInterval

\* A request that the cache serves does not extend its session; still, whenever one is
\* served, the session stays alive for the idle lifetime less one refresh interval, or to
\* its absolute expiry, unless it is revoked.  What is lost besides is the time its last
\* write took, from the clock it read to its effect or to the login's answer: a refresh
\* that is late takes so much from what a newer one gave (persistence/auth.rs:646).
UsedSessionsStay ==
    \A r \in Requests : At(r, "accepted") =>
        LET d == request[r].session
            document == sessions[d]
        IN  \/ document.idle = document.absolute
            \/ document.idle + RefreshInterval + lag[d] > request[r].began + Idle

\* The same without the delay of the last write.  It does not hold of the code, and no run
\* checks it (README, section 5).
UseAlwaysExtends ==
    \A r \in Requests : At(r, "accepted") =>
        LET document == sessions[request[r].session]
            login == issued[request[r].session] - (document.absolute - Absolute)
        IN  \/ document.idle = document.absolute
            \/ document.idle + RefreshInterval + login > request[r].began + Idle

\* A session that was ended is never active again, none outlives its absolute expiry, and
\* only a refresh takes time from one: a late one, which leaves it the idle lifetime from
\* when its request came to the database (persistence/auth.rs:644-713).
SessionsAge ==
    [][\A d \in Sessions :
          /\ sessions[d].state \in {"revoked", "gone"} => sessions'[d].state \in {"revoked", "gone"}
          /\ sessions[d].state # "none" =>
                /\ sessions'[d].absolute = sessions[d].absolute
                /\ \/ sessions[d].idle <= sessions'[d].idle
                   \/ \E r \in Requests :
                         /\ At(r, "database") /\ request[r].session = d
                         /\ request[r].opened + Idle <= sessions'[d].idle]_sessionVars
=============================================================================
