------------------------------- MODULE Sessions -------------------------------
(***************************************************************************)
(* The login sessions of one account and the cache in front of them.  The  *)
(* database is the authority; the cache holds copies that are filled,      *)
(* deleted and lost on their own.  A request takes its reads and writes    *)
(* one step at a time, and the clock may tick between any two.  A request  *)
(* reads the clock before the step that uses it; as nothing else sees it   *)
(* do so, the step takes any time since the request's last one.            *)
(***************************************************************************)
EXTENDS Naturals, FiniteSets

CONSTANTS
    Requests,       \* requests that may be served at once
    Sessions,       \* session ids, each with its bearer digest
    Idle,           \* session_idle_lifetime
    Absolute,       \* session_absolute_lifetime
    MaxRefresh,     \* the longest refresh interval (60 seconds)
    MaxActive,      \* max_active_sessions
    NoSession,      \* no session
    MaxVersion,     \* bound: password versions
    MaxTime         \* bound: the clock

ASSUME SessionsAssumption ==
    /\ NoSession \notin Sessions
    /\ Idle \in Nat \ {0} /\ Absolute \in Nat /\ Idle <= Absolute
    /\ MaxRefresh \in Nat \ {0}
    /\ MaxActive \in Nat \ {0}
    /\ MaxVersion \in Nat \ {0} /\ MaxTime \in Nat \ {0}

VARIABLES
    now,            \* the clock
    version,        \* the account's password_role_version, 0 before it signed up
    signup,         \* the sign-up access token and the sign-up session
    sessions,       \* the session documents
    cache,          \* the cache entries
    request,        \* what each request holds
    issued,         \* history: when each session's login returned
    lag             \* history: how far its last write lay behind the clock it had read

databaseVars == <<version, signup, sessions>>
history == <<issued, lag>>
sessionVars == <<now, databaseVars, cache, request, history>>

-----------------------------------------------------------------------------
(* Documents, entries and requests.                                        *)

\* The recorded time of a revocation is read by nothing: "revokedAt" is when it took effect.
Times == 0..(MaxTime + Absolute)
SessionDocuments ==
    [state : {"none", "active", "revoked", "gone"}, version : Nat, created : Times,
     lastSeen : Times, idle : Times, absolute : Times, revokedAt : Times]
NoDocument == [state |-> "none", version |-> 0, created |-> 0, lastSeen |-> 0,
               idle |-> 0, absolute |-> 0, revokedAt |-> 0]

\* A copy of a session document.  The cache may forget it at any time, and does so at the
\* latest after a time to live, which is left out: a lookup may always miss.
Entries == [version : Nat, idle : Times, absolute : Times, persisted : Times]
NoEntry == [version |-> 0, idle |-> 0, absolute |-> 0, persisted |-> 0]

Steps == {"idle", "verified", "rehashing", "creating", "dropping", "caching",
          "version", "database", "filling", "accepted"}

\* What a request works on: its session, the entry it took from the cache or the document
\* it wrote to the database, the entries it has to delete, the clock and the password
\* version when it began, when its last step was or what its transaction took the time
\* to be, and for a login the version it verified and what its snapshot showed of the
\* sessions it revokes.
RequestStates ==
    [step : Steps, session : Sessions \cup {NoSession}, version : Nat, began : Times,
     opened : Times, since : Nat, entry : Entries, document : SessionDocuments,
     drop : SUBSET Sessions, seen : [Sessions -> Times]]
Idling == [step |-> "idle", session |-> NoSession, version |-> 0, began |-> 0,
           opened |-> 0, since |-> 0, entry |-> NoEntry, document |-> NoDocument,
           drop |-> {}, seen |-> [d \in Sessions |-> 0]]

TokenStates == {"none", "active", "reserved", "consumed", "revoked"}

SessionsInit ==
    /\ now = 1
    /\ version = 0
    /\ signup = [token |-> "none", session |-> "none"]
    /\ sessions = [d \in Sessions |-> NoDocument]
    /\ cache = [d \in Sessions |-> NoEntry]
    /\ request = [r \in Requests |-> Idling]
    /\ issued = [d \in Sessions |-> 0]
    /\ lag = [d \in Sessions |-> 0]

At(r, step) == request[r].step = step

Least(a, b) == IF a < b THEN a ELSE b
Greatest(a, b) == IF a < b THEN b ELSE a

\* Half the idle lifetime, at most a minute and at least a second.
RefreshInterval == Greatest(Least(Idle \div 2, MaxRefresh), 1)

Expired(document) == document.idle <= now \/ document.absolute <= now

\* What a query finds that was given the time "clock".
Live(d, clock) ==
    sessions[d].state = "active" /\ sessions[d].idle > clock /\ sessions[d].absolute > clock

\* The clock, which nothing reads before the account has signed up.
Tick ==
    /\ now < MaxTime /\ version > 0
    /\ now' = now + 1
    /\ UNCHANGED <<databaseVars, cache, request, history>>

-----------------------------------------------------------------------------
(* Sign-up: a token lets one sign-up session begin, which makes one        *)
(* account and its first session.                                          *)

IssueSignupAccessToken ==
    /\ signup.token = "none"
    /\ signup' = [signup EXCEPT !.token = "active"]
    /\ UNCHANGED <<now, version, sessions, cache, request, history>>

BeginSignup ==
    /\ signup.token = "active"
    /\ signup' = [token |-> "reserved", session |-> "active"]
    /\ UNCHANGED <<now, version, sessions, cache, request, history>>

\* A token can be revoked until it is consumed, reserved or not.
RevokeSignupAccessToken ==
    /\ signup.token \in {"active", "reserved"}
    /\ signup' = [signup EXCEPT !.token = "revoked"]
    /\ UNCHANGED <<now, version, sessions, cache, request, history>>

\* A session that was asked for at "began" and written at "opened".
Document(v, began, opened) ==
    [state |-> "active", version |-> v, created |-> opened, lastSeen |-> opened,
     idle |-> began + Idle, absolute |-> began + Absolute, revokedAt |-> 0]
NewDocument(v) == Document(v, now, now)

CompleteSignup(r, d) ==
    /\ At(r, "idle")
    /\ signup = [token |-> "reserved", session |-> "active"]
    /\ sessions[d].state = "none"
    /\ signup' = [token |-> "consumed", session |-> "completed"]
    /\ version' = 1
    /\ sessions' = [sessions EXCEPT ![d] = NewDocument(1)]
    /\ request' = [request EXCEPT ![r] =
           [Idling EXCEPT !.step = "caching", !.session = d, !.document = NewDocument(1)]]
    /\ UNCHANGED <<now, cache, history>>

-----------------------------------------------------------------------------
(* Login.  It reads the account, and then creates a session in a           *)
(* transaction that reads the account again without writing it: two steps, *)
(* its snapshot and its commit.                                            *)

\* The password is right, for the account as it was loaded.
VerifyPassword(r) ==
    /\ At(r, "idle") /\ version > 0
    /\ request' = [request EXCEPT ![r] =
           [Idling EXCEPT !.step = "verified", !.version = version, !.opened = now]]
    /\ UNCHANGED <<now, databaseVars, cache, history>>

Revoked(document, at) == [document EXCEPT !.state = "revoked", !.revokedAt = at]

\* What a request does when it has deleted the entries in "drop": a login goes on to create
\* its session, or to cache it; a logout is done.
NextAfterDrop(state) ==
    IF state.drop # {} THEN state
    ELSE IF state.step = "rehashing" THEN [state EXCEPT !.step = "verified", !.opened = now]
    ELSE IF state.session # NoSession THEN [state EXCEPT !.step = "caching"]
    ELSE Idling

\* A password that was hashed with other parameters is hashed again: every session of
\* the account is revoked, and this login goes on with the new version.
UpdatePasswordAndRevokeSessions(r) ==
    LET active == {d \in Sessions : sessions[d].state = "active"}
    IN  /\ At(r, "verified") /\ request[r].began = 0 /\ version < MaxVersion
        /\ version' = version + 1
        /\ sessions' = [d \in Sessions |->
               IF d \in active THEN Revoked(sessions[d], now) ELSE sessions[d]]
        /\ request' = [request EXCEPT ![r] =
               NextAfterDrop([@ EXCEPT !.step = "rehashing", !.version = version + 1,
                                       !.drop = active])]
        /\ UNCHANGED <<now, signup, cache, history>>

Newer(d, e) == sessions[d].created > sessions[e].created

\* Sessions beyond the limit, oldest first; of those created at once, any.
Excess(live) ==
    {over \in SUBSET live :
        /\ Cardinality(live \ over) = Least(Cardinality(live), MaxActive - 1)
        /\ \A d \in over, e \in live \ over : ~Newer(d, e)}

\* The snapshot of the transaction: the account must be as it was verified.  The clock was
\* read before, once for the times at which the session expires, which are fixed when it is
\* first begun, and then by each transaction.
BeginLoginSession(r) ==
    /\ At(r, "verified")
    /\ \/ /\ version = request[r].version
          /\ \E opened \in request[r].opened..now :
             \E began \in (IF request[r].began = 0 THEN request[r].opened..opened
                           ELSE {request[r].began}),
                over \in Excess({d \in Sessions : Live(d, opened)}) :
                 request' = [request EXCEPT ![r] =
                     [@ EXCEPT !.step = "creating", !.opened = opened, !.began = began,
                               !.drop = over,
                               !.seen = [d \in Sessions |->
                                   IF d \in over THEN sessions[d].lastSeen ELSE 0]]]
       \/ /\ version # request[r].version
          /\ request' = [request EXCEPT ![r] = Idling]
    /\ UNCHANGED <<now, databaseVars, cache, history>>

LoginDocument(login) == Document(login.version, login.began, login.opened)

\* It commits unless a session that it revokes was written meanwhile; then it starts again.
CreateLoginSession(r, d) ==
    LET login == request[r]
        unwritten == \A e \in login.drop :
            sessions[e].state = "active" /\ sessions[e].lastSeen = login.seen[e]
    IN  /\ At(r, "creating") /\ sessions[d].state = "none"
        /\ \/ /\ unwritten
              /\ sessions' = [e \in Sessions |->
                     IF e = d THEN LoginDocument(login)
                     ELSE IF e \in login.drop THEN Revoked(sessions[e], now)
                     ELSE sessions[e]]
              /\ request' = [request EXCEPT ![r] =
                     NextAfterDrop([Idling EXCEPT
                         !.step = "dropping", !.session = d,
                         !.document = LoginDocument(login), !.drop = login.drop])]
           \/ /\ ~unwritten
              /\ request' = [request EXCEPT ![r] =
                     [Idling EXCEPT !.step = "verified", !.version = login.version,
                                    !.began = login.began, !.opened = now]]
              /\ UNCHANGED sessions
        /\ UNCHANGED <<now, version, signup, cache, history>>

\* The entries of revoked sessions are deleted one by one; the cache may not answer.
DropEntry(r, d) ==
    /\ d \in request[r].drop /\ request[r].step \in {"rehashing", "dropping"}
    /\ cache' \in {cache, [cache EXCEPT ![d] = NoEntry]}
    /\ request' = [request EXCEPT ![r] = NextAfterDrop([@ EXCEPT !.drop = request[r].drop \ {d}])]
    /\ UNCHANGED <<now, databaseVars, history>>

\* Mutant: the time of the copy for the time of the document.
EntryOfNow(document, persisted) ==
    [version |-> document.version, idle |-> document.idle, absolute |-> document.absolute,
     persisted |-> now]

EntryOf(document, persisted) ==
    [version |-> document.version, idle |-> document.idle, absolute |-> document.absolute,
     persisted |-> Greatest(document.lastSeen, persisted)]

\* The entry is written, unless the document has expired or the cache does not answer.
Fill(d, document, persisted) ==
    \/ UNCHANGED cache
    \/ /\ ~Expired(document)
       /\ cache' = [cache EXCEPT ![d] = EntryOf(document, persisted)]

CacheLoginSession(r) ==
    LET d == request[r].session
    IN  /\ At(r, "caching")
        /\ Fill(d, request[r].document, now)
        /\ issued' = [issued EXCEPT ![d] = now]
        /\ lag' = [lag EXCEPT ![d] = now - (request[r].document.absolute - Absolute)]
        /\ request' = [request EXCEPT ![r] = Idling]
        /\ UNCHANGED <<now, databaseVars>>

-----------------------------------------------------------------------------
(* Authentication: from the cache if the entry is valid, the account's     *)
(* version is the entry's and the document was written recently, and       *)
(* otherwise from the database, which extends the session.                 *)

\* The clock is read first, and the cache later.
Authenticate(r, d) == \E began \in issued[d]..now :
    LET entry == cache[d]
        valid == entry.idle > began /\ entry.absolute > began
        begun == [Idling EXCEPT !.session = d, !.began = began, !.since = version]
        missed == [begun EXCEPT !.step = "database", !.opened = now]
    IN  /\ At(r, "idle") /\ sessions[d].state # "none" /\ issued[d] > 0
        /\ \/ /\ entry # NoEntry /\ valid
              /\ request' = [request EXCEPT ![r] =
                     [begun EXCEPT !.step = "version", !.entry = entry]]
              /\ UNCHANGED cache
           \/ /\ entry # NoEntry /\ ~valid
              /\ request' = [request EXCEPT ![r] = missed]
              /\ cache' \in {cache, [cache EXCEPT ![d] = NoEntry]}
           \/ /\ request' = [request EXCEPT ![r] = missed]
              /\ UNCHANGED cache       \* a miss, or no answer
        /\ UNCHANGED <<now, databaseVars, history>>

Accept(r) ==
    request' = [request EXCEPT ![r] =
        [Idling EXCEPT !.step = "accepted", !.session = request[r].session,
                       !.version = request[r].entry.version, !.began = request[r].began,
                       !.since = request[r].since]]

\* Mutant: the session is refreshed only when it is about to lapse.
RecentForIdle(entry, began) == began < entry.persisted + Idle
Recent(entry, began) == began < entry.persisted + RefreshInterval

CheckEntry(r) ==
    LET d == request[r].session
        entry == request[r].entry
        refused == [request[r] EXCEPT !.step = "database", !.entry = NoEntry, !.opened = now]
    IN  /\ At(r, "version")
        /\ \/ /\ entry.version = version /\ Recent(entry, request[r].began)
              /\ Accept(r)
              /\ UNCHANGED cache
           \/ /\ entry.version = version /\ ~Recent(entry, request[r].began)
              /\ request' = [request EXCEPT ![r] = refused]
              /\ UNCHANGED cache
           \/ /\ entry.version # version
              /\ request' = [request EXCEPT ![r] = refused]
              /\ cache' \in {cache, [cache EXCEPT ![d] = NoEntry]}
        /\ UNCHANGED <<now, databaseVars, history>>

Refreshed(document, clock) ==
    [document EXCEPT !.lastSeen = clock, !.idle = Least(clock + Idle, document.absolute)]

\* The transaction reads the clock before its snapshot is taken, and writes the times that
\* it gives whatever others wrote since.  From its snapshot to its commit it is one step: if
\* the session is written between them it starts again, and reads the clock anew.  An
\* update that changes nothing, the second within a millisecond, counts as no session.
AuthenticateFromDatabase(r) == \E clock \in request[r].opened..now :
    LET d == request[r].session
        found == Live(d, clock) /\ sessions[d].version = version
        document == Refreshed(sessions[d], clock)
    IN  /\ At(r, "database")
        /\ \/ /\ found
              /\ sessions' = [sessions EXCEPT ![d] = document]
              /\ lag' = [lag EXCEPT ![d] = now - clock]
              /\ request' = [request EXCEPT ![r] =
                     [@ EXCEPT !.step = "filling", !.opened = 0, !.document = document]]
           \/ /\ found => document = sessions[d]
              /\ request' = [request EXCEPT ![r] = Idling]
              /\ UNCHANGED <<sessions, lag>>
        /\ UNCHANGED <<now, version, signup, cache, issued>>

CacheAuthenticated(r) ==
    LET d == request[r].session
        document == request[r].document
    IN  /\ At(r, "filling")
        /\ Fill(d, document, request[r].began)
        /\ request' = [request EXCEPT ![r] =
               [Idling EXCEPT !.step = "accepted", !.session = d, !.version = document.version,
                              !.began = request[r].began, !.since = request[r].since]]
        /\ UNCHANGED <<now, databaseVars, history>>

Answered(r) ==
    /\ At(r, "accepted")
    /\ request' = [request EXCEPT ![r] = Idling]
    /\ UNCHANGED <<now, databaseVars, cache, history>>

-----------------------------------------------------------------------------
(* Logout, clean-up, and requests that end early.                          *)

RevokeSession(r, d) ==
    /\ At(r, "idle") /\ sessions[d].state = "active" /\ issued[d] > 0
    /\ sessions' = [sessions EXCEPT ![d] = Revoked(@, now)]
    /\ request' = [request EXCEPT ![r] = [Idling EXCEPT !.step = "dropping", !.drop = {d}]]
    /\ UNCHANGED <<now, version, signup, cache, history>>

\* One call deletes what it finds expired, one document after another.
CleanUpExpiredSessions(d) ==
    /\ sessions[d].state \in {"active", "revoked"} /\ Expired(sessions[d])
    /\ sessions' = [sessions EXCEPT ![d].state = "gone"]
    /\ UNCHANGED <<now, version, signup, cache, request, history>>

\* The process stops or the request is dropped, between any two steps.
Interrupt(r) ==
    /\ ~At(r, "idle")
    /\ request' = [request EXCEPT ![r] = Idling]
    /\ UNCHANGED <<now, databaseVars, cache, history>>

RequestStep(r) ==
    \/ \E d \in Sessions :
           \/ CompleteSignup(r, d) \/ CreateLoginSession(r, d) \/ DropEntry(r, d)
           \/ Authenticate(r, d) \/ RevokeSession(r, d)
    \/ VerifyPassword(r) \/ UpdatePasswordAndRevokeSessions(r)
    \/ BeginLoginSession(r) \/ CacheLoginSession(r)
    \/ CheckEntry(r) \/ AuthenticateFromDatabase(r)
    \/ CacheAuthenticated(r) \/ Answered(r) \/ Interrupt(r)

SessionsNext ==
    \/ Tick
    \/ IssueSignupAccessToken \/ BeginSignup \/ RevokeSignupAccessToken
    \/ \E r \in Requests : RequestStep(r)
    \/ \E d \in Sessions : CleanUpExpiredSessions(d)

SessionsSpec == SessionsInit /\ [][SessionsNext]_sessionVars
=============================================================================
