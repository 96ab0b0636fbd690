--------------------------- MODULE Accounts_proofs ---------------------------
(***************************************************************************)
(* That revocation is bounded and that used sessions stay, for any number  *)
(* of requests and sessions and any lifetimes; and that the library of an  *)
(* account tells the truth and campaigns' characters have their sources,   *)
(* for any number of callers, characters, drafts and campaigns.            *)
(***************************************************************************)
EXTENDS SessionsProperties, PlayerCharactersProperties, TLAPS

----------------------------------------------------------------------------
(* The invariant.  A refresh may set the times of its document back, so    *)
(* that a copy can be fresher than the document.  But no copy says that    *)
(* the document was written later than it was: the last write came a lag   *)
(* after the clock that its times are counted from.                        *)

\* A copy that says that the document was written at "at".
Bounded(d, at) ==
    /\ at <= now
    /\ sessions[d].idle = sessions[d].absolute \/ at + Idle <= sessions[d].idle + lag[d]
    /\ sessions[d].revokedAt > 0 => at <= Greatest(sessions[d].revokedAt, issued[d])

\* A document that a request keeps since it wrote it.
Copied(d, document) ==
    /\ sessions[d].state # "none"
    /\ document.absolute = sessions[d].absolute
    /\ document.lastSeen <= now

Matches(d, entry) ==
    /\ sessions[d].state # "none"
    /\ entry.absolute = sessions[d].absolute
    /\ Bounded(d, entry.persisted)

\* When the login of a session was begun.
Began(d) == sessions[d].absolute - Absolute

\* A document keeps its times in order; one that was not yet written has none.
DocumentOK(d) ==
    LET document == sessions[d]
    IN  /\ document.idle <= document.absolute
        /\ document.state # "none" =>
            /\ Absolute <= document.absolute /\ Began(d) <= now
            /\ document.idle = document.absolute \/ Began(d) + Idle <= document.idle
        /\ document.state = "active" => document.revokedAt = 0

IssuedOK(d) == issued[d] > 0 => sessions[d].state # "none"

CacheOK(d) == cache[d] # NoEntry => Matches(d, cache[d])

Served(q) ==
    /\ q.began < sessions[q.session].absolute
    /\ q.since <= q.version
    /\ \E at \in Nat : Bounded(q.session, at) /\ q.began < at + RefreshInterval

RequestOK(q) ==
    /\ q.began <= now /\ q.opened <= now /\ q.since <= version
    /\ q.step \in {"verified", "rehashing", "creating"} => version > 0
    /\ q.step \in {"verified", "creating"} => q.began <= q.opened
    /\ q.step = "caching" => q.session # NoSession
    /\ q.step \in {"dropping", "caching"} /\ q.session # NoSession => Copied(q.session, q.document)
    /\ q.step \in {"version", "database", "filling", "accepted"} =>
          /\ q.session # NoSession
          /\ sessions[q.session].state # "none" /\ issued[q.session] > 0
    /\ q.step = "version" => /\ Matches(q.session, q.entry)
                             /\ q.began < q.entry.absolute
    /\ q.step = "database" => /\ q.began <= q.opened
                              /\ Began(q.session) <= q.opened
    /\ q.step = "filling" => /\ Copied(q.session, q.document)
                             /\ Bounded(q.session, q.document.lastSeen)
                             /\ q.began <= q.document.lastSeen
                             /\ q.began < q.document.absolute
                             /\ q.since <= q.document.version
    /\ q.step = "accepted" => Served(q)

ClockOK ==
    /\ now \in 1..MaxTime /\ version \in 0..MaxVersion
    /\ \A d \in Sessions : issued[d] <= now
SignupOK ==
    /\ signup \in [token : TokenStates, session : {"none", "active", "completed"}]
    /\ version > 0 => signup.token = "consumed"
ValuesOK ==
    /\ sessions \in [Sessions -> SessionDocuments] /\ cache \in [Sessions -> Entries]
    /\ request \in [Requests -> RequestStates] /\ issued \in [Sessions -> Times]
    /\ lag \in [Sessions -> Times]
SessionsOK == \A d \in Sessions : DocumentOK(d) /\ IssuedOK(d) /\ CacheOK(d)
RequestsOK == \A r \in Requests : RequestOK(request[r])

SessionsInvariant ==
    ClockOK /\ SignupOK /\ ValuesOK /\ SessionsOK /\ RequestsOK

----------------------------------------------------------------------------
(* Numbers and types *)

LEMMA GreatestFacts ==
    ASSUME NEW a \in Nat, NEW b \in Nat
    PROVE  /\ Greatest(a, b) \in {a, b} /\ a <= Greatest(a, b) /\ b <= Greatest(a, b)
  BY DEF Greatest

LEMMA LeastFacts ==
    ASSUME NEW a \in Nat, NEW b \in Nat
    PROVE  /\ Least(a, b) \in {a, b} /\ Least(a, b) <= a /\ Least(a, b) <= b
  BY DEF Least

LEMMA IntervalType == RefreshInterval \in Nat \ {0} /\ RefreshInterval <= Idle
  <1>1. Idle \div 2 \in Nat
    BY SessionsAssumption
  <1>2. Least(Idle \div 2, MaxRefresh) \in Nat
    BY <1>1, SessionsAssumption DEF Least
  <1>3. Least(Idle \div 2, MaxRefresh) <= Idle
    <2>1. Idle \div 2 <= Idle
      BY SessionsAssumption
    <2> QED BY <1>1, <2>1, SessionsAssumption DEF Least
  <1> QED BY <1>2, <1>3, SessionsAssumption DEF RefreshInterval, Greatest

LEMMA TimesFacts ==
    /\ Times \subseteq Nat /\ 0 \in Times
    /\ \A t \in 0..MaxTime : t \in Times /\ t + Idle \in Times /\ t + Absolute \in Times
  BY SessionsAssumption DEF Times

LEMMA NullTypes == NoDocument \in SessionDocuments /\ NoEntry \in Entries
  BY TimesFacts DEF NoDocument, SessionDocuments, NoEntry, Entries

LEMMA IdlingType == Idling \in RequestStates
  BY NullTypes, TimesFacts DEF Idling, RequestStates, Steps

\* The fields of documents, entries and requests that are compared.
LEMMA DocumentFields ==
    ASSUME NEW document \in SessionDocuments
    PROVE  /\ document.version \in Nat /\ document.lastSeen \in Nat /\ document.idle \in Nat
           /\ document.absolute \in Nat /\ document.revokedAt \in Nat
           /\ document.idle \in Times /\ document.absolute \in Times /\ document.lastSeen \in Times
  BY TimesFacts DEF SessionDocuments

LEMMA EntryFields ==
    ASSUME NEW entry \in Entries
    PROVE  /\ entry.version \in Nat /\ entry.idle \in Nat /\ entry.absolute \in Nat
           /\ entry.persisted \in Nat
  BY TimesFacts DEF Entries

LEMMA RequestFields ==
    ASSUME NEW q \in RequestStates
    PROVE  /\ q.session \in Sessions \cup {NoSession} /\ q.version \in Nat /\ q.since \in Nat
           /\ q.began \in Nat /\ q.opened \in Nat /\ q.began \in Times
           /\ q.entry \in Entries /\ q.document \in SessionDocuments
           /\ q.opened \in Times
           /\ q.drop \in SUBSET Sessions
  BY TimesFacts DEF RequestStates

\* A request at rest is in order.
LEMMA IdlingOK == ASSUME ClockOK PROVE RequestOK(Idling)
  BY SessionsAssumption DEF ClockOK, RequestOK, Idling

----------------------------------------------------------------------------
(* How documents age, and that what is true of copies stays so. *)

\* A step that takes time from a session is a refresh by a request that came earlier.
Late(d, idle) ==
    \E r \in Requests : /\ At(r, "database") /\ request[r].session = d
                        /\ request[r].opened + Idle <= idle

Ages(d) ==
    /\ sessions[d].state \in {"revoked", "gone"} => sessions'[d].state \in {"revoked", "gone"}
    /\ sessions[d].state # "none" =>
          /\ sessions'[d].state # "none"
          /\ sessions'[d].absolute = sessions[d].absolute
          /\ sessions[d].idle <= sessions'[d].idle \/ Late(d, sessions'[d].idle)
          /\ \/ sessions'[d].idle = sessions[d].idle /\ lag'[d] = lag[d]
             \/ sessions'[d].idle = sessions'[d].absolute
             \/ now + Idle <= sessions'[d].idle + lag'[d]
          /\ sessions'[d].revokedAt = sessions[d].revokedAt \/ now <= sessions'[d].revokedAt
    /\ issued[d] <= issued'[d]

ClockAdvances == now <= now' /\ version <= version'

LEMMA ClockTypes ==
    ASSUME ClockOK
    PROVE  now \in Nat /\ now \in Times /\ now \in 0..MaxTime /\ version \in Nat
  BY TimesFacts, SessionsAssumption DEF ClockOK

LEMMA SessionTypes ==
    ASSUME ValuesOK, NEW d \in Sessions
    PROVE  /\ sessions[d] \in SessionDocuments /\ cache[d] \in Entries
           /\ sessions[d].lastSeen \in Nat /\ sessions[d].idle \in Nat
           /\ sessions[d].absolute \in Nat /\ sessions[d].revokedAt \in Nat
           /\ issued[d] \in Nat /\ lag[d] \in Nat
  <1>1. sessions[d] \in SessionDocuments /\ cache[d] \in Entries
        /\ issued[d] \in Times /\ lag[d] \in Times
    BY DEF ValuesOK
  <1> QED BY <1>1, DocumentFields, TimesFacts

LEMMA NextSessionTypes ==
    ASSUME ValuesOK', NEW d \in Sessions
    PROVE  /\ sessions'[d] \in SessionDocuments /\ cache'[d] \in Entries
           /\ sessions'[d].lastSeen \in Nat /\ sessions'[d].idle \in Nat
           /\ sessions'[d].absolute \in Nat /\ sessions'[d].revokedAt \in Nat
           /\ issued'[d] \in Nat /\ lag'[d] \in Nat
  <1>1. sessions'[d] \in SessionDocuments /\ cache'[d] \in Entries
        /\ issued'[d] \in Times /\ lag'[d] \in Times
    BY DEF ValuesOK
  <1> QED BY <1>1, DocumentFields, TimesFacts

LEMMA CopiedStays ==
    ASSUME ClockOK, ClockOK', ClockAdvances, NEW d \in Sessions, Ages(d),
           NEW document \in SessionDocuments, Copied(d, document)
    PROVE  Copied(d, document)'
  <1>1. document.lastSeen \in Nat
    BY DocumentFields
  <1> QED BY <1>1, SessionsAssumption DEF Copied, Ages, ClockOK, ClockAdvances

LEMMA BoundedStays ==
    ASSUME ClockOK, ClockOK', ClockAdvances, ValuesOK, ValuesOK', NEW d \in Sessions, Ages(d),
           sessions[d].state # "none", NEW at \in Nat, Bounded(d, at)
    PROVE  Bounded(d, at)'
  <1>1. /\ sessions[d].idle \in Nat /\ sessions[d].absolute \in Nat
        /\ sessions[d].revokedAt \in Nat /\ issued[d] \in Nat /\ lag[d] \in Nat
    BY SessionTypes
  <1>2. /\ sessions'[d].idle \in Nat /\ sessions'[d].absolute \in Nat
        /\ sessions'[d].revokedAt \in Nat /\ issued'[d] \in Nat /\ lag'[d] \in Nat
    BY NextSessionTypes
  <1>3. now \in Nat /\ now' \in Nat /\ now <= now' /\ at <= now
    BY SessionsAssumption DEF ClockOK, ClockAdvances, Bounded
  <1>4. sessions'[d].idle = sessions'[d].absolute \/ at + Idle <= sessions'[d].idle + lag'[d]
    BY <1>1, <1>2, <1>3, SessionsAssumption DEF Ages, Bounded
  <1>5. sessions'[d].revokedAt > 0 => at <= Greatest(sessions'[d].revokedAt, issued'[d])
    BY <1>1, <1>2, <1>3 DEF Ages, Bounded, Greatest
  <1> QED BY <1>3, <1>4, <1>5 DEF Bounded, Greatest

LEMMA MatchesStays ==
    ASSUME ClockOK, ClockOK', ClockAdvances, ValuesOK, ValuesOK', NEW d \in Sessions, Ages(d),
           NEW entry \in Entries, Matches(d, entry)
    PROVE  Matches(d, entry)'
  <1>1. PICK at \in Nat : at = entry.persisted
    BY EntryFields
  <1>2. Bounded(d, at)'
    BY <1>1, BoundedStays DEF Matches
  <1>3. sessions'[d].state # "none" /\ entry.absolute = sessions'[d].absolute
    BY DEF Matches, Ages
  <1> QED BY <1>1, <1>2, <1>3 DEF Matches, Bounded

LEMMA ServedStays ==
    ASSUME ClockOK, ClockOK', ClockAdvances, ValuesOK, ValuesOK',
           NEW q \in RequestStates, q.session \in Sessions,
           sessions[q.session].state # "none", Ages(q.session), Served(q)
    PROVE  Served(q)'
  <1>1. PICK at \in Nat : Bounded(q.session, at) /\ q.began < at + RefreshInterval
    BY DEF Served
  <1>2. Bounded(q.session, at)'
    BY <1>1, BoundedStays
  <1>3. q.began < sessions'[q.session].absolute /\ q.since <= q.version
    BY DEF Served, Ages
  <1> QED BY <1>1, <1>2, <1>3 DEF Served, RefreshInterval

LEMMA RequestStays ==
    ASSUME ClockOK, ClockOK', ValuesOK, ValuesOK', ClockAdvances, \A d \in Sessions : Ages(d),
           NEW q \in RequestStates, RequestOK(q)
    PROVE  RequestOK(q)'
  <1>1. /\ q.began <= now' /\ q.opened <= now' /\ q.since <= version'
        /\ q.step \in {"verified", "rehashing", "creating"} => version' > 0
    BY RequestFields, SessionsAssumption DEF ClockOK, ClockAdvances, RequestOK
  <1>2. q.step \in {"dropping", "caching"} /\ q.session # NoSession => Copied(q.session, q.document)'
    BY RequestFields, CopiedStays DEF RequestOK
  <1>3. q.step \in {"version", "database", "filling", "accepted"} =>
            /\ q.session \in Sessions /\ q.session # NoSession
            /\ sessions[q.session].state # "none" /\ sessions'[q.session].state # "none"
            /\ issued'[q.session] > 0
    <2> SUFFICES ASSUME q.step \in {"version", "database", "filling", "accepted"}
                 PROVE  /\ q.session \in Sessions /\ q.session # NoSession
                        /\ sessions[q.session].state # "none" /\ sessions'[q.session].state # "none"
                        /\ issued'[q.session] > 0
      OBVIOUS
    <2>1. q.session \in Sessions /\ q.session # NoSession
          /\ sessions[q.session].state # "none" /\ issued[q.session] > 0
      BY RequestFields DEF RequestOK
    <2>2. issued[q.session] \in Nat /\ issued'[q.session] \in Nat
      BY <2>1, SessionTypes, NextSessionTypes
    <2> QED BY <2>1, <2>2 DEF Ages
  <1>4. q.step = "version" => Matches(q.session, q.entry)'
    BY <1>3, RequestFields, MatchesStays DEF RequestOK
  <1>5. q.step = "database" => Began(q.session)' <= q.opened
    BY <1>3 DEF RequestOK, Ages, Began
  <1>6. q.step = "filling" => Copied(q.session, q.document)' /\ Bounded(q.session, q.document.lastSeen)'
    <2>1. q.document \in SessionDocuments /\ q.document.lastSeen \in Nat
      BY RequestFields, DocumentFields
    <2>2. PICK at \in Nat : at = q.document.lastSeen
      BY <2>1
    <2>3. q.step = "filling" => Bounded(q.session, at)'
      BY <1>3, <2>2, BoundedStays DEF RequestOK
    <2>4. q.step = "filling" => Copied(q.session, q.document)'
      BY <1>3, <2>1, CopiedStays DEF RequestOK
    <2> QED BY <2>2, <2>3, <2>4 DEF Bounded
  <1>7. q.step = "accepted" => Served(q)'
    BY <1>3, ServedStays DEF RequestOK
  <1> QED BY <1>1, <1>2, <1>3, <1>4, <1>5, <1>6, <1>7 DEF RequestOK

LEMMA DocumentStays ==
    ASSUME ClockOK, ClockOK', ValuesOK, ClockAdvances, NEW d \in Sessions, DocumentOK(d),
           sessions'[d] = sessions[d]
    PROVE  DocumentOK(d)'
  <1>1. sessions[d].absolute \in Nat
    BY SessionTypes
  <1> QED BY <1>1, SessionsAssumption DEF ClockOK, ClockAdvances, DocumentOK, Began

LEMMA IssuedStays ==
    ASSUME NEW d \in Sessions, IssuedOK(d), sessions'[d] = sessions[d], issued'[d] = issued[d]
    PROVE  IssuedOK(d)'
  BY DEF IssuedOK

LEMMA CacheStays ==
    ASSUME ClockOK, ClockOK', ClockAdvances, ValuesOK, ValuesOK', NEW d \in Sessions, Ages(d),
           CacheOK(d), cache'[d] \in {cache[d], NoEntry}
    PROVE  CacheOK(d)'
  <1>1. PICK entry \in Entries : entry = cache[d]
    BY SessionTypes
  <1>2. CASE cache'[d] = NoEntry
    BY <1>2 DEF CacheOK
  <1>3. CASE cache'[d] # NoEntry
    <2>1. Matches(d, entry)
      BY <1>1, <1>3 DEF CacheOK, Matches, Bounded
    <2>2. Matches(d, entry)'
      BY <2>1, MatchesStays
    <2> QED BY <1>1, <1>3, <2>2 DEF CacheOK, Matches, Bounded
  <1> QED BY <1>2, <1>3

\* A session that a step does not touch.
LEMMA Untouched ==
    ASSUME ValuesOK, NEW d \in Sessions, sessions'[d] = sessions[d], issued'[d] = issued[d],
           lag'[d] = lag[d]
    PROVE  Ages(d)
  <1>1. sessions[d].idle \in Nat /\ issued[d] \in Nat
    BY SessionTypes
  <1> QED BY <1>1 DEF Ages

----------------------------------------------------------------------------
(* The step of one request: what its new state has to be. *)

\* The value of a request stands for the request.
LEMMA RequestNamed ==
    ASSUME NEW r \in Requests, NEW q, request[r] = q
    PROVE  RequestOK(request[r]) <=> RequestOK(q)
  BY DEF RequestOK, Copied, Matches, Served, Bounded, Began

LEMMA NextRequestNamed ==
    ASSUME NEW r \in Requests, NEW q, request'[r] = q
    PROVE  RequestOK(request[r])' <=> RequestOK(q)'
  BY DEF RequestOK, Copied, Matches, Served, Bounded, Began

LEMMA OneRequest ==
    ASSUME ClockOK, ClockOK', ValuesOK, ValuesOK', ClockAdvances, \A d \in Sessions : Ages(d),
           RequestsOK, NEW r \in Requests, NEW p \in RequestStates,
           request' = [request EXCEPT ![r] = p], RequestOK(p)'
    PROVE  RequestsOK'
  <1> SUFFICES ASSUME NEW s \in Requests PROVE RequestOK(request[s])'
    BY DEF RequestsOK
  <1>1. CASE s = r
    <2>1. request'[s] = p
      BY <1>1 DEF ValuesOK
    <2> QED BY <2>1, NextRequestNamed
  <1>2. CASE s # r
    <2>1. PICK q \in RequestStates : q = request[s]
      BY DEF ValuesOK
    <2>2. request'[s] = q
      BY <1>2, <2>1 DEF ValuesOK
    <2>3. RequestOK(q)
      BY <2>1, RequestNamed DEF RequestsOK
    <2>4. RequestOK(q)'
      BY <2>3, RequestStays
    <2> QED BY <2>2, <2>4, NextRequestNamed
  <1> QED BY <1>1, <1>2

----------------------------------------------------------------------------
(* The ways in which a step changes a session. *)

SessionOK(d) == DocumentOK(d) /\ IssuedOK(d) /\ CacheOK(d)

LEMMA SessionNamed == SessionsOK <=> \A d \in Sessions : SessionOK(d)
  BY DEF SessionsOK, SessionOK

\* It leaves it alone, but for an entry that the cache loses.
LEMMA SessionUntouched ==
    ASSUME ClockOK, ClockOK', ValuesOK, ValuesOK', ClockAdvances,
           NEW d \in Sessions, SessionOK(d), sessions'[d] = sessions[d],
           issued'[d] = issued[d], lag'[d] = lag[d], cache'[d] \in {cache[d], NoEntry}
    PROVE  Ages(d) /\ SessionOK(d)'
  BY Untouched, DocumentStays, IssuedStays, CacheStays DEF SessionOK

\* It ends it.
LEMMA SessionEnded ==
    ASSUME ClockOK, ClockOK', ValuesOK, ValuesOK', ClockAdvances,
           NEW d \in Sessions, SessionOK(d), sessions[d].state # "none",
           sessions'[d].state \in {"revoked", "gone"},
           sessions'[d].absolute = sessions[d].absolute, sessions'[d].idle = sessions[d].idle,
           sessions'[d].revokedAt \in {sessions[d].revokedAt, now},
           issued'[d] = issued[d], lag'[d] = lag[d], cache'[d] = cache[d]
    PROVE  Ages(d) /\ SessionOK(d)'
  <1>1. /\ sessions[d].idle \in Nat /\ sessions[d].absolute \in Nat /\ issued[d] \in Nat
        /\ now \in Nat
    BY SessionTypes, ClockTypes
  <1>2. Ages(d)
    BY <1>1 DEF Ages
  <1>3. DocumentOK(d)'
    BY <1>1, SessionsAssumption DEF SessionOK, DocumentOK, Began, ClockOK, ClockAdvances
  <1>4. IssuedOK(d)'
    BY DEF IssuedOK
  <1>5. CacheOK(d)'
    BY <1>2, CacheStays DEF SessionOK
  <1> QED BY <1>2, <1>3, <1>4, <1>5 DEF SessionOK

\* It writes it for the first time.
LEMMA DocumentType ==
    ASSUME NEW v \in Nat, NEW b \in 0..MaxTime, NEW o \in 0..MaxTime
    PROVE  Document(v, b, o) \in SessionDocuments
  BY TimesFacts DEF Document, SessionDocuments

LEMMA SessionWritten ==
    ASSUME ClockOK, ClockOK', ValuesOK, ValuesOK', ClockAdvances,
           NEW d \in Sessions, SessionOK(d), sessions[d].state = "none",
           NEW v \in Nat, NEW b \in 0..MaxTime, NEW o \in 0..MaxTime, b <= o, o <= now,
           sessions'[d] = Document(v, b, o), issued'[d] = issued[d], lag'[d] = lag[d],
           cache'[d] = cache[d]
    PROVE  Ages(d) /\ SessionOK(d)'
  <1>1. issued[d] = 0 /\ cache[d] = NoEntry
    <2>1. issued[d] \in Nat
      BY SessionTypes
    <2> QED BY <2>1 DEF SessionOK, IssuedOK, CacheOK, Matches
  <1>2. Ages(d)
    BY <1>1 DEF Ages
  <1>3. /\ sessions'[d].state = "active" /\ sessions'[d].revokedAt = 0
        /\ sessions'[d].idle = b + Idle /\ sessions'[d].absolute = b + Absolute
    BY DEF Document
  <1>4. DocumentOK(d)'
    BY <1>3, ClockTypes, SessionsAssumption DEF DocumentOK, Began, ClockAdvances, ClockOK
  <1>5. IssuedOK(d)' /\ CacheOK(d)'
    BY <1>1 DEF IssuedOK, CacheOK
  <1> QED BY <1>2, <1>4, <1>5 DEF SessionOK

\* It extends it.
LEMMA RefreshedFields ==
    ASSUME ClockOK, NEW document \in SessionDocuments, NEW clock \in Nat, clock <= now
    PROVE  /\ Refreshed(document, clock) \in SessionDocuments
           /\ Refreshed(document, clock).state = document.state
           /\ Refreshed(document, clock).version = document.version
           /\ Refreshed(document, clock).lastSeen = clock
           /\ Refreshed(document, clock).idle = Least(clock + Idle, document.absolute)
           /\ Refreshed(document, clock).absolute = document.absolute
           /\ Refreshed(document, clock).revokedAt = document.revokedAt
  <1>1. clock \in Times /\ clock + Idle \in Times
    <2>1. clock \in 0..MaxTime
      BY ClockTypes, SessionsAssumption DEF ClockOK
    <2> QED BY <2>1, TimesFacts
  <1>2. document.absolute \in Times
    BY DocumentFields
  <1>3. Least(clock + Idle, document.absolute) \in Times
    BY <1>1, <1>2 DEF Least
  <1> QED BY <1>1, <1>3 DEF Refreshed, SessionDocuments

LEMMA SessionRefreshed ==
    ASSUME ClockOK, ClockOK', ValuesOK, ValuesOK', now' = now, version' = version,
           NEW d \in Sessions, SessionOK(d), NEW clock \in Nat, clock <= now, Live(d, clock),
           Began(d) <= clock,
           NEW r \in Requests, At(r, "database"), request[r].session = d,
           request[r].opened \in Nat, request[r].opened <= clock,
           sessions'[d] = Refreshed(sessions[d], clock), lag'[d] = now - clock,
           issued'[d] = issued[d], cache'[d] = cache[d]
    PROVE  Ages(d) /\ SessionOK(d)'
  <1>1. /\ sessions[d].idle \in Nat /\ sessions[d].absolute \in Nat
        /\ issued[d] \in Nat /\ now \in Nat
    BY SessionTypes, ClockTypes
  <1>2. /\ sessions'[d].state = "active"
        /\ sessions'[d].idle = Least(clock + Idle, sessions[d].absolute)
        /\ sessions'[d].absolute = sessions[d].absolute
        /\ sessions'[d].revokedAt = sessions[d].revokedAt
        /\ sessions[d].state = "active"
    BY SessionTypes, RefreshedFields DEF Live
  <1>3. \/ sessions'[d].idle = clock + Idle /\ sessions'[d].idle <= sessions'[d].absolute
        \/ sessions'[d].idle = sessions'[d].absolute
    BY <1>1, <1>2, SessionsAssumption DEF Least
  <1>4. /\ sessions[d].idle <= sessions[d].absolute
        /\ Began(d) <= now /\ Absolute <= sessions[d].absolute
        /\ sessions[d].revokedAt = 0
    BY <1>2 DEF SessionOK, DocumentOK
  <1>5. sessions[d].idle <= sessions'[d].idle \/ Late(d, sessions'[d].idle)
    <2>1. CASE sessions'[d].idle = sessions'[d].absolute
      BY <2>1, <1>1, <1>2, <1>4
    <2>2. CASE sessions'[d].idle = clock + Idle
      <3>1. request[r].opened + Idle <= sessions'[d].idle
        BY <2>2, SessionsAssumption
      <3> QED BY <3>1 DEF Late
    <2> QED BY <1>3, <2>1, <2>2
  <1>6. \/ sessions'[d].idle = sessions'[d].absolute
        \/ now + Idle <= sessions'[d].idle + lag'[d]
    BY <1>1, <1>3, SessionsAssumption
  <1>7. Ages(d)
    BY <1>1, <1>2, <1>5, <1>6 DEF Ages
  <1>8. Began(d)' = Began(d) /\ Began(d) \in Nat
    BY <1>1, <1>2, <1>4, SessionsAssumption DEF Began
  <1>9. DocumentOK(d)'
    BY <1>1, <1>2, <1>3, <1>4, <1>8, SessionsAssumption DEF DocumentOK
  <1>10. IssuedOK(d)'
    BY <1>2 DEF IssuedOK
  <1>11. CacheOK(d)'
    BY <1>1, <1>7, CacheStays DEF SessionOK, ClockAdvances, ClockOK
  <1> QED BY <1>7, <1>9, <1>10, <1>11 DEF SessionOK

\* Its login returns, and may have filled the cache.
LEMMA SessionIssued ==
    ASSUME ClockOK, ClockOK', ValuesOK, ValuesOK', now' = now, version' = version,
           NEW d \in Sessions, SessionOK(d), NEW document \in SessionDocuments,
           Copied(d, document), sessions'[d] = sessions[d], issued'[d] = now,
           lag'[d] = now - Began(d), cache'[d] \in {cache[d], EntryOf(document, now)}
    PROVE  Ages(d) /\ SessionOK(d)'
  <1>1. /\ sessions[d].idle \in Nat /\ sessions[d].revokedAt \in Nat
        /\ sessions[d].absolute \in Nat /\ now \in Nat
        /\ document.lastSeen \in Nat /\ issued[d] <= now
    BY SessionTypes, DocumentFields, ClockTypes DEF ClockOK
  <1>2. sessions[d].state # "none" /\ document.lastSeen <= now
    BY DEF Copied
  <1>3. /\ Began(d) <= now /\ Began(d) \in Nat
        /\ sessions[d].idle = sessions[d].absolute \/ Began(d) + Idle <= sessions[d].idle
    BY <1>1, <1>2, SessionsAssumption DEF SessionOK, DocumentOK, Began
  <1>4. \/ sessions'[d].idle = sessions'[d].absolute
        \/ now + Idle <= sessions'[d].idle + lag'[d]
    BY <1>1, <1>3, SessionsAssumption
  <1>5. Ages(d)
    BY <1>1, <1>4 DEF Ages
  <1>6. DocumentOK(d)'
    BY DEF SessionOK, DocumentOK, Began
  <1>7. IssuedOK(d)'
    BY <1>2 DEF IssuedOK
  <1>8. CacheOK(d)'
    <2>1. CASE cache'[d] = cache[d]
      BY <2>1, <1>1, <1>5, CacheStays DEF SessionOK, ClockAdvances, ClockOK
    <2>2. CASE cache'[d] = EntryOf(document, now)
      <3>1. Greatest(document.lastSeen, now) = now
        BY <1>1, <1>2 DEF Greatest
      <3>2. now <= Greatest(sessions'[d].revokedAt, issued'[d])
        BY <1>1 DEF Greatest
      <3>3. Bounded(d, now)'
        BY <1>1, <1>4, <3>2 DEF Bounded
      <3>4. Matches(d, cache[d])'
        BY <2>2, <3>1, <3>3, <1>2 DEF Matches, EntryOf, Copied, Bounded
      <3> QED BY <3>4 DEF CacheOK
    <2> QED BY <2>1, <2>2
  <1> QED BY <1>5, <1>6, <1>7, <1>8 DEF SessionOK

----------------------------------------------------------------------------
(* The steps *)

\* What every step does.
Keeps == SessionsInvariant' /\ \A d \in Sessions : Ages(d)

LEMMA StepKeeps ==
    ASSUME SessionsInvariant, ClockOK', SignupOK', ValuesOK', ClockAdvances,
           \A d \in Sessions : Ages(d) /\ SessionOK(d)',
           NEW r \in Requests, NEW p \in RequestStates,
           request' = [request EXCEPT ![r] = p], RequestOK(p)'
    PROVE  Keeps
  <1>1. RequestsOK'
    BY OneRequest DEF SessionsInvariant
  <1>2. SessionsOK'
    BY DEF SessionsOK, SessionOK
  <1> QED BY <1>1, <1>2 DEF Keeps, SessionsInvariant

LEMMA CurrentRequest ==
    ASSUME SessionsInvariant, NEW r \in Requests, NEW q, q = request[r]
    PROVE  q \in RequestStates /\ RequestOK(q)
  BY RequestNamed DEF SessionsInvariant, ValuesOK, RequestsOK

\* The parts of the invariant, by name.
LEMMA InvariantParts ==
    ASSUME SessionsInvariant
    PROVE  /\ ClockOK /\ SignupOK /\ ValuesOK /\ RequestsOK
           /\ \A d \in Sessions : SessionOK(d)
  BY SessionNamed DEF SessionsInvariant

\* A step that only a request notices.
LEMMA RequestOnlyKeeps ==
    ASSUME SessionsInvariant, UNCHANGED <<now, version, signup, sessions, issued, lag>>,
           cache' \in [Sessions -> Entries], \A d \in Sessions : cache'[d] \in {cache[d], NoEntry},
           NEW r \in Requests, NEW p \in RequestStates,
           request' = [request EXCEPT ![r] = p], RequestOK(p)'
    PROVE  Keeps
  <1>1. ClockOK' /\ SignupOK' /\ ClockAdvances
    BY InvariantParts, SessionsAssumption DEF ClockOK, SignupOK, ClockAdvances
  <1>2. ValuesOK'
    BY InvariantParts DEF ValuesOK
  <1>3. \A d \in Sessions : Ages(d) /\ SessionOK(d)'
    BY <1>1, <1>2, InvariantParts, SessionUntouched
  <1> QED BY <1>1, <1>2, <1>3, StepKeeps

\* A request in order, before and after such a step.
LEMMA RequestOKThen ==
    ASSUME SessionsInvariant, UNCHANGED <<now, version, sessions, issued, lag>>,
           NEW p, RequestOK(p)
    PROVE  RequestOK(p)'
  BY DEF RequestOK, Copied, Matches, Served, Bounded, Began, RefreshInterval

LEMMA VerifyPasswordKeeps ==
    ASSUME SessionsInvariant, NEW r \in Requests, VerifyPassword(r)
    PROVE  Keeps
  <1>1. PICK v \in Nat, t \in Times : v = version /\ t = now
    BY InvariantParts, ClockTypes
  <1> DEFINE p == [Idling EXCEPT !.step = "verified", !.version = v, !.opened = t]
  <1>2. p \in RequestStates
    <2>1. \A q \in RequestStates :
              [q EXCEPT !.step = "verified", !.version = v, !.opened = t] \in RequestStates
      BY DEF RequestStates, Steps
    <2> QED BY <2>1, IdlingType
  <1>3. RequestOK(p)
    <2>1. p.step = "verified" /\ p.began = 0 /\ p.opened = t /\ p.since = 0
      BY DEF Idling
    <2>2. version > 0
      BY DEF VerifyPassword
    <2> HIDE DEF p
    <2> QED BY <1>1, <2>1, <2>2, InvariantParts, ClockTypes DEF RequestOK
  <1>4. /\ request' = [request EXCEPT ![r] = p]
        /\ UNCHANGED <<now, version, signup, sessions, issued, lag>> /\ cache' = cache
    BY <1>1 DEF VerifyPassword, databaseVars, history
  <1> HIDE DEF p
  <1>5. RequestOK(p)'
    BY <1>3, <1>4, RequestOKThen
  <1>6. cache' \in [Sessions -> Entries]
    BY <1>4, InvariantParts DEF ValuesOK
  <1> QED BY <1>2, <1>4, <1>5, <1>6, RequestOnlyKeeps

LEMMA ToIdle ==
    ASSUME SessionsInvariant, NEW r \in Requests,
           request' = [request EXCEPT ![r] = Idling],
           UNCHANGED <<now, version, signup, sessions, cache, issued, lag>>
    PROVE  Keeps
  <1>1. RequestOK(Idling)'
    BY InvariantParts, IdlingOK, RequestOKThen
  <1>2. cache' \in [Sessions -> Entries]
    BY InvariantParts DEF ValuesOK
  <1> QED BY <1>1, <1>2, IdlingType, RequestOnlyKeeps

LEMMA BeginLoginKeeps ==
    ASSUME SessionsInvariant, NEW r \in Requests, BeginLoginSession(r)
    PROVE  Keeps
  <1>1. UNCHANGED <<now, version, signup, sessions, cache, issued, lag>>
    BY DEF BeginLoginSession, databaseVars, history
  <1>2. CASE request' = [request EXCEPT ![r] = Idling]
    BY <1>1, <1>2, ToIdle
  <1>3. CASE \E opened \in request[r].opened..now :
            \E began \in (IF request[r].began = 0 THEN request[r].opened..opened
                          ELSE {request[r].began}),
               over \in Excess({d \in Sessions : Live(d, opened)}) :
                 request' = [request EXCEPT ![r] =
                     [@ EXCEPT !.step = "creating", !.opened = opened, !.began = began,
                               !.drop = over,
                               !.seen = [d \in Sessions |->
                                   IF d \in over THEN sessions[d].lastSeen ELSE 0]]]
    <2>1. PICK q : q = request[r]
      OBVIOUS
    <2>2. q \in RequestStates /\ RequestOK(q) /\ q.step = "verified"
      BY <2>1, CurrentRequest DEF BeginLoginSession, At
    <2>3. PICK opened \in request[r].opened..now :
            \E began \in (IF request[r].began = 0 THEN request[r].opened..opened
                          ELSE {request[r].began}),
               over \in Excess({d \in Sessions : Live(d, opened)}) :
                 request' = [request EXCEPT ![r] =
                     [@ EXCEPT !.step = "creating", !.opened = opened, !.began = began,
                               !.drop = over,
                               !.seen = [d \in Sessions |->
                                   IF d \in over THEN sessions[d].lastSeen ELSE 0]]]
      BY <1>3
    <2>4. PICK began \in (IF request[r].began = 0 THEN request[r].opened..opened
                          ELSE {request[r].began}),
               over \in Excess({d \in Sessions : Live(d, opened)}) :
                 request' = [request EXCEPT ![r] =
                     [@ EXCEPT !.step = "creating", !.opened = opened, !.began = began,
                               !.drop = over,
                               !.seen = [d \in Sessions |->
                                   IF d \in over THEN sessions[d].lastSeen ELSE 0]]]
      BY <2>3
    <2>5. over \in SUBSET Sessions
      BY DEF Excess
    <2>6. PICK seen \in [Sessions -> Times] :
              seen = [d \in Sessions |-> IF d \in over THEN sessions[d].lastSeen ELSE 0]
      <3>1. [d \in Sessions |-> IF d \in over THEN sessions[d].lastSeen ELSE 0]
                \in [Sessions -> Times]
        BY <2>5, InvariantParts, SessionTypes, DocumentFields, TimesFacts
      <3> QED BY <3>1
    <2>7. /\ opened \in q.opened..now /\ began \in Nat
          /\ began = q.began \/ began \in q.opened..opened
          /\ request' = [request EXCEPT ![r] =
                 [q EXCEPT !.step = "creating", !.opened = opened, !.began = began,
                           !.drop = over, !.seen = seen]]
      <3>1. q.opened \in Nat /\ q.began \in Nat
        BY <2>2, RequestFields
      <3>2. began \in Nat /\ (began = q.began \/ began \in q.opened..opened)
        BY <2>1, <3>1
      <3>3. request' = [request EXCEPT ![r] =
                [request[r] EXCEPT !.step = "creating", !.opened = opened, !.began = began,
                                   !.drop = over, !.seen = seen]]
        BY <2>4, <2>6
      <3> QED BY <2>1, <3>2, <3>3
    <2> DEFINE p == [q EXCEPT !.step = "creating", !.opened = opened, !.began = began,
                              !.drop = over, !.seen = seen]
    <2>8. q.opened \in Nat /\ q.began \in Nat /\ now \in Nat /\ q.began <= q.opened
      BY <2>2, RequestFields, InvariantParts, ClockTypes DEF RequestOK
    <2>9. /\ opened \in Nat /\ opened <= now /\ opened \in Times
      <3>1. opened \in 0..MaxTime
        BY <2>7, <2>8, InvariantParts, SessionsAssumption DEF ClockOK
      <3> QED BY <2>7, <2>8, <3>1, TimesFacts
    <2>10. began \in Nat /\ began <= opened /\ began \in Times
      <3>1. began \in 0..MaxTime /\ began <= opened
        BY <2>7, <2>8, <2>9, InvariantParts, SessionsAssumption DEF ClockOK
      <3> QED BY <2>7, <3>1, TimesFacts
    <2>11. p \in RequestStates
      BY <2>2, <2>9, <2>10, <2>5 DEF RequestStates, Steps
    <2>12. /\ p.step = "creating" /\ p.opened = opened /\ p.began = began /\ p.since = q.since
      BY <2>2 DEF RequestStates
    <2>13. request' = [request EXCEPT ![r] = p]
      BY <2>7
    <2> HIDE DEF p
    <2>14. RequestOK(p)
      <3>1. version > 0 /\ q.since <= version /\ began <= now
        BY <2>2, <2>8, <2>9, <2>10 DEF RequestOK
      <3> QED BY <3>1, <2>9, <2>10, <2>12 DEF RequestOK
    <2>15. RequestOK(p)'
      BY <1>1, <2>14, RequestOKThen
    <2>16. cache' \in [Sessions -> Entries]
      BY <1>1, InvariantParts DEF ValuesOK
    <2> QED BY <1>1, <2>11, <2>13, <2>15, <2>16, RequestOnlyKeeps
  <1> QED BY <1>2, <1>3 DEF BeginLoginSession

\* What a request does when it has deleted the entries of other sessions.
LEMMA NextAfterDropType ==
    ASSUME ClockOK, NEW q \in RequestStates, q.step \in {"rehashing", "dropping"}
    PROVE  NextAfterDrop(q) \in RequestStates
  <1>1. [q EXCEPT !.step = "verified", !.opened = now] \in RequestStates
        /\ [q EXCEPT !.step = "caching"] \in RequestStates
    BY ClockTypes DEF RequestStates, Steps
  <1> QED BY <1>1, IdlingType DEF NextAfterDrop

LEMMA NextAfterDropFacts ==
    ASSUME ClockOK, ClockOK', now' = now, NEW q \in RequestStates, RequestOK(q)',
           q.step \in {"rehashing", "dropping"}
    PROVE  \E p \in RequestStates : p = NextAfterDrop(q) /\ RequestOK(p)'
  <1>1. CASE q.drop # {}
    BY <1>1 DEF NextAfterDrop
  <1>2. CASE q.drop = {} /\ q.step = "rehashing"
    <2>1. PICK t \in Times : t = now /\ t \in Nat
      BY ClockTypes
    <2> DEFINE p == [q EXCEPT !.step = "verified", !.opened = t]
    <2>2. NextAfterDrop(q) = p
      BY <1>2, <2>1 DEF NextAfterDrop
    <2>3. /\ p \in RequestStates /\ p.step = "verified" /\ p.began = q.began
          /\ p.opened = t /\ p.since = q.since
      BY <2>1 DEF RequestStates, Steps
    <2> HIDE DEF p
    <2>4. RequestOK(p)'
      BY <1>2, <2>1, <2>3 DEF RequestOK
    <2> QED BY <2>2, <2>3, <2>4
  <1>3. CASE q.drop = {} /\ q.step = "dropping" /\ q.session # NoSession
    <2> DEFINE p == [q EXCEPT !.step = "caching"]
    <2>1. NextAfterDrop(q) = p
      BY <1>3 DEF NextAfterDrop
    <2>2. /\ p \in RequestStates /\ p.step = "caching" /\ p.began = q.began
          /\ p.opened = q.opened /\ p.since = q.since /\ p.session = q.session
          /\ p.document = q.document
      BY DEF RequestStates, Steps
    <2> HIDE DEF p
    <2>3. RequestOK(p)'
      BY <1>3, <2>2 DEF RequestOK, Copied
    <2> QED BY <2>1, <2>2, <2>3
  <1>4. CASE q.drop = {} /\ q.step = "dropping" /\ q.session = NoSession
    <2>1. NextAfterDrop(q) = Idling
      BY <1>4 DEF NextAfterDrop
    <2>2. RequestOK(Idling)'
      BY SessionsAssumption DEF ClockOK, RequestOK, Idling
    <2> QED BY <2>1, <2>2, IdlingType
  <1> QED BY <1>1, <1>2, <1>3, <1>4

LEMMA DropEntryKeeps ==
    ASSUME SessionsInvariant, NEW r \in Requests, NEW d \in Sessions, DropEntry(r, d)
    PROVE  Keeps
  <1>1. UNCHANGED <<now, version, signup, sessions, issued, lag>>
    BY DEF DropEntry, databaseVars, history
  <1>2. PICK q : q = request[r]
    OBVIOUS
  <1>3. q \in RequestStates /\ RequestOK(q)
    BY <1>2, CurrentRequest
  <1> DEFINE p == [q EXCEPT !.drop = q.drop \ {d}]
  <1>4. request' = [request EXCEPT ![r] = NextAfterDrop(p)]
    BY <1>2 DEF DropEntry
  <1>5. p \in RequestStates
    <2>1. q.drop \ {d} \in SUBSET Sessions
      BY <1>3, RequestFields
    <2> QED BY <1>3, <2>1 DEF RequestStates
  <1>6. /\ p.step = q.step /\ p.began = q.began /\ p.opened = q.opened /\ p.since = q.since
        /\ p.session = q.session /\ p.document = q.document /\ p.entry = q.entry
        /\ q.step \in {"rehashing", "dropping"}
    BY <1>2, <1>3 DEF RequestStates, DropEntry
  <1> HIDE DEF p
  <1>7. RequestOK(p)
    BY <1>3, <1>6 DEF RequestOK, Copied
  <1>8. RequestOK(p)'
    BY <1>1, <1>7, RequestOKThen
  <1>9. ClockOK'
    BY <1>1, InvariantParts DEF ClockOK
  <1>10. PICK next \in RequestStates : next = NextAfterDrop(p) /\ RequestOK(next)'
    BY <1>1, <1>5, <1>6, <1>8, <1>9, InvariantParts, NextAfterDropFacts
  <1>11. cache' \in [Sessions -> Entries]
         /\ \A e \in Sessions : cache'[e] \in {cache[e], NoEntry}
    <2>1. cache \in [Sessions -> Entries] /\ NoEntry \in Entries
      BY InvariantParts, NullTypes DEF ValuesOK
    <2> QED BY <2>1 DEF DropEntry
  <1> QED BY <1>1, <1>4, <1>10, <1>11, RequestOnlyKeeps

LEMMA CompleteSignupKeeps ==
    ASSUME SessionsInvariant, NEW r \in Requests, NEW d \in Sessions, CompleteSignup(r, d)
    PROVE  Keeps
  <1>1. PICK t \in 0..MaxTime : t = now
    BY InvariantParts, SessionsAssumption DEF ClockOK
  <1> DEFINE document == Document(1, t, t)
             p == [Idling EXCEPT !.step = "caching", !.session = d, !.document = document]
  <1>2. /\ request' = [request EXCEPT ![r] = p] /\ sessions' = [sessions EXCEPT ![d] = document]
        /\ signup.token = "reserved" /\ signup' = [token |-> "consumed", session |-> "completed"]
        /\ version' = 1 /\ sessions[d].state = "none"
        /\ UNCHANGED <<now, cache, issued, lag>>
    BY <1>1 DEF CompleteSignup, NewDocument, history
  <1>3. document \in SessionDocuments
    BY DocumentType
  <1>4. p \in RequestStates
    <2>1. \A q \in RequestStates :
              [q EXCEPT !.step = "caching", !.session = d, !.document = document] \in RequestStates
      BY <1>3 DEF RequestStates, Steps
    <2> QED BY <2>1, IdlingType
  <1>5. version = 0
    BY <1>2, InvariantParts, SessionsAssumption DEF SignupOK, ClockOK
  <1>6. ClockOK' /\ SignupOK' /\ ClockAdvances
    BY <1>2, <1>5, InvariantParts, SessionsAssumption
       DEF ClockOK, SignupOK, ClockAdvances, TokenStates
  <1>7. ValuesOK'
    <2>1. sessions' \in [Sessions -> SessionDocuments]
      BY <1>2, <1>3, InvariantParts DEF ValuesOK
    <2>2. request' \in [Requests -> RequestStates]
      BY <1>2, <1>4, InvariantParts DEF ValuesOK
    <2> QED BY <1>2, <2>1, <2>2, InvariantParts DEF ValuesOK
  <1>8. sessions'[d] = document /\ \A e \in Sessions \ {d} : sessions'[e] = sessions[e]
    BY <1>2, InvariantParts DEF ValuesOK
  <1>9. \A e \in Sessions : Ages(e) /\ SessionOK(e)'
    <2> SUFFICES ASSUME NEW e \in Sessions PROVE Ages(e) /\ SessionOK(e)'
      OBVIOUS
    <2>1. CASE e = d
      BY <2>1, <1>1, <1>2, <1>6, <1>7, <1>8, InvariantParts, SessionWritten
    <2>2. CASE e # d
      BY <2>2, <1>2, <1>6, <1>7, <1>8, InvariantParts, SessionUntouched
    <2> QED BY <2>1, <2>2
  <1>10. RequestOK(p)'
    <2>1. /\ p.step = "caching" /\ p.session = d /\ p.document = document
          /\ p.began = 0 /\ p.opened = 0 /\ p.since = 0
      BY DEF Idling
    <2>2. d # NoSession /\ sessions'[d].state # "none"
      BY <1>8, SessionsAssumption DEF Document
    <2>3. document.lastSeen <= now'
      BY <1>1, <1>2, SessionsAssumption DEF Document
    <2> HIDE DEF p, document
    <2>4. Copied(d, document)'
      BY <1>8, <2>2, <2>3 DEF Copied
    <2> QED BY <2>1, <2>2, <2>4, <1>2, <1>6, SessionsAssumption DEF RequestOK, Copied, ClockOK
  <1> HIDE DEF p
  <1> QED BY <1>2, <1>4, <1>6, <1>7, <1>9, <1>10, StepKeeps

\* A document that is revoked keeps its times.
LEMMA RevokedFields ==
    ASSUME NEW document \in SessionDocuments, NEW at \in Times
    PROVE  LET after == Revoked(document, at)
           IN  /\ after \in SessionDocuments /\ after.state = "revoked"
               /\ after.revokedAt = at /\ after.absolute = document.absolute
               /\ after.idle = document.idle /\ after.lastSeen = document.lastSeen
  BY DEF Revoked, SessionDocuments

\* Several sessions are revoked at once.
LEMMA SessionRevoked ==
    ASSUME ClockOK, ClockOK', ValuesOK, ValuesOK', ClockAdvances,
           NEW d \in Sessions, SessionOK(d), sessions[d].state = "active",
           NEW at \in Times, at = now, sessions'[d] = Revoked(sessions[d], at),
           issued'[d] = issued[d], lag'[d] = lag[d], cache'[d] = cache[d]
    PROVE  Ages(d) /\ SessionOK(d)'
  <1>1. sessions[d] \in SessionDocuments
    BY DEF ValuesOK
  <1>2. /\ sessions'[d].state = "revoked" /\ sessions'[d].revokedAt = at
        /\ sessions'[d].absolute = sessions[d].absolute
        /\ sessions'[d].idle = sessions[d].idle
    BY <1>1, RevokedFields
  <1> QED BY <1>2, SessionEnded

LEMMA UpdatePasswordKeeps ==
    ASSUME SessionsInvariant, NEW r \in Requests, UpdatePasswordAndRevokeSessions(r)
    PROVE  Keeps
  <1> DEFINE active == {d \in Sessions : sessions[d].state = "active"}
  <1>1. PICK q : q = request[r]
    OBVIOUS
  <1>2. q \in RequestStates /\ RequestOK(q)
    BY <1>1, CurrentRequest
  <1>3. PICK v \in Nat, drop \in SUBSET Sessions : v = version + 1 /\ drop = active
    <2>1. version + 1 \in Nat
      BY InvariantParts, SessionsAssumption DEF ClockOK
    <2>2. active \in SUBSET Sessions
      OBVIOUS
    <2> QED BY <2>1, <2>2
  <1> DEFINE p == [q EXCEPT !.step = "rehashing", !.version = v, !.drop = drop]
  <1>4. /\ version' = version + 1 /\ version < MaxVersion
        /\ sessions' = [d \in Sessions |->
               IF d \in drop THEN Revoked(sessions[d], now) ELSE sessions[d]]
        /\ request' = [request EXCEPT ![r] = NextAfterDrop(p)]
        /\ UNCHANGED <<now, signup, cache, issued, lag>>
    BY <1>1, <1>3 DEF UpdatePasswordAndRevokeSessions, history
  <1>5. p \in RequestStates
    BY <1>2 DEF RequestStates, Steps
  <1>6. /\ p.step = "rehashing" /\ p.began = q.began /\ p.opened = q.opened /\ p.since = q.since
    BY <1>2 DEF RequestStates
  <1>7. now \in Times
    BY InvariantParts, TimesFacts, SessionsAssumption DEF ClockOK
  <1> HIDE DEF p
  <1>8. ClockOK' /\ SignupOK' /\ ClockAdvances
    <2>1. version > 0
      BY <1>1, <1>2 DEF UpdatePasswordAndRevokeSessions, At, RequestOK
    <2> QED BY <2>1, <1>4, InvariantParts, SessionsAssumption DEF ClockOK, SignupOK, ClockAdvances
  <1>9. NextAfterDrop(p) \in RequestStates
    BY <1>5, <1>6, InvariantParts, NextAfterDropType
  <1>10. ValuesOK'
    <2>1. sessions' \in [Sessions -> SessionDocuments]
      BY <1>4, <1>7, RevokedFields, InvariantParts DEF ValuesOK
    <2>2. request' \in [Requests -> RequestStates]
      BY <1>4, <1>9, InvariantParts DEF ValuesOK
    <2> QED BY <1>4, <2>1, <2>2, InvariantParts DEF ValuesOK
  <1>11. \A d \in Sessions : Ages(d) /\ SessionOK(d)'
    <2> SUFFICES ASSUME NEW d \in Sessions PROVE Ages(d) /\ SessionOK(d)'
      OBVIOUS
    <2>1. CASE d \in drop
      <3>1. sessions[d].state = "active" /\ sessions'[d] = Revoked(sessions[d], now)
        BY <2>1, <1>3, <1>4
      <3>2. PICK at \in Times : at = now
        BY <1>7
      <3> QED BY <3>1, <3>2, <1>4, <1>8, <1>10, InvariantParts, SessionRevoked
    <2>2. CASE d \notin drop
      BY <2>2, <1>4, <1>8, <1>10, InvariantParts, SessionUntouched
    <2> QED BY <2>1, <2>2
  <1>12. RequestOK(p)'
    <2>1. RequestOK(p)
      BY <1>1, <1>2, <1>6 DEF UpdatePasswordAndRevokeSessions, At, RequestOK
    <2> QED BY <2>1, <1>5, <1>8, <1>10, <1>11, InvariantParts, RequestStays
  <1>13. PICK next \in RequestStates : next = NextAfterDrop(p) /\ RequestOK(next)'
    BY <1>4, <1>5, <1>6, <1>8, <1>12, InvariantParts, NextAfterDropFacts
  <1> QED BY <1>4, <1>8, <1>9, <1>10, <1>11, <1>13, StepKeeps

LEMMA CreateLoginKeeps ==
    ASSUME SessionsInvariant, NEW r \in Requests, NEW d \in Sessions, CreateLoginSession(r, d)
    PROVE  Keeps
  <1>1. PICK login : login = request[r]
    OBVIOUS
  <1>2. login \in RequestStates /\ RequestOK(login) /\ login.step = "creating"
        /\ sessions[d].state = "none"
    BY <1>1, CurrentRequest DEF CreateLoginSession, At
  <1>3. UNCHANGED <<now, version, signup, cache, issued, lag>>
    BY DEF CreateLoginSession, history
  <1>4. /\ login.began \in Nat /\ login.opened \in Nat /\ login.version \in Nat
        /\ login.began <= login.opened /\ login.opened <= now
        /\ login.drop \in SUBSET Sessions
    BY <1>2, RequestFields DEF RequestOK
  <1>5. login.began \in 0..MaxTime /\ login.opened \in 0..MaxTime /\ login.opened \in Times
    BY <1>4, InvariantParts, TimesFacts, SessionsAssumption DEF ClockOK
  <1>6. PICK t \in Times : t = now /\ t \in Nat
    BY InvariantParts, ClockTypes
  <1> DEFINE again == [Idling EXCEPT !.step = "verified", !.version = login.version,
                                     !.began = login.began, !.opened = t]
  <1>7. CASE request' = [request EXCEPT ![r] = again] /\ sessions' = sessions
    <2>1. again \in RequestStates
      <3>1. \A q \in RequestStates : [q EXCEPT !.step = "verified", !.version = login.version,
                                               !.began = login.began, !.opened = t] \in RequestStates
        BY <1>4, <1>5, TimesFacts DEF RequestStates, Steps
      <3> QED BY <3>1, IdlingType
    <2>2. RequestOK(again)
      <3>1. again.step = "verified" /\ again.began = login.began /\ again.opened = t
            /\ again.since = 0
        BY DEF Idling
      <3>2. version > 0
        BY <1>2 DEF RequestOK
      <3> HIDE DEF again
      <3> QED BY <3>1, <3>2, <1>4, <1>6, InvariantParts, ClockTypes DEF RequestOK
    <2> HIDE DEF again
    <2>3. RequestOK(again)'
      BY <1>3, <1>7, <2>2, RequestOKThen
    <2>4. cache' \in [Sessions -> Entries]
      BY <1>3, InvariantParts DEF ValuesOK
    <2> QED BY <1>3, <1>7, <2>1, <2>3, <2>4, RequestOnlyKeeps
  <1> DEFINE document == Document(login.version, login.began, login.opened)
             q == [Idling EXCEPT !.step = "dropping", !.session = d, !.document = document,
                                 !.drop = login.drop]
  <1>8. CASE /\ \A e \in login.drop : sessions[e].state = "active"
             /\ sessions' = [e \in Sessions |->
                     IF e = d THEN document
                     ELSE IF e \in login.drop THEN Revoked(sessions[e], t)
                     ELSE sessions[e]]
             /\ request' = [request EXCEPT ![r] = NextAfterDrop(q)]
    <2> HIDE DEF again
    <2>1. document \in SessionDocuments
      BY <1>4, <1>5, DocumentType
    <2>2. q \in RequestStates
      <3>1. \A p \in RequestStates :
                [p EXCEPT !.step = "dropping", !.session = d, !.document = document,
                          !.drop = login.drop] \in RequestStates
        BY <2>1, <1>4 DEF RequestStates, Steps
      <3> QED BY <3>1, IdlingType
    <2>3. ClockOK' /\ SignupOK' /\ ClockAdvances
      BY <1>3, InvariantParts, SessionsAssumption DEF ClockOK, SignupOK, ClockAdvances
    <2>4. NextAfterDrop(q) \in RequestStates
      <3>1. q.step = "dropping"
        BY DEF Idling
      <3> QED BY <3>1, <2>2, InvariantParts, NextAfterDropType
    <2>5. ValuesOK'
      <3>1. sessions' \in [Sessions -> SessionDocuments]
        BY <1>6, <1>8, <2>1, RevokedFields, InvariantParts DEF ValuesOK
      <3>2. request' \in [Requests -> RequestStates]
        BY <1>8, <2>4, InvariantParts DEF ValuesOK
      <3> QED BY <1>3, <3>1, <3>2, InvariantParts DEF ValuesOK
    <2>6. \A e \in Sessions : Ages(e) /\ SessionOK(e)'
      <3> SUFFICES ASSUME NEW e \in Sessions PROVE Ages(e) /\ SessionOK(e)'
        OBVIOUS
      <3>1. CASE e = d
        <4>1. sessions'[e] = document
          BY <3>1, <1>8
        <4> HIDE DEF q
        <4> QED BY <3>1, <4>1, <1>2, <1>3, <1>4, <1>5, <2>3, <2>5, InvariantParts, SessionWritten
      <3>2. CASE e # d /\ e \in login.drop
        <4>1. sessions'[e] = Revoked(sessions[e], t) /\ sessions[e].state = "active"
          BY <3>2, <1>8
        <4> QED BY <4>1, <1>3, <1>6, <2>3, <2>5, InvariantParts, SessionRevoked
      <3>3. CASE e # d /\ e \notin login.drop
        <4>1. sessions'[e] = sessions[e]
          BY <3>3, <1>8
        <4> QED BY <4>1, <1>3, <2>3, <2>5, InvariantParts, SessionUntouched
      <3> QED BY <3>1, <3>2, <3>3
    <2>7. RequestOK(q)'
      <3>1. /\ q.step = "dropping" /\ q.session = d /\ q.document = document
            /\ q.began = 0 /\ q.opened = 0 /\ q.since = 0
        BY DEF Idling
      <3>2. sessions'[d] = document /\ document.state # "none"
        BY <1>8 DEF Document
      <3>3. document.lastSeen <= now'
        BY <1>3, <1>4 DEF Document
      <3> HIDE DEF q, document
      <3>4. Copied(d, document)'
        BY <3>2, <3>3 DEF Copied
      <3> QED BY <3>1, <3>4, <2>3, SessionsAssumption DEF RequestOK, Copied, ClockOK
    <2>8. PICK next \in RequestStates : next = NextAfterDrop(q) /\ RequestOK(next)'
      <3>1. q.step = "dropping"
        BY DEF Idling
      <3> QED BY <3>1, <1>3, <2>2, <2>3, <2>7, InvariantParts, NextAfterDropFacts
    <2> HIDE DEF q
    <2> QED BY <1>8, <2>3, <2>4, <2>5, <2>6, <2>8, StepKeeps
  <1>9. \/ request' = [request EXCEPT ![r] = again] /\ sessions' = sessions
        \/ /\ \A e \in login.drop : sessions[e].state = "active"
           /\ sessions' = [e \in Sessions |->
                   IF e = d THEN document
                   ELSE IF e \in login.drop THEN Revoked(sessions[e], t)
                   ELSE sessions[e]]
           /\ request' = [request EXCEPT ![r] = NextAfterDrop(q)]
    BY <1>1, <1>6 DEF CreateLoginSession, LoginDocument
  <1> QED BY <1>7, <1>8, <1>9

\* What a fill may leave in the cache.
LEMMA FillFacts ==
    ASSUME ClockOK, ValuesOK, NEW d \in Sessions, NEW document \in SessionDocuments,
           NEW at \in Times, Fill(d, document, at)
    PROVE  /\ cache' \in [Sessions -> Entries]
           /\ cache'[d] \in {cache[d], EntryOf(document, at)}
           /\ \A e \in Sessions \ {d} : cache'[e] = cache[e]
  <1>1. EntryOf(document, at) \in Entries
    <2>1. Greatest(document.lastSeen, at) \in Times
      BY DocumentFields DEF Greatest
    <2> QED BY <2>1, DocumentFields DEF EntryOf, Entries
  <1> QED BY <1>1 DEF Fill, ValuesOK

LEMMA CacheLoginKeeps ==
    ASSUME SessionsInvariant, NEW r \in Requests, CacheLoginSession(r)
    PROVE  Keeps
  <1>1. PICK q : q = request[r]
    OBVIOUS
  <1>2. q \in RequestStates /\ RequestOK(q) /\ q.step = "caching"
    BY <1>1, CurrentRequest DEF CacheLoginSession, At
  <1>3. PICK d \in Sessions, document \in SessionDocuments :
            d = q.session /\ document = q.document /\ Copied(d, document)
    BY <1>2, RequestFields DEF RequestOK
  <1>4. PICK t \in Times : t = now
    BY InvariantParts, TimesFacts, SessionsAssumption DEF ClockOK
  <1>5. /\ Fill(d, document, t) /\ issued' = [issued EXCEPT ![d] = t]
        /\ lag' = [lag EXCEPT ![d] = t - Began(d)]
        /\ request' = [request EXCEPT ![r] = Idling]
        /\ UNCHANGED <<now, version, signup, sessions>>
    BY <1>1, <1>3, <1>4 DEF CacheLoginSession, databaseVars, Began, Copied
  <1>6. /\ cache' \in [Sessions -> Entries] /\ cache'[d] \in {cache[d], EntryOf(document, t)}
        /\ \A e \in Sessions \ {d} : cache'[e] = cache[e]
    BY <1>5, InvariantParts, FillFacts
  <1>7. /\ issued' \in [Sessions -> Times] /\ issued'[d] = t
        /\ \A e \in Sessions \ {d} : issued'[e] = issued[e]
        /\ lag' \in [Sessions -> Times] /\ lag'[d] = t - Began(d)
        /\ \A e \in Sessions \ {d} : lag'[e] = lag[e]
    <2>1. t - Began(d) \in Times
      <3>1. /\ sessions[d].absolute \in Nat /\ Absolute <= sessions[d].absolute /\ Began(d) <= now
            /\ now \in 0..MaxTime
        BY <1>3, InvariantParts, SessionTypes, ClockTypes DEF SessionOK, DocumentOK, Copied
      <3>2. t - Began(d) \in 0..MaxTime
        BY <1>4, <3>1, SessionsAssumption DEF Began
      <3> QED BY <3>2, TimesFacts
    <2>2. issued \in [Sessions -> Times] /\ lag \in [Sessions -> Times]
      BY InvariantParts DEF ValuesOK
    <2> HIDE DEF Began
    <2> QED BY <1>5, <2>1, <2>2
  <1>8. ClockOK' /\ SignupOK' /\ ClockAdvances
    BY <1>4, <1>5, <1>7, InvariantParts, SessionsAssumption DEF ClockOK, SignupOK, ClockAdvances
  <1>9. ValuesOK'
    <2>1. request' \in [Requests -> RequestStates]
      BY <1>5, IdlingType, InvariantParts DEF ValuesOK
    <2>2. sessions' \in [Sessions -> SessionDocuments]
      BY <1>5, InvariantParts DEF ValuesOK
    <2> QED BY <1>6, <1>7, <2>1, <2>2 DEF ValuesOK
  <1>10. \A e \in Sessions : Ages(e) /\ SessionOK(e)'
    <2> SUFFICES ASSUME NEW e \in Sessions PROVE Ages(e) /\ SessionOK(e)'
      OBVIOUS
    <2>1. CASE e = d
      <3>1. cache'[e] \in {cache[e], EntryOf(document, now)} /\ issued'[e] = now
            /\ lag'[e] = now - Began(e)
        <4>1. cache'[e] \in {cache[e], EntryOf(document, now)}
          BY <2>1, <1>4, <1>6
        <4>2. issued'[e] = now
          BY <2>1, <1>4, <1>7
        <4>3. lag'[e] = now - Began(e)
          BY <2>1, <1>4, <1>7
        <4> QED BY <4>1, <4>2, <4>3
      <3> QED BY <2>1, <3>1, <1>3, <1>5, <1>8, <1>9, InvariantParts, SessionIssued
    <2>2. CASE e # d
      BY <2>2, <1>5, <1>6, <1>7, <1>8, <1>9, InvariantParts, SessionUntouched
    <2> QED BY <2>1, <2>2
  <1>11. RequestOK(Idling)'
    BY <1>8, SessionsAssumption DEF ClockOK, RequestOK, Idling
  <1> QED BY <1>5, <1>8, <1>9, <1>10, <1>11, IdlingType, StepKeeps

LEMMA AuthenticateKeeps ==
    ASSUME SessionsInvariant, NEW r \in Requests, NEW d \in Sessions, Authenticate(r, d)
    PROVE  Keeps
  <1>1. PICK t \in Times, v \in Nat, entry \in Entries :
            t = now /\ v = version /\ entry = cache[d]
    BY InvariantParts, ClockTypes, SessionTypes
  <1>2. PICK began \in issued[d]..now :
            LET begun == [Idling EXCEPT !.session = d, !.began = began, !.since = v]
            IN  \/ /\ request' = [request EXCEPT ![r] =
                         [begun EXCEPT !.step = "version", !.entry = entry]]
                   /\ entry # NoEntry /\ entry.idle > began /\ entry.absolute > began
                \/ request' = [request EXCEPT ![r] =
                         [begun EXCEPT !.step = "database", !.opened = t]]
    BY <1>1 DEF Authenticate
  <1> DEFINE begun == [Idling EXCEPT !.session = d, !.began = began, !.since = v]
             fromCache == [begun EXCEPT !.step = "version", !.entry = entry]
             fromDatabase == [begun EXCEPT !.step = "database", !.opened = t]
  <1>3. UNCHANGED <<now, version, signup, sessions, issued, lag>>
    BY DEF Authenticate, databaseVars, history
  <1>4. /\ cache' \in [Sessions -> Entries]
        /\ \A e \in Sessions : cache'[e] \in {cache[e], NoEntry}
    <2>1. cache \in [Sessions -> Entries] /\ NoEntry \in Entries
      BY InvariantParts, NullTypes DEF ValuesOK
    <2>2. cache' \in {cache, [cache EXCEPT ![d] = NoEntry]}
      BY DEF Authenticate
    <2> QED BY <2>1, <2>2
  <1>5. sessions[d].state # "none" /\ issued[d] > 0 /\ d # NoSession
    BY SessionsAssumption DEF Authenticate
  <1>6. began \in Nat /\ began \in Times /\ began <= now /\ t \in Nat /\ v <= version
    <2>1. issued[d] \in Nat /\ now \in Nat /\ version \in Nat
      BY InvariantParts, ClockTypes, SessionTypes
    <2>2. began \in 0..MaxTime
      BY <2>1, InvariantParts, SessionsAssumption DEF ClockOK
    <2> QED BY <1>1, <2>1, <2>2, TimesFacts
  <1>7. /\ begun \in RequestStates /\ begun.session = d /\ begun.began = began
        /\ begun.opened = 0 /\ begun.since = v
    <2>1. \A q \in RequestStates :
              [q EXCEPT !.session = d, !.began = began, !.since = v] \in RequestStates
      BY <1>6 DEF RequestStates
    <2>2. /\ begun.session = d /\ begun.began = began /\ begun.opened = 0 /\ begun.since = v
      BY DEF Idling
    <2> QED BY <2>1, <2>2, IdlingType
  <1>8. \/ /\ request' = [request EXCEPT ![r] = fromCache]
           /\ entry # NoEntry /\ entry.idle > began /\ entry.absolute > began
        \/ request' = [request EXCEPT ![r] = fromDatabase]
    BY <1>2
  <1> HIDE DEF begun
  <1>9. CASE request' = [request EXCEPT ![r] = fromCache]
             /\ entry # NoEntry /\ entry.idle > began /\ entry.absolute > began
    <2>1. /\ fromCache \in RequestStates /\ fromCache.step = "version"
          /\ fromCache.session = d /\ fromCache.began = began /\ fromCache.opened = 0
          /\ fromCache.since = v /\ fromCache.entry = entry
      BY <1>7 DEF RequestStates, Steps
    <2>2. Matches(d, entry)
      BY <1>1, <1>9, InvariantParts DEF SessionOK, CacheOK, Matches, Bounded
    <2>3. began < entry.absolute
      BY <1>6, <1>9, EntryFields
    <2> HIDE DEF fromCache
    <2>4. 0 <= now
      BY InvariantParts, ClockTypes
    <2>5. RequestOK(fromCache)
      BY <1>5, <1>6, <2>1, <2>2, <2>3, <2>4 DEF RequestOK, Matches, Bounded
    <2>6. RequestOK(fromCache)'
      BY <1>3, <2>5, RequestOKThen
    <2> QED BY <1>3, <1>4, <1>9, <2>1, <2>6, RequestOnlyKeeps
  <1>10. CASE request' = [request EXCEPT ![r] = fromDatabase]
    <2>1. /\ fromDatabase \in RequestStates /\ fromDatabase.step = "database"
          /\ fromDatabase.session = d /\ fromDatabase.began = began
          /\ fromDatabase.opened = t /\ fromDatabase.since = v
      BY <1>7 DEF RequestStates, Steps
    <2>2. Began(d) <= t
      BY <1>1, <1>5, InvariantParts DEF SessionOK, DocumentOK
    <2> HIDE DEF fromDatabase
    <2>3. RequestOK(fromDatabase)
      BY <1>1, <1>5, <1>6, <2>1, <2>2 DEF RequestOK, Began
    <2>4. RequestOK(fromDatabase)'
      BY <1>3, <2>3, RequestOKThen
    <2> QED BY <1>3, <1>4, <1>10, <2>1, <2>4, RequestOnlyKeeps
  <1> QED BY <1>8, <1>9, <1>10

\* A request that is served.
LEMMA AcceptedKeeps ==
    ASSUME SessionsInvariant, NEW q \in RequestStates, RequestOK(q)', NEW v \in Nat,
           q.session \in Sessions, sessions'[q.session].state # "none", issued'[q.session] > 0,
           NEW p, p = [Idling EXCEPT !.step = "accepted", !.session = q.session,
                                     !.version = v, !.began = q.began, !.since = q.since],
           Served([session |-> q.session, began |-> q.began, since |-> q.since, version |-> v])',
           ClockOK'
    PROVE  p \in RequestStates /\ RequestOK(p)'
  <1>1. p \in RequestStates
    <2>1. q.session \in Sessions /\ q.began \in Times /\ q.since \in Nat
      BY RequestFields
    <2>2. \A s \in RequestStates :
              [s EXCEPT !.step = "accepted", !.session = q.session, !.version = v,
                        !.began = q.began, !.since = q.since] \in RequestStates
      BY <2>1 DEF RequestStates, Steps
    <2> QED BY <2>2, IdlingType
  <1>2. /\ p.step = "accepted" /\ p.session = q.session /\ p.version = v
        /\ p.began = q.began /\ p.since = q.since /\ p.opened = 0
    BY DEF Idling
  <1>3. Served(p)'
    BY <1>2 DEF Served, Bounded
  <1>4. q.session # NoSession
    BY SessionsAssumption
  <1> QED BY <1>1, <1>2, <1>3, <1>4, SessionsAssumption DEF RequestOK, Served, Bounded, ClockOK

LEMMA CheckEntryKeeps ==
    ASSUME SessionsInvariant, NEW r \in Requests, CheckEntry(r)
    PROVE  Keeps
  <1>1. PICK q : q = request[r]
    OBVIOUS
  <1>2. q \in RequestStates /\ RequestOK(q) /\ q.step = "version"
    BY <1>1, CurrentRequest DEF CheckEntry, At
  <1>3. UNCHANGED <<now, version, signup, sessions, issued, lag>>
    BY DEF CheckEntry, databaseVars, history
  <1>4. /\ q.session \in Sessions /\ sessions[q.session].state # "none"
        /\ issued[q.session] > 0 /\ Matches(q.session, q.entry)
        /\ q.began < q.entry.absolute /\ q.since <= version
    BY <1>2, RequestFields DEF RequestOK
  <1>5. /\ cache' \in [Sessions -> Entries]
        /\ \A e \in Sessions : cache'[e] \in {cache[e], NoEntry}
    <2>1. cache \in [Sessions -> Entries] /\ NoEntry \in Entries
      BY InvariantParts, NullTypes DEF ValuesOK
    <2>2. cache' \in {cache, [cache EXCEPT ![q.session] = NoEntry]}
      BY <1>1 DEF CheckEntry
    <2> QED BY <2>1, <2>2
  <1>6. ClockOK'
    BY <1>3, InvariantParts DEF ClockOK
  <1>7. RequestOK(q)'
    BY <1>2, <1>3, RequestOKThen
  <1>8. CASE q.entry.version = version /\ Recent(q.entry, q.began) /\ Accept(r)
    <2>1. PICK v \in Nat : v = q.entry.version
      BY <1>2, RequestFields, EntryFields
    <2>2. PICK p : p = [Idling EXCEPT !.step = "accepted", !.session = q.session,
                                      !.version = v, !.began = q.began, !.since = q.since]
      OBVIOUS
    <2>3. Served([session |-> q.session, began |-> q.began, since |-> q.since, version |-> v])
      <3>1. PICK at \in Nat : at = q.entry.persisted
        BY <1>2, RequestFields, EntryFields
      <3>2. Bounded(q.session, at) /\ q.began < at + RefreshInterval
        BY <1>4, <1>8, <3>1 DEF Matches, Recent
      <3>3. q.began < sessions[q.session].absolute
        BY <1>4 DEF Matches
      <3>4. q.since <= v
        BY <1>4, <1>8, <2>1
      <3> QED BY <3>2, <3>3, <3>4 DEF Served
    <2>4. Served([session |-> q.session, began |-> q.began, since |-> q.since, version |-> v])'
      BY <1>3, <2>3 DEF Served, Bounded, RefreshInterval
    <2>5. sessions'[q.session].state # "none" /\ issued'[q.session] > 0
      BY <1>3, <1>4
    <2>6. p \in RequestStates /\ RequestOK(p)'
      BY <1>2, <1>4, <1>6, <1>7, <2>2, <2>4, <2>5, AcceptedKeeps
    <2>7. request' = [request EXCEPT ![r] = p]
      BY <1>1, <1>8, <2>1, <2>2 DEF Accept
    <2> QED BY <1>3, <1>5, <2>6, <2>7, RequestOnlyKeeps
  <1>9. CASE request' = [request EXCEPT ![r] =
                 [q EXCEPT !.step = "database", !.entry = NoEntry, !.opened = now]]
    <2>1. PICK t \in Times : t = now /\ t \in Nat
      BY InvariantParts, ClockTypes
    <2> DEFINE p == [q EXCEPT !.step = "database", !.entry = NoEntry, !.opened = t]
    <2>2. /\ p \in RequestStates /\ p.step = "database" /\ p.session = q.session
          /\ p.began = q.began /\ p.opened = t /\ p.since = q.since
      BY <1>2, NullTypes DEF RequestStates, Steps
    <2>3. request' = [request EXCEPT ![r] = p]
      BY <1>9, <2>1
    <2> HIDE DEF p
    <2>4. Began(q.session) <= t
      BY <1>4, <2>1, InvariantParts DEF SessionOK, DocumentOK
    <2>5. RequestOK(p)
      BY <1>2, <2>1, <2>2, <2>4 DEF RequestOK, Began
    <2>6. RequestOK(p)'
      BY <1>3, <2>5, RequestOKThen
    <2> QED BY <1>3, <1>5, <2>2, <2>3, <2>6, RequestOnlyKeeps
  <1> QED BY <1>1, <1>8, <1>9 DEF CheckEntry

LEMMA AuthenticateFromDatabaseKeeps ==
    ASSUME SessionsInvariant, NEW r \in Requests, AuthenticateFromDatabase(r)
    PROVE  Keeps
  <1>1. PICK q : q = request[r]
    OBVIOUS
  <1>2. q \in RequestStates /\ RequestOK(q) /\ q.step = "database"
    BY <1>1, CurrentRequest DEF AuthenticateFromDatabase, At
  <1>3. UNCHANGED <<now, version, signup, cache, issued>>
    BY DEF AuthenticateFromDatabase
  <1>4. PICK d \in Sessions : d = q.session
    BY <1>2, RequestFields DEF RequestOK
  <1>5. CASE request' = [request EXCEPT ![r] = Idling] /\ sessions' = sessions /\ lag' = lag
    BY <1>3, <1>5, ToIdle
  <1>6. ASSUME NEW clock \in q.opened..now, Live(d, clock), sessions[d].version = version,
               sessions' = [sessions EXCEPT ![d] = Refreshed(sessions[d], clock)],
               lag' = [lag EXCEPT ![d] = now - clock],
               request' = [request EXCEPT ![r] =
                   [q EXCEPT !.step = "filling", !.opened = 0,
                             !.document = Refreshed(sessions[d], clock)]]
        PROVE  Keeps
    <2>1. /\ q.opened \in Nat /\ q.began \in Nat /\ now \in Nat /\ version \in Nat
          /\ q.began <= q.opened /\ Began(d) <= q.opened
          /\ q.since <= version /\ issued[d] > 0
      BY <1>2, <1>4, RequestFields, InvariantParts, ClockTypes DEF RequestOK
    <2>2. /\ sessions[d] \in SessionDocuments /\ sessions[d].absolute \in Nat
          /\ Absolute <= sessions[d].absolute
      <3>1. sessions[d] \in SessionDocuments /\ sessions[d].absolute \in Nat
        BY InvariantParts, SessionTypes
      <3>2. sessions[d].state # "none"
        BY <1>6 DEF Live
      <3> QED BY <3>1, <3>2, InvariantParts DEF SessionOK, DocumentOK
    <2>3. /\ clock \in Nat /\ clock <= now /\ q.opened <= clock /\ q.began <= clock
          /\ Began(d) <= clock
      BY <2>1, <2>2, SessionsAssumption DEF Began
    <2>4. PICK document \in SessionDocuments : document = Refreshed(sessions[d], clock)
      BY <2>2, <2>3, InvariantParts, RefreshedFields
    <2> DEFINE p == [q EXCEPT !.step = "filling", !.opened = 0, !.document = document]
    <2>5. request' = [request EXCEPT ![r] = p] /\ sessions' = [sessions EXCEPT ![d] = document]
      BY <1>6, <2>4
    <2>6. /\ p \in RequestStates /\ p.step = "filling" /\ p.session = d
          /\ p.began = q.began /\ p.opened = 0 /\ p.since = q.since
          /\ p.document = document
      BY <1>2, <1>4, TimesFacts DEF RequestStates, Steps
    <2> HIDE DEF p
    <2>7. ClockOK' /\ SignupOK' /\ ClockAdvances
      BY <1>3, <2>1, InvariantParts DEF ClockOK, SignupOK, ClockAdvances
    <2>8. ValuesOK'
      <3>1. now - clock \in Times
        <4>1. now - clock \in 0..MaxTime
          BY <2>1, <2>3, InvariantParts, SessionsAssumption DEF ClockOK
        <4> QED BY <4>1, TimesFacts
      <3>2. lag' \in [Sessions -> Times]
        BY <1>6, <3>1, InvariantParts DEF ValuesOK
      <3> QED BY <1>3, <2>5, <2>6, <3>2, InvariantParts DEF ValuesOK
    <2>9. /\ sessions'[d] = Refreshed(sessions[d], clock) /\ lag'[d] = now - clock
          /\ \A e \in Sessions \ {d} : sessions'[e] = sessions[e] /\ lag'[e] = lag[e]
      BY <1>6, <2>4, <2>5, InvariantParts DEF ValuesOK
    <2>10. \A e \in Sessions : Ages(e) /\ SessionOK(e)'
      <3> SUFFICES ASSUME NEW e \in Sessions PROVE Ages(e) /\ SessionOK(e)'
        OBVIOUS
      <3>1. CASE e = d
        <4>1. /\ At(r, "database") /\ request[r].session = d
              /\ request[r].opened \in Nat /\ request[r].opened <= clock
          BY <1>1, <1>2, <1>4, <2>1, <2>3 DEF At
        <4> QED BY <3>1, <4>1, <1>3, <1>6, <2>3, <2>7, <2>8, <2>9, InvariantParts, SessionRefreshed
      <3>2. CASE e # d
        BY <3>2, <1>3, <2>7, <2>8, <2>9, InvariantParts, SessionUntouched
      <3> QED BY <3>1, <3>2
    <2>11. RequestOK(p)'
      <3>1. /\ document.state = "active" /\ document.lastSeen = clock
            /\ document.idle = Least(clock + Idle, sessions[d].absolute)
            /\ document.absolute = sessions[d].absolute /\ document.version = version
        BY <1>6, <2>2, <2>3, <2>4, InvariantParts, RefreshedFields DEF Live
      <3>2. q.began < document.absolute
        BY <1>6, <2>1, <2>2, <2>3, <3>1 DEF Live
      <3>3. sessions'[d] = document /\ sessions'[d].state # "none"
        BY <2>4, <2>9, <3>1
      <3>4. Copied(d, document)'
        BY <1>3, <2>3, <3>1, <3>3 DEF Copied
      <3>5. Bounded(d, document.lastSeen)'
        <4>1. \/ sessions'[d].idle = sessions'[d].absolute
              \/ clock + Idle <= sessions'[d].idle + lag'[d]
          BY <2>1, <2>2, <2>3, <2>9, <3>1, <3>3, SessionsAssumption DEF Least
        <4>2. sessions'[d].revokedAt = 0
          BY <2>8, <2>10, <3>1, <3>3 DEF SessionOK, DocumentOK
        <4> QED BY <1>3, <2>3, <3>1, <4>1, <4>2 DEF Bounded
      <3>6. d # NoSession /\ issued'[d] > 0 /\ 0 <= now'
        BY <1>3, <2>1, SessionsAssumption
      <3>7. q.began <= now' /\ q.since <= version'
        BY <1>3, <2>1, <2>3
      <3> QED BY <2>6, <2>3, <3>1, <3>2, <3>3, <3>4, <3>5, <3>6, <3>7, <1>3, <2>1
              DEF RequestOK, Copied, Bounded
    <2> QED BY <2>5, <2>6, <2>7, <2>8, <2>10, <2>11, StepKeeps
  <1>7. \/ request' = [request EXCEPT ![r] = Idling] /\ sessions' = sessions /\ lag' = lag
        \/ \E clock \in q.opened..now :
              /\ Live(d, clock) /\ sessions[d].version = version
              /\ sessions' = [sessions EXCEPT ![d] = Refreshed(sessions[d], clock)]
              /\ lag' = [lag EXCEPT ![d] = now - clock]
              /\ request' = [request EXCEPT ![r] =
                     [q EXCEPT !.step = "filling", !.opened = 0,
                               !.document = Refreshed(sessions[d], clock)]]
    BY <1>1, <1>4 DEF AuthenticateFromDatabase
  <1> QED BY <1>5, <1>6, <1>7

LEMMA CacheAuthenticatedKeeps ==
    ASSUME SessionsInvariant, NEW r \in Requests, CacheAuthenticated(r)
    PROVE  Keeps
  <1>1. PICK q : q = request[r]
    OBVIOUS
  <1>2. q \in RequestStates /\ RequestOK(q) /\ q.step = "filling"
    BY <1>1, CurrentRequest DEF CacheAuthenticated, At
  <1>3. UNCHANGED <<now, version, signup, sessions, issued, lag>>
    BY DEF CacheAuthenticated, databaseVars, history
  <1>4. PICK d \in Sessions, document \in SessionDocuments :
            d = q.session /\ document = q.document /\ Copied(d, document)
    BY <1>2, RequestFields DEF RequestOK
  <1>5. PICK v \in Nat : v = document.version
    BY DocumentFields
  <1>6. PICK p : p = [Idling EXCEPT !.step = "accepted", !.session = q.session,
                                    !.version = v, !.began = q.began, !.since = q.since]
    OBVIOUS
  <1>7. Fill(d, document, q.began) /\ request' = [request EXCEPT ![r] = p]
    BY <1>1, <1>4, <1>5, <1>6 DEF CacheAuthenticated
  <1>8. /\ q.began \in Times /\ q.began \in Nat /\ document.lastSeen \in Nat
        /\ q.began <= document.lastSeen /\ q.began < document.absolute
        /\ q.since <= v /\ sessions[d].state # "none" /\ issued[d] > 0
    BY <1>2, <1>4, <1>5, RequestFields, DocumentFields DEF RequestOK
  <1>9. PICK at \in Nat : at = document.lastSeen /\ Bounded(d, at)
    BY <1>2, <1>4, <1>8 DEF RequestOK
  <1>10. /\ cache' \in [Sessions -> Entries]
         /\ cache'[d] \in {cache[d], EntryOf(document, q.began)}
         /\ \A e \in Sessions \ {d} : cache'[e] = cache[e]
    BY <1>7, <1>8, InvariantParts, FillFacts
  <1>11. ClockOK' /\ SignupOK' /\ ClockAdvances
    BY <1>3, InvariantParts, SessionsAssumption DEF ClockOK, SignupOK, ClockAdvances
  <1>12. Served([session |-> d, began |-> q.began, since |-> q.since, version |-> v])
    <2>1. q.began < sessions[d].absolute
      BY <1>4, <1>8 DEF Copied
    <2>2. q.began < at + RefreshInterval
      BY <1>8, <1>9, IntervalType
    <2> QED BY <1>8, <1>9, <2>1, <2>2 DEF Served
  <1>13. p \in RequestStates /\ RequestOK(p)'
    <2>1. Served([session |-> d, began |-> q.began, since |-> q.since, version |-> v])'
      BY <1>3, <1>12 DEF Served, Bounded, RefreshInterval
    <2>2. RequestOK(q)'
      BY <1>2, <1>3, RequestOKThen
    <2>3. sessions'[d].state # "none" /\ issued'[d] > 0
      BY <1>3, <1>8
    <2> QED BY <1>2, <1>4, <1>6, <1>11, <2>1, <2>2, <2>3, AcceptedKeeps
  <1>14. ValuesOK'
    BY <1>3, <1>7, <1>10, <1>13, InvariantParts DEF ValuesOK
  <1>15. \A e \in Sessions : Ages(e) /\ SessionOK(e)'
    <2> SUFFICES ASSUME NEW e \in Sessions PROVE Ages(e) /\ SessionOK(e)'
      OBVIOUS
    <2>1. CASE cache'[e] = cache[e]
      BY <2>1, <1>3, <1>11, <1>14, InvariantParts, SessionUntouched
    <2>2. CASE e = d /\ cache'[e] = EntryOf(document, q.began)
      <3>1. Ages(e) /\ DocumentOK(e)' /\ IssuedOK(e)'
        BY <1>3, <1>11, <1>14, InvariantParts, Untouched, DocumentStays, IssuedStays DEF SessionOK
      <3>2. Greatest(document.lastSeen, q.began) = at
        BY <1>8, <1>9 DEF Greatest
      <3>3. Bounded(d, at)'
        BY <1>3, <1>9 DEF Bounded
      <3>4. Matches(e, cache[e])'
        BY <1>3, <1>4, <2>2, <3>2, <3>3 DEF Matches, EntryOf, Copied, Bounded
      <3> QED BY <3>1, <3>4 DEF SessionOK, CacheOK
    <2> QED BY <2>1, <2>2, <1>10
  <1> QED BY <1>7, <1>11, <1>13, <1>14, <1>15, StepKeeps

LEMMA RevokeSessionKeeps ==
    ASSUME SessionsInvariant, NEW r \in Requests, NEW d \in Sessions, RevokeSession(r, d)
    PROVE  Keeps
  <1>1. PICK t \in Times : t = now
    BY InvariantParts, TimesFacts, SessionsAssumption DEF ClockOK
  <1> DEFINE p == [Idling EXCEPT !.step = "dropping", !.drop = {d}]
  <1>2. /\ sessions[d].state = "active"
        /\ sessions' = [sessions EXCEPT ![d] = Revoked(sessions[d], t)]
        /\ request' = [request EXCEPT ![r] = p]
        /\ UNCHANGED <<now, version, signup, cache, issued, lag>>
    BY <1>1 DEF RevokeSession, history
  <1>3. /\ p.step = "dropping" /\ p.session = NoSession /\ p.began = 0
        /\ p.opened = 0 /\ p.since = 0
    BY DEF Idling
  <1>4. p \in RequestStates
    <2>1. \A q \in RequestStates : [q EXCEPT !.step = "dropping", !.drop = {d}] \in RequestStates
      BY DEF RequestStates, Steps
    <2> QED BY <2>1, IdlingType
  <1> HIDE DEF p
  <1>5. ClockOK' /\ SignupOK' /\ ClockAdvances
    BY <1>2, InvariantParts, SessionsAssumption DEF ClockOK, SignupOK, ClockAdvances
  <1>6. sessions[d] \in SessionDocuments
    BY InvariantParts DEF ValuesOK
  <1>7. ValuesOK'
    <2>1. Revoked(sessions[d], t) \in SessionDocuments
      BY <1>6, RevokedFields
    <2> QED BY <1>2, <1>4, <2>1, InvariantParts DEF ValuesOK
  <1>8. \A e \in Sessions : Ages(e) /\ SessionOK(e)'
    <2> SUFFICES ASSUME NEW e \in Sessions PROVE Ages(e) /\ SessionOK(e)'
      OBVIOUS
    <2>1. CASE e = d
      <3>1. sessions'[d] = Revoked(sessions[d], t)
        BY <1>2, InvariantParts DEF ValuesOK
      <3> QED BY <2>1, <3>1, <1>1, <1>2, <1>5, <1>7, InvariantParts, SessionRevoked
    <2>2. CASE e # d
      <3>1. sessions'[e] = sessions[e]
        BY <2>2, <1>2, InvariantParts DEF ValuesOK
      <3> QED BY <3>1, <1>2, <1>5, <1>7, InvariantParts, SessionUntouched
    <2> QED BY <2>1, <2>2
  <1>9. RequestOK(p)'
    BY <1>3, <1>5, SessionsAssumption DEF RequestOK, ClockOK
  <1> QED BY <1>2, <1>4, <1>5, <1>7, <1>8, <1>9, StepKeeps

\* Steps that no request takes.
LEMMA OthersKeep ==
    ASSUME SessionsInvariant, ClockOK', SignupOK', ValuesOK', ClockAdvances, request' = request,
           \A d \in Sessions : Ages(d) /\ SessionOK(d)'
    PROVE  Keeps
  <1>1. RequestsOK'
    <2> SUFFICES ASSUME NEW r \in Requests PROVE RequestOK(request[r])'
      BY DEF RequestsOK
    <2>1. PICK q \in RequestStates : q = request[r]
      BY InvariantParts DEF ValuesOK
    <2>2. RequestOK(q)
      BY <2>1, CurrentRequest
    <2>3. RequestOK(q)'
      BY <2>2, InvariantParts, RequestStays
    <2> QED BY <2>1, <2>3, NextRequestNamed
  <1>2. SessionsOK'
    BY DEF SessionsOK, SessionOK
  <1> QED BY <1>1, <1>2 DEF Keeps, SessionsInvariant

LEMMA CleanUpKeeps ==
    ASSUME SessionsInvariant, NEW d \in Sessions, CleanUpExpiredSessions(d)
    PROVE  Keeps
  <1>1. /\ sessions[d].state \in {"active", "revoked"}
        /\ sessions' = [sessions EXCEPT ![d].state = "gone"]
        /\ UNCHANGED <<now, version, signup, cache, request, issued, lag>>
    BY DEF CleanUpExpiredSessions, history
  <1>2. /\ sessions'[d] \in SessionDocuments /\ sessions'[d].state = "gone"
        /\ sessions'[d].absolute = sessions[d].absolute
        /\ sessions'[d].idle = sessions[d].idle
        /\ sessions'[d].revokedAt = sessions[d].revokedAt
        /\ sessions' \in [Sessions -> SessionDocuments]
        /\ \A e \in Sessions \ {d} : sessions'[e] = sessions[e]
    BY <1>1, InvariantParts DEF ValuesOK, SessionDocuments
  <1>3. ClockOK' /\ SignupOK' /\ ClockAdvances
    BY <1>1, InvariantParts, SessionsAssumption DEF ClockOK, SignupOK, ClockAdvances
  <1>4. ValuesOK'
    BY <1>1, <1>2, InvariantParts DEF ValuesOK
  <1>5. \A e \in Sessions : Ages(e) /\ SessionOK(e)'
    <2> SUFFICES ASSUME NEW e \in Sessions PROVE Ages(e) /\ SessionOK(e)'
      OBVIOUS
    <2>1. CASE e = d
      BY <2>1, <1>1, <1>2, <1>3, <1>4, InvariantParts, SessionEnded
    <2>2. CASE e # d
      BY <2>2, <1>1, <1>2, <1>3, <1>4, InvariantParts, SessionUntouched
    <2> QED BY <2>1, <2>2
  <1> QED BY <1>1, <1>3, <1>4, <1>5, OthersKeep

\* Steps that change the clock, the token or nothing.
LEMMA ElsewhereKeeps ==
    ASSUME SessionsInvariant, UNCHANGED <<version, sessions, cache, request, issued, lag>>,
           \/ now < MaxTime /\ now' = now + 1 /\ signup' = signup
           \/ now' = now /\ SignupOK'
    PROVE  Keeps
  <1>1. ClockOK' /\ SignupOK' /\ ClockAdvances
    <2>1. now \in Nat /\ now <= now' /\ now' \in 1..MaxTime
      BY InvariantParts, SessionsAssumption DEF ClockOK
    <2>2. \A d \in Sessions : issued[d] \in Nat /\ issued[d] <= now
      BY InvariantParts, TimesFacts DEF ClockOK, ValuesOK
    <2>3. ClockOK' /\ ClockAdvances
      BY <2>1, <2>2, InvariantParts, SessionsAssumption DEF ClockOK, ClockAdvances
    <2>4. SignupOK'
      BY InvariantParts DEF SignupOK
    <2> QED BY <2>3, <2>4
  <1>2. ValuesOK'
    BY InvariantParts DEF ValuesOK
  <1>3. \A d \in Sessions : Ages(d) /\ SessionOK(d)'
    BY <1>1, <1>2, InvariantParts, SessionUntouched
  <1> QED BY <1>1, <1>2, <1>3, OthersKeep

LEMMA SignupKeeps ==
    ASSUME SessionsInvariant,
           IssueSignupAccessToken \/ BeginSignup \/ RevokeSignupAccessToken
    PROVE  Keeps
  <1>1. UNCHANGED <<now, version, sessions, cache, request, issued, lag>>
    BY DEF IssueSignupAccessToken, BeginSignup, RevokeSignupAccessToken, history
  <1>2. signup.token # "consumed"
    BY DEF IssueSignupAccessToken, BeginSignup, RevokeSignupAccessToken
  <1>3. ~(version > 0)
    BY <1>2, InvariantParts DEF SignupOK
  <1>4. SignupOK'
    <2>1. CASE BeginSignup
      BY <2>1, <1>1, <1>3, InvariantParts DEF BeginSignup, SignupOK, TokenStates
    <2>2. CASE IssueSignupAccessToken \/ RevokeSignupAccessToken
      <3>1. signup \in [token : TokenStates, session : {"none", "active", "completed"}]
        BY InvariantParts DEF SignupOK
      <3>2. \E t \in TokenStates : signup' = [signup EXCEPT !.token = t]
        BY <2>2 DEF IssueSignupAccessToken, RevokeSignupAccessToken, TokenStates
      <3> QED BY <3>1, <3>2, <1>1, <1>3 DEF SignupOK
    <2> QED BY <2>1, <2>2
  <1> QED BY <1>1, <1>4, ElsewhereKeeps

----------------------------------------------------------------------------
(* The invariant is inductive, and sessions only age. *)

LEMMA NextKeeps == ASSUME SessionsInvariant, [SessionsNext]_sessionVars PROVE Keeps
  <1>1. CASE Tick
    BY <1>1, ElsewhereKeeps DEF Tick, databaseVars, history
  <1>2. CASE IssueSignupAccessToken \/ BeginSignup \/ RevokeSignupAccessToken
    BY <1>2, SignupKeeps
  <1>3. ASSUME NEW r \in Requests, RequestStep(r) PROVE Keeps
    <2>1. ASSUME NEW d \in Sessions, CompleteSignup(r, d) PROVE Keeps
      BY <2>1, CompleteSignupKeeps
    <2>2. ASSUME NEW d \in Sessions, CreateLoginSession(r, d) PROVE Keeps
      BY <2>2, CreateLoginKeeps
    <2>3. ASSUME NEW d \in Sessions, DropEntry(r, d) PROVE Keeps
      BY <2>3, DropEntryKeeps
    <2>4. ASSUME NEW d \in Sessions, Authenticate(r, d) PROVE Keeps
      BY <2>4, AuthenticateKeeps
    <2>5. ASSUME NEW d \in Sessions, RevokeSession(r, d) PROVE Keeps
      BY <2>5, RevokeSessionKeeps
    <2>6. CASE VerifyPassword(r)
      BY <2>6, VerifyPasswordKeeps
    <2>7. CASE UpdatePasswordAndRevokeSessions(r)
      BY <2>7, UpdatePasswordKeeps
    <2>8. CASE BeginLoginSession(r)
      BY <2>8, BeginLoginKeeps
    <2>9. CASE CacheLoginSession(r)
      BY <2>9, CacheLoginKeeps
    <2>10. CASE CheckEntry(r)
      BY <2>10, CheckEntryKeeps
    <2>11. CASE AuthenticateFromDatabase(r)
      BY <2>11, AuthenticateFromDatabaseKeeps
    <2>12. CASE CacheAuthenticated(r)
      BY <2>12, CacheAuthenticatedKeeps
    <2>13. CASE Answered(r) \/ Interrupt(r)
      BY <2>13, ToIdle DEF Answered, Interrupt, databaseVars, history
    <2> QED BY <1>3, <2>1, <2>2, <2>3, <2>4, <2>5, <2>6, <2>7, <2>8, <2>9, <2>10, <2>11,
               <2>12, <2>13 DEF RequestStep
  <1>4. ASSUME NEW d \in Sessions, CleanUpExpiredSessions(d) PROVE Keeps
    BY <1>4, CleanUpKeeps
  <1>5. CASE UNCHANGED sessionVars
    <2>1. SignupOK'
      BY <1>5, InvariantParts DEF sessionVars, databaseVars, history, SignupOK
    <2> QED BY <1>5, <2>1, ElsewhereKeeps DEF sessionVars, databaseVars, history
  <1> QED BY <1>1, <1>2, <1>3, <1>4, <1>5 DEF SessionsNext

LEMMA InitHolds == SessionsInit => SessionsInvariant
  <1> SUFFICES ASSUME SessionsInit PROVE SessionsInvariant
    OBVIOUS
  <1>1. ClockOK /\ SignupOK
    BY SessionsAssumption DEF SessionsInit, ClockOK, SignupOK, TokenStates
  <1>2. ValuesOK
    BY NullTypes, IdlingType, TimesFacts DEF SessionsInit, ValuesOK
  <1>3. SessionsOK
    BY DEF SessionsInit, SessionsOK, DocumentOK, IssuedOK, CacheOK, NoDocument
  <1>4. RequestsOK
    <2> SUFFICES ASSUME NEW r \in Requests PROVE RequestOK(request[r])
      BY DEF RequestsOK
    <2>1. request[r] = Idling
      BY DEF SessionsInit
    <2>2. PICK q : q = Idling
      OBVIOUS
    <2>3. RequestOK(q)
      BY <1>1, <2>2, IdlingOK DEF RequestOK, Copied, Matches, Served, Bounded, Began
    <2> QED BY <2>1, <2>2, <2>3, RequestNamed
  <1> QED BY <1>1, <1>2, <1>3, <1>4 DEF SessionsInvariant

LEMMA InvariantHolds == SessionsSpec => []SessionsInvariant
  <1>1. SessionsInvariant /\ [SessionsNext]_sessionVars => SessionsInvariant'
    BY NextKeeps DEF Keeps
  <1> QED BY <1>1, InitHolds, PTL DEF SessionsSpec

----------------------------------------------------------------------------
(* The theorems *)

\* Documents, entries and requests are well typed, and no document's idle expiry passes its
\* absolute one (persistence/auth.rs:644-713).
THEOREM SessionsTypeCorrect == SessionsSpec => []SessionsTypeOK
  <1>1. SessionsInvariant => SessionsTypeOK
    <2> SUFFICES ASSUME SessionsInvariant PROVE SessionsTypeOK
      OBVIOUS
    <2>1. \A d \in Sessions : sessions[d].idle <= sessions[d].absolute
      <3> SUFFICES ASSUME NEW d \in Sessions PROVE sessions[d].idle <= sessions[d].absolute
        OBVIOUS
      <3> QED BY InvariantParts DEF SessionOK, DocumentOK
    <2> QED BY <2>1, InvariantParts DEF SessionsTypeOK, ClockOK, SignupOK, ValuesOK
  <1> QED BY <1>1, InvariantHolds, PTL

\* What a request that is served owes to its session.
LEMMA ServedFacts ==
    ASSUME SessionsInvariant, NEW r \in Requests, At(r, "accepted")
    PROVE  \E d \in Sessions, b \in Nat, at \in Nat :
               /\ d = request[r].session /\ b = request[r].began
               /\ Bounded(d, at) /\ b < at + RefreshInterval
               /\ b < sessions[d].absolute
               /\ request[r].since <= request[r].version
               /\ sessions[d].idle \in Nat /\ sessions[d].absolute \in Nat
               /\ sessions[d].revokedAt \in Nat /\ issued[d] \in Nat /\ lag[d] \in Nat
  <1>1. PICK q : q = request[r]
    OBVIOUS
  <1>2. q \in RequestStates /\ RequestOK(q) /\ q.step = "accepted"
    BY <1>1, CurrentRequest DEF At
  <1>3. PICK d \in Sessions, b \in Nat : d = q.session /\ b = q.began
    BY <1>2, RequestFields DEF RequestOK
  <1>4. /\ sessions[d].idle \in Nat /\ sessions[d].absolute \in Nat
        /\ sessions[d].revokedAt \in Nat /\ issued[d] \in Nat /\ lag[d] \in Nat
    BY InvariantParts, SessionTypes
  <1>5. Served(q)
    BY <1>2 DEF RequestOK
  <1>6. PICK at \in Nat : Bounded(d, at) /\ b < at + RefreshInterval
    BY <1>3, <1>5 DEF Served
  <1> QED BY <1>1, <1>3, <1>4, <1>5, <1>6 DEF Served

\* However fills and deletions of the cache are lost or delayed, a revoked session is served
\* for less than one refresh interval, and an expired one not at all, but for what a late
\* refresh took from it (auth.rs:541-640).
THEOREM RevocationTakesEffect == SessionsSpec => []RevocationIsBounded
  <1>1. SessionsInvariant => RevocationIsBounded
    <2> SUFFICES ASSUME SessionsInvariant, NEW r \in Requests, At(r, "accepted")
                 PROVE  LET d == request[r].session
                            document == sessions[d]
                            began == request[r].began
                        IN  /\ began < document.absolute
                            /\ began < document.idle + lag[d]
                            /\ request[r].version >= request[r].since
                            /\ document.revokedAt > 0 =>
                                   began < Greatest(document.revokedAt, issued[d])
                                           + RefreshInterval
      BY DEF RevocationIsBounded
    <2>1. PICK d \in Sessions, b \in Nat, at \in Nat :
              /\ d = request[r].session /\ b = request[r].began
              /\ Bounded(d, at) /\ b < at + RefreshInterval
              /\ b < sessions[d].absolute
              /\ request[r].since <= request[r].version
              /\ sessions[d].idle \in Nat /\ sessions[d].absolute \in Nat
              /\ sessions[d].revokedAt \in Nat /\ issued[d] \in Nat /\ lag[d] \in Nat
      BY ServedFacts
    <2>2. Greatest(sessions[d].revokedAt, issued[d]) \in Nat
      BY <2>1 DEF Greatest
    <2>3. sessions[d].revokedAt > 0 =>
              b < Greatest(sessions[d].revokedAt, issued[d]) + RefreshInterval
      BY <2>1, <2>2, IntervalType DEF Bounded
    <2>4. b < sessions[d].idle + lag[d]
      BY <2>1, IntervalType, SessionsAssumption DEF Bounded
    <2>5. request[r].version >= request[r].since
      <3>1. request[r].version \in Nat /\ request[r].since \in Nat
        BY CurrentRequest, RequestFields
      <3> QED BY <2>1, <3>1
    <2> QED BY <2>1, <2>3, <2>4, <2>5
  <1> QED BY <1>1, InvariantHolds, PTL

\* Though the cache answers for the database, whoever uses a session keeps it for the idle
\* lifetime less one refresh interval and the time its last write took (auth.rs:541-640).
THEOREM UseKeepsSessions == SessionsSpec => []UsedSessionsStay
  <1>1. SessionsInvariant => UsedSessionsStay
    <2> SUFFICES ASSUME SessionsInvariant, NEW r \in Requests, At(r, "accepted")
                 PROVE  LET d == request[r].session
                            document == sessions[d]
                        IN  \/ document.idle = document.absolute
                            \/ document.idle + RefreshInterval + lag[d] > request[r].began + Idle
      BY DEF UsedSessionsStay
    <2>1. PICK d \in Sessions, b \in Nat, at \in Nat :
              /\ d = request[r].session /\ b = request[r].began
              /\ Bounded(d, at) /\ b < at + RefreshInterval
              /\ b < sessions[d].absolute
              /\ request[r].since <= request[r].version
              /\ sessions[d].idle \in Nat /\ sessions[d].absolute \in Nat
              /\ sessions[d].revokedAt \in Nat /\ issued[d] \in Nat /\ lag[d] \in Nat
      BY ServedFacts
    <2>2. \/ sessions[d].idle = sessions[d].absolute
          \/ sessions[d].idle + RefreshInterval + lag[d] > b + Idle
      BY <2>1, IntervalType, SessionsAssumption DEF Bounded
    <2> QED BY <2>1, <2>2
  <1> QED BY <1>1, InvariantHolds, PTL

\* No step revives a session or extends its absolute expiry, and only a late refresh takes
\* time from one, by no more than it came late (persistence/auth.rs:644-713).
THEOREM SessionsOnlyAge == SessionsSpec => SessionsAge
  <1>1. SessionsInvariant /\ [SessionsNext]_sessionVars =>
            [\A d \in Sessions :
                /\ sessions[d].state \in {"revoked", "gone"} =>
                      sessions'[d].state \in {"revoked", "gone"}
                /\ sessions[d].state # "none" =>
                      /\ sessions'[d].absolute = sessions[d].absolute
                      /\ \/ sessions[d].idle <= sessions'[d].idle
                         \/ \E r \in Requests :
                               /\ At(r, "database") /\ request[r].session = d
                               /\ request[r].opened + Idle <= sessions'[d].idle]_sessionVars
    BY NextKeeps DEF Keeps, Ages, Late
  <1> QED BY <1>1, InvariantHolds, PTL DEF SessionsSpec, SessionsAge

-----------------------------------------------------------------------------
(* The library.  What a call may still do is told by its step: what its    *)
(* command did is applied, what it audited is audited, and while it has no *)
(* receipt nobody else has one for the same command.                       *)

KindsAt(step) ==
    CASE step \in {"lookup", "recording", "reloading"} -> {"rename", "save", "commit"}
      [] step \in {"writing", "answered"} -> {"create", "save", "commit"} \cup Renames
      [] step = "auditing" -> {"create", "rename", "delete"}
      [] step = "loading" -> {"delete", "assign"}
      [] step \in {"reading", "removing"} -> Deletions
      [] OTHER -> {"assign"}

\* A call whose command has changed its document, and one that has not yet a receipt for it.
Applied(q) ==
    \/ q.step \in {"recording", "reloading", "answered"}
    \/ q.step = "auditing" /\ q.command.kind # "delete"
Unreceipted(q) == Applied(q) /\ q.step # "answered"

CallOK(q) ==
    /\ q.step # "idle" => q.command \in Commands /\ q.command.kind \in KindsAt(q.step)
    /\ Applied(q) => /\ q.result = ResultOf(q.command)
                     /\ TookEffect(Fingerprint(q.command), q.result)
    /\ q.step \in {"recording", "reloading", "answered"} /\ q.command.kind = "rename" =>
          RenameAudited(q.command.scope, q.result, q.command.body)
    /\ q.step \in {"reading", "removing"} /\ q.command.kind = "delete" =>
          DeletionAudited(q.command.scope)
CallsOK == \A r \in Callers : CallOK(call[r])

\* A document has the revision of the last command that changed it.
EffectOK(a) ==
    /\ a.result = ResultOf(a.command)
    /\ library[a.command.scope].state # "none"
    /\ a.result <= library[a.command.scope].revision
    /\ a.command.kind = "commit" => /\ library[a.command.scope].state \in {"committed", "gone"}
                                    /\ a.result = library[a.command.scope].revision
EffectsOK == \A a \in applied : EffectOK(a)

\* A command that took effect and has no receipt is that of one call.
OneOwner ==
    /\ \A r \in Callers : Unreceipted(call[r]) =>
          \A x \in receipts : x.print # Fingerprint(call[r].command)
    /\ \A r, s \in Callers : r # s /\ Unreceipted(call[r]) /\ Unreceipted(call[s]) =>
          Fingerprint(call[r].command) # Fingerprint(call[s].command)

\* What is deleted plays nowhere, and what is inserted has its source, but for an overlap.
DeletionOK(q) ==
    q.step = "removing" =>
        \A g \in Campaigns : playing[g] = q.command.scope => <<g, q.command.scope>> \in overlapped
AssignmentOK(q) ==
    q.step = "inserting" =>
        Stored(q.command.scope) \/ <<q.command.body, q.command.scope>> \in overlapped
PlayingOK ==
    /\ PlayingHaveSources
    /\ \A r \in Callers : DeletionOK(call[r]) /\ AssignmentOK(call[r])

\* The part of AuditsTell that is not about calls.
RecordsAudited ==
    /\ \A a \in audits : a.action = "rename" =>
          \E p \in applied : p.command.kind = "rename" /\ p.command.scope = a.scope
                             /\ p.result = a.revision /\ p.command.body = a.name
    /\ \A x \in receipts : x.print.kind = "rename" =>
          RenameAudited(x.print.scope, x.result, x.print.body)
    /\ \A c \in removed : DeletionAudited(c)

LibraryInv ==
    /\ LibraryTypeOK /\ CallsOK /\ EffectsOK
    /\ ReceiptsTell /\ RecordsAudited /\ EffectsAreOrdered /\ OneOwner
    /\ PlayingOK

-----------------------------------------------------------------------------
(* Calls                                                                   *)

LEMMA CommandFacts ==
    ASSUME NEW c \in Commands
    PROVE  /\ c.kind \in Kinds /\ c.scope \in Scopes /\ c.key \in Keys
           /\ c.expected \in 0..(MaxRevision - 1)
           /\ c.body \in Bodies \cup Characters \cup Campaigns
           /\ c.scope \in Drafts <=> c.kind \in {"save", "commit"}
           /\ c.kind \in {"create", "save"} \cup Renames => c.body \in Bodies
           /\ c.kind = "commit" => c.body \in Characters
           /\ c.kind = "assign" => c.body \in Campaigns
           /\ ResultOf(c) \in 0..MaxRevision
           /\ Fingerprint(c) \in Fingerprints
           /\ Fingerprint(c).kind = c.kind /\ Fingerprint(c).scope = c.scope
           /\ Fingerprint(c).expected = c.expected
           /\ c.kind # "save" => Fingerprint(c).body = c.body
<1>1. /\ c.kind \in Kinds /\ c.scope \in Scopes /\ c.key \in Keys
      /\ c.expected \in 0..(MaxRevision - 1)
      /\ c.body \in Bodies \cup Characters \cup Campaigns
      /\ c.scope \in Drafts <=> c.kind \in {"save", "commit"}
      /\ c.kind \in {"create", "save"} \cup Renames => c.body \in Bodies
      /\ c.kind = "commit" => c.body \in Characters
      /\ c.kind = "assign" => c.body \in Campaigns
  BY DEF Commands
<1>2. ResultOf(c) \in 0..MaxRevision
  BY <1>1, LibraryAssumption DEF ResultOf
<1>3. /\ Fingerprint(c) \in Fingerprints
      /\ Fingerprint(c).kind = c.kind /\ Fingerprint(c).scope = c.scope
      /\ Fingerprint(c).expected = c.expected
      /\ c.kind # "save" => Fingerprint(c).body = c.body
  BY <1>1 DEF Fingerprint, Fingerprints
<1>4. QED
  BY <1>1, <1>2, <1>3

\* Two commands with one fingerprint lead to the same revision of the same document.
LEMMA SameFingerprint ==
    ASSUME NEW b \in Commands, NEW c \in Commands, Fingerprint(b) = Fingerprint(c)
    PROVE  /\ b.kind = c.kind /\ b.scope = c.scope /\ ResultOf(b) = ResultOf(c)
           /\ b.kind # "save" => b.body = c.body
  BY CommandFacts DEF ResultOf

LEMMA CallFacts ==
    ASSUME NEW q \in Calls
    PROVE  /\ q.step \in CallSteps /\ q.command \in Commands \cup {NoCommand}
           /\ q.held \in Envelopes /\ q.result \in 0..MaxRevision
  BY DEF Calls

\* A call with some of its fields replaced.
LEMMA CallGoes ==
    ASSUME NEW r \in Callers, call[r] \in Calls, NEW step \in CallSteps, Goes(r, step)
    PROVE  \E q \in Calls : /\ call' = [call EXCEPT ![r] = q]
                            /\ q.step = step /\ q.command = call[r].command
                            /\ q.result = call[r].result
<1>1. PICK p \in Calls : p = call[r]
  OBVIOUS
<1>2. PICK q : q = [p EXCEPT !.step = step]
  OBVIOUS
<1>3. q \in Calls
  BY <1>2 DEF Calls
<1>4. q.step = step /\ q.command = p.command /\ q.result = p.result
  BY <1>2 DEF Calls
<1>5. call' = [call EXCEPT ![r] = q]
  BY <1>1, <1>2 DEF Goes
<1>6. QED
  BY <1>1, <1>3, <1>4, <1>5

LEMMA CallHolds ==
    ASSUME NEW r \in Callers, call[r] \in Calls, NEW step \in CallSteps,
           NEW document \in Envelopes, Holds(r, step, document)
    PROVE  \E q \in Calls : /\ call' = [call EXCEPT ![r] = q]
                            /\ q.step = step /\ q.command = call[r].command
                            /\ q.result = call[r].result
<1>1. PICK p \in Calls : p = call[r]
  OBVIOUS
<1>2. PICK q : q = [p EXCEPT !.step = step, !.held = document]
  OBVIOUS
<1>3. q \in Calls
  BY <1>2 DEF Calls
<1>4. q.step = step /\ q.command = p.command /\ q.result = p.result
  BY <1>2 DEF Calls
<1>5. call' = [call EXCEPT ![r] = q]
  BY <1>1, <1>2 DEF Holds
<1>6. QED
  BY <1>1, <1>3, <1>4, <1>5

LEMMA CallResults ==
    ASSUME NEW r \in Callers, call[r] \in Calls, NEW step \in CallSteps,
           NEW revision \in 0..MaxRevision, Results(r, step, revision)
    PROVE  \E q \in Calls : /\ call' = [call EXCEPT ![r] = q]
                            /\ q.step = step /\ q.command = call[r].command
                            /\ q.result = revision
<1>1. PICK p \in Calls : p = call[r]
  OBVIOUS
<1>2. PICK q : q = [p EXCEPT !.step = step, !.result = revision]
  OBVIOUS
<1>3. q \in Calls
  BY <1>2 DEF Calls
<1>4. q.step = step /\ q.command = p.command /\ q.result = revision
  BY <1>2 DEF Calls
<1>5. call' = [call EXCEPT ![r] = q]
  BY <1>1, <1>2 DEF Results
<1>6. QED
  BY <1>1, <1>3, <1>4, <1>5

LEMMA NoEnvelopeType == NoEnvelope \in Envelopes
  BY LibraryAssumption DEF NoEnvelope, Envelopes

LEMMA AtRestFacts ==
    /\ AtRest \in Calls /\ AtRest.step = "idle"
    /\ CallOK(AtRest) /\ DeletionOK(AtRest) /\ AssignmentOK(AtRest) /\ ~Unreceipted(AtRest)
<1>1. AtRest \in Calls /\ AtRest.step = "idle"
  BY NoEnvelopeType, LibraryAssumption DEF AtRest, Calls, CallSteps
<1>2. QED
  BY <1>1 DEF CallOK, DeletionOK, AssignmentOK, Unreceipted, Applied

\* What a call stands on stays while records are only added.
LEMMA CallStays ==
    ASSUME NEW q, CallOK(q), applied \subseteq applied', audits \subseteq audits'
    PROVE  CallOK(q)'
  BY DEF CallOK, TookEffect, RenameAudited, DeletionAudited

LEMMA OneCall ==
    ASSUME LibraryTypeOK, CallsOK, NEW r \in Callers, NEW q \in Calls,
           call' = [call EXCEPT ![r] = q], applied \subseteq applied', audits \subseteq audits',
           CallOK(q)'
    PROVE  /\ call' \in [Callers -> Calls] /\ CallsOK'
           /\ call'[r] = q /\ \A s \in Callers \ {r} : call'[s] = call[s]
<1>1. call \in [Callers -> Calls]
  BY DEF LibraryTypeOK
<1>2. /\ call' \in [Callers -> Calls]
      /\ call'[r] = q /\ \A s \in Callers \ {r} : call'[s] = call[s]
  BY <1>1
<1>3. ASSUME NEW s \in Callers PROVE CallOK(call[s])'
  <2>1. PICK p : p = call'[s]
    OBVIOUS
  <2>2. CallOK(p)'
    <3>1. CASE s = r
      BY <2>1, <3>1, <1>2
    <3>2. CASE s # r
      <4>1. CallOK(p)
        BY <2>1, <3>2, <1>2 DEF CallsOK
      <4>2. QED
        BY <4>1, CallStays
    <3>3. QED
      BY <3>1, <3>2
  <2>3. QED
    BY <2>1, <2>2
<1>4. QED
  BY <1>2, <1>3 DEF CallsOK

\* While no document, instance or overlap is lost.
LEMMA OneCallPlaying ==
    ASSUME LibraryTypeOK, PlayingOK, NEW r \in Callers, NEW q \in Calls,
           call' = [call EXCEPT ![r] = q], playing' = playing, overlapped \subseteq overlapped',
           \A s \in Scopes : Stored(s) => Stored(s)',
           CallsOK, DeletionOK(q)', AssignmentOK(q)'
    PROVE  PlayingOK'
<1>1. call \in [Callers -> Calls] /\ playing \in [Campaigns -> Characters \cup {NoCharacter}]
  BY DEF LibraryTypeOK
<1>2. PlayingHaveSources'
  <2> SUFFICES ASSUME NEW g \in Campaigns, playing[g] # NoCharacter
               PROVE  Stored(playing[g])' \/ <<g, playing[g]>> \in overlapped'
    BY DEF PlayingHaveSources
  <2>1. PICK c \in Characters : c = playing[g]
    BY <1>1
  <2>2. Stored(c) \/ <<g, c>> \in overlapped
    BY <2>1 DEF PlayingOK, PlayingHaveSources
  <2>3. Stored(c)' \/ <<g, c>> \in overlapped'
    BY <2>2 DEF Scopes
  <2>4. QED
    BY <2>1, <2>3
<1>3. ASSUME NEW s \in Callers PROVE DeletionOK(call[s])' /\ AssignmentOK(call[s])'
  <2>1. PICK p \in Calls : p = call'[s]
    BY <1>1
  <2>2. CASE s = r
    BY <2>1, <2>2, <1>1
  <2>3. CASE s # r
    <3>1. p = call[s] /\ DeletionOK(p) /\ AssignmentOK(p) /\ CallOK(p)
      BY <2>1, <2>3, <1>1 DEF PlayingOK, CallsOK
    <3>2. DeletionOK(p)'
      BY <3>1 DEF DeletionOK
    <3>3. AssignmentOK(p)'
      BY <3>1, CommandFacts DEF AssignmentOK, CallOK
    <3>4. QED
      BY <2>1, <3>2, <3>3
  <2>4. QED
    BY <2>2, <2>3
<1>4. QED
  BY <1>2, <1>3 DEF PlayingOK

LEMMA OneCallOwner ==
    ASSUME LibraryTypeOK, OneOwner, NEW r \in Callers, NEW q \in Calls,
           call' = [call EXCEPT ![r] = q], receipts' = receipts,
           Unreceipted(q) => Unreceipted(call[r]) /\ q.command = call[r].command
    PROVE  OneOwner'
<1>1. call \in [Callers -> Calls]
  BY DEF LibraryTypeOK
<1>2. ASSUME NEW s \in Callers
      PROVE  Unreceipted(call'[s]) => Unreceipted(call[s]) /\ call'[s].command = call[s].command
  BY <1>1, <1>2
<1>3. QED
  BY <1>2 DEF OneOwner

LEMMA CallOnly ==
    ASSUME LibraryInv, NEW r \in Callers, NEW q \in Calls,
           call' = [call EXCEPT ![r] = q], UNCHANGED <<mix, recordVars>>,
           CallOK(q), DeletionOK(q), AssignmentOK(q),
           Unreceipted(q) => Unreceipted(call[r]) /\ q.command = call[r].command
    PROVE  LibraryInv'
<1>1. /\ mix' = mix /\ library' = library /\ receipts' = receipts /\ audits' = audits
      /\ playing' = playing /\ applied' = applied /\ removed' = removed
      /\ overlapped' = overlapped
  BY DEF recordVars
<1>2. CallOK(q)'
  BY <1>1, CallStays
<1>3. call' \in [Callers -> Calls] /\ CallsOK'
  BY <1>1, <1>2, OneCall DEF LibraryInv
<1>4. PlayingOK'
  <2>1. DeletionOK(q)' /\ AssignmentOK(q)'
    BY <1>1 DEF DeletionOK, AssignmentOK, Stored
  <2>2. \A s \in Scopes : Stored(s) => Stored(s)'
    BY <1>1 DEF Stored
  <2>3. QED
    BY <1>1, <2>1, <2>2, OneCallPlaying DEF LibraryInv
<1>5. OneOwner'
  BY <1>1, OneCallOwner DEF LibraryInv
<1>6. LibraryTypeOK'
  BY <1>1, <1>3 DEF LibraryInv, LibraryTypeOK
<1>7. EffectsOK' /\ ReceiptsTell' /\ RecordsAudited' /\ EffectsAreOrdered'
  BY <1>1 DEF LibraryInv, EffectsOK, EffectOK, ReceiptsTell, TookEffect, RecordsAudited,
     RenameAudited, DeletionAudited, EffectsAreOrdered
<1>8. QED
  BY <1>3, <1>4, <1>5, <1>6, <1>7 DEF LibraryInv

LEMMA Ended ==
    ASSUME LibraryInv, NEW r \in Callers, Ends(r), UNCHANGED <<mix, recordVars>>
    PROVE  LibraryInv'
  BY AtRestFacts, CallOnly DEF Ends

-----------------------------------------------------------------------------
(* Steps that only read                                                    *)

\* What the invariant says of one call.
LEMMA CallNow ==
    ASSUME LibraryInv, NEW r \in Callers
    PROVE  /\ call[r] \in Calls /\ CallOK(call[r])
           /\ DeletionOK(call[r]) /\ AssignmentOK(call[r])
           /\ call[r].step # "idle" =>
                 call[r].command \in Commands /\ call[r].command.kind \in KindsAt(call[r].step)
  BY DEF LibraryInv, LibraryTypeOK, CallsOK, PlayingOK, CallOK

LEMMA ScopeFacts ==
    ASSUME LibraryInv, NEW s \in Scopes
    PROVE  /\ library[s] \in Envelopes
           /\ library[s].state \in {"none", "stored", "committed", "gone"}
           /\ library[s].revision \in 0..MaxRevision /\ library[s].revision \in Nat
           /\ library[s].content \in Bodies \cup {NoBody}
  BY LibraryAssumption DEF LibraryInv, LibraryTypeOK, Envelopes

\* A step that only moves on, or keeps a document.
LEMMA MovesOn ==
    ASSUME LibraryInv, NEW r \in Callers, NEW step \in CallSteps,
           UNCHANGED <<mix, recordVars>>,
           Goes(r, step) \/ \E document \in Envelopes : Holds(r, step, document),
           call[r].step # "idle", step # "idle",
           call[r].command.kind \in KindsAt(step),
           step \in {"recording", "reloading", "answered", "auditing"} =>
              \/ call[r].step = "recording" /\ step = "reloading"
              \/ step = "auditing" /\ call[r].command.kind = "delete",
           step = "removing" => /\ call[r].step = "reading"
                                /\ Deletable(call[r].command.scope),
           step = "reading" => call[r].step = "removing",
           step = "inserting" => Stored(call[r].command.scope)
    PROVE  LibraryInv'
<1>1. /\ call[r] \in Calls /\ CallOK(call[r]) /\ call[r].command \in Commands
  BY CallNow
<1>2. PICK q \in Calls : /\ call' = [call EXCEPT ![r] = q]
                         /\ q.step = step /\ q.command = call[r].command
                         /\ q.result = call[r].result
  BY <1>1, CallGoes, CallHolds
<1>3. Applied(q) => call[r].step = "recording" /\ step = "reloading"
  BY <1>2 DEF Applied
<1>4. CallOK(q)
  BY <1>1, <1>2, <1>3 DEF CallOK, Applied
<1>5. DeletionOK(q) /\ AssignmentOK(q)
  BY <1>2 DEF DeletionOK, AssignmentOK, Deletable
<1>6. Unreceipted(q) => Unreceipted(call[r]) /\ q.command = call[r].command
  BY <1>2, <1>3 DEF Unreceipted, Applied
<1>7. QED
  BY <1>2, <1>4, <1>5, <1>6, CallOnly

LEMMA AskKeeps == ASSUME LibraryInv, NEW r \in Callers, Ask(r) PROVE LibraryInv'
<1>1. PICK c \in mix : call' = [call EXCEPT ![r] = Begun(c)]
  BY DEF Ask
<1>2. c \in Commands
  BY <1>1, LibraryAssumption DEF LibraryInv, LibraryTypeOK
<1>3. c.kind \in Kinds
  BY <1>2, CommandFacts
<1>4. /\ FirstStep(c.kind) \in {"lookup", "writing", "loading", "reading"}
      /\ c.kind \in KindsAt(FirstStep(c.kind))
      /\ FirstStep(c.kind) = "reading" => c.kind = "browserDelete"
  BY <1>3 DEF FirstStep, KindsAt, Kinds, Renames, Deletions
<1>5. PICK q : q = Begun(c)
  OBVIOUS
<1>6. q \in Calls /\ q.step = FirstStep(c.kind) /\ q.command = c
  BY <1>2, <1>4, <1>5, NoEnvelopeType, LibraryAssumption DEF Begun, Calls, CallSteps
<1>7. CallOK(q) /\ DeletionOK(q) /\ AssignmentOK(q) /\ ~Unreceipted(q)
  BY <1>2, <1>4, <1>6 DEF CallOK, DeletionOK, AssignmentOK, Unreceipted, Applied
<1>8. call' = [call EXCEPT ![r] = q] /\ UNCHANGED <<mix, recordVars>>
  BY <1>1, <1>5 DEF Ask
<1>9. QED
  BY <1>6, <1>7, <1>8, CallOnly

\* A receipt with the fingerprint of a command tells its result.
LEMMA ResolveKeeps ==
    ASSUME LibraryInv, NEW r \in Callers, call[r].step \in {"lookup", "reloading"},
           UNCHANGED <<mix, recordVars>>,
           NEW x \in ReceiptsFor(call[r].command), Resolve(r, x)
    PROVE  LibraryInv'
<1>1. /\ call[r] \in Calls /\ call[r].command \in Commands
      /\ call[r].command.kind \in {"rename", "save", "commit"}
  BY CallNow DEF KindsAt
<1>2. CASE Ends(r)
  BY <1>2, Ended
<1>3. CASE x.print = Fingerprint(call[r].command) /\ Results(r, "answered", x.result)
  <2>1. x \in receipts /\ x.result \in 0..MaxRevision
    BY DEF ReceiptsFor, LibraryInv, LibraryTypeOK, Receipts
  <2>2. "answered" \in CallSteps
    BY DEF CallSteps
  <2>3. PICK q \in Calls : /\ call' = [call EXCEPT ![r] = q]
                           /\ q.step = "answered" /\ q.command = call[r].command
                           /\ q.result = x.result
    BY <1>1, <1>3, <2>1, <2>2, CallResults
  <2>4. TookEffect(Fingerprint(q.command), q.result)
    BY <1>3, <2>1, <2>3 DEF LibraryInv, ReceiptsTell
  <2>5. q.result = ResultOf(q.command)
    <3>1. PICK a \in applied : Fingerprint(a.command) = Fingerprint(q.command)
                               /\ a.result = q.result
      BY <2>4 DEF TookEffect
    <3>2. a.command \in Commands /\ a.result = ResultOf(a.command)
      BY DEF LibraryInv, LibraryTypeOK, EffectsOK, EffectOK
    <3>3. QED
      BY <1>1, <2>3, <3>1, <3>2, SameFingerprint
  <2>6. q.command.kind = "rename" => RenameAudited(q.command.scope, q.result, q.command.body)
    BY <1>1, <1>3, <2>1, <2>3, CommandFacts DEF LibraryInv, RecordsAudited
  <2>7. CallOK(q) /\ DeletionOK(q) /\ AssignmentOK(q) /\ ~Unreceipted(q)
    BY <1>1, <2>3, <2>4, <2>5, <2>6
    DEF CallOK, DeletionOK, AssignmentOK, Unreceipted, Applied, KindsAt, Renames
  <2>8. QED
    BY <2>3, <2>7, CallOnly
<1>4. QED
  BY <1>2, <1>3 DEF Resolve

LEMMA LookUpReceiptKeeps ==
    ASSUME LibraryInv, NEW r \in Callers, LookUpReceipt(r)
    PROVE  LibraryInv'
<1>1. call[r].step = "lookup" /\ UNCHANGED <<mix, recordVars>>
  BY DEF LookUpReceipt, AtStep
<1>2. CASE Goes(r, "writing")
  <2>1. call[r].command.kind \in KindsAt("writing")
    BY <1>1, CallNow DEF KindsAt, Renames
  <2>2. QED
    BY <1>1, <1>2, <2>1, MovesOn DEF CallSteps
<1>3. CASE \E x \in ReceiptsFor(call[r].command) : Resolve(r, x)
  BY <1>1, <1>3, ResolveKeeps
<1>4. QED
  BY <1>2, <1>3 DEF LookUpReceipt

LEMMA ReloadReceiptKeeps ==
    ASSUME LibraryInv, NEW r \in Callers, ReloadReceipt(r)
    PROVE  LibraryInv'
  BY ResolveKeeps DEF ReloadReceipt, AtStep

LEMMA LoadKeeps == ASSUME LibraryInv, NEW r \in Callers, Load(r) PROVE LibraryInv'
<1>1. call[r].step = "loading" /\ UNCHANGED <<mix, recordVars>>
  BY DEF Load, AtStep
<1>2. /\ call[r].command \in Commands /\ call[r].command.kind \in {"delete", "assign"}
      /\ call[r].command.scope \in Scopes
  BY <1>1, CallNow, CommandFacts DEF KindsAt
<1>3. CASE Holds(r, AfterLoad(call[r].command.kind), library[call[r].command.scope])
  <2>1. PICK step : step = AfterLoad(call[r].command.kind)
    OBVIOUS
  <2>2. /\ step \in {"auditing", "checking"} /\ call[r].command.kind \in KindsAt(step)
        /\ step = "auditing" => call[r].command.kind = "delete"
    BY <1>2, <2>1 DEF AfterLoad, KindsAt
  <2>3. library[call[r].command.scope] \in Envelopes
    BY <1>2, ScopeFacts
  <2>4. QED
    BY <1>1, <1>3, <2>1, <2>2, <2>3, MovesOn DEF CallSteps
<1>4. QED
  BY <1>1, <1>3, Ended DEF Load

LEMMA ReadBeforeDeleteKeeps ==
    ASSUME LibraryInv, NEW r \in Callers, ReadBeforeDelete(r)
    PROVE  LibraryInv'
<1>1. call[r].step = "reading" /\ UNCHANGED <<mix, recordVars>>
  BY DEF ReadBeforeDelete, AtStep
<1>2. /\ call[r].command \in Commands /\ call[r].command.kind \in Deletions
      /\ call[r].command.scope \in Scopes
  BY <1>1, CallNow, CommandFacts DEF KindsAt
<1>3. CASE /\ Deletable(call[r].command.scope)
           /\ Holds(r, "removing", library[call[r].command.scope])
  <2>1. call[r].command.kind \in KindsAt("removing")
    BY <1>2 DEF KindsAt
  <2>2. library[call[r].command.scope] \in Envelopes
    BY <1>2, ScopeFacts
  <2>3. QED
    BY <1>1, <1>3, <2>1, <2>2, MovesOn DEF CallSteps
<1>4. QED
  BY <1>1, <1>3, Ended DEF ReadBeforeDelete

LEMMA CheckSourceKeeps ==
    ASSUME LibraryInv, NEW r \in Callers, CheckSource(r)
    PROVE  LibraryInv'
<1>1. call[r].step = "checking" /\ UNCHANGED <<mix, recordVars>>
  BY DEF CheckSource, AtStep
<1>2. call[r].command.kind \in KindsAt("assigning")
  BY <1>1, CallNow DEF KindsAt
<1>3. CASE Goes(r, "assigning")
  BY <1>1, <1>2, <1>3, MovesOn DEF CallSteps
<1>4. QED
  BY <1>1, <1>3, Ended DEF CheckSource

LEMMA RecheckSourceKeeps ==
    ASSUME LibraryInv, NEW r \in Callers, RecheckSource(r)
    PROVE  LibraryInv'
<1>1. call[r].step = "assigning" /\ UNCHANGED <<mix, recordVars>>
  BY DEF RecheckSource, AtStep
<1>2. call[r].command.kind \in KindsAt("inserting")
  BY <1>1, CallNow DEF KindsAt
<1>3. CASE SourceUnchanged(r) /\ Goes(r, "inserting")
  <2>1. Stored(call[r].command.scope)
    BY <1>3 DEF SourceUnchanged, Stored
  <2>2. QED
    BY <1>1, <1>2, <1>3, <2>1, MovesOn DEF CallSteps
<1>4. QED
  BY <1>1, <1>3, Ended DEF RecheckSource

LEMMA GiveUpKeeps == ASSUME LibraryInv, NEW r \in Callers, GiveUp(r) PROVE LibraryInv'
  BY Ended DEF GiveUp

-----------------------------------------------------------------------------
(* Steps that write                                                        *)

\* A command that may be written comes after all that changed its document.
LEMMA WritableIsNext ==
    ASSUME LibraryInv, NEW c \in Commands, Writable(c),
           c.kind \in {"create", "save", "commit"} \cup Renames,
           NEW a \in applied, a.command.scope = c.scope
    PROVE  a.result < ResultOf(c) /\ a.command.kind # "commit" /\ c.kind # "create"
<1>1. EffectOK(a) /\ a.result \in 0..MaxRevision /\ c.scope \in Scopes
  BY CommandFacts DEF LibraryInv, EffectsOK, LibraryTypeOK
<1>2. c.kind # "create"
  BY <1>1 DEF EffectOK, Writable
<1>3. library[c.scope].state = "stored" /\ library[c.scope].revision = c.expected
  BY <1>2 DEF Writable
<1>4. a.result <= c.expected /\ a.command.kind # "commit"
  BY <1>1, <1>3 DEF EffectOK
<1>5. c.expected \in Nat /\ a.result \in Nat
  BY <1>1, CommandFacts
<1>6. QED
  BY <1>2, <1>4, <1>5 DEF ResultOf

\* Nobody else has taken the effect.
LEMMA WritableIsNew ==
    ASSUME LibraryInv, NEW c \in Commands, Writable(c),
           c.kind \in {"create", "save", "commit"} \cup Renames, NEW result
    PROVE  ~TookEffect(Fingerprint(c), result)
<1> SUFFICES ASSUME TookEffect(Fingerprint(c), result) PROVE FALSE
  OBVIOUS
<1>1. PICK a \in applied : Fingerprint(a.command) = Fingerprint(c)
  BY DEF TookEffect
<1>2. a.command \in Commands /\ a.result = ResultOf(a.command) /\ a.result \in 0..MaxRevision
  BY DEF LibraryInv, LibraryTypeOK, EffectsOK, EffectOK
<1>3. a.command.scope = c.scope /\ a.result = ResultOf(c)
  BY <1>1, <1>2, SameFingerprint
<1>4. a.result < ResultOf(c)
  BY <1>3, WritableIsNext
<1>5. QED
  BY <1>2, <1>3, <1>4

LEMMA WrittenFacts ==
    ASSUME LibraryInv, NEW c \in Commands, c.kind \in {"create", "save", "commit"} \cup Renames
    PROVE  /\ Written(c) \in Envelopes
           /\ Written(c).state = IF c.kind = "commit" THEN "committed" ELSE "stored"
           /\ Written(c).revision = ResultOf(c)
<1>1. /\ c.scope \in Scopes /\ ResultOf(c) \in 0..MaxRevision
      /\ c.kind \in {"create", "save"} \cup Renames => c.body \in Bodies
  BY CommandFacts
<1>2. library[c.scope].content \in Bodies \cup {NoBody}
  BY <1>1, ScopeFacts
<1>3. c.kind # "commit" => c.body \in Bodies
  BY <1>1
<1>4. QED
  BY <1>1, <1>2, <1>3 DEF Written, Envelopes

LEMMA WriteKeeps == ASSUME LibraryInv, NEW r \in Callers, Write(r) PROVE LibraryInv'
<1>1. call[r].step = "writing"
  BY DEF Write, AtStep
<1>2. PICK c \in Commands : /\ c = call[r].command
                            /\ c.kind \in {"create", "save", "commit"} \cup Renames
  BY <1>1, CallNow DEF KindsAt
<1>3. CASE ~Writable(c)
  <2>1. Ends(r) /\ UNCHANGED <<mix, recordVars>>
    BY <1>2, <1>3 DEF Write, recordVars
  <2>2. QED
    BY <2>1, Ended
<1>4. CASE Writable(c)
  <2>1. /\ library' = [library EXCEPT ![c.scope] = Written(c)]
        /\ applied' = applied \cup {[command |-> c, result |-> ResultOf(c)]}
        /\ Results(r, AfterWrite(c.kind), ResultOf(c))
        /\ UNCHANGED <<mix, receipts, audits, playing, removed, overlapped>>
    BY <1>2, <1>4 DEF Write
  <2>2. /\ c.scope \in Scopes /\ ResultOf(c) \in 0..MaxRevision
        /\ library \in [Scopes -> Envelopes] /\ call[r] \in Calls
    BY CommandFacts, CallNow DEF LibraryInv, LibraryTypeOK
  <2>3. /\ Written(c) \in Envelopes /\ Written(c).revision = ResultOf(c)
        /\ Written(c).state = IF c.kind = "commit" THEN "committed" ELSE "stored"
    BY <1>2, WrittenFacts
  <2>4. /\ AfterWrite(c.kind) \in {"auditing", "recording", "answered"}
        /\ AfterWrite(c.kind) \in CallSteps
        /\ c.kind \in KindsAt(AfterWrite(c.kind))
        /\ AfterWrite(c.kind) \in {"recording", "answered"} => c.kind # "rename"
    BY <1>2 DEF AfterWrite, CallSteps, KindsAt, Renames
  <2>5. PICK q \in Calls : /\ call' = [call EXCEPT ![r] = q]
                           /\ q.step = AfterWrite(c.kind) /\ q.command = c
                           /\ q.result = ResultOf(c)
    BY <1>2, <2>1, <2>2, <2>4, CallResults
  <2>6. CallOK(q)'
    <3>1. TookEffect(Fingerprint(q.command), q.result)'
      <4>1. PICK e : e = [command |-> c, result |-> ResultOf(c)]
        OBVIOUS
      <4>2. e \in applied' /\ e.command = c /\ e.result = ResultOf(c)
        BY <2>1, <4>1
      <4>3. QED
        BY <2>5, <4>2 DEF TookEffect
    <3>2. c.kind # "delete"
      BY <1>2 DEF Renames
    <3>3. QED
      BY <2>4, <2>5, <3>1, <3>2 DEF CallOK
  <2>7. applied \subseteq applied' /\ audits \subseteq audits'
    BY <2>1
  <2>8. call' \in [Callers -> Calls] /\ CallsOK'
        /\ call'[r] = q /\ \A s \in Callers \ {r} : call'[s] = call[s]
    BY <2>5, <2>6, <2>7, OneCall DEF LibraryInv
  <2>9. LibraryTypeOK'
    <3>1. library' \in [Scopes -> Envelopes]
      BY <2>1, <2>2, <2>3
    <3>2. applied' \subseteq [command : Commands, result : 0..MaxRevision]
      BY <2>1, <2>2 DEF LibraryInv, LibraryTypeOK
    <3>3. QED
      BY <2>1, <2>8, <3>1, <3>2 DEF LibraryInv, LibraryTypeOK
  <2>10. library'[c.scope] = Written(c) /\ \A s \in Scopes \ {c.scope} : library'[s] = library[s]
    BY <2>1, <2>2
  <2>11. EffectsOK'
    <3> SUFFICES ASSUME NEW a \in applied' PROVE EffectOK(a)'
      BY DEF EffectsOK
    <3>1. CASE a = [command |-> c, result |-> ResultOf(c)]
      BY <2>2, <2>3, <2>10, <3>1 DEF EffectOK
    <3>2. CASE a \in applied
      <4>1. EffectOK(a) /\ a.command \in Commands /\ a.result \in Nat
        BY <3>2 DEF LibraryInv, EffectsOK, LibraryTypeOK
      <4>2. CASE a.command.scope = c.scope
        <5>1. a.result < ResultOf(c) /\ a.command.kind # "commit"
          BY <1>2, <1>4, <3>2, <4>2, WritableIsNext
        <5>2. QED
          BY <2>2, <2>3, <2>10, <4>1, <4>2, <5>1 DEF EffectOK
      <4>3. CASE a.command.scope # c.scope
        BY <2>10, <4>1, <4>3, CommandFacts DEF EffectOK
      <4>4. QED
        BY <4>2, <4>3
    <3>3. QED
      BY <2>1, <3>1, <3>2
  <2>12. EffectsAreOrdered'
    <3> SUFFICES ASSUME NEW a \in applied', NEW b \in applied', a.command.scope = b.command.scope
                 PROVE  /\ a.result = b.result => a = b
                        /\ a.command.kind = "commit" => b.result <= a.result
      BY DEF EffectsAreOrdered
    <3>1. PICK e : e = [command |-> c, result |-> ResultOf(c)]
      OBVIOUS
    <3>2. e.command = c /\ e.result = ResultOf(c) /\ e.result \in Nat
      BY <2>2, <3>1
    <3>3. \A p \in applied : p.result \in Nat
      BY DEF LibraryInv, LibraryTypeOK
    <3>4. CASE a = e /\ b = e
      BY <3>2, <3>4
    <3>5. CASE a = e /\ b \in applied
      <4>1. b.result < ResultOf(c)
        BY <1>2, <1>4, <3>2, <3>5, WritableIsNext
      <4>2. QED
        BY <3>2, <3>3, <3>5, <4>1
    <3>6. CASE a \in applied /\ b = e
      <4>1. a.result < ResultOf(c) /\ a.command.kind # "commit"
        BY <1>2, <1>4, <3>2, <3>6, WritableIsNext
      <4>2. QED
        BY <3>2, <3>3, <3>6, <4>1
    <3>7. CASE a \in applied /\ b \in applied
      BY <3>7 DEF LibraryInv, EffectsAreOrdered
    <3>8. QED
      BY <2>1, <3>1, <3>4, <3>5, <3>6, <3>7
  <2>13. ReceiptsTell' /\ RecordsAudited'
    BY <2>1, <2>7 DEF LibraryInv, ReceiptsTell, TookEffect, RecordsAudited, RenameAudited,
       DeletionAudited
  <2>14. OneOwner'
    <3>1. \A x \in receipts : x.print # Fingerprint(c)
      BY <1>2, <1>4, WritableIsNew DEF LibraryInv, ReceiptsTell
    <3>2. ASSUME NEW s \in Callers, Unreceipted(call[s])
          PROVE  Fingerprint(call[s].command) # Fingerprint(c)
      <4>1. TookEffect(Fingerprint(call[s].command), call[s].result)
        BY <3>2, CallNow DEF CallOK, Unreceipted
      <4>2. QED
        BY <1>2, <1>4, <4>1, WritableIsNew
    <3>3. \A s \in Callers \ {r} : Unreceipted(call'[s]) =>
             /\ Fingerprint(call'[s].command) # Fingerprint(c)
             /\ \A x \in receipts : x.print # Fingerprint(call'[s].command)
      BY <2>8, <3>2 DEF LibraryInv, OneOwner
    <3>4. \A s, t \in Callers \ {r} : s # t /\ Unreceipted(call'[s]) /\ Unreceipted(call'[t]) =>
             Fingerprint(call'[s].command) # Fingerprint(call'[t].command)
      BY <2>8 DEF LibraryInv, OneOwner
    <3>5. call'[r].command = c /\ receipts' = receipts
      BY <2>1, <2>5, <2>8
    <3>6. QED
      BY <3>1, <3>3, <3>4, <3>5 DEF OneOwner
  <2>15. PlayingOK'
    <3>1. \A s \in Scopes : Stored(s) => Stored(s)'
      BY <2>3, <2>10 DEF Stored
    <3>2. DeletionOK(q)' /\ AssignmentOK(q)'
      BY <2>4, <2>5 DEF DeletionOK, AssignmentOK
    <3>3. QED
      BY <2>1, <2>5, <3>1, <3>2, OneCallPlaying DEF LibraryInv
  <2>16. QED
    BY <2>8, <2>9, <2>11, <2>12, <2>13, <2>14, <2>15 DEF LibraryInv
<1>5. QED
  BY <1>3, <1>4

LEMMA WriteAuditKeeps ==
    ASSUME LibraryInv, NEW r \in Callers, WriteAudit(r)
    PROVE  LibraryInv'
<1>1. call[r].step = "auditing"
  BY DEF WriteAudit, AtStep
<1>2. /\ call[r] \in Calls /\ CallOK(call[r]) /\ call[r].command \in Commands
      /\ call[r].command.kind \in {"create", "rename", "delete"}
  BY <1>1, CallNow DEF KindsAt
<1>3. CASE ~Stored(call[r].command.scope)
  <2>1. Ends(r) /\ UNCHANGED <<mix, recordVars>>
    BY <1>3 DEF WriteAudit, recordVars
  <2>2. QED
    BY <2>1, Ended
<1>4. CASE Stored(call[r].command.scope)
  <2>1. PICK c \in Commands : c = call[r].command
    BY <1>2
  <2>2. PICK a : a = AuditOf(r)
    OBVIOUS
  <2>3. /\ audits' = audits \cup {a} /\ Goes(r, AfterAudit(c.kind))
        /\ UNCHANGED <<mix, library, receipts, playing, applied, removed, overlapped>>
    BY <1>4, <2>1, <2>2 DEF WriteAudit
  <2>4. /\ a.scope = c.scope /\ a.action = c.kind
        /\ c.kind # "delete" => a.revision = call[r].result /\ a.name = c.body
    BY <2>1, <2>2 DEF AuditOf
  <2>5. a \in Audits
    <3>1. c.scope \in Characters
      BY <1>2, <2>1, CommandFacts DEF Scopes
    <3>2. c.kind # "delete" => c.body \in Bodies
      BY <1>2, <2>1, CommandFacts DEF Renames
    <3>3. call[r].held \in Envelopes /\ call[r].result \in 0..MaxRevision
      BY <1>2, CallFacts
    <3>4. call[r].held.revision \in 0..MaxRevision /\ call[r].held.content \in Bodies \cup {NoBody}
      BY <3>3 DEF Envelopes
    <3>5. c.kind \in {"create", "rename", "delete"}
      BY <1>2, <2>1
    <3>6. a = [scope |-> c.scope, action |-> c.kind,
               revision |-> IF c.kind = "delete" THEN call[r].held.revision ELSE call[r].result,
               name |-> IF c.kind = "delete" THEN call[r].held.content ELSE c.body]
      BY <2>1, <2>2 DEF AuditOf
    <3>7. QED
      BY <3>1, <3>2, <3>3, <3>4, <3>5, <3>6 DEF Audits
  <2>6. /\ AfterAudit(c.kind) \in {"answered", "recording", "reading"}
        /\ c.kind \in KindsAt(AfterAudit(c.kind))
        /\ AfterAudit(c.kind) = "reading" <=> c.kind = "delete"
        /\ AfterAudit(c.kind) = "recording" <=> c.kind = "rename"
    BY <1>2, <2>1 DEF AfterAudit, KindsAt, Deletions
  <2>7. PICK q \in Calls : /\ call' = [call EXCEPT ![r] = q]
                           /\ q.step = AfterAudit(c.kind) /\ q.command = c
                           /\ q.result = call[r].result
    BY <1>2, <2>1, <2>3, <2>6, CallGoes DEF CallSteps
  <2>8. c.kind # "delete" => q.result = ResultOf(c) /\ TookEffect(Fingerprint(c), q.result)
    BY <1>1, <1>2, <2>1, <2>7 DEF CallOK, Applied
  <2>9. CallOK(q)'
    <3>1. q.step \in {"recording", "answered"} /\ c.kind = "rename" =>
             RenameAudited(c.scope, q.result, c.body)'
      BY <2>3, <2>4, <2>7 DEF RenameAudited
    <3>2. c.kind = "delete" => DeletionAudited(c.scope)'
      BY <2>3, <2>4 DEF DeletionAudited
    <3>3. Applied(q) => /\ q.result = ResultOf(c)
                        /\ TookEffect(Fingerprint(c), q.result)'
      BY <2>3, <2>6, <2>7, <2>8 DEF TookEffect, Applied
    <3>4. QED
      BY <2>6, <2>7, <3>1, <3>2, <3>3 DEF CallOK
  <2>10. applied \subseteq applied' /\ audits \subseteq audits'
    BY <2>3
  <2>11. call' \in [Callers -> Calls] /\ CallsOK'
    BY <2>7, <2>9, <2>10, OneCall DEF LibraryInv
  <2>12. LibraryTypeOK'
    BY <2>3, <2>5, <2>11 DEF LibraryInv, LibraryTypeOK
  <2>13. OneOwner'
    <3>1. Unreceipted(q) => Unreceipted(call[r]) /\ q.command = call[r].command
      BY <1>1, <2>1, <2>6, <2>7 DEF Unreceipted, Applied
    <3>2. QED
      BY <2>3, <2>7, <3>1, OneCallOwner DEF LibraryInv
  <2>14. PlayingOK'
    <3>1. DeletionOK(q)' /\ AssignmentOK(q)'
      BY <2>6, <2>7 DEF DeletionOK, AssignmentOK
    <3>2. \A s \in Scopes : Stored(s) => Stored(s)'
      BY <2>3 DEF Stored
    <3>3. QED
      BY <2>3, <2>7, <3>1, <3>2, OneCallPlaying DEF LibraryInv
  <2>15. RecordsAudited'
    <3>1. a.action = "rename" =>
             \E p \in applied : p.command.kind = "rename" /\ p.command.scope = a.scope
                                /\ p.result = a.revision /\ p.command.body = a.name
      <4> SUFFICES ASSUME a.action = "rename"
                   PROVE  \E p \in applied :
                             p.command.kind = "rename" /\ p.command.scope = a.scope
                             /\ p.result = a.revision /\ p.command.body = a.name
        OBVIOUS
      <4>1. PICK p \in applied : Fingerprint(p.command) = Fingerprint(c) /\ p.result = q.result
        BY <2>4, <2>8 DEF TookEffect
      <4>2. p.command \in Commands
        BY DEF LibraryInv, LibraryTypeOK
      <4>3. p.command.kind = c.kind /\ p.command.scope = c.scope /\ p.command.body = c.body
        BY <2>4, <4>1, <4>2, SameFingerprint
      <4>4. QED
        BY <2>4, <2>7, <4>1, <4>3
    <3>2. QED
      BY <2>3, <3>1 DEF LibraryInv, RecordsAudited, RenameAudited, DeletionAudited
  <2>16. EffectsOK' /\ ReceiptsTell' /\ EffectsAreOrdered'
    BY <2>3 DEF LibraryInv, EffectsOK, EffectOK, ReceiptsTell, TookEffect, EffectsAreOrdered
  <2>17. QED
    BY <2>11, <2>12, <2>13, <2>14, <2>15, <2>16 DEF LibraryInv
<1>5. QED
  BY <1>3, <1>4

LEMMA WriteReceiptKeeps ==
    ASSUME LibraryInv, NEW r \in Callers, WriteReceipt(r)
    PROVE  LibraryInv'
<1>1. call[r].step = "recording"
  BY DEF WriteReceipt, AtStep
<1>2. PICK c \in Commands : c = call[r].command /\ c.kind \in {"rename", "save", "commit"}
  BY <1>1, CallNow DEF KindsAt
<1>3. call[r] \in Calls /\ CallOK(call[r]) /\ call[r].result \in 0..MaxRevision
  BY CallNow, CallFacts
<1>4. CASE ~Stored(c.scope)
  <2>1. Ends(r) /\ UNCHANGED <<mix, recordVars>>
    BY <1>2, <1>4 DEF WriteReceipt, recordVars
  <2>2. QED
    BY <2>1, Ended
<1>5. CASE Stored(c.scope) /\ ReceiptsFor(c) # {}
  <2>1. Goes(r, "reloading") /\ UNCHANGED <<mix, recordVars>>
    BY <1>2, <1>5 DEF WriteReceipt, recordVars
  <2>2. call[r].command.kind \in KindsAt("reloading")
    BY <1>2 DEF KindsAt
  <2>3. QED
    BY <1>1, <2>1, <2>2, MovesOn DEF CallSteps
<1>6. CASE Stored(c.scope) /\ ReceiptsFor(c) = {}
  <2>1. PICK x : x = [print |-> Fingerprint(c), key |-> c.key, result |-> call[r].result]
    OBVIOUS
  <2>2. /\ receipts' = receipts \cup {x} /\ Goes(r, "answered")
        /\ UNCHANGED <<mix, library, audits, playing, applied, removed, overlapped>>
    BY <1>2, <1>6, <2>1 DEF WriteReceipt
  <2>3. x \in Receipts /\ x.print = Fingerprint(c) /\ x.result = call[r].result
    BY <1>3, <2>1, CommandFacts DEF Receipts
  <2>4. PICK q \in Calls : /\ call' = [call EXCEPT ![r] = q]
                           /\ q.step = "answered" /\ q.command = c /\ q.result = call[r].result
    BY <1>2, <1>3, <2>2, CallGoes DEF CallSteps
  <2>5. /\ q.result = ResultOf(c) /\ TookEffect(Fingerprint(c), q.result)
        /\ c.kind = "rename" => RenameAudited(c.scope, q.result, c.body)
    BY <1>1, <1>2, <1>3, <2>4 DEF CallOK, Applied
  <2>6. CallOK(q)'
    <3>1. CallOK(q)
      BY <1>2, <2>4, <2>5 DEF CallOK, KindsAt, Renames
    <3>2. QED
      BY <2>2, <3>1, CallStays
  <2>7. /\ call' \in [Callers -> Calls] /\ CallsOK'
        /\ call'[r] = q /\ \A s \in Callers \ {r} : call'[s] = call[s]
    BY <2>2, <2>4, <2>6, OneCall DEF LibraryInv
  <2>8. LibraryTypeOK'
    BY <2>2, <2>3, <2>7 DEF LibraryInv, LibraryTypeOK
  <2>9. ReceiptsTell'
    BY <2>2, <2>3, <2>4, <2>5 DEF LibraryInv, ReceiptsTell, TookEffect
  <2>10. RecordsAudited'
    <3>1. x.print.kind = "rename" => RenameAudited(x.print.scope, x.result, x.print.body)
      BY <1>2, <2>3, <2>4, <2>5, CommandFacts
    <3>2. QED
      BY <2>2, <3>1 DEF LibraryInv, RecordsAudited, RenameAudited, DeletionAudited
  <2>11. OneOwner'
    <3>1. Unreceipted(call[r]) /\ ~Unreceipted(q)
      BY <1>1, <2>4 DEF Unreceipted, Applied
    <3>2. \A s \in Callers \ {r} : Unreceipted(call[s]) =>
             Fingerprint(call[s].command) # Fingerprint(c)
      BY <1>2, <3>1 DEF LibraryInv, OneOwner
    <3>3. \A s \in Callers : Unreceipted(call'[s]) => s # r /\ call'[s] = call[s]
      BY <2>7, <3>1
    <3>4. ASSUME NEW s \in Callers, Unreceipted(call'[s]), NEW y \in receipts'
          PROVE  y.print # Fingerprint(call'[s].command)
      BY <2>2, <2>3, <3>2, <3>3, <3>4 DEF LibraryInv, OneOwner
    <3>5. ASSUME NEW s \in Callers, NEW t \in Callers, s # t,
                 Unreceipted(call'[s]), Unreceipted(call'[t])
          PROVE  Fingerprint(call'[s].command) # Fingerprint(call'[t].command)
      BY <3>3, <3>5 DEF LibraryInv, OneOwner
    <3>6. QED
      BY <3>4, <3>5 DEF OneOwner
  <2>12. PlayingOK'
    <3>1. DeletionOK(q)' /\ AssignmentOK(q)'
      BY <2>4 DEF DeletionOK, AssignmentOK
    <3>2. \A s \in Scopes : Stored(s) => Stored(s)'
      BY <2>2 DEF Stored
    <3>3. QED
      BY <2>2, <2>4, <3>1, <3>2, OneCallPlaying DEF LibraryInv
  <2>13. EffectsOK' /\ EffectsAreOrdered'
    BY <2>2 DEF LibraryInv, EffectsOK, EffectOK, EffectsAreOrdered
  <2>14. QED
    BY <2>7, <2>8, <2>9, <2>10, <2>11, <2>12, <2>13 DEF LibraryInv
<1>7. QED
  BY <1>4, <1>5, <1>6

-----------------------------------------------------------------------------
(* Deletion, instances and drafts                                          *)

\* A document changes its state alone, and none comes back.
LEMMA EffectsStay ==
    ASSUME LibraryInv, NEW s \in Scopes, NEW d \in Envelopes,
           library' = [library EXCEPT ![s] = d], applied' = applied,
           d.revision = library[s].revision, d.state # "none",
           d.state = "gone" \/ library[s].state = "none"
    PROVE  EffectsOK'
<1>1. library \in [Scopes -> Envelopes]
  BY DEF LibraryInv, LibraryTypeOK
<1>2. SUFFICES ASSUME NEW a \in applied PROVE EffectOK(a)'
  BY DEF EffectsOK
<1>3. EffectOK(a) /\ a.command \in Commands
  BY DEF LibraryInv, EffectsOK, LibraryTypeOK
<1>4. PICK t \in Scopes : t = a.command.scope
  BY <1>3, CommandFacts
<1>5. CASE t = s
  BY <1>1, <1>3, <1>4, <1>5 DEF EffectOK
<1>6. CASE t # s
  BY <1>1, <1>3, <1>4, <1>6 DEF EffectOK
<1>7. QED
  BY <1>5, <1>6

LEMMA EnvelopeGone ==
    ASSUME NEW d \in Envelopes, NEW state \in {"stored", "gone"}
    PROVE  /\ [d EXCEPT !.state = state] \in Envelopes
           /\ [d EXCEPT !.state = state].state = state
           /\ [d EXCEPT !.state = state].revision = d.revision
  BY DEF Envelopes

LEMMA DeleteKeeps == ASSUME LibraryInv, NEW r \in Callers, Delete(r) PROVE LibraryInv'
<1>1. call[r].step = "removing"
  BY DEF Delete, AtStep
<1>2. PICK c \in Commands : c = call[r].command /\ c.kind \in Deletions
  BY <1>1, CallNow DEF KindsAt
<1>3. c.scope \in Characters /\ c.scope \in Scopes
  BY <1>2, CommandFacts DEF Deletions, Scopes
<1>4. CASE library[c.scope] # call[r].held
  <2>1. Goes(r, "reading") /\ UNCHANGED <<mix, recordVars>>
    BY <1>2, <1>4 DEF Delete, recordVars
  <2>2. call[r].command.kind \in KindsAt("reading")
    BY <1>2 DEF KindsAt
  <2>3. QED
    BY <1>1, <2>1, <2>2, MovesOn DEF CallSteps
<1>5. CASE library[c.scope] = call[r].held
  <2>1. PICK d : d = [library[c.scope] EXCEPT !.state = "gone"]
    OBVIOUS
  <2>2. /\ library' = [library EXCEPT ![c.scope] = d]
        /\ removed' = IF c.kind = "delete" THEN removed \cup {c.scope} ELSE removed
        /\ overlapped' = overlapped \cup BeingInserted(c.scope)
        /\ call' = [call EXCEPT ![r] = AtRest]
        /\ UNCHANGED <<mix, receipts, audits, playing, applied>>
    BY <1>2, <1>5, <2>1 DEF Delete, Ends
  <2>3. d \in Envelopes /\ d.state = "gone" /\ d.revision = library[c.scope].revision
    BY <1>3, <2>1, ScopeFacts, EnvelopeGone
  <2>4. /\ library \in [Scopes -> Envelopes] /\ call \in [Callers -> Calls]
        /\ playing \in [Campaigns -> Characters \cup {NoCharacter}]
    BY DEF LibraryInv, LibraryTypeOK
  <2>5. CallOK(AtRest)'
    BY <2>2, AtRestFacts, CallStays
  <2>6. /\ call' \in [Callers -> Calls] /\ CallsOK'
        /\ call'[r] = AtRest /\ \A s \in Callers \ {r} : call'[s] = call[s]
    BY <2>2, <2>5, AtRestFacts, OneCall DEF LibraryInv
  <2>7. LibraryTypeOK'
    <3>1. library' \in [Scopes -> Envelopes]
      BY <2>2, <2>3, <2>4
    <3>2. BeingInserted(c.scope) \subseteq Campaigns \X Characters
      <4> SUFFICES ASSUME NEW q \in Callers, call[q].step = "inserting"
                   PROVE  call[q].command.body \in Campaigns
        BY <1>3 DEF BeingInserted, AtStep
      <4>1. call[q].command \in Commands /\ call[q].command.kind = "assign"
        BY CallNow DEF KindsAt
      <4>2. QED
        BY <4>1, CommandFacts
    <3>3. QED
      BY <1>3, <2>2, <2>6, <3>1, <3>2 DEF LibraryInv, LibraryTypeOK
  <2>8. EffectsOK'
    BY <1>3, <2>2, <2>3, EffectsStay
  <2>9. ReceiptsTell' /\ EffectsAreOrdered'
    BY <2>2 DEF LibraryInv, ReceiptsTell, TookEffect, EffectsAreOrdered
  <2>10. RecordsAudited'
    <3>1. c.kind = "delete" => DeletionAudited(c.scope)
      BY <1>1, <1>2, CallNow DEF CallOK
    <3>2. QED
      BY <2>2, <3>1 DEF LibraryInv, RecordsAudited, RenameAudited, DeletionAudited
  <2>11. OneOwner'
    BY <2>2, AtRestFacts, OneCallOwner DEF LibraryInv
  <2>12. \A s \in Scopes \ {c.scope} : Stored(s) => Stored(s)'
    BY <2>2, <2>4 DEF Stored
  <2>13. PlayingHaveSources'
    <3> SUFFICES ASSUME NEW g \in Campaigns, playing[g] # NoCharacter
                 PROVE  Stored(playing[g])' \/ <<g, playing[g]>> \in overlapped'
      BY <2>2 DEF PlayingHaveSources
    <3>1. PICK x \in Scopes : x = playing[g]
      BY <2>4 DEF Scopes
    <3>2. CASE x = c.scope
      BY <1>1, <1>2, <2>2, <3>1, <3>2, CallNow DEF DeletionOK
    <3>3. CASE x # c.scope
      <4>1. Stored(x) \/ <<g, x>> \in overlapped
        BY <3>1 DEF LibraryInv, PlayingOK, PlayingHaveSources
      <4>2. QED
        BY <2>2, <2>12, <3>1, <3>3, <4>1
    <3>4. QED
      BY <3>2, <3>3
  <2>14. ASSUME NEW s \in Callers PROVE DeletionOK(call[s])' /\ AssignmentOK(call[s])'
    <3>1. CASE s = r
      BY <2>6, <3>1, AtRestFacts DEF DeletionOK, AssignmentOK
    <3>2. CASE s # r
      <4>1. PICK q \in Calls : q = call[s]
        BY <2>4
      <4>2. call'[s] = q /\ DeletionOK(q) /\ AssignmentOK(q)
        BY <2>6, <3>2, <4>1, CallNow
      <4>3. DeletionOK(q)'
        BY <2>2, <4>2 DEF DeletionOK
      <4>4. AssignmentOK(q)'
        <5> SUFFICES ASSUME q.step = "inserting"
                     PROVE  \/ Stored(q.command.scope)'
                            \/ <<q.command.body, q.command.scope>> \in overlapped'
          BY DEF AssignmentOK
        <5>1. q.command.scope \in Scopes
          BY <4>1, CallNow, CommandFacts
        <5>2. CASE q.command.scope = c.scope
          <6>1. <<q.command.body, c.scope>> \in BeingInserted(c.scope)
            BY <4>1, <5>2 DEF BeingInserted, AtStep
          <6>2. QED
            BY <2>2, <5>2, <6>1
        <5>3. CASE q.command.scope # c.scope
          BY <2>2, <2>12, <4>2, <5>1, <5>3 DEF AssignmentOK
        <5>4. QED
          BY <5>2, <5>3
      <4>5. QED
        BY <4>2, <4>3, <4>4
    <3>3. QED
      BY <3>1, <3>2
  <2>15. QED
    BY <2>6, <2>7, <2>8, <2>9, <2>10, <2>11, <2>13, <2>14 DEF LibraryInv, PlayingOK
<1>6. QED
  BY <1>4, <1>5

LEMMA InsertInstanceKeeps ==
    ASSUME LibraryInv, NEW r \in Callers, InsertInstance(r)
    PROVE  LibraryInv'
<1>1. call[r].step = "inserting"
  BY DEF InsertInstance, AtStep
<1>2. PICK c \in Commands : c = call[r].command /\ c.kind = "assign"
  BY <1>1, CallNow DEF KindsAt
<1>3. c.scope \in Characters /\ c.body \in Campaigns
  BY <1>2, CommandFacts DEF Scopes
<1>4. CASE playing[c.body] # NoCharacter
  <2>1. Ends(r) /\ UNCHANGED <<mix, recordVars>>
    BY <1>2, <1>4 DEF InsertInstance, recordVars
  <2>2. QED
    BY <2>1, Ended
<1>5. CASE playing[c.body] = NoCharacter
  <2>1. /\ playing' = [playing EXCEPT ![c.body] = c.scope]
        /\ overlapped' = IF BeingRemoved(c.scope)
                         THEN overlapped \cup {<<c.body, c.scope>>} ELSE overlapped
        /\ call' = [call EXCEPT ![r] = AtRest]
        /\ UNCHANGED <<mix, library, receipts, audits, applied, removed>>
    BY <1>2, <1>5 DEF InsertInstance, Ends
  <2>2. /\ call \in [Callers -> Calls]
        /\ playing \in [Campaigns -> Characters \cup {NoCharacter}]
    BY DEF LibraryInv, LibraryTypeOK
  <2>3. overlapped \subseteq overlapped'
    BY <2>1
  <2>4. CallOK(AtRest)'
    BY <2>1, AtRestFacts, CallStays
  <2>5. /\ call' \in [Callers -> Calls] /\ CallsOK'
        /\ call'[r] = AtRest /\ \A s \in Callers \ {r} : call'[s] = call[s]
    BY <2>1, <2>4, AtRestFacts, OneCall DEF LibraryInv
  <2>6. LibraryTypeOK'
    <3>1. playing' \in [Campaigns -> Characters \cup {NoCharacter}]
      BY <1>3, <2>1, <2>2
    <3>2. overlapped' \subseteq Campaigns \X Characters
      BY <1>3, <2>1 DEF LibraryInv, LibraryTypeOK
    <3>3. QED
      BY <2>1, <2>5, <3>1, <3>2 DEF LibraryInv, LibraryTypeOK
  <2>7. EffectsOK' /\ ReceiptsTell' /\ RecordsAudited' /\ EffectsAreOrdered'
    BY <2>1 DEF LibraryInv, EffectsOK, EffectOK, ReceiptsTell, TookEffect, RecordsAudited,
       RenameAudited, DeletionAudited, EffectsAreOrdered
  <2>8. OneOwner'
    BY <2>1, AtRestFacts, OneCallOwner DEF LibraryInv
  <2>9. \A x : Stored(x) => Stored(x)'
    BY <2>1 DEF Stored
  <2>10. PlayingHaveSources'
    <3> SUFFICES ASSUME NEW g \in Campaigns, playing'[g] # NoCharacter
                 PROVE  Stored(playing[g])' \/ <<g, playing'[g]>> \in overlapped'
      BY DEF PlayingHaveSources
    <3>1. CASE g = c.body
      <4>1. playing'[g] = c.scope
        BY <2>1, <2>2, <3>1
      <4>2. Stored(c.scope) \/ <<c.body, c.scope>> \in overlapped
        BY <1>1, <1>2, CallNow DEF AssignmentOK
      <4>3. QED
        BY <2>3, <2>9, <3>1, <4>1, <4>2
    <3>2. CASE g # c.body
      <4>1. PICK x : x = playing[g]
        OBVIOUS
      <4>2. playing'[g] = x
        BY <2>1, <2>2, <3>2, <4>1
      <4>3. Stored(x) \/ <<g, x>> \in overlapped
        BY <4>1, <4>2 DEF LibraryInv, PlayingOK, PlayingHaveSources
      <4>4. QED
        BY <2>3, <2>9, <4>2, <4>3
    <3>3. QED
      BY <3>1, <3>2
  <2>11. ASSUME NEW s \in Callers PROVE DeletionOK(call[s])' /\ AssignmentOK(call[s])'
    <3>1. CASE s = r
      BY <2>5, <3>1, AtRestFacts DEF DeletionOK, AssignmentOK
    <3>2. CASE s # r
      <4>1. PICK q \in Calls : q = call[s]
        BY <2>2
      <4>2. call'[s] = q /\ DeletionOK(q) /\ AssignmentOK(q)
        BY <2>5, <3>2, <4>1, CallNow
      <4>3. DeletionOK(q)'
        <5> SUFFICES ASSUME q.step = "removing", NEW g \in Campaigns,
                            playing'[g] = q.command.scope
                     PROVE  <<g, q.command.scope>> \in overlapped'
          BY DEF DeletionOK
        <5>1. CASE g = c.body
          <6>1. c.scope = q.command.scope
            BY <2>1, <2>2, <5>1
          <6>2. BeingRemoved(c.scope)
            BY <4>1, <6>1 DEF BeingRemoved, AtStep
          <6>3. QED
            BY <2>1, <5>1, <6>1, <6>2
        <5>2. CASE g # c.body
          <6>1. playing[g] = q.command.scope
            BY <2>1, <2>2, <5>2
          <6>2. QED
            BY <2>3, <4>2, <6>1 DEF DeletionOK
        <5>3. QED
          BY <5>1, <5>2
      <4>4. AssignmentOK(q)'
        BY <2>3, <2>9, <4>2 DEF AssignmentOK
      <4>5. QED
        BY <4>2, <4>3, <4>4
    <3>3. QED
      BY <3>1, <3>2
  <2>12. QED
    BY <2>5, <2>6, <2>7, <2>8, <2>10, <2>11 DEF LibraryInv, PlayingOK
<1>6. QED
  BY <1>4, <1>5

LEMMA RetireInstanceKeeps ==
    ASSUME LibraryInv, NEW g \in Campaigns, RetireInstance(g)
    PROVE  LibraryInv'
<1>1. /\ playing' = [playing EXCEPT ![g] = NoCharacter]
      /\ UNCHANGED <<mix, library, receipts, audits, call, applied, removed, overlapped>>
  BY DEF RetireInstance
<1>2. playing \in [Campaigns -> Characters \cup {NoCharacter}] /\ call \in [Callers -> Calls]
  BY DEF LibraryInv, LibraryTypeOK
<1>3. \A h \in Campaigns : playing'[h] = NoCharacter \/ playing'[h] = playing[h]
  BY <1>1, <1>2
<1>4. LibraryTypeOK'
  BY <1>1, <1>2 DEF LibraryInv, LibraryTypeOK
<1>5. CallsOK' /\ EffectsOK' /\ ReceiptsTell' /\ RecordsAudited' /\ EffectsAreOrdered' /\ OneOwner'
  BY <1>1 DEF LibraryInv, CallsOK, CallOK, EffectsOK, EffectOK, ReceiptsTell, TookEffect,
     RecordsAudited, RenameAudited, DeletionAudited, EffectsAreOrdered, OneOwner
<1>6. PlayingHaveSources'
  <2> SUFFICES ASSUME NEW h \in Campaigns, playing'[h] # NoCharacter
               PROVE  Stored(playing[h])' \/ <<h, playing'[h]>> \in overlapped'
    BY DEF PlayingHaveSources
  <2>1. PICK x : x = playing[h]
    OBVIOUS
  <2>2. playing'[h] = x
    BY <1>3, <2>1
  <2>3. Stored(x) \/ <<h, x>> \in overlapped
    BY <2>1, <2>2 DEF LibraryInv, PlayingOK, PlayingHaveSources
  <2>4. QED
    BY <1>1, <2>2, <2>3 DEF Stored
<1>7. ASSUME NEW s \in Callers PROVE DeletionOK(call[s])' /\ AssignmentOK(call[s])'
  <2>1. PICK q \in Calls : q = call[s]
    BY <1>2
  <2>2. call'[s] = q /\ DeletionOK(q) /\ AssignmentOK(q)
    BY <1>1, <2>1, CallNow
  <2>3. AssignmentOK(q)'
    BY <1>1, <2>2 DEF AssignmentOK, Stored
  <2>4. DeletionOK(q)'
    <3> SUFFICES ASSUME q.step = "removing", NEW h \in Campaigns,
                        playing'[h] = q.command.scope
                 PROVE  <<h, q.command.scope>> \in overlapped
      BY <1>1 DEF DeletionOK
    <3>1. q.command.scope \in Characters
      BY <2>1, CallNow, CommandFacts DEF KindsAt, Deletions, Scopes
    <3>2. playing[h] = q.command.scope
      BY <1>3, <3>1, LibraryAssumption
    <3>3. QED
      BY <2>2, <3>2 DEF DeletionOK
  <2>5. QED
    BY <2>2, <2>3, <2>4
<1>8. QED
  BY <1>4, <1>5, <1>6, <1>7 DEF LibraryInv, PlayingOK

\* A draft comes and goes beside the commands.
LEMMA DraftKeeps ==
    ASSUME LibraryInv, NEW d \in Drafts, CreateDraft(d) \/ RemoveDraft(d)
    PROVE  LibraryInv'
<1>1. d \in Scopes /\ d \notin Characters
  BY LibraryAssumption DEF Scopes
<1>2. PICK e \in Envelopes : /\ library' = [library EXCEPT ![d] = e]
                             /\ e.revision = library[d].revision /\ e.state # "none"
                             /\ e.state = "gone" \/ library[d].state = "none"
  <2>1. library[d] \in Envelopes
    BY <1>1, ScopeFacts
  <2>2. CASE CreateDraft(d)
    BY <2>1, <2>2, EnvelopeGone DEF CreateDraft
  <2>3. CASE RemoveDraft(d)
    BY <2>1, <2>3, EnvelopeGone DEF RemoveDraft
  <2>4. QED
    BY <2>2, <2>3
<1>3. UNCHANGED <<mix, receipts, audits, playing, call, applied, removed, overlapped>>
  BY DEF CreateDraft, RemoveDraft
<1>4. /\ library \in [Scopes -> Envelopes] /\ call \in [Callers -> Calls]
      /\ playing \in [Campaigns -> Characters \cup {NoCharacter}]
  BY DEF LibraryInv, LibraryTypeOK
<1>5. LibraryTypeOK'
  BY <1>1, <1>2, <1>3, <1>4 DEF LibraryInv, LibraryTypeOK
<1>6. EffectsOK'
  BY <1>1, <1>2, <1>3, EffectsStay
<1>7. CallsOK' /\ ReceiptsTell' /\ RecordsAudited' /\ EffectsAreOrdered' /\ OneOwner'
  BY <1>3 DEF LibraryInv, CallsOK, CallOK, ReceiptsTell, TookEffect,
     RecordsAudited, RenameAudited, DeletionAudited, EffectsAreOrdered, OneOwner
<1>8. \A c \in Characters : Stored(c) => Stored(c)'
  BY <1>1, <1>2, <1>4 DEF Stored, Scopes
<1>9. PlayingHaveSources'
  <2> SUFFICES ASSUME NEW g \in Campaigns, playing[g] # NoCharacter
               PROVE  Stored(playing[g])' \/ <<g, playing[g]>> \in overlapped
    BY <1>3 DEF PlayingHaveSources
  <2>1. PICK x \in Characters : x = playing[g]
    BY <1>4
  <2>2. Stored(x) \/ <<g, x>> \in overlapped
    BY <2>1 DEF LibraryInv, PlayingOK, PlayingHaveSources
  <2>3. QED
    BY <1>3, <1>8, <2>1, <2>2 DEF Stored
<1>10. ASSUME NEW s \in Callers PROVE DeletionOK(call[s])' /\ AssignmentOK(call[s])'
  <2>1. PICK q \in Calls : q = call[s]
    BY <1>4
  <2>2. call'[s] = q /\ DeletionOK(q) /\ AssignmentOK(q)
    BY <1>3, <2>1, CallNow
  <2>3. DeletionOK(q)'
    BY <1>3, <2>2 DEF DeletionOK
  <2>4. AssignmentOK(q)'
    <3> SUFFICES ASSUME q.step = "inserting"
                 PROVE  \/ Stored(q.command.scope)'
                        \/ <<q.command.body, q.command.scope>> \in overlapped
      BY <1>3 DEF AssignmentOK
    <3>1. q.command.scope \in Characters
      BY <2>1, CallNow, CommandFacts DEF KindsAt, Scopes
    <3>2. QED
      BY <1>8, <2>2, <3>1 DEF AssignmentOK
  <2>5. QED
    BY <2>2, <2>3, <2>4
<1>11. QED
  BY <1>5, <1>6, <1>7, <1>9, <1>10 DEF LibraryInv, PlayingOK

-----------------------------------------------------------------------------
(* The specification                                                       *)

LEMMA LibraryInitHolds == LibraryInit => LibraryInv
<1> SUFFICES ASSUME LibraryInit PROVE LibraryInv
  OBVIOUS
<1>1. \A r \in Callers : call[r] = AtRest
  BY DEF LibraryInit
<1>2. \A s \in Scopes : library[s] = NoEnvelope
  BY DEF LibraryInit
<1>3. LibraryTypeOK
  BY NoEnvelopeType, AtRestFacts DEF LibraryInit, LibraryTypeOK
<1>4. CallsOK /\ OneOwner
  BY <1>1, AtRestFacts DEF CallsOK, OneOwner
<1>5. EffectsOK /\ ReceiptsTell /\ RecordsAudited /\ EffectsAreOrdered
  BY DEF LibraryInit, EffectsOK, ReceiptsTell, RecordsAudited, EffectsAreOrdered
<1>6. PlayingOK
  BY <1>1, AtRestFacts DEF LibraryInit, PlayingOK, PlayingHaveSources
<1>7. QED
  BY <1>3, <1>4, <1>5, <1>6 DEF LibraryInv

LEMMA LibraryNextKeeps ==
    ASSUME LibraryInv, [LibraryNext]_libraryVars
    PROVE  LibraryInv'
<1>1. CASE UNCHANGED libraryVars
  <2>1. /\ mix' = mix /\ library' = library /\ receipts' = receipts /\ audits' = audits
        /\ playing' = playing /\ applied' = applied /\ removed' = removed
        /\ overlapped' = overlapped /\ call' = call
    BY <1>1 DEF libraryVars, recordVars
  <2>2. LibraryTypeOK' /\ CallsOK' /\ EffectsOK' /\ ReceiptsTell' /\ RecordsAudited'
        /\ EffectsAreOrdered' /\ OneOwner'
    BY <2>1 DEF LibraryInv, LibraryTypeOK, CallsOK, CallOK, EffectsOK, EffectOK, ReceiptsTell,
       TookEffect, RecordsAudited, RenameAudited, DeletionAudited, EffectsAreOrdered, OneOwner
  <2>3. PlayingOK'
    BY <2>1 DEF LibraryInv, PlayingOK, PlayingHaveSources, DeletionOK, AssignmentOK, Stored
  <2>4. QED
    BY <2>2, <2>3 DEF LibraryInv
<1>2. CASE \E r \in Callers :
              \/ Ask(r) \/ LookUpReceipt(r) \/ Write(r) \/ WriteAudit(r) \/ WriteReceipt(r)
              \/ ReloadReceipt(r) \/ Load(r) \/ ReadBeforeDelete(r) \/ Delete(r)
              \/ CheckSource(r) \/ RecheckSource(r) \/ InsertInstance(r) \/ GiveUp(r)
  BY <1>2, AskKeeps, LookUpReceiptKeeps, WriteKeeps, WriteAuditKeeps, WriteReceiptKeeps,
     ReloadReceiptKeeps, LoadKeeps, ReadBeforeDeleteKeeps, DeleteKeeps, CheckSourceKeeps,
     RecheckSourceKeeps, InsertInstanceKeeps, GiveUpKeeps
<1>3. CASE \E g \in Campaigns : RetireInstance(g)
  BY <1>3, RetireInstanceKeeps
<1>4. CASE \E d \in Drafts : CreateDraft(d) \/ RemoveDraft(d)
  BY <1>4, DraftKeeps
<1>5. QED
  BY <1>1, <1>2, <1>3, <1>4 DEF LibraryNext

LEMMA LibraryInvHolds == LibrarySpec => []LibraryInv
  BY LibraryInitHolds, LibraryNextKeeps, PTL DEF LibrarySpec

\* Documents, receipts, audits and calls stay what they are, whoever renames, deletes or
\* assigns a character (repository/player_characters.rs).
THEOREM LibraryTypeCorrect == LibrarySpec => []LibraryTypeOK
<1>1. LibraryInv => LibraryTypeOK
  BY DEF LibraryInv
<1>2. QED
  BY <1>1, LibraryInvHolds, PTL

\* For any number of callers, characters and campaigns, what answers, receipts and audits of
\* the library tell did happen, once, wherever the steps of commands interleave and callers
\* stop (rename, save and commit, application/player_characters.rs:132-239, 318-465).
THEOREM LibraryTellsTheTruth == LibrarySpec => []RecordsTellTheTruth
<1>1. LibraryInv => RecordsTellTheTruth
  <2> SUFFICES ASSUME LibraryInv PROVE RecordsTellTheTruth
    OBVIOUS
  <2>1. AnswersTell
    BY DEF LibraryInv, AnswersTell, CallsOK, CallOK, Applied, AtStep
  <2>2. AuditsTell
    BY DEF LibraryInv, AuditsTell, RecordsAudited, CallsOK, CallOK, AtStep
  <2>3. QED
    BY <2>1, <2>2 DEF LibraryInv, RecordsTellTheTruth
<1>2. QED
  BY <1>1, LibraryInvHolds, PTL

\* A character of a campaign is in its owner's library, unless its assignment and its deletion
\* were past their checks at once (delete_player_character, repository/player_characters.rs:257,
\* and assign_character_to_campaign, repository/memberships.rs:1113).
THEOREM InstancesHaveSources == LibrarySpec => []PlayingHaveSources
<1>1. LibraryInv => PlayingHaveSources
  BY DEF LibraryInv, PlayingOK
<1>2. QED
  BY <1>1, LibraryInvHolds, PTL

\* A command that loads a receipt after a duplicate key is never answered: the receipt that it
\* finds is another command's (rename_character, application/player_characters.rs:212-235).
THEOREM ReloadsAlwaysRefuse == LibrarySpec => []ReloadsOnlyRefuse
<1>1. LibraryInv => ReloadsOnlyRefuse
  BY DEF LibraryInv, OneOwner, ReloadsOnlyRefuse, ReceiptsFor, AtStep, Unreceipted, Applied
<1>2. QED
  BY <1>1, LibraryInvHolds, PTL
=============================================================================
