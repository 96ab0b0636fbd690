\* One account: two sessions and two requests, one live session allowed; and two callers
\* of its library with two characters, a draft and a campaign.
SPECIFICATION AccountsSpec
CONSTANTS
    Requests = {r1, r2}
    Sessions = {s1, s2}
    Idle = 2
    Absolute = 4
    MaxRefresh = 1
    MaxActive = 1
    NoSession = NoSession
    MaxVersion = 2
    MaxTime = 4
    c1 = c1
    c2 = c2
    d1 = d1
    g1 = g1
    k1 = k1
    k2 = k2
    n1 = n1
    n2 = n2
    Callers = {q1, q2}
    Characters = {c1, c2}
    Drafts = {d1}
    Campaigns = {g1}
    Bodies = {n1, n2}
    Keys = {k1, k2}
    Mixes <- MCMixes
    NoCharacter = NoCharacter
    NoBody = NoBody
    NoCommand = NoCommand
    MaxRevision = 2
SYMMETRY MCSymmetry
INVARIANTS
    RevocationIsBounded
    UsedSessionsStay
    RecordsTellTheTruth
    PlayingHaveSources
\* When the clock has stopped and the sessions are used up, nothing more can happen.
CHECK_DEADLOCK FALSE
