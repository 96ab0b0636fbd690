\* Narrations of one turn with three keys for two versions, or an intent beside turns and
\* recaps; the policy changes once.
SPECIFICATION NarrationSpec
CONSTANTS
    k1 = k1
    k2 = k2
    k3 = k3
    c1 = c1
    c2 = c2
    i1 = i1
    Requests = {r1, r2}
    Keys = {k1, k2, k3}
    CommandKeys = {c1, c2, i1}
    IntentKeys = {i1}
    Uses <- MCUses
    NoKey = NoKey
    Backends = {"fake", "disabled"}
    MaxVersions = 2
    MaxPolicy = 2
    PolicyChanges <- MCChanges
    MaxTurn = 1
    MaxRevision = 2
VIEW Unanswered
SYMMETRY MCSymmetry
INVARIANTS
    VersionsAreNumbered
    AttemptsAreClosed
    RecapTellsItsRevision
CHECK_DEADLOCK FALSE
