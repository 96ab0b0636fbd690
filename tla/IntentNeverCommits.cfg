\* One intent of a campaign that nothing else happens to but turns.
SPECIFICATION NarrationSpec
CONSTANTS
    k1 = k1
    k2 = k2
    k3 = k3
    c1 = c1
    c2 = c2
    i1 = i1
    Requests = {r1}
    Keys = {k1}
    CommandKeys = {c1, c2, i1}
    IntentKeys = {i1}
    Uses <- MCIntents
    NoKey = NoKey
    Backends = {"fake"}
    MaxVersions = 1
    MaxPolicy = 1
    PolicyChanges = {}
    MaxTurn = 1
    MaxRevision = 2
INVARIANT IntentIsNoConflict
CHECK_DEADLOCK FALSE
