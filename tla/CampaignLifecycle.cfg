\* One campaign through two lives, with one member who is removed and one play session.
SPECIFICATION LifecycleSpec
CONSTANTS
    Accounts = {a1}
    Invitations = {i1}
    Sittings = {p1}
    Deletions = {d1}
    Keys = {k1, k2, k3, k4, k5}
    NoSitting = NoSitting
    NoContents = NoContents
    MaxMembers = 2
    MaxLifecycle = 5
    MaxRevision = 3
    MaxExports = 1
    MaxLives = 2
    MaxPending = 1
SYMMETRY Symmetry
INVARIANTS
    SittingFollowsCampaign
    EffectsKeepReceipts
    InvitationsSpentOnce
    CharactersBelongToMembers
\* A campaign that was deleted for good takes no further step.
CHECK_DEADLOCK FALSE
