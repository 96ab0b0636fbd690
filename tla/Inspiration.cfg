\* One source about two participants, one turn and two requests for it; two grants may be
\* under way at once.
SPECIFICATION InspirationSpec
CONSTANTS
    Participants = {p1, p2}
    Sources = {s1}
    Subjects <- MCSubjects
    Categories = {k}
    CategoryOf <- MCCategoryOf
    NoSource = NoSource
    Policies = {"delete_derived", "redact_derived"}
    GrantPolicies = {"delete_derived", "redact_derived"}
    WorkPolicies = {"redact_derived"}
    Rank <- MCRank
    Requests = {r1, r2}
    Cooldown = 1
    MaxTurn = 1
    MaxSettings = 3
    MaxVetoes = 1
    MaxGrants = 1
    MaxGranting = 2
SYMMETRY MCSymmetry
INVARIANTS
    WithdrawalReachesWork
    CountedGrantsAreComplete
    WorkMatchesPresentation
PROPERTIES
    WithdrawnStaysWithdrawn
CHECK_DEADLOCK FALSE
