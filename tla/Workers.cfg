\* Two workers that may die, two images of one turn and an inline text of the same campaign,
\* and a budget for any two of the three.
SPECIFICATION FairSpec
CONSTANTS
    image1 = image1
    image2 = image2
    text = text
    c1 = c1
    w1 = w1
    w2 = w2
    caller = caller
    Jobs = {image1, image2, text}
    Workers = {w1, w2}
    Callers = {caller}
    Campaigns = {c1}
    Governed = {image1, image2, text}
    CampaignOf <- MCCampaignOf
    TurnScopeOf <- MCTurnScopeOf
    Reserved <- MCReserved
    Allowance <- MCTwoRequests
    Purpose <- MCPurpose
    MaxAttempts <- MCUnevenAttempts
    ConcurrencyLimit <- MCRaisedLimit
    LeaseDuration = 1
    RetryBase = 1
    MaxDelay = 0
    UsageReports <- MCReports
    ImagesPerTurn = 2
    ImagesPerDay = 2
    ImagesPerLifetime = 2
    Day = 1
INVARIANTS
    OneHolder
    SelectedIsSingular
    OneIllustrationAtATime
    AllowanceHonoured
    CapacityWithinLimits
PROPERTIES
    ImagesEnd
    ImplementsJobLifecycle
