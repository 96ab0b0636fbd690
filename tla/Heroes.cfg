\* Two servers and two drafts; the core character belongs to another account, as the tests
\* arrange it.
SPECIFICATION HeroesSpec
CONSTANTS
    d1 = d1
    d2 = d2
    industrial = industrial
    gothic = gothic
    Servers = {s1, s2}
    Clients = {c1}
    Drafts <- MCDrafts
    Offers <- MCOffers
    Themes = {industrial, gothic}
    Unpinned = Unpinned
    NoCommand = NoCommand
    Ageing = {d2}
    OfferedTiers = {"major"}
    Contended = {0, 4, 7, 8}
    CoreSharesAccount = FALSE
    MaxHeroRevision <- MCMaxHeroRevision
SYMMETRY MCSymmetry
INVARIANTS
    PinsNeverDisagree
    RecordsExplainHero
    HeroIsPlayable
    NoDeadEnd
PROPERTIES
    SpentStaysSpent
\* A created hero that reached the bound is left alone.
CHECK_DEADLOCK FALSE
