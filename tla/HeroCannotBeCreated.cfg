\* A campaign as the application creates it: its core character is an active one of the
\* local account.
SPECIFICATION HeroesSpec
CONSTANTS
    d1 = d1
    d2 = d2
    industrial = industrial
    gothic = gothic
    Servers = {s1, s2}
    Clients = {c1}
    Drafts <- MCDrafts
    Offers <- MCOffers
    Themes = {industrial, gothic}
    Unpinned = Unpinned
    NoCommand = NoCommand
    Ageing = {d2}
    OfferedTiers = {"major"}
    Contended = {0, 8}
    CoreSharesAccount = TRUE
    MaxHeroRevision <- MCMaxHeroRevision
SYMMETRY MCSymmetry
INVARIANT HeroCanBeCreated
CHECK_DEADLOCK FALSE
