\* One server and one adventure: a social turn, exploration, an encounter that wounds the hero,
\* a reward and a level-up between its commands, one commit in doubt.
SPECIFICATION CommandsSpec
CONSTANTS
    Servers = {s1}
    Keys = {k1, k2, k3}
    Kinds <- AllKinds
    Dice = {1}
    HitPoints = 1
    MaxRevision = 4
    MaxHeroRevision = 2
    MaxSittings = 1
    MaxInDoubt = 1
    NoCommand = NoCommand
VIEW Untold
SYMMETRY Symmetry
INVARIANTS
    EventsReplay
    ProjectionFollowsLog
    HeroFollowsEncounter
    HeroMatchesAudits
PROPERTY ImplementsCampaignLog
