SPECIFICATION TabsSpec
CONSTANTS
    loc = loc
    member = member
    shoot = shoot
    lens = lens
    light = light
    h1 = h1
    h2 = h2
    Locations = {loc}
    Cast = {member}
    Shoots = {shoot}
    Gear = {lens, light}
    Handlers = {h1, h2}
    Seeds <- MCSeeds
    MaxChosen = 2
    MaxCommits = 2
    MaxObjects = 2
    MaxReloads = 2

INVARIANTS
    RecordedFilesWereSent
    RestShowsOwnWrites

PROPERTY
    TickLostToOldListOnly
