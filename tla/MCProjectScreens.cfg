SPECIFICATION ScreensSpec

CONSTANTS
    film = film
    clip = clip
    d1 = d1
    d2 = d2
    w1 = w1
    w2 = w2
    Projects = {film, clip}
    Here = film
    Seed <- MCSeed
    Columns = {"idea", "casting"}
    Texts <- MCTexts
    Blank = ""
    MaxCommits = 2
    MyRole = "assistant_director"
    Drags = {d1, d2}
    Filters <- MCFilters
    MaxInFlight = 2
    MaxCalls = 2
    Writers = {w1, w2}
    Ids = {1, 2, 3, 4}
    PageSize = 1
    MaxTime = 3

INVARIANTS
    RestShowsTheBoard
    RestShowsOwnWork
    FeedIsComplete

PROPERTY
    SaveRevertsLaterChangesOnly

CHECK_DEADLOCK FALSE
