SPECIFICATION StoreSpec

CONSTANTS
    r1 = r1
    r2 = r2
    r3 = r3
    ceo = ceo
    ad = ad
    jd = jd
    crew = crew
    NoUser = NoUser
    Users = {ceo, ad, jd, crew}
    Role <- MCRole
    Creator = ad
    Owner = jd
    Requests = {r1, r2, r3}
    Targets = {"casting", "approved_published"}
    Titles = {"t1", "t2"}
    MaxTrail = 4

SYMMETRY Symmetry

INVARIANTS
    StageMatchesTrail
    PublishedByCeo

PROPERTY
    ChangesAreAudited
