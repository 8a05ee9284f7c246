SPECIFICATION CastingSpec

CONSTANTS
    r1 = r1
    r2 = r2
    ceo = ceo
    jd = jd
    l1 = l1
    c1 = c1
    c2 = c2
    s1 = s1
    NoUser = NoUser
    NoRow = NoRow
    Users = {ceo}
    Role <- MCRole
    Creator = ceo
    Owner = ceo
    Requests = {r1, r2}
    Targets = {"casting"}
    Titles = {"t1"}
    Locations = {l1}
    Cast = {c1, c2}
    Shoots = {}
    Details = {"d1"}
    MaxTrail = 10

SYMMETRY Symmetry

PROPERTY
    AdvanceHasEvidence
