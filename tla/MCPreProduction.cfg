SPECIFICATION PreSpec

CONSTANTS
    r1 = r1
    r2 = r2
    ceo = ceo
    jd = jd
    l1 = l1
    c1 = c1
    c2 = c2
    s1 = s1
    NoUser = NoUser
    NoRow = NoRow
    Users = {ceo}
    Role <- MCRole
    Creator = ceo
    Owner = ceo
    Requests = {r1, r2}
    Targets = {"shoot_scheduled"}
    Titles = {"t1"}
    Locations = {l1}
    Cast = {}
    Shoots = {s1}
    Details = {"d1", "d2"}
    MaxTrail = 7

SYMMETRY Symmetry

INVARIANT
    ChildMatchesTrail

PROPERTY
    ChildChangesAreAudited
