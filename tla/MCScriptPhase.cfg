SPECIFICATION ScriptSpec

CONSTANTS
    r1 = r1
    r2 = r2
    ceo = ceo
    ad = ad
    jd = jd
    ed = ed
    NoUser = NoUser
    Users = {ceo, jd}
    Role <- MCRole
    Creator = jd
    Owner = jd
    Requests = {r1, r2}
    Targets = {"script_drafting", "approved_published"}
    Titles = {"t1"}
    MaxTrail = 5
    MaxVersions = 2

SYMMETRY Symmetry

INVARIANTS
    VersionsDense
    LockHasEvidence
    LateVersionsBounded

PROPERTY
    ImplementsVersionLog
