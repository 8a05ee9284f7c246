SPECIFICATION EditSpec

CONSTANTS
    r1 = r1
    r2 = r2
    ceo = ceo
    ad = ad
    jd = jd
    NoUser = NoUser
    Users = {ceo, ad, jd}
    Role <- MCRole
    Creator = ad
    Owner = ad
    Requests = {r1, r2}
    Targets = {"approved_published"}
    Titles = {"t1"}
    MaxTrail = 6
    MaxCuts = 2

SYMMETRY Symmetry

INVARIANTS
    CutsDense
    ApprovalHasEvidence
    CeoApprovalPublishes

PROPERTY
    ImplementsCutLog
