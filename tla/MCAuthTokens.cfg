SPECIFICATION AuthSpec

CONSTANTS
    r1 = r1
    r2 = r2
    t1 = t1
    t2 = t2
    t3 = t3
    t4 = t4
    ceo = ceo
    ann = ann
    NoEmail = NoEmail
    NoToken = NoToken
    Requests = {r1, r2}
    Emails = {ceo, ann}
    Seeded = {ceo}
    Tokens = {t1, t2, t3, t4}

SYMMETRY Symmetry

INVARIANTS
    TokenUsedOnce
    AcceptanceHasEvidence
    PasswordMeansAccepted
    StaleTokensBounded

PROPERTY
    FirstAcceptanceStands
