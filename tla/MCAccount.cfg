SPECIFICATION AccountSpec

CONSTANTS
    t1 = t1
    t2 = t2
    ann = ann
    bob = bob
    f1 = f1
    f2 = f2
    c1 = c1
    c2 = c2
    NoField = NoField
    Passwords = {"p", "q"}
    MaxReads = 1
    Pages = {t1, t2}
    Users = {ann, bob}
    MaxEndpoints = 2
    Fields = {f1, f2}
    Toggles = {c1, c2}

INVARIANTS
    ClaimIsCurrent
    RegistryMatchesBrowser
    RestShowsThePrefs

PROPERTY
    PinnedTabArrives
