SPECIFICATION EditsSpec

CONSTANTS
    r1 = r1
    r2 = r2
    c1 = c1
    Chunks = 2
    Remarks = {c1}
    MaxRuns = 2
    MaxCuts = 2
    MaxReviews = 2
    Requests = {r1, r2}
    ReviewerRole = "assistant_director"

INVARIANTS
    RecordedCutsAreWhole
    OneFileOneCut
    PhaseTellsTheTruth
    CutsInOrder

PROPERTY
    UploadSettles

CHECK_DEADLOCK FALSE
