SPECIFICATION BenchSpec

CONSTANTS
    h1 = h1
    h2 = h2
    v1 = v1
    v2 = v2
    c1 = c1
    k1 = k1
    k2 = k2
    Texts = {"a", "b"}
    Others = {"a"}
    Empty = ""
    BlankDoc = "<p></p>"
    None = "none"
    MyRole = "assistant_director"
    IsOwner = TRUE
    Slots = {h1, h2}
    MaxVersions = 2
    Targets = {v1, v2}
    Comments = {c1}
    Calls = {k1, k2}
    MaxCommits = 3
    MaxLoads = 2
    Cuts = {v1, v2}
    MaxLinks = 3
    MaxNotes = 2

INVARIANT
    AutosaveIsASafetyNet

CHECK_DEADLOCK FALSE
