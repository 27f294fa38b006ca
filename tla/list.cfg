SPECIFICATION ListSpec
CONSTANTS
    p1 = p1
    p2 = p2
    p3 = p3
    a = a
    a2 = a2
    a3 = a3
    Rank <- ListRank
    Limit = 2
    Req = {p1, p2}
    Kinds = {"add", "update", "delete", "test"}
    Faults = {"db", "commit", "crash"}
    Seed <- SeedThree
    Posts <- PostGood
    Patches <- PatchesList
    Names <- ListNames
    Keys <- MCKeys
    Policies <- MCPolicies
    Apps = {"x"}
    ZeroId = ZeroId
    NoRow = NoRow
    NoWrite = NoWrite
    None = None
SYMMETRY Symmetry
INVARIANTS
    FailsOnlyForWriters
    ShownIsWhole
    NothingSkipped
    PagesAscend
\* Requests are served once: all done is the end of a behaviour.
CHECK_DEADLOCK FALSE
