SPECIFICATION ListSpec
CONSTANTS
    p1 = p1
    p2 = p2
    p3 = p3
    a = a
    a2 = a2
    a3 = a3
    Rank <- ListRank
    Limit = 2
    Req = {p1}
    Kinds = {"update"}
    Faults = {}
    Seed <- SeedThree
    Posts <- PostGood
    Patches <- PatchesSuffix
    Names <- ListNames
    Keys <- MCKeys
    Policies <- MCPolicies
    Apps = {"x"}
    ZeroId = ZeroId
    NoRow = NoRow
    NoWrite = NoWrite
    None = None
INVARIANT
    PagingReachesAll
\* Requests are served once: all done is the end of a behaviour.
CHECK_DEADLOCK FALSE
