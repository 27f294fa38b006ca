SPECIFICATION Spec
CONSTANTS
    p1 = p1
    p2 = p2
    p3 = p3
    a = a
    Req = {p1, p2}
    Kinds = {"update", "delete"}
    Faults = {}
    Seed <- SeedOne
    Posts <- NoPosts
    Patches <- PatchesFull
    Names <- MCNames
    Keys <- MCKeys
    Policies <- MCPolicies
    Apps = {"x"}
    ZeroId = ZeroId
    NoRow = NoRow
    NoWrite = NoWrite
    None = None
SYMMETRY Symmetry
INVARIANTS
    SettledStoresAgree
\* Requests are served once: all done is the end of a behaviour.
CHECK_DEADLOCK FALSE
