SPECIFICATION Spec
CONSTANTS
    p1 = p1
    p2 = p2
    p3 = p3
    a = a
    Req = {p1, p2, p3}
    Kinds = {"add", "update", "delete", "get", "test", "link", "unlink"}
    Faults = {"vault", "db", "commit", "crash"}
    Seed <- SeedOne
    Posts <- PostAll
    Patches <- PatchesAll
    Names <- MCNames
    Keys <- MCKeys
    Policies <- MCPolicies
    Apps = {"x"}
    ZeroId = ZeroId
    NoRow = NoRow
    NoWrite = NoWrite
    None = None
SYMMETRY Symmetry
INVARIANTS
    TypeOK
    PublishedIsComplete
    RowsPaired
    NoSilentDivergence
    DeleteAtMostOnce
    DeadlocksArePairs
PROPERTIES
    DeletedStaysDeleted
    ImplementsRegistry
\* Requests are served once: all done is the end of a behaviour.
CHECK_DEADLOCK FALSE
