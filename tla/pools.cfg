SPECIFICATION OrderedSpec
CONSTANTS
    p1 = p1
    p2 = p2
    p3 = p3
    a = a
    s1 = s1
    r1 = r1
    Replicas = {r1}
    Probes = {s1}
    Home <- MCHome
    MaxPool = 2
    Req = {p1, p2, p3}
    Kinds = {"update", "delete", "link"}
    Faults = {}
    Seed <- SeedOne
    Posts <- NoPosts
    Patches <- PatchesPartial
    Names <- MCNames
    Keys <- MCKeys
    Policies <- MCPolicies
    Apps = {"x"}
    ZeroId = ZeroId
    NoRow = NoRow
    NoWrite = NoWrite
    None = None
INVARIANTS
    NoHoldAndWait
    EngineConverges
PROPERTIES
    Termination
    StatusAnswers
\* Requests are served once: all done is the end of a behaviour.
CHECK_DEADLOCK FALSE
