SPECIFICATION PipelineSpec
CONSTANTS
    Empty = Empty
    Nil = Nil
    Panic = Panic
    ClientIds = {"c"}
    FreshIds = {"m1", "m2"}
    NoId = NoId
    ListLimit = 2
    MaxResults = 3
    MaxSkip = 5
    Params <- MCParams
    Absent = Absent
    NotANumber = NotANumber
    Values <- MCValues
    Posts <- MCPosts
    Patches <- MCPatches
    Garbled = Garbled
    Seconds <- MCSeconds
    NoConn = NoConn
INVARIANTS
    OneRequestId
    PagesAdvance
    NeverPanics
    ShownIsGiven
