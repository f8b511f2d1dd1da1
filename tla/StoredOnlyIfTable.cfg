SPECIFICATION Spec
CONSTANTS
    c1 = c1
    c2 = c2
    Conns = {c1, c2}
    None = None
    MitmPorts = {443, 8443}
    Requests <- SmallInternet
    Responses <- SomeResponses
    MaxRequests = 1
    AlwaysBypass <- Loopback
    ExtraBypass <- BypassA
    Artifacts <- KnownArtifacts
    MinSize = 2
    MaxSize = 3
    MinMaxAge = 10
    CacheAll = FALSE
    CacheAuthorized = FALSE
SYMMETRY ConnSymmetry
INVARIANT StoredOnlyIfTable
