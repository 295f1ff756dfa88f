\* Two handlers, two calls, and one failure, flush, stop or crash
SPECIFICATION Spec
CONSTANTS
    h1 = h1
    h2 = h2
    Handlers = {h1, h2}
    Ops = {"connect", "disconnect", "save", "refresh"}
    Tampering = TRUE
    DiskFails = FALSE
    EarlyCalls = FALSE
    MaxCalls = 2
    MaxFaults = 1
SYMMETRY Symmetric
INVARIANT TypeOK
INVARIANT GuardMatches
PROPERTY OpenedOnlyOnRequest
CHECK_DEADLOCK FALSE
