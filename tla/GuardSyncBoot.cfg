\* A handler is called while the boot reconciliation is under way; nothing fails
SPECIFICATION Spec
CONSTANTS
    h1 = h1
    h2 = h2
    Handlers = {h1, h2}
    Ops = {"connect", "disconnect", "remove", "save", "refresh"}
    Tampering = FALSE
    DiskFails = FALSE
    EarlyCalls = TRUE
    MaxCalls = 1
    MaxFaults = 0
SYMMETRY Symmetric
INVARIANT GuardMatches
CHECK_DEADLOCK FALSE
