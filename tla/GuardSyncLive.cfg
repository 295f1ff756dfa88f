\* One handler at a time, flushed filters, a settings file that cannot be written
SPECIFICATION FairSpec
CONSTANTS
    h1 = h1
    h2 = h2
    Handlers = {h1}
    Ops = {"connect", "disconnect", "remove", "save", "refresh"}
    Tampering = TRUE
    DiskFails = TRUE
    EarlyCalls = FALSE
    MaxCalls = 2
    MaxFaults = 1
PROPERTY GuardConverges
CHECK_DEADLOCK FALSE
