\* An adapter that comes and goes, a failure or crash whose script goes on, a
\* handler or the tool
SPECIFICATION MCSpec
CONSTANTS
    Nic = {usb}
    Removable = {usb}
    Public = {usb}
    Owner = {"service", "fixer"}
    Orphan = {"orphan"}
    MaxFaults = 3
    MaxPlugs = 2
    MaxCalls = 1
INVARIANT TypeOK
INVARIANT UsersChoiceKept
INVARIANT NicMatches
CHECK_DEADLOCK FALSE
