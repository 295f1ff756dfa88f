\* Pulled out, restored, plugged in again: the tool has nothing to do
SPECIFICATION Spec
CONSTANTS
    Nic = {usb}
    Removable = {usb}
    Public = {usb}
    Owner = {"service", "fixer"}
    Orphan = {}
    MaxFaults = 0
    MaxPlugs = 2
    MaxCalls = 2
INVARIANT NobodyLeftWaiting
CHECK_DEADLOCK FALSE
