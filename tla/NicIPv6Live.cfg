\* The same, but the process does not die while a script of its own is at work
SPECIFICATION LiveSpec
CONSTANTS
    Nic = {usb}
    Removable = {usb}
    Public = {usb}
    Owner = {"service", "fixer"}
    Orphan = {}
    MaxFaults = 1
    MaxPlugs = 1
    MaxCalls = 1
PROPERTY ConnectionSettles
CHECK_DEADLOCK FALSE
