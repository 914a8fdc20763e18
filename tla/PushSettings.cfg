SPECIFICATION PushSpec
CONSTANTS
    chrome = chrome
    safari = safari
    permission = permission
    idle = idle
    Devices = {chrome, safari}
    Topics = {permission, idle}
    OnByDefault = {permission}
    Bypass = {permission}
    MaxLogins = 1
    MaxEvents = 3
    MaxFails = 1
    Times <- Minutes
INVARIANT PushesAreWanted
CHECK_DEADLOCK FALSE
