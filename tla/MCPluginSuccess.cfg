SPECIFICATION Spec
CONSTANTS
    h1 = h1
    h2 = h2
    NumDevices = 1
    Devices <- MCDevices
    Handles = {h1, h2}
    NoHandle = NoHandle
    NoDevice = NoDevice
    Pending = Pending
    WorkDir = here
    PluginDir = here
    Absent = Absent
    Torn = Torn
    MaxConnect = 1
    MaxGetHandle = 1
    MaxReconnect = 1
    MaxRestarts = 0
INVARIANTS
    SuccessLeavesNothing
