SPECIFICATION FairSpec
CONSTANTS
    h1 = h1
    NumDevices = 1
    Devices <- MCDevices
    Handles = {h1}
    NoHandle = NoHandle
    NoDevice = NoDevice
    Pending = Pending
    WorkDir = here
    PluginDir = here
    Absent = Absent
    Torn = Torn
    MaxConnect = 1
    MaxGetHandle = 2
    MaxReconnect = 1
    MaxRestarts = 0
PROPERTIES
    StopIsFinal
    PluginEnds
