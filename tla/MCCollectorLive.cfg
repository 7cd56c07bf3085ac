SPECIFICATION FairSpec
CONSTANTS
    d1 = d1
    d2 = d2
    h1 = h1
    h2 = h2
    Devices = {d1, d2}
    Handles = {h1, h2}
    NoHandle = NoHandle
    NoDevice = NoDevice
    Pending = Pending
    MaxConnect = 2
    MaxGetHandle = 2
    MaxReconnect = 2
PROPERTIES
    StopEnds
    Recovers
