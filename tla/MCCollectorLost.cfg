SPECIFICATION Spec
CONSTANTS
    d1 = d1
    h1 = h1
    h2 = h2
    Devices = {d1}
    Handles = {h1, h2}
    NoHandle = NoHandle
    NoDevice = NoDevice
    Pending = Pending
    MaxConnect = 2
    MaxGetHandle = 2
    MaxReconnect = 2
INVARIANTS
    NoLostHandle
