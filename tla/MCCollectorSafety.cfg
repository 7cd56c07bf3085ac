SPECIFICATION Spec
CONSTANTS
    d1 = d1
    d2 = d2
    h1 = h1
    h2 = h2
    h3 = h3
    Devices = {d1, d2}
    Handles = {h1, h2, h3}
    NoHandle = NoHandle
    NoDevice = NoDevice
    Pending = Pending
    MaxConnect = 2
    MaxGetHandle = 2
    MaxReconnect = 2
SYMMETRY Symmetry
INVARIANTS
    TypeOK
    HoldsOwnHandle
    RemembersOwnHandle
    OffWhileAway
PROPERTIES
    KeepsTrack
    WindsDown
    ImplementsFeed
