SPECIFICATION FairSpec
CONSTANTS
    Users = {u}
    Channels = {c}
    Limit = 1
    Window = 2
    Ttl = 2
    MaxHistory = 3
    MaxEvents = 2
    MaxConns = 2
    MaxTime = 1
PROPERTIES
    ServesOnceConnected
CHECK_DEADLOCK FALSE
