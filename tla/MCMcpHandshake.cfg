SPECIFICATION Spec
CONSTANTS
    Callers = {a}
    MaxCalls = 2
    MaxSpawns = 2
    MaxNoise = 1
PROPERTY HandshakeFirst
CHECK_DEADLOCK FALSE
