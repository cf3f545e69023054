SPECIFICATION FairSpec
CONSTANTS
    Callers = {a,b}
    MaxCalls = 2
    MaxSpawns = 2
    MaxNoise = 1
INVARIANTS
    TypeOK
    AnswerIsOwn
    NoOrphan
PROPERTIES
    CallReturns
    RetiredIsReaped
CHECK_DEADLOCK FALSE
