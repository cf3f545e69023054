SPECIFICATION FairSpec
CONSTANTS
    Users = {u}
    Channels = {c}
    Limit = 1
    Window = 2
    Ttl = 2
    MaxHistory = 3
    MaxEvents = 3
    MaxConns = 2
    MaxTime = 4
INVARIANTS
    TypeOK
    ResumesExactly
    AtMostTwice
    AnswerFollowsQuestion
PROPERTIES
    EventsAreHandled
CHECK_DEADLOCK FALSE
