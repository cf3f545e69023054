SPECIFICATION FairBusSpec
CONSTANTS
    Publishers = {p1,p2}
    Readers = {r1,r2}
    Capacity = 1
    MaxEvents = 2
INVARIANTS
    BusTypeOK
    NothingVanishes
    SleeperIsNotified
PROPERTIES
    ImplementsFeed
    TimedRecvReturns
CHECK_DEADLOCK FALSE
