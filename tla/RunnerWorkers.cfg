SPECIFICATION LiveSpec
CONSTANTS
    Managed = {builder}
    Mixed = TRUE
    Threads = {t1, t2}
    Calls = {c1, c2}
    Limit = 2
    Requests = {"message", "pause", "resume", "restart", "restart_agent", "stop"}
    JoinsTimeOut = TRUE
    MaxRequests = 2
    MaxElsewhere = 1
INVARIANTS
    SingleWorker
    BreakerHolds
    NobodyWaitsAlone
PROPERTIES
    FloorIsServed
CHECK_DEADLOCK FALSE
