SPECIFICATION Spec
CONSTANTS
    server = server
    terminal = terminal
    t1 = t1
    t2 = t2
    u = u
    Threads = {t1, t2, u}
    Connections = {server, terminal}
    Conn <- SharedConn
    NoThread = NoThread
    NoConnection = NoConnection
    Cap = 2
    Silent = {2}
    MaxCalls = 3
    MaxCrashes = 1
INVARIANTS
    SentIsKept
    EditsAreSerial
    DerivedFollows
    SomebodyGoesOn
SYMMETRY ServerThreads
CHECK_DEADLOCK FALSE
