SPECIFICATION Spec
CONSTANTS
    Servers = {s1}
    Releases = {1, 2}
    Versions = {1, 2}
    Streams = TRUE
    HasPlain = TRUE
    Resume = "enforced"
    MaxTests = 2
    MaxMoves = 1
    MaxIds = 1
    MaxCrashes = 1
INVARIANTS
    GreenStands
    CancelKeepsProof
    ResumedOnce
PROPERTIES
    TestEnds
CHECK_DEADLOCK FALSE
