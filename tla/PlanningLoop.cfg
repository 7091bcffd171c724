SPECIFICATION LoopSpec
CONSTANTS
    Calls = {c1}
    Captures = {}
    TurnBudget = 2
    RevisionBudget = 2
    MayRunLate = TRUE
    Requests = {"reopen", "waive", "resume", "approve"}
    Concerns = {"blocking", "fork", "advisory"}
    MaxRevisions = 2
    MaxObjections = 1
    MaxTip = 2
    MaxCrashes = 0
INVARIANTS
    ExhaustionIsTold
PROPERTIES
    LoopEnds
CHECK_DEADLOCK FALSE
