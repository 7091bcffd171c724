SPECIFICATION ApprovalSpec
CONSTANTS
    Calls = {c1, c2}
    Captures = {x1, x2}
    TurnBudget = 4
    RevisionBudget = 2
    MayRunLate = FALSE
    Requests = {"approve"}
    Concerns = {}
    MaxRevisions = 2
    MaxObjections = 0
    MaxTip = 1
    MaxCrashes = 1
INVARIANTS
    PromotedOnce
    ApprovedTextStands
PROPERTIES
    PromotionSpec
    ReservedIsFinished
CHECK_DEADLOCK FALSE
