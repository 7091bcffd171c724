SPECIFICATION Spec
CONSTANTS
    Sessions = {a}
    Names = {own}
    UserTrees = {}
    Nobody = Nobody
    MaxOutside = 3
INVARIANTS
    HistoryIsKept
CHECK_DEADLOCK FALSE
