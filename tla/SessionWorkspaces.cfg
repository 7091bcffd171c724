SPECIFICATION Spec
CONSTANTS
    Sessions = {a, b}
    Names = {mine, own}
    UserTrees = {mine}
    Nobody = Nobody
    MaxOutside = 2
INVARIANTS
    NothingIsLeft
    WorkIsKept
PROPERTIES
    UserTreesStay
SYMMETRY SessionSymmetry
CHECK_DEADLOCK FALSE
