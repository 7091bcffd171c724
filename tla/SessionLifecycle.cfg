SPECIFICATION Spec
CONSTANTS
    Agents = {builder}
    Managed = {builder}
    Threads = {u1, u2}
    Terms = {t1, t2}
    MaxRevision = 2
    MaxCalls = 2
    MayCrash = TRUE
    None = None
SYMMETRY Symmetry
INVARIANTS AckIsForItsText WorkHasAgreement LiveSessionHasItsTask
PROPERTIES FinishedStays
CHECK_DEADLOCK FALSE
