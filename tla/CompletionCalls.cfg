SPECIFICATION Spec
CONSTANTS
    Drops <- MCDrops1
    MainGates = {g1}
    Held <- MCBoth
    Reports <- MCNothing
    Edits <- MCAccept
    Rosters <- MCRosters
    MaxCalls = 2
    CommitMayFail = FALSE
    None = None
INVARIANTS ApprovedIsReviewed CompleteIsRecorded
PROPERTIES CompletionProven EvaluationEnds
