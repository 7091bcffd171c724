SPECIFICATION Safe
CONSTANTS
    Drops <- MCDrops2
    MainGates = {g1}
    Held <- MCBoth
    Reports <- MCOneReport
    Edits <- MCNothing
    Rosters <- MCNothing
    MaxCalls = 1
    CommitMayFail = TRUE
    None = None
INVARIANTS SnapshotTotal DecidedBeforeExtension
