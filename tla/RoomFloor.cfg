CONSTANTS
    None = None
    Agents = {a, b}
    Managed = {a, b}
    Humans = {h}
    Owner = h
    Tasks = {t}
    Budgets = {1, 2}
SPECIFICATION JoinedSpec
SYMMETRY AgentSymmetry
INVARIANTS
    TypeOK
    FloorMatchesQueue
PROPERTIES
    QueueIsFair
    ReviewFollowsLead
CHECK_DEADLOCK FALSE
