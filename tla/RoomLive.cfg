CONSTANTS
    None = None
    Agents = {a, b}
    Managed = {a}
    Humans = {h}
    Owner = h
    Tasks = {}
    Budgets = {2}
SPECIFICATION LiveSpec
INVARIANTS
    NothingOutside
    WorkConserving
PROPERTIES
    FloorSpec
    DirectAddressServed
    AgentsYieldTheRoom
CHECK_DEADLOCK FALSE
