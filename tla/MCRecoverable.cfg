SPECIFICATION Spec
CONSTANTS
    a1 = a1
    n1 = n1
    n2 = n2
    p1 = p1
    none = none
    Allocations = {a1}
    Nodes = {n1}
    Approvals = {}
    NoNode = none
    Decisions <- MCCordon
    Faults = {}
    Stock = TRUE
    PlanLength = 2
    MaxRounds = 1
    MaxRecords = 14
INVARIANT
    Recoverable
CHECK_DEADLOCK FALSE
