SPECIFICATION Spec
CONSTANTS
    a1 = a1
    n1 = n1
    n2 = n2
    p1 = p1
    none = none
    Allocations = {a1}
    Nodes = {n1, n2}
    Approvals = {}
    NoNode = none
    Decisions = {}
    Faults = {"reply"}
    Stock = FALSE
    PlanLength = 2
    MaxRounds = 1
    MaxRecords = 16
INVARIANTS
    TypeOK
    SingleIncarnation
SYMMETRY MCNodeSymmetry
