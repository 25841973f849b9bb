SPECIFICATION Spec
CONSTANTS
    a1 = a1
    a2 = a2
    Allocations = {a1}
    Faults = {}
    MaxFaults = 0
    MaxRestarts = 2
    MaxPlans = 2
INVARIANT
    StoppedStays
CHECK_DEADLOCK FALSE
