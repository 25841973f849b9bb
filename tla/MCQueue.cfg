SPECIFICATION FairSpec
CONSTANTS
    t1 = t1  t2 = t2  i1 = i1  i2 = i2  r1 = r1
    None = None
    Tasks = {t1, t2}
    Instances = {i1, i2}
    Requests = {r1}
    MaxAttempts = 2
    Budget = 1
    Slow = TRUE
    Retry = FALSE
    Loads <- Run
    MaxFaults = 1
INVARIANTS CallsWithinBudget NothingInherited AttemptsBound
PROPERTIES ImplementsDelivery Served
CHECK_DEADLOCK FALSE
