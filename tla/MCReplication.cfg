SPECIFICATION FairSpec
CONSTANTS
    s1 = s1  s2 = s2  p1 = p1  p2 = p2
    None = None
    Stores = {s1, s2}
    Procs = {p1, p2}
    MaxEvents = 3
    MaxStops = 3
    Batch = 2
    Practices <- Run
INVARIANT OneChain
PROPERTIES WitnessedHistory   Followed
CHECK_DEADLOCK FALSE
