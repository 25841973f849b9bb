SPECIFICATION FairSpec
CONSTANTS
    a = a
    b = b
    v1 = v1
    v2 = v2
    None = None
    Workloads = {a, b}
    Images = {v1, v2}
    First = v1
    Reachable = {1}
    TTL = 3
    Hold = 1
    Steps <- Ladder
    MaxRounds = 4
    Cases <- Run
INVARIANT Measured
 
INVARIANT RouteKept
INVARIANT WeightsExact
 
PROPERTY PolicyFirst
PROPERTY NewcomerRestartsHold
