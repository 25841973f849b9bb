SPECIFICATION FairSpec
CONSTANTS
    a1 = a1
    a2 = a2
    Allocations = {a1, a2}
    Faults = {"persist", "reply", "crash", "reboot", "exit", "outage", "cut"}
    MaxFaults = 2
    MaxRestarts = 1
    MaxPlans = 2
INVARIANT IntentDurable

    
CHECK_DEADLOCK FALSE
