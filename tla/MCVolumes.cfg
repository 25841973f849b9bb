SPECIFICATION Spec
CONSTANTS
    n1 = n1  n2 = n2  a1 = a1  a2 = a2  s1 = s1  s2 = s2
    None = None
    Damaged = Damaged
    Nodes = {n1, n2}
    Allocs = {a1, a2}
    Snaps = {s1, s2}
    Goals <- Declared
    Reuse = FALSE
    Faults = {"unsaved", "crash", "rot"}
    MaxFaults = 1
    MaxWrites = 1
    MaxGen = 3
INVARIANTS
    OneWriter
    BackupIsSnapshot
    

    
    
SYMMETRY Symmetry
CHECK_DEADLOCK FALSE
