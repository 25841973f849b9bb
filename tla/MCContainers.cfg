SPECIFICATION FairSpec
CONSTANTS
    a1 = a1  a2 = a2  i1 = i1  i2 = i2  key = key  cert = cert
    v1 = v1  v2 = v2  p1 = p1  p2 = p2
    None = None
    Allocs = {a1,a2}
    Images = {i1, i2}
    Secrets = {key}
    Versions = {v1, v2}
    Paths = {p1, p2}
    Base <- Apart
    Needs = {"secret", "network", "volume"}
    Goals <- Submitted
    Collecting = {FALSE, TRUE}
    Capacity = 5
    Faults = {"lost", "plugin", "timeout", "disk", "restart"}
    MaxFaults = 1
INVARIANTS
    CredentialsReleased
    NamespaceReleased
    
    SecretsPromised

    
CHECK_DEADLOCK FALSE
