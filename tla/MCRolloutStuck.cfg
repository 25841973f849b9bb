SPECIFICATION FairSpec
CONSTANTS
    v1 = v1  v2 = v2
    None = None
    Nodes = {1, 2, 3}
    Domain <- OwnDomain
    Capacity = 2
    Ceiling = 1
    Images = {v1, v2}
    First = v1
    Cases <- Rolling
    TTL = 2
    Cooldown = 2
    Window = 5
    Base = 1
    Cap = 3
    MaxDisruptions = 3
    Attempts = 3
    Batch = 2
    MaxRounds = 2
    Slack = 1
PROPERTY Rebuilt
