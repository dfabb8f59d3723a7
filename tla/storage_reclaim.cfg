SPECIFICATION Spec
CONSTANTS
    Processes = {p1, p2, p3}
    Builds = {1}
    MaxWrites = 0
    MaxFaults = 1
    ConcurrentReclaims = TRUE
    None = None
    Dead = Dead
PROPERTY LiveOwnerKept
