SPECIFICATION FairSpec
CONSTANTS
    Processes = {p1, p2}
    Builds = {1, 2, 3}
    MaxWrites = 2
    MaxFaults = 4
    ConcurrentReclaims = FALSE
    None = None
    Dead = Dead
INVARIANTS
    NothingLost
    OriginalKept
    LockExclusive

    
