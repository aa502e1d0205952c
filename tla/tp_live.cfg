\* One client that adds jobs, waits and destroys; nothing is paused.
CONSTANTS
    c1 = c1
    c2 = c2
    NumThreads = 2
    MaxJobs = 3
    MaxSem = 3
    Clients <- OneClient
    Ops <- NoPause
    CallsWhilePaused = FALSE
    Faults <- NoFaults
SPECIFICATION FairSpec
PROPERTIES
    ImplementsJobPool
    EveryJobEnds
    CallsReturn
    InitEnds
