\* Two clients wait for the same job.
CONSTANTS
    c1 = c1
    c2 = c2
    NumThreads = 1
    MaxJobs = 1
    MaxSem = 3
    Clients <- TwoClients
    Ops <- OnlyWait
    CallsWhilePaused = FALSE
    Faults <- NoFaults
SPECIFICATION FairSpec
PROPERTY CallsReturn
