\* The calls of pause_resume.c: pause, add, add, resume.
CONSTANTS
    c1 = c1
    c2 = c2
    NumThreads = 1
    MaxJobs = 2
    MaxSem = 3
    Clients <- OneClient
    Ops <- PauseResume
    CallsWhilePaused = TRUE
    Faults <- NoFaults
SPECIFICATION FairSpec
PROPERTY CallsReturn
CHECK_DEADLOCK FALSE
