\* thpool_destroy polls thread_alive without the mutex.
CONSTANTS
    c1 = c1
    c2 = c2
    NumThreads = 2
    MaxJobs = 1
    MaxSem = 3
    Clients <- OneClient
    Ops <- NoPause
    CallsWhilePaused = FALSE
    Faults <- NoFaults
SPECIFICATION Spec
INVARIANT DestroyedAfterThreads
