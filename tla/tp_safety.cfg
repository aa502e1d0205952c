\* Two workers, two clients that use every function, every failure of init.
CONSTANTS
    c1 = c1
    c2 = c2
    NumThreads = 2
    MaxJobs = 2
    MaxSem = 2
    Clients <- TwoClients
    Ops <- AllOps
    CallsWhilePaused = FALSE
    Faults <- AllFaults
SYMMETRY ClientSymmetry
SPECIFICATION Spec
INVARIANTS
    TypeOK
    CountersExact
    NoStrandedJob
    JobInOnePlace
    FullyStaffed
    FreedAfterWork
PROPERTIES
    WaitReturnsDone
