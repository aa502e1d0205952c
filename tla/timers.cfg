\* Every container, calls in any order, ticks delayed and up to a second long.
CONSTANTS
    t1 = t1
    t2 = t2
    t3 = t3
    t4 = t4
    Null = Null
    Timer <- FourTimers
    N = 2
    Kinds <- AllKinds
    Delays <- UpTo3
    MaxTime = 4
    TickTimes <- ShortTicks
    AnyUse = FALSE
SYMMETRY TimerSymmetry
SPECIFICATION Spec
INVARIANTS
    TypeOK
    HoldsArmed
    EarliestFirst
    AlarmInTime
    NoFault
PROPERTIES
    FiresInTurn
    TickFiresAll
    ImplementsContract
