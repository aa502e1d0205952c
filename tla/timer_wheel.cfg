\* The wheel with adjust_timer called on any timer.
CONSTANTS
    t1 = t1
    t2 = t2
    t3 = t3
    t4 = t4
    Null = Null
    Timer <- ThreeTimers
    N = 2
    Kinds <- OnlyWheel
    Delays <- UpTo3
    MaxTime = 4
    TickTimes <- ShortTicks
    AnyUse = TRUE
SPECIFICATION Spec
INVARIANT PredecessorKnown
