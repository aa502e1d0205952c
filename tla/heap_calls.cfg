\* One call on every ordered heap of up to seven timers.
CONSTANTS
    Null = Null
    Timer <- SevenTimers
    MaxSize = 7
    Keys <- FourKeys
SPECIFICATION Spec
INVARIANTS
    OrderKept
    ContentsExact
