SPECIFICATION MCSpec
CONSTANTS
    Producers = {p1, p2}
    Free = Free
    BufferSize = 4
    Word = 8
    MaxPush = 5
    MaxBytes = 9
    Timers = {t1, t2}
    None = None
    MaxCalls = 3
    MaxDue = 3
INVARIANTS RingIntact StopStops AliveIsArmed
PROPERTIES ImplementsByteQueue KeepsTicking
CHECK_DEADLOCK FALSE
