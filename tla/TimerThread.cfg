CONSTANTS
    Timer = {t1, t2}
    Delay = {0, 2}
    Early = 1
    Millisecond = 2
    MaxTime = 4
    MaxCalls = 3
    MaxDepth = 2
SPECIFICATION FairSpec
INVARIANTS
    SharedTimersAreWhole
    ComesOnce
PROPERTIES
    NeverEarly
    TimersFire
    StopReturns
CHECK_DEADLOCK FALSE
