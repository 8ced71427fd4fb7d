SPECIFICATION FairSpec
CONSTANTS
    MaxTimeout = 2
    Delay = {0, 2}
    MaxTime = 2
    MaxDepth = 2
    MaxScript = 2
    CheckEvery = 1
    AllowedEarly = 1
    Millisecond = 3
INVARIANTS
    ExecutorIsScheduled
    NoReentrantCallback
PROPERTIES
    AlarmsSpec
    InDeadlineOrder
    ClearedIsNotCalled
    TimeoutsFire
CHECK_DEADLOCK FALSE
