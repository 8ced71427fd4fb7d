CONSTANTS
    Container = {c1, c2}
    NoOne = NoOne
    Half = 1
    MaxFrames = 2
SPECIFICATION FairSpec
INVARIANTS
    WatchedWhileRunning
    KeptDataIsAlive
PROPERTIES
    AskedAfterTheLimit
    SlowIsNoticed
    StopReturns
CHECK_DEADLOCK FALSE
