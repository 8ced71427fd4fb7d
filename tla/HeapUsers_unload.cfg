CONSTANTS
    Task = {t1, t2}
    MaxLoads = 2
SPECIFICATION FairSpec
PROPERTY
    UnloadReturns
CHECK_DEADLOCK FALSE
