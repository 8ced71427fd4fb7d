SPECIFICATION FairSpec
CONSTANTS
    Thread = {t1, t2, t3}
    MaxTasks = 4
INVARIANTS
    NoLostNotification
PROPERTIES
    WorkQueueSpec
    TasksAreRun
    FinalizeReturns
CHECK_DEADLOCK FALSE
