CONSTANTS
    Task = {t1, t2, t3}
    MaxLoads = 3
SPECIFICATION FairSpec
INVARIANTS
    SettledInItsGlobal
    WorkersMeetAHeap
PROPERTY
    PromisesAreSettled
CHECK_DEADLOCK FALSE
