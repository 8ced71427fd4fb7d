CONSTANTS
    Window = {w1, w2}
    NoWindow = NoWindow
    Priority = {0, 3}
    MaxTasks = 2
    MaxDepth = 4
    MaxEnv = 3
SPECIFICATION FairSpec
INVARIANTS
    NoLostWakeup
    RunToCompletion
    PutsAreClean
PROPERTIES
    MailboxSpec
    QueuesDrain
CHECK_DEADLOCK FALSE
