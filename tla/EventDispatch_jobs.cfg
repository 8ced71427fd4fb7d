CONSTANTS
    Window = {w1, w2}
    NoWindow = NoWindow
    Priority = {0}
    MaxTasks = 2
    MaxDepth = 3
    MaxEnv = 2
SPECIFICATION Spec
INVARIANTS
    JobsOnEmptyStack
CHECK_DEADLOCK FALSE
