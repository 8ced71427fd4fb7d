CONSTANTS
    Package = {p1, p2}
    MaxImports = 4
    MaxFaults = 3
SPECIFICATION Spec
INVARIANTS
    DelayIsSingle
    OldVersionIsSaved
PROPERTY
    LastCopyIsKept
SYMMETRY PackageSymmetry
CHECK_DEADLOCK FALSE
