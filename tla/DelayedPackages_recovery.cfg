CONSTANTS
    Package = {p1, p2}
    MaxImports = 4
    MaxFaults = 3
SPECIFICATION Spec
INVARIANT
    BackupIsOldContent
SYMMETRY PackageSymmetry
CHECK_DEADLOCK FALSE
