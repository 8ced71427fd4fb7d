CONSTANTS
    MaxFrames = 6
    MaxInputs = 4
SPECIFICATION FairInputSpec
INVARIANTS
    RepaintIsTimed
    SelectionFollowsFocus
PROPERTIES
    RepaintIsDone
CHECK_DEADLOCK FALSE
