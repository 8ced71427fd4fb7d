CONSTANTS
    MaxGlobals = 3
    MaxFrames = 6
SPECIFICATION Spec
INVARIANTS
    CalledAfterItsLoad
    ErrorIsShown
    NothingIsLeft
    GraphicsOfThePaint
    OnlyKnownFaults
    NeverSilentlyDead
CHECK_DEADLOCK FALSE
