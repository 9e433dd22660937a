SPECIFICATION Spec
CONSTANTS
    MaxChain = 2
    MaxDefers = 3
    MaxFrames = 3
    MaxArenas = 3
    MaxLabels = 3
    Programs <- SoundPrograms
INVARIANTS
    NeverFallsOff
    AliveWhenUsed
    ReleasedOnExit
    DefersAsInGo
    EndsAsInGo
CHECK_DEADLOCK FALSE
