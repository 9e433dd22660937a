SPECIFICATION Spec
CONSTANTS
    MaxChain = 2
    MaxDefers = 3
    MaxFrames = 3
    MaxArenas = 3
    MaxLabels = 3
    Programs <- ContinuePrograms
INVARIANTS
    ReleasedOnExit
CHECK_DEADLOCK FALSE
