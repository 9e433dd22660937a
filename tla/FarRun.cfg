CONSTANTS
    World = 2
    Steps = 3
    Reducing = {0, 2}
    Depth = 2
SPECIFICATION FairSpec
CHECK_DEADLOCK FALSE
INVARIANTS InStep OnlyMarkersLost DropFree SendsNeverBlock NeverStuck
PROPERTIES RunFarReturns ImplementsLinks
