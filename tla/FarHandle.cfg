CONSTANTS
    World = 2
    Steps = 3
    Reducing = {0, 2}
    Depth = 2
SPECIFICATION Spec
CHECK_DEADLOCK FALSE
INVARIANT HandlesValid
