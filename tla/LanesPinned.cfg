CONSTANTS
    Count = 3
    Steps = 2
    Radius = 1
    Workers = 2
    Reducing = {}
SPECIFICATION FairSpec
CHECK_DEADLOCK FALSE
PROPERTY RunReturns
