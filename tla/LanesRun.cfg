CONSTANTS
    Count = 4
    Steps = 4
    Radius = 2
    Workers = 4
    Reducing = {2, 3}
SPECIFICATION FairSpec
CHECK_DEADLOCK FALSE
INVARIANTS HaloCurrent CollectiveSendsFree ReduceInOrder ReturnsFinished NeverStuck
PROPERTY RunReturns
