CONSTANTS
    w1 = w1
    w2 = w2
    g1 = g1
    g2 = g2
    g3 = g3
    m = m
    NULL = NULL
    Workers = {w1, w2}
    Goroutines = {g1, g2, g3}
    Main = m
    Programs <- AllPrograms
SPECIFICATION FairSpec
CHECK_DEADLOCK FALSE
INVARIANTS SafeToSwitch OnePlace NoRunAfterFree CountExact
PROPERTIES WaitIsBarrier StartedFinishes
