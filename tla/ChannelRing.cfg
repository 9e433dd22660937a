CONSTANTS
    g1 = g1
    g2 = g2
    g3 = g3
    m = m
    Goroutines = {g1, g2, g3}
    Main = m
    Capacity = 2
    Programs <- AllRingClients
    Polls = 2
    TimelyWakeups = TRUE
SPECIFICATION FairSpec
CHECK_DEADLOCK FALSE
INVARIANTS FIFO ReceiversWoken SendersWoken CountersExact AbortIsDeadlock BalancedGoesOn
PROPERTIES ImplementsQueue Completes Ends
