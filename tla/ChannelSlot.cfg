CONSTANTS
    g1 = g1
    g2 = g2
    g3 = g3
    m = m
    Goroutines = {g1, g2, g3}
    Main = m
    Capacity = 0
    Programs <- AllSlotClients
    Polls = 2
    TimelyWakeups = TRUE
SPECIFICATION FairSpec
CHECK_DEADLOCK FALSE
INVARIANT RendezvousDelivers
PROPERTY Completes
