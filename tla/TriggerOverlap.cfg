SPECIFICATION Spec
CONSTANTS
    start1 = start1
    start2 = start2
    sim1 = sim1
    emergency1 = emergency1
    override1 = override1
    stop1 = stop1
    stop2 = stop2
    force1 = force1
    Requests = {start1, start2, emergency1, override1}
    Kind <- MCKind
    MaxRuns = 3
    MaxFaults = 1
CHECK_DEADLOCK FALSE
INVARIANTS
    OneScheduler
    PublishedSettles
