SPECIFICATION FairSpec
CONSTANTS
    photo = photo
    probe = probe
    s1 = s1
    s2 = s2
    STOP = STOP
    Worker = Worker
    Free = Free
    Jobs = {photo, probe}
    Stoppers = {s1, s2}
    Priority <- MCPriority
    RejectIfBusy = {probe}
    Deadlined = {photo}
    Crashing = {photo}
    TimedOutCalls = {probe}
    MaxQueue = 2
CHECK_DEADLOCK FALSE
INVARIANTS
    TypeInv
    FuturesKept
    ClosedOnceAfterUse
PROPERTIES
    AcceptedJobsSettle
    StopEndsWorker
