SPECIFICATION Spec
CONSTANTS
    s1 = s1
    s2 = s2
    s3 = s3
    h1 = h1
    h2 = h2
    Sessions = {s1, s2}
    Rigs = {1, 2}
    Bindings = {7}
    MaxServers = 2
    MaxWorkers = 2
    MaxConfigs = 2
    MaxFaults = 1
    Handlers = {h1, h2}
    Captures = {1, 2}
    Constrained = TRUE
    MaxPrepared = 2
    MaxLeases = 2
    MaxGenerations = 2
    MaxFailures = 1
SYMMETRY Symmetric
CHECK_DEADLOCK FALSE
INVARIANTS
    LeasesHonoured
    CapturesOwned
PROPERTIES
    LeasePromise
