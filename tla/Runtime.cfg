SPECIFICATION RuntimeSpec
CONSTANTS
    c1 = c1
    Calls = {c1}
    MaxStarts = 3
    Rigs = {1, 2}
    MaxBoots = 2
    MaxLives = 3
    MaxRuns = 2
    MaxUnwritten = 1
    RingSize = 2
    ReadLimit = 1
    MaxEntries = 4
    MaxRuntimes = 2
    MaxPortals = 2
CHECK_DEADLOCK FALSE
INVARIANTS
    CleanupAlone
    RecoverySafe
    RelayFaithful
PROPERTIES
    CallsKeepPromise
    TerminationEnds
    LostRunsShown
