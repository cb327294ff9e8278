SPECIFICATION StudySpec
CONSTANTS
    Ceiling = 7
    Jump = 3
    MaxGlitches = 1
    Primitives <- MCPrimitives
    Sizes = {3, 5, 7}
    Preferred = {3, 7}
    Trials = 2
    Slowest = 2
    MaxFlops = 1
    Recipe <- MCRecipe
    Worst = 2
    MaxRefusals = 1
    MaxEffects = 1
    MaxGroups = 2
    MaxCalls = 3
    MaxMishaps = 1
    MaxJobs = 2
    MaxFailures = 1
    MaxSyncs = 2
    MaxRestarts = 1
    Rigs = {1, 2}
    Mounted = {1}
    MaxFixes = 2
    MaxIssues = 1
    MaxChanges = 2
    MaxDeaths = 1
CHECK_DEADLOCK FALSE
INVARIANTS
    CalibrationSound
    CacheSafe
    JobsSafe
    AdmissionSafe
