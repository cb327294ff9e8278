SPECIFICATION AuthoritySpec
CONSTANTS
    MaxSyncs = 2
    MaxRestarts = 1
CHECK_DEADLOCK FALSE
INVARIANTS
    SyncExcludesStart
