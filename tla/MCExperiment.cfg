CONSTANTS
    Problems <- MCProblems
    Workers = 2
    MaxParallel = 2
    MaxCalls = 2
    Settings <- MCSettings
    MaxRuns = 3
SPECIFICATION FairSpec
INVARIANTS SettingsNeverMixed SuccessIsOnDisk PermitsBalance OneLoop CleanEnd
PROPERTIES RunEnds
CHECK_DEADLOCK FALSE
