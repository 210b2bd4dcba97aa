CONSTANTS
    p1 = p1
    p2 = p2
    Problems <- MCProblems
    MaxSessions = 2
    RunServer = TRUE
    MaxStarts = 2
    MaxFaults = 2
    MaxBytes = 16
    MaxRecords = 2
    Retention = 1
    SummaryBytes = 3
    EntryBytes = 1
    Sizes <- MCSizes
    MaxFiles = 4
    MaxIds = 2
    MaxNow = 0
    Targets <- MCTargets
SPECIFICATION Spec
INVARIANTS TypeOK NoServerOutOfReach TwoChances PrivateNeverKept WorksWithTools
SYMMETRY ProblemSymmetry
CHECK_DEADLOCK FALSE
