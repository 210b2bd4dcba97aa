SPECIFICATION StoreSpec
CONSTANTS
    MaxBytes = 12
    MaxRecords = 3
    Retention = 1
    SummaryBytes = 3
    EntryBytes = 1
    Sizes <- MCSizes
    MaxFiles = 2
    MaxIds = 5
    MaxNow = 1
INVARIANTS WithinQuota WholeOrNoDetails
PROPERTIES EvictsOldestFirst EvictsOnlyWhenNeeded ForgetsOnlyWhenNeeded LifetimeFromCompletion
