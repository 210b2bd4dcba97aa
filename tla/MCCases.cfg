CONSTANT
    Settings <- MCSettings
SPECIFICATION FairSpec
INVARIANTS ContainersExclusive NoStraysLeft ResultsMatchCases OneCaseNeverFailsTheOthers
PROPERTIES EndsUnlessDrained
CHECK_DEADLOCK FALSE
