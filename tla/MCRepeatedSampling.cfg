CONSTANTS
    NumSamples = 3
    MaxWorkers = 2
    MaxAnswers = 5
SPECIFICATION FairSpec
INVARIANTS FilesAgree
PROPERTIES KeepsSamples RunEnds
