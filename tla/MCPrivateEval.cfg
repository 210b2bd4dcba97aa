CONSTANTS
    Codes = {"a", "b"}
    Scores = {1}
    Worst = 2
    Lengths = {1, 3, 4}
    Top = 4
    MaxEvals = 4
SPECIFICATION Spec
INVARIANTS CacheNeverStale AbortsOnlyAfterFailure EverySolutionAdmitted
PROPERTIES KeepsResults
