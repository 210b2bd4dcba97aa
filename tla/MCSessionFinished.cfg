CONSTANTS
    Functions = {"case_gen", "private_eval"}
    UsesSave = FALSE
    Maximum <- MCMaximum
    UseSameTimeScale = FALSE
    Interval = 1
    Duration = 2
    Boot = 2
    MaxNow = 5
    MaxBatch = 2
    MaxExec = 1
SPECIFICATION Spec
INVARIANTS ConcludedReadsTrue
