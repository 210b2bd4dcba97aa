CONSTANTS
    Functions = {"case_gen_eval", "public_eval", "private_eval"}
    UsesSave = TRUE
    Maximum <- MCRestartMaximum
    UseSameTimeScale = TRUE
    Interval = 2
    Duration = 3
    Boot = 3
    MaxNow = 7
    MaxBatch = 1
    MaxExec = 1
SPECIFICATION Spec
INVARIANTS PublicRate
PROPERTIES ImplementsBudget
