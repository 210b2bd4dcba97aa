CONSTANTS
    Functions = {"code_run", "case_gen", "case_eval", "case_gen_eval", "private_eval",
                 "local_visualization"}
    UsesSave = FALSE
    Maximum <- MCMaximum
    UseSameTimeScale = FALSE
    Interval = 1
    Duration = 2
    Boot = 2
    MaxNow = 5
    MaxBatch = 2
    MaxExec = 2
SPECIFICATION Spec
INVARIANTS LogWithinBudget PrivateEndsSession OverrunByOneCall
