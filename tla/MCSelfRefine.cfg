CONSTANTS
    Lengths = {1, 2, 4}
    InitialEmpty = FALSE
    Top = 4
    MaxAnswers = 6
SPECIFICATION Spec
INVARIANTS FilesAgree
PROPERTIES ImplementsLog
