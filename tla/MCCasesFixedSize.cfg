CONSTANT
    Settings <- MCReactive
SPECIFICATION Spec
INVARIANTS FixedSize
CHECK_DEADLOCK FALSE
