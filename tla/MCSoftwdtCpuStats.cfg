SPECIFICATION Spec
CONSTANTS
    CPU = 2
    Nested = TRUE
    MaxTime = 2
    Word = 16
INVARIANTS
    TypeOK
    UsageInRange
    InterruptInRange
CHECK_DEADLOCK FALSE
