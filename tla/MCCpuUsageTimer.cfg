SPECIFICATION MCSpec
CONSTANTS
    NCpus = 3
    Word = 16
    MaxTicks = 2
    MaxSum = 3
INVARIANTS
    TypeOK
    FaultNeedsRunningCallback
    OffNeedsMixed
PROPERTY KeepsSampling
CHECK_DEADLOCK FALSE
