SPECIFICATION Spec
CONSTANTS
    Tasks <- MCTasks
    Size <- MCSize
    Options <- MCOptions
    INIT_PROCS = 1
    THREAD_MULT = 2
    Word = 5
    MaxRecs = 5
    MaxTicks = 2
    MaxChanges = 3
INVARIANTS
    TypeOK
    RecordsOwnedOnce
    MixedNeedsReuse
    WrappedNeedsEnd
    LargestShown
    DivideNeedsNoDelay
CHECK_DEADLOCK FALSE
