SPECIFICATION Spec
CONSTANTS
    Addr = {d1, d2}
    None = None
    MaxCount = 2
    MayFail = TRUE
INVARIANTS
    TypeOK
    WalkMeetsLiveDummies
    ExitLeavesNothing
    LeakKept
    LeakOutlivesOnlyUnpatchedFree
    CounterCountsThisDummy
