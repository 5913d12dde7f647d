SPECIFICATION Spec
CONSTANTS
    Addr = {d1, d2}
    None = None
    MaxCount = 1
    MayFail = FALSE
INVARIANTS
    AllocatorKeepsGoing
