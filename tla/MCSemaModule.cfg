SPECIFICATION FairSpec
CONSTANTS
    Procs = {p1, p2, p3}
    MaxLoads = 2
INVARIANTS
    TypeOK
    NobodyWaitsForNobody
PROPERTIES
    ImplementsLock
    WaiterServed
CHECK_DEADLOCK FALSE
