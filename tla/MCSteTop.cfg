SPECIFICATION Spec
CONSTANTS
    Writer = {w1, w2}
    Record = {r1, r2}
    Node = {n1, n2, n3}
    Null = Null
    Wild = Wild
    Step = 1
    MaxTasks = 2
SYMMETRY Symmetry
INVARIANTS
    TypeOK
    FaultNeedsRaceOrFailedGrowth
    ExitFreesRecords
CHECK_DEADLOCK FALSE
