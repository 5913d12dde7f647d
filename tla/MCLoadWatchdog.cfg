SPECIFICATION FairSpec
CONSTANT CountMod = 16
INVARIANTS
    TypeOK
    FaultNeedsLateKick
PROPERTIES
    ImplementsWatch
    StarvedFallsSilent
CHECK_DEADLOCK FALSE
