SPECIFICATION FairSpec
CONSTANTS
    KICK = 2
    TIMEOUT = 4
    MaxLag = 0
    Punctual = FALSE
    CountMod = 16
INVARIANTS
    TypeOK
    QuietBound
    FaultNeedsLateKick
    FeederQuiescent
PROPERTIES
    ImplementsWatch
    StarvedKeepsReporting
CHECK_DEADLOCK FALSE
