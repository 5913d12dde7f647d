SPECIFICATION Spec
CONSTANTS
    KICK = 5
    TIMEOUT = 10
    MaxLag = 2
    Punctual = TRUE
    CountMod = 16
INVARIANTS
    NoFalseAlarm
CHECK_DEADLOCK FALSE
