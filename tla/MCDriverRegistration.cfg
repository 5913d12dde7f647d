SPECIFICATION Spec
INVARIANTS
    TypeOK
    CallbacksLive
    Balanced
CHECK_DEADLOCK FALSE
