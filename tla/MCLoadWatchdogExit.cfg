SPECIFICATION Spec
CONSTANT CountMod = 12
INVARIANT AllWorkDone
CHECK_DEADLOCK FALSE
