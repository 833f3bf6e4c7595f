SPECIFICATION Spec
CONSTANTS
    MayFail = {}
INVARIANTS
    JoinsWaitForEnd
CHECK_DEADLOCK FALSE
