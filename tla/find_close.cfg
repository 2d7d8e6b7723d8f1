SPECIFICATION Spec
CONSTANTS
    N = 1
    Slots = 8
    Failures = 1
INVARIANTS
    ClosesAConnection
CHECK_DEADLOCK FALSE
