SPECIFICATION Spec
CONSTANTS
    N = 2
    Slots = 8
    Failures = 2
INVARIANTS
    OwnDescriptors
    HarmlessAlone
    DescriptorsCounted
CHECK_DEADLOCK FALSE
