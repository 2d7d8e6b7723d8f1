SPECIFICATION FairSpec
CONSTANTS
    N = 3
PROPERTIES
    AvailableStartsOthers
CHECK_DEADLOCK FALSE
