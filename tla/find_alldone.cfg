SPECIFICATION FairSpec
CONSTANTS
    N = 2
PROPERTIES
    AllDoneEnds
CHECK_DEADLOCK FALSE
