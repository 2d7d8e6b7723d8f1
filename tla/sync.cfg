SPECIFICATION FairSpec
CONSTANTS
    N = 4
INVARIANTS
    FarewellsAccounted
    CompletedMeansAllDone
    OthersWaitForFirst
    GivesUpForAReason
PROPERTIES
    OnlyLostSignalsHang
CHECK_DEADLOCK FALSE
