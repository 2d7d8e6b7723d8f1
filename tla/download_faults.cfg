SPECIFICATION MCSpec
CONSTANTS
    N = 2
    SplitLive = 2
    SplitError = 1
    Lengths = {0, 1, 5, 9, 14}
    ReadSizes = {1, 2}
    ConnRetry = 2
    Faults = {"connect", "valid", "drop", "nolength"}
INVARIANTS
    EveryByteOwned
    FinishedIsWhole
    NoWrongByte
