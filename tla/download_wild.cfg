SPECIFICATION Spec
CONSTANTS
    N = 2
    SplitLive = 2
    SplitError = 1
    Lengths = {1, 6}
    ReadSizes = {2}
    ConnRetry = 2
    Faults = {"connect", "valid", "drop", "norange", "nolength", "wild"}
INVARIANTS
    TypeOK
    InPlace
