SPECIFICATION MCSpec
CONSTANTS
    N = 3
    SplitLive = 2
    SplitError = 1
    Lengths = {5}
    ReadSizes = {1}
    ConnRetry = 2
    Faults = {}
INVARIANTS
    CompletedMeansWhole
