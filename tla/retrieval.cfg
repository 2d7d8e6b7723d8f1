SPECIFICATION MCSpec
CONSTANTS
    Stream = {0, 4}
    Lengths = {1, 3}
    PeekMax = 2
    TORetry = 1
    LineEnds = {2}
    Begins = {0, 2}
    DocLength = 3
    Nothing = Nothing
    HttpBegins = {0, 1}
    HttpLength = 2
    Heads = {2, 3}
    Garbage = {0, 1, 2}
    RBuff = 5
    Unknown = Unknown
    Bandwidths = {0, 1, 2, 3}
    Limits = {1, 2}
    MaxRules = 3
    NameLengths = {3, 255}
    DataLengths = {1}
    Rates = {7}
    MaxStreams = 2
    MaxLines = 2
    SessionIds = {5}
    Numbers = {9}
    Payloads = {1, 2}
    ReadLengths = {2, 5}
    MaxItems = 3
    HeaderLength = 3
INVARIANTS
    BytesInOrder
    ShortForAReason
    
    DocumentOnly
    MatchesAreTrue
    
    RequestsNumbered
    
PROPERTIES
    AttemptsEnd
    FtpRetrieves
    HttpRetrieves
CHECK_DEADLOCK FALSE
