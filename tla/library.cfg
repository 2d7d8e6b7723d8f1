SPECIFICATION MCSpec
CONSTANTS
    Keys <- KeysDef
    Values = {1, 2}
    TestName <- TestNameDef
    Hashes <- HashesDef
    Primes <- PrimesDef
    Prealloc = {0, 3}
    Names <- NamesDef
    Terminals = {0, 20}
    InitialSizes = {0, 50}
    HowMuch = {0, 25}
    Steps = {100, 5000}
    MaxUpdates = 4
    Ring = 2
    DotBytes = 1
    RowBytes = 2
    DotsInLine = 5
    Zeros = 10
    Writers = {a, b}
    Lines = {7, 9}
    Bars = {0, 4}
    MaxCalls = 4
    Fields <- FieldsDef
    Contents <- ContentsDef
    Version = "HTTP/1.0"
    Codes = {"200", "404"}
    Sizes = {0, 531}
    FirstYear = 1999
    LastYear = 2000
    Recent = 90
    Schemes = {"http", "ftp"}
    Ports <- PortsDef
    MaxGets = 2
    Procs = {p, q}
    Depth = 2
    Stems = {"short", "long"}
    ShortStems = {"short"}
    LongStems = {"long"}
    Others = 1
    Letters = {0, 10, 32, 37, 44, 46, 47, 52, 226}
    MaxText = 4
    BufSize = 2
    Beyond = {0, 255}
    Elements <- ElementsDef
    ShortOpts <- ShortOptsDef
    LongOpts <- LongOptsDef
    Abbreviated <- AbbreviatedDef
    MaxArgs = 3
    Places = {0, 1, 2, 3, 7, 8}
    MaxOptions = 3
INVARIANTS
    
    
    
    
    
    
    
    
    ArgumentsInOrder
    OptionsMean
PROPERTIES
    
    NeverOverwrites
    OptionsKept
CHECK_DEADLOCK FALSE
