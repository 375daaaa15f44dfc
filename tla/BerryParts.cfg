SPECIFICATION Spec
\* Each part is bounded: in the end it can do nothing more.
CHECK_DEADLOCK FALSE
CONSTANTS
    Objects = {1, 2}
    BytesMax = 7
    BYTES_DEFAULT_SIZE = 2
    BYTES_HEADROOM = 1
    MinSize = 4
    KeepSize = 5
    Unwritten = Unwritten
    Junk = Junk
    Numbers = {200}
    Widths <- MCWidths
    Offsets <- MCOffsets
    Counts <- MCCounts
    Texts <- MCTexts
    MaxCalls = 3
    Nodes = {1, 2, 3}
    MaxStack = 2
    MaxSteps = 5
    MaxInDestructor = 1
    Blocks = {1, 2, 3}
    Sizes = {0, 16, 17, 33}
    POOL16_SLOTS = 2
    POOL32_SLOTS = 1
    PoolHead = 8
    HeapBytes = 120
    ShortTexts = {"a", "b", "c"}
    LongTexts = {"long"}
    Hash <- MCHash
    Consts <- MCConsts
    MaxStrings = 3
    MinTable = 1
    LoadFactor = 1
    Items = {1, 2}
    MaxStk = 5
    MaxBlocks = 2
    Zero = Zero
    Lies = Lies
    Lists = {1, 2}
    Elements = {1, 2}
    NilItem = NilItem
    Unsaid = Unsaid
    IndexError = IndexError
    Indexes <- MCIndexes
    Contents <- MCContents
    MaxListCalls = 3
    Keys = {"a", "b", "c", "d"}
    NoKey = NoKey
    HashOf <- MCHashOf
    MapValues = {1}
    NoValue = NoValue
    MaxMapCalls = 7
    Documents <- MCDocuments
    JsonTexts <- MCJsonTexts
    Letters <- MCLetters
    IntMax = 127
    MaxExponent = 30
    MAX_JSON_STRING_LEN = 40
    MAX_INDENT = 1
    MaxEdits = 1
    Sources <- MCSources
    Escapable <- MCEscapable
    Keywords <- MCKeywords
    Vm = Vm
    NoVm = NoVm
    Interval <- MCInterval
    DefaultInterval = 1
    MaxHttp = 3
    Ticks = 2
    Files <- MCFiles
    Requests <- MCRequests
    Pointers = {1, 2}
    AllocSizes = {3}
    HOST_ARENA_CAP = 6
    ARENA_BYTES = 4
    MaxArenaOps = 2
    Ports = {1, 2, 3, 4}
    MaxPower <- MCMaxPower
    Nameless = {4}
    Headrooms = {6, 12}
    Unlimited = 99
    PageSize = 3
    MaxHttpCalls = 3
    MaxTicks = 2
INVARIANTS
    
    ReadsBackAsWritten
    NothingFreedEarly
    BlocksApart
    EqualMeansSameText
    
    
    MapAsMeant
    LoadsExactlyJson
    DumpLoads
    TokensAsSpelled
    StringsAsMeant
    
    CannedInTurn
    
PROPERTIES
    CollectsAllGarbage
