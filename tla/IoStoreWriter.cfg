SPECIFICATION Spec
CONSTANTS
    p1 = p1
    bulk = bulk
    headerId = headerId
    pathA = pathA
    pathB = pathB
    zlib = zlib
    aes = aes
    AesBlock = 2
    BlockSize = 4
    PackedLen <- MCPackedLen
    NoMethod = NoMethod
    NoKey = NoKey
    PackageIds <- MCPackageIds
    OtherIds <- MCOtherIds
    HeaderId = headerId
    Paths <- MCPaths
    NoPath = NoPath
    Outside = Outside
    Data <- MCData
    Methods <- MCMethods
    Keys <- MCKeys
    NoEntry = NoEntry
    MaxChunks = 3
    OffsetLimit = 16
INVARIANT BlocksTileCas
INVARIANT ReadsBackWhatWasWritten
INVARIANT PackageAndStoreEntryAgree
INVARIANT PathsLeadToTheirChunk
