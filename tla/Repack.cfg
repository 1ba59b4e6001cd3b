SPECIFICATION MCSpec
CONSTANTS
    Count = 3
    zlib = zlib
    lz4 = lz4
    aes = aes
    newAes = newAes
    AesBlock = 2
    BlockSize = 4
    PackedLen <- MCPackedLen
    NoMethod = NoMethod
    NoKey = NoKey
    Methods <- MCMethods
    MethodLists <- MCMethodLists
    InputKeys <- MCInputKeys
    OutputKeys <- MCOutputKeys
    Contents <- MCContents
    OffsetLimit = 12
INVARIANT OriginalsSurvive
INVARIANT RestoredMeansUntouched
INVARIANT PublishedReadsBack
INVARIANT RewrittenInPlace
PROPERTY SwapsAtomically
