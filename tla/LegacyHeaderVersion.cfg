SPECIFICATION HeadersSpec
CONSTANTS
    plain = plain
    magic = magic
    magicOld = magicOld
    german = german
    Ids <- MCIds
    Entries <- MCEntries
    Cultures <- MCCultures
    Containers <- MCContainers
    AfterMagic <- MCAfterMagic
    NoVersion = 9
    NoOverride = 9
    NoPackage = 0
    MaxAdded = 3
    LegacyPackages <- MCLegacyPackages
    Fallbacks <- MCFallbacks
    ZenPackages <- MCZenPackages
    Parts = {"legacy"}
INVARIANT VersionIsFound
