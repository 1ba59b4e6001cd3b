SPECIFICATION Spec
CONSTANTS
    t1 = t1
    t2 = t2
    global = global
    pakchunk0 = pakchunk0
    pakchunk1 = pakchunk1
    mod = mod
    key1 = key1
    key2 = key2
    NoKey = NoKey
    NoObjects = NoObjects
    Capacity = 2
    Threads <- MCThreads
    Paths <- MCPaths
    Cacheable <- GamePaths
    Configs <- MCConfigs
    MaxOpens = 4
    MaxUpdates = 2
CONSTRAINT Instances
INVARIANT EntriesMatchTheirKeys
INVARIANT OpenIsFresh
PROPERTY LastUsedSurvives
SYMMETRY Symmetry
