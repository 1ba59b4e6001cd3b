SPECIFICATION SortSpec
CONSTANTS
    ExportCount = 3
    Preloads <- UpToThree
INVARIANT TopologicalOrder
INVARIANT ErrorMeansCycle
INVARIANT LateOnlyIfForced
