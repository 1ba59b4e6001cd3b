SPECIFICATION LibrarySpec
CONSTANTS
    Libraries <- MCLibraries
    MaxGroupSize = 4
    Extracted <- MCExtracted
    Capacity = 2
    InFlight = 2
INVARIANT ArchiveSurvives
INVARIANT LayoutSound
PROPERTY LayoutEnds
