SPECIFICATION MCSpec
CONSTANTS
    mesh = mesh
    skin = skin
    worker1 = worker1
    worker2 = worker2
    Containers <- MCContainers
    Packages <- MCPackages
    GlobalRank = 1
    Width = 16
    Versions <- MCVersions
    NoVersion = NoVersion
    Workers <- MCWorkers
    Items <- AllThenMod
    NoTask = NoTask
    Cut = Cut
CONSTRAINT Instances
INVARIANT OverrideWins
INVARIANT StoreIsConsistent
INVARIANT ReportIsTrue
INVARIANT ExtractsWhatWasAsked
PROPERTY BatchEnds
