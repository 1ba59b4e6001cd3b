SPECIFICATION Spec
CONSTANTS
    a1 = a1
    b1 = b1
    b2 = b2
    pkgP = pkgP
    pkgQ = pkgQ
    engine = engine
    w1 = w1
    w2 = w2
    Assets <- MCAssets
    Workers <- MCWorkers
    PackageOf <- MCPackageOf
    Imports <- MCImports
    External = External
    NoAsset = NoAsset
INVARIANT OkMeansComplete
INVARIANT ArcsMatchWhatIsRead
INVARIANT BulkFollowsPackageData
PROPERTY AlwaysReturns
