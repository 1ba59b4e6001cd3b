SPECIFICATION ContextSpec
CONSTANTS
    thread1 = thread1
    thread2 = thread2
    thread3 = thread3
    mesh = mesh
    skin = skin
    root = root
    child = child
    private = private
    Threads <- MCThreads
    ImportedPackages <- MCPackages
    Hashes <- MCHashes
    Private = private
    ExportLists <- MCExportLists
    Inferable <- MCInferable
    Misnamed <- MCMisnamed
    NoThread = NoThread
    NoHeader = NoHeader
    Failed = Failed
    MaxLookups = 3
INVARIANT OneLoaderPerPackage
INVARIANT AnswersAgree
PROPERTY DecidesOnce
PROPERTY EveryImportIsAnswered
