SPECIFICATION MCSpec
CONSTANTS
    Procs = {p1, p2}
    Main = Main
    Root = Root
    Caps = {"admin", "phi"}
    Effects = {"Log", "DB"}
    Setups <- ApartSetups
    MaxMade = 5
    MaxDepth = 5
    Modules = {"main", "a", "b"}
    Directory <- TwoFiles
    Types = {"T"}
    Builtins = {"max"}
    Private = {"_f"}
    Contents <- TestContents
    MaxImports = 3
    MaxCalls = 4
    Programs <- TestPrograms
    Inputs <- TestInputs
    Installed <- Providers
    KnownEffects <- Known
    Uppercase <- InUpperCase
    Parameters <- TestParameters
    Documents <- TestDocuments
    Admits <- Admit
    Described = {"t"}
    Bare = {"u"}
    Resources = {"r"}
    MaxLines = 3
INVARIANTS
    InterpreterTypeOK
    ScopesAreOwn
    ImportsAreSound
    CacheIsTransparent
    EarlyExitsUnwind
    
    ThreeViewsAgree
    ServerKeepsProtocol
CHECK_DEADLOCK FALSE
