SPECIFICATION MCSpec
CONSTANTS
    Users = {u1, u2}
    Keys = {k1, k2}
    TxKinds = {"closure", "host"}
    MaxStatements = 3
    MaxTables = 3
    Goroutines = {g1, g2}
    Paths = {f1}
    MaxWrites = 2
    MaxInodes = 3
    MaxCrashes = 1
    Addresses = {a1, a2}
    Shared = shared
    NoFlow = none
    Requests = {r1, r2, r3, r4}
    Rate = 2
    Second = 3
    MaxTime = 4
    Names = {"Logger", "CORS", "Recover", "RequestID", "JWT", "RateLimit", "Jwt"}
    MaxChain = 3
    Blank = Blank
    Texts <- TestTexts
    Parts <- TestParts
    Methods = {GET}
    MaxRoutes = 2
    MaxSegments = 2
    MaxPrefix = 1
SYMMETRY Symmetry
INVARIANTS
    BackendTypeOK
    HostRowsAreCommitted
    WritesAreWhole
    DeclarationOrder
    PanicsAreCaught
    DocumentIsTrue
PROPERTIES
    HostsAreIsolated
    NothingReplacedUnseen
    ImplementsLimiter
CHECK_DEADLOCK FALSE
