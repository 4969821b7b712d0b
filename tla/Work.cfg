SPECIFICATION MCSpec
CONSTANTS
    Agents = {a1, a2}
    D = D
    T = T
    N = N
    Tools = {D, T, N}
    DefineTool = D
    Setups <- TestSetups
    MaxBlocks = 2
    MaxChats = 1
    Crew = {w1, w2}
    MaxItems = 2
    Declarations <- TestPipelines
INVARIANTS
    WorkTypeOK
    CallsAreAnswered
    OnlyLateToolsAreUnknown
    WorkersLoseNothing
PROPERTIES
    ChatsEnd
    PipelineEnds
CHECK_DEADLOCK FALSE
