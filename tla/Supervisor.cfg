SPECIFICATION SupSpec
CONSTANTS
    na = na
    nb = nb
    NoOne = NoOne
    TeamSize = 2
    Names <- MCNames
    Setups <- SafetySetups
    Clients = {c1, c2}
    Kinds = {"ask"}
    Capacity = 1
    MaxRefs = 4
    MaxMsgs = 3
INVARIANTS
    SupTypeOK
    NoneIsForgotten
    NoFault
    StoppedTeamIsDown
    CrashBudget
SYMMETRY ClientSymmetry
CHECK_DEADLOCK FALSE
