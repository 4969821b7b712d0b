SPECIFICATION SupFairSpec
CONSTANTS
    na = na
    nb = nb
    NoOne = NoOne
    TeamSize = 2
    Names <- MCNames
    Setups <- LiveSetups
    Clients = {c1}
    Kinds = {"ask"}
    Capacity = 1
    MaxRefs = 6
    MaxMsgs = 2
PROPERTIES
    CrashIsRepaired
    MethodsDoTheirWork
    ImplementsTeam
CHECK_DEADLOCK FALSE
