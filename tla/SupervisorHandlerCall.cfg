SPECIFICATION SupFairSpec
CONSTANTS
    na = na
    nb = nb
    NoOne = NoOne
    TeamSize = 2
    Names <- MCNames
    Setups <- SelfListing
    Clients = {c1}
    Kinds = {"ask"}
    Capacity = 1
    MaxRefs = 4
    MaxMsgs = 2
PROPERTIES
    StopShutsDown
CHECK_DEADLOCK FALSE
