SPECIFICATION SupSpec
CONSTANTS
    na = na
    nb = nb
    NoOne = NoOne
    TeamSize = 2
    Names <- MCNames
    Setups <- Growing
    Clients = {c1, c2}
    Kinds = {"ask"}
    Capacity = 1
    MaxRefs = 3
    MaxMsgs = 1
INVARIANTS
    ListingIsCorrect
CHECK_DEADLOCK FALSE
