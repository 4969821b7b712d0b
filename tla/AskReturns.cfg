SPECIFICATION FairSpec
CONSTANTS
    Kinds = {"send", "ask", "chat"}
    Clients = {c1, c2}
    Capacity = 1
    MaxRefs = 1
    MaxMsgs = 3
PROPERTIES
    AskReturns
CHECK_DEADLOCK FALSE
