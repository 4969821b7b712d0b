SPECIFICATION MCSpec
CONSTANTS
    Kinds = {"send", "ask", "chat"}
    Clients = {c1, c2}
    Capacity = 2
    MaxRefs = 1
    MaxMsgs = 4
    Systems = {"rabbit", "sqs", "kafka"}
    Workers = {w1, w2}
    MaxMessages = 2
    MaxFaults = 2
INVARIANTS
    MessagingTypeOK
    GracefulStopDrains
    AtMostOnce
    TruthfulOutcome
    NothingLost
PROPERTIES
    NobodyWaitsForever
    ImplementsInbox
    AcksAreForTheirOwn
    SQSDelivers
CHECK_DEADLOCK FALSE
