SPECIFICATION DBSpec
CONSTANTS
    Users = {u1}
    Keys = {k1}
    TxKinds = {"closure"}
    MaxStatements = 3
    MaxTables = 3
PROPERTIES
    TransactionCommits
CHECK_DEADLOCK FALSE
