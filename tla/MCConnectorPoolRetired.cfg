SPECIFICATION Spec
CONSTANTS
    Ids = {engine}
    EngineOnly = {engine}
    Requests = {r1}
    Callers = {op}
    Conns = {c1, c2}
    NoConn = NoConn
    NoId = NoId
    NoEntry = NoEntry
    MaxEntries = 1
    ReopenAttempts = 3
    MaxCred = 1
    MaxDegraded = 0
    MaxStatements = 1
PROPERTY RetiredCredentialNeverQueried
CHECK_DEADLOCK FALSE
