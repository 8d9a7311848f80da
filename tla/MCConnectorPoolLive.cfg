SPECIFICATION FairSpec
CONSTANTS
    Ids = {handle}
    EngineOnly = {}
    Requests = {r1, r2}
    Callers = {op}
    Conns = {c1, c2, c3}
    NoConn = NoConn
    NoId = NoId
    NoEntry = NoEntry
    MaxEntries = 1
    ReopenAttempts = 3
    MaxCred = 0
    MaxDegraded = 0
    MaxStatements = 1
PROPERTIES
    PoolSettles
CHECK_DEADLOCK FALSE
