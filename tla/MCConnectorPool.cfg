SPECIFICATION Spec
CONSTANTS
    Ids = {handle, engine}
    EngineOnly = {engine}
    Requests = {r1, r2}
    Callers = {op}
    Conns = {c1, c2, c3}
    NoConn = NoConn
    NoId = NoId
    NoEntry = NoEntry
    MaxEntries = 1
    ReopenAttempts = 3
    MaxCred = 1
    MaxDegraded = 1
    MaxStatements = 1
SYMMETRY Symmetry
INVARIANTS
    TypeOK
    StatementKeepsSession
    CacheHolds
PROPERTIES
    OpensAsAsked
    ImplementsLease
CHECK_DEADLOCK FALSE
