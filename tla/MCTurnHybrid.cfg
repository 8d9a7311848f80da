SPECIFICATION MCSpec
CONSTANTS
    a = a  b = b  amb = amb  bad = bad  x = x  y = y
    Stmts = {a, b, amb, bad}
    Valid = {a, b, amb}
    Pending = {amb}
    Rows = {x, y}
    Confs <- MCConfs
    ExplainTimeout = 1
    Ceiling = 3
    MaxTime = 5
    NoStmt = NoStmt  NoJob = NoJob  NoResult = NoResult  NoTable = NoTable
    Symbols = {"<", "s", "/", "x"}
    MaxReply = 5
    t1 = t1  t2 = t2
    Tasks = {t1, t2}
    MaxRetries = 3
    TopK = 2  PairsWanted = 1  CapsuleFactor = 2  PairFactor = 2  MaxHits = 3
    a1 = a1  a2 = a2  s1 = s1  s2 = s2
    Agents = {a1, a2}
    Subjects = {s1, s2}
    Operator = Operator
    GrantFiles <- MCGrantFiles
    g1 = g1  g2 = g2
    Sessions = {g1, g2}
    Databases = {d1, d2}
    Filters = {core, opaque}
    Unfiltered = core
    Undeclared = {opaque}
    MaxCalls <- MCMaxCalls
    Rebinds = 1
    Refusals = 1
    NoAnswer = NoAnswer
    Foci = {"turn"}
INVARIANT StatementReported
CHECK_DEADLOCK FALSE
