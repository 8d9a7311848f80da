SPECIFICATION MCSpec
CONSTANTS
    s1 = s1  s2 = s2
    Sessions = {s1, s2}
    Databases = {d1, d2}
    Filters = {core, opaque}
    Unfiltered = core
    Undeclared = {opaque}
    MaxCalls <- MCMaxCalls
    Rebinds = 0
    Refusals = 1
    NoAnswer = NoAnswer
    HttpRequests = {h1, h2, h3}
    RequestInputs <- MCRequestInputs
    SlotLimit = 2
    MaxTexts = 2
    MaxChars = 4
    MaxBody = 10
    Envelope = 2
    Embedders = {e1, e2}
    Queries = {q1, q2}
    NoQuery = NoQuery
    Connectors <- MCDuckDB
    Foci = {"query"}
INVARIANT OwnRows
CHECK_DEADLOCK FALSE
