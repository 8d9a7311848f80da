SPECIFICATION MCSpec
CONSTANTS
    Verifiers = {v1, v2}
    Kids = {k1, k2}
    NoVerifier = NoVerifier  NoToken = NoToken
    FetchTime = 1  Interval = 2  MaxAge = 3  MaxStale = 4  Rotations = 1
    Processes = {p1, p2}
    NoFileKey = NoFileKey  Configured = Configured
    Ids = {c1, c2}
    Passwords = {pw1, pw2}
    Names = {n1}
    DocumentSources = {src1}
    Writers = {w1, w2}
    Readers = {r1}
    Parts = 2
    Generations = {g1, g2}
    Daemons = {d1, d2, d3}
    NoFile = NoFile
    BatchInputs <- MCBatchInputs
    MaxTexts = 2  MaxChars = 4  MaxBody = 10  Envelope = 2
    WikiPages = {1, 2, 3, 4, 5}
    SearchPage = 2  PageCap = 4  SpaceChanges = 2
    Lengths <- MCLengths
    BatchSize = 2
    LostReplies = TRUE
    KbSlots <- MCKbSlots
    Opaque = {}
    Models <- MCModels
    Schemas <- MCSchemas
    Runs = 3
    Statements <- MCStatements
    Counts = {2, 3}
    MaxRecords = 2  MinExecutions = 3  MaxQueries = 2  Commands = 2
    PairStatements <- MCPairStatements
    Questions = {"q"}
    Tables = {"t", "u"}
    MaxLog = 2  MaxChanges = 2
    Ensurers = {e1, e2}
    Invalidators = {x1}
    Retirers = {x2}
    Elsewhere = TRUE
    AuditWriters = {a1, a2}
    LineParts = 2  MaxEvents = 2
    c1 = c1  s1 = s1  s2 = s2  query = query  listing = listing  t1 = t1
    Calls = {k1, k2}
    Subjects = {s1, s2}
    Actions = {query, listing}
    Agents = {t1}
    NoAgent = NoAgent
    Agentless <- MCAgentless
    Grants <- MCGrants
    RateLimit = 2  MaxConcurrent = 1  Window = 2  MaxTime = 4
    NoWindow = NoWindow  NoCall = NoCall
    Foci = {"wiki"}
INVARIANT WholeRead
CHECK_DEADLOCK FALSE
