CONSTANTS
    p1 = p1  p2 = p2  t1 = t1  t2 = t2  i1 = i1
    q1 = q1  s1 = s1  v1 = v1  v2 = v2
    Procs = {p1, p2}
    Turns = {t1, t2}
    Clearers = {i1}
    Questions = {q1}
    Alike <- MCAlike
    Shapes = {s1}
    NoShape = NoShape
    ShapeOf <- MCShapeOf
    Tiers = {0, 1, 2}
    Ttl = 0
    NegativeTtl = 1
    PruneInterval = 1
    MaxTime = 1
    Versions = {v1, v2}
    MaxChanges = 1
    NoQuestion = NoQuestion
    MaxOperations = 3
    NoVersion = NoVersion
    NoEntry = NoEntry
    Never = Never
SYMMETRY Symmetry
SPECIFICATION MixedSpec
INVARIANTS TypeOK ServedBeganHere ReadsOwnWrites ReturnedIsStored
PROPERTIES SweepSparesLive
CHECK_DEADLOCK FALSE
