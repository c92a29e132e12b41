\* A producer and two consumers on one element; the key may be freed twice.
SPECIFICATION ArraySpec
CONSTANTS
    p1 = p1
    c1 = c1
    c2 = c2
    v1 = v1
    v2 = v2
    newres = newres
    hasconsumed = hasconsumed
    Producers = {p1}
    Consumers = {c1, c2}
    Procs = {p1, c1, c2}
    Indexes = {0}
    Values = {v1, v2}
    NoValue = NoValue
    COND_NEWRES = newres
    COND_HASCONSUMED = hasconsumed
    Conds = {newres, hasconsumed}
    NoCond = NoCond
    Calls = {"wait", "broadcast"}
    Signalled = {}
    MAX_CONSUMERS = 2
    MaxSegments = 2
INVARIANTS ArrayTypeOK RegistrationExact
PROPERTY SegmentsDeliver
SYMMETRY ArraySymmetry
\* The behaviours end when the monitor is removed; a program may also be left stuck.
CHECK_DEADLOCK FALSE
