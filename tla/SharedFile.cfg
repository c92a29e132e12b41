\* Two producers, one consumer; a first segment and one that is created after it.
SPECIFICATION FileSpec
CONSTANTS
    p1 = p1
    p2 = p2
    c1 = c1
    c2 = c2
    newdata = newdata
    Producers = {p1, p2}
    Consumers = {c1}
    Procs = {p1, p2, c1}
    COND_NEWDATA = newdata
    Conds = {newdata}
    NoCond = NoCond
    Old = Old
    Calls = {"wait", "broadcast"}
    Signalled = {}
    MaxRecords = 2
    MaxSegments = 2
INVARIANTS FileTypeOK ReadsAreWhole
PROPERTY FileIsLog
SYMMETRY ProcsSymmetry
\* The behaviours end when the monitor is removed; a program may also be left waiting.
CHECK_DEADLOCK FALSE
