\* Three processes, two conditions and every call; signals interrupt one of them.
SPECIFICATION FairSpec
CONSTANTS
    p1 = p1
    p2 = p2
    p3 = p3
    c1 = c1
    c2 = c2
    NoCond = NoCond
    Procs = {p1, p2, p3}
    Conds = {c1, c2}
    Calls = {"wait", "signal", "broadcast"}
    Signalled = {p1}
INVARIANTS TypeOK OneToken MutualExclusion TokenHasTaker
PROPERTY EntryServed
\* The clients may all wait on conditions that nobody is left to signal.
CHECK_DEADLOCK FALSE
