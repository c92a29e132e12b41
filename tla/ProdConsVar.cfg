\* Three programs, one killed.
SPECIFICATION VarSpec
CONSTANTS
    p1 = p1
    p2 = p2
    p3 = p3
    Procs = {p1, p2, p3}
    MaxStarts = 3
    MaxKills = 1
SYMMETRY Symmetry
INVARIANTS OneRight NothingLeft
PROPERTIES ValuePassedOnce
\* Programs that wait for each other, or for a set that is not initialised, stop.
CHECK_DEADLOCK FALSE
