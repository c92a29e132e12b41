\* A producer, two consumers and two elements.
SPECIFICATION QueueSpec
CONSTANTS
    p1 = p1
    p2 = p2
    c1 = c1
    c2 = c2
    notfull = notfull
    notempty = notempty
    Producers = {p1}
    Consumers = {c1, c2}
    Procs = {p1, c1, c2}
    Values = {1, 2}
    MAXLEN_QUEUE = 2
    NOTFULL = notfull
    NOTEMPTY = notempty
    Conds = {notfull, notempty}
    NoCond = NoCond
    Calls = {"wait", "signal"}
    Signalled = {}
INVARIANTS QueueTypeOK WokenFindsElement
PROPERTY QueueIsFifo
SYMMETRY ProcsSymmetry
\* The behaviours end when a program quits; the programs may also all be left waiting.
CHECK_DEADLOCK FALSE
