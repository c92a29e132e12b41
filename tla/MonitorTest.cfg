\* The two processes of the test.
SPECIFICATION TestSpec
CONSTANTS
    parent = parent
    child = child
    cond0 = cond0
    NoCond = NoCond
    Procs = {parent, child}
    Conds = {cond0}
    Calls = {"wait", "signal"}
    Signalled = {}
PROPERTY TestEnds
CHECK_DEADLOCK FALSE
