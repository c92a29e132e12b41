\* The two readers and the writer of each program, killed and started again, with a call
\* that fails.
SPECIFICATION FairSpec
CONSTANTS
    r1 = r1
    r2 = r2
    w1 = w1
    Readers = {r1, r2}
    Writers = {w1}
    MaxRestarts = 1
    MaxFailures = 1
    Values = {1, 2}
    Zero = 1
    BUFFER_SIZE = 3
    MaxElements = 2
INVARIANTS TypeOK WriterExcludes CountIsExact QuietMeansReleased ReadsOneVersion
PROPERTIES NobodyOvertakes EverybodyServed PopsInOrder
\* A kill may leave the semaphores taken for ever.
CHECK_DEADLOCK FALSE
