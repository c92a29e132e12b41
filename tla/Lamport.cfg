\* Three processes on sequentially consistent memory.
SPECIFICATION FairSpec
CONSTANTS
    N = 3
    MaxNumber = 1
    BufferSize = 0
INVARIANTS TypeOK MutualExclusion FirstComeFirstServed
PROPERTY LockServed
