\* Two processes with store buffers.
SPECIFICATION BufferedSpec
CONSTANTS
    N = 2
    MaxNumber = 1
    BufferSize = 3
INVARIANT MutualExclusion
