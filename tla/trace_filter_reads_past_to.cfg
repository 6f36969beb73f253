\* trace_filter reads the block after toBlock once the last block is traced.
CONSTANTS
    a1 = a1
    a2 = a2
    None = None
    Addrs <- MCAddrs
    FrameKinds <- MCFrameKinds
    AddressFilters <- MCAddressFilters
    Afters = {0, 1, 2}
    Counts = {1, 2, 3}
    NumBlocks = 2
    MaxFrames = 2
    CountMax = 7
SPECIFICATION Spec
INVARIANT ReadsWithinRange
CHECK_DEADLOCK FALSE
