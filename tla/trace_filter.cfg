\* trace_filter over two blocks, every address filter, after 0..2, count 1..3.
CONSTANTS
    a1 = a1
    a2 = a2
    None = None
    Addrs <- MCAddrs
    FrameKinds <- MCFrameKinds
    AddressFilters <- MCAddressFilters
    Afters = {0, 1, 2}
    Counts = {1, 2, 3}
    NumBlocks = 2
    MaxFrames = 2
    CountMax = 7
SPECIFICATION Spec
PROPERTY WindowSpec
CHECK_DEADLOCK FALSE
