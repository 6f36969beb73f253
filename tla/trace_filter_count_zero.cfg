\* trace_filter with count 0: the first kept frame wraps Filter::count.
CONSTANTS
    a1 = a1
    a2 = a2
    None = None
    Addrs <- MCAddrs
    FrameKinds <- MCFrameKinds
    AddressFilters <- MCAddressFilters
    Afters = {0}
    Counts = {0}
    NumBlocks = 2
    MaxFrames = 2
    CountMax = 7
SPECIFICATION Spec
PROPERTY WindowSpec
CHECK_DEADLOCK FALSE
