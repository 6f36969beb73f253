\* Blocks of two transactions over one address with one storage slot.
CONSTANTS
    a1 = a1
    k1 = k1
    Addrs <- MCAddrs
    Keys <- MCKeys
    NumTxs = 2
SPECIFICATION Spec
INVARIANT DiffAgainstTxPreState
CHECK_DEADLOCK FALSE
