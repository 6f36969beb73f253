\* A transaction touches an address that neither existed nor exists.
CONSTANTS
    a1 = a1
    k1 = k1
    Addrs <- MCAddrs
    Keys <- MCKeys
    NumTxs = 2
SPECIFICATION Spec
INVARIANT NoSpuriousEntries
CHECK_DEADLOCK FALSE
