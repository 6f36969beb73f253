\* A frame that ends on an undefined instruction after it has used more
\* than half of its gas; everything else as in tracers.
CONSTANTS
    a1 = a1
    a2 = a2
    a3 = a3
    zero = zero
    Addrs = {a1, a2}
    InitialAccounts = {a1}
    Existing = {a1}
    Contracts = {a1}
    NoAddr = zero
    TxIndex = 1
    TxGas = 12
    MaxFrames = 4
    MaxDepth = 3
    MaxExtraOps = 1
    CallStatuses = {"SUCCESS", "REVERT", "FAIL", "UNDEFINED"}
    CreateStatuses = {"SUCCESS", "REVERT"}
    PrefundedCreate = FALSE
    NestedPrecompiles = FALSE
SPECIFICATION Spec
INVARIANT VmUsedNonNegative
CHECK_DEADLOCK FALSE
