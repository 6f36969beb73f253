\* Creations may also fail (out of gas, bad instruction...); no extra
\* instructions; everything else as in tracers.
CONSTANTS
    a1 = a1
    a2 = a2
    a3 = a3
    zero = zero
    Addrs = {a1, a2}
    InitialAccounts = {a1}
    Existing = {a1}
    Contracts = {a1}
    NoAddr = zero
    TxIndex = 1
    TxGas = 12
    MaxFrames = 4
    MaxDepth = 3
    MaxExtraOps = 0
    CallStatuses = {"SUCCESS", "REVERT", "FAIL"}
    CreateStatuses = {"SUCCESS", "REVERT", "FAIL"}
    PrefundedCreate = FALSE
    NestedPrecompiles = FALSE
SPECIFICATION Spec
INVARIANT NoUndefinedBehaviour
CHECK_DEADLOCK FALSE
