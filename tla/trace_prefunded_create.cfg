\* A creation may target an account that already holds a balance (sent
\* before the contract was deployed): a1 has code, a2 only a balance, a3
\* does not exist; no extra instructions; everything else as in tracers.
CONSTANTS
    a1 = a1
    a2 = a2
    a3 = a3
    zero = zero
    Addrs = {a1, a2, a3}
    InitialAccounts = {a1, a2}
    Existing = {a1, a2}
    Contracts = {a1}
    NoAddr = zero
    TxIndex = 1
    TxGas = 12
    MaxFrames = 4
    MaxDepth = 3
    MaxExtraOps = 0
    CallStatuses = {"SUCCESS", "REVERT", "FAIL"}
    CreateStatuses = {"SUCCESS", "REVERT"}
    PrefundedCreate = TRUE
    NestedPrecompiles = FALSE
SPECIFICATION Spec
INVARIANT TracesMatchCallTree
CHECK_DEADLOCK FALSE
