\* A frame below the top one may call a precompile (a contract calling
\* ecrecover or sha256); everything else as in tracers.
CONSTANTS
    a1 = a1
    a2 = a2
    a3 = a3
    zero = zero
    Addrs = {a1, a2}
    InitialAccounts = {a1}
    Existing = {a1}
    Contracts = {a1}
    NoAddr = zero
    TxIndex = 1
    TxGas = 12
    MaxFrames = 4
    MaxDepth = 3
    MaxExtraOps = 1
    CallStatuses = {"SUCCESS", "REVERT", "FAIL"}
    CreateStatuses = {"SUCCESS", "REVERT"}
    PrefundedCreate = FALSE
    NestedPrecompiles = TRUE
SPECIFICATION Spec
INVARIANT VmTracesLive
CHECK_DEADLOCK FALSE
