\* One transaction, the second of its block, traced with vmTrace and trace:
\* up to four frames, three deep, over an account with code (a1) and a fresh
\* one (a2); one more instruction anywhere (another op, a call that starts
\* no frame, or a precompile called from the top frame); calls succeed,
\* revert or fail; creations target fresh addresses and succeed or revert.
CONSTANTS
    a1 = a1
    a2 = a2
    a3 = a3
    zero = zero
    Addrs = {a1, a2}
    InitialAccounts = {a1}
    Existing = {a1}
    Contracts = {a1}
    NoAddr = zero
    TxIndex = 1
    TxGas = 12
    MaxFrames = 4
    MaxDepth = 3
    MaxExtraOps = 1
    CallStatuses = {"SUCCESS", "REVERT", "FAIL", "UNDEFINED"}
    CreateStatuses = {"SUCCESS", "REVERT"}
    PrefundedCreate = FALSE
    NestedPrecompiles = FALSE
SPECIFICATION Spec
INVARIANT TracesMatchCallTree
INVARIANT NoUndefinedBehaviour
INVARIANT VmTraceMatchesExecution
INVARIANT VmGasAccounted
CHECK_DEADLOCK FALSE
