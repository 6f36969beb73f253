\* Reproduction: ErrorCodesSpec is violated (README, Findings).
CONSTANTS
    None = None
    Locs <- MCLocs
    Incs = {1, 2}
    NumBlocks = 2
    MaxTxs = 2
    Quantities = {0, 1, 2, 3}
    Offsets = {2, 4}
SPECIFICATION Spec
INVARIANT ErrorCodesSpec
CHECK_DEADLOCK FALSE
