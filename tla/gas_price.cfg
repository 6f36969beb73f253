\* Three blocks of up to two transactions; fees below the minimum (1),
\* between the bounds (2, 3) and above the maximum (5); one sample per
\* block and a three-sample pool, so the per-block limit, the walk
\* reaching block 1 and the clamp all happen, and the percentile position
\* (n - 1) * 60 / 100 is 0 for pools of 1 and 2 samples and 1 for 3.
CONSTANTS
    StartBlock = 3
    Fees = {1, 2, 3, 5}
    MaxTxs = 2
    kDefaultPrice = 0
    kDefaultMaxPrice = 4
    kDefaultMinPrice = 2
    kCheckBlocks = 3
    kSamples = 1
    kPercentile = 60
SPECIFICATION Spec
INVARIANT BlockSamplesLowest
INVARIANT PriceIsPercentile
CHECK_DEADLOCK FALSE
