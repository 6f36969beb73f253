\* Two samples per block and a one-block pool: a block that yields one
\* sample leaves the pool short, and the next block overfills it.
CONSTANTS
    StartBlock = 3
    Fees = {1, 2, 3}
    MaxTxs = 2
    kDefaultPrice = 0
    kDefaultMaxPrice = 4
    kDefaultMinPrice = 2
    kCheckBlocks = 1
    kSamples = 2
    kPercentile = 60
SPECIFICATION Spec
INVARIANT PoolWithinMaxSamples
CHECK_DEADLOCK FALSE
