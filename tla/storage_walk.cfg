\* Every history of 3 blocks over two slots with values 1 and 2, shards of
\* two blocks, queried at every block from each slot with max_result 0 or 1.
CONSTANTS
    Locs = {1, 2}
    Values = {1, 2}
    MaxBlock = 3
    ShardSize = 2
    MaxResults = {0, 1}
SPECIFICATION Spec
INVARIANT HistoryCursorAligned
PROPERTY WalkTerminates
CHECK_DEADLOCK FALSE
