\* One slot over two blocks: the slot is cleared after the queried block,
\* so only the history has it.
CONSTANTS
    Locs = {1}
    Values = {1}
    MaxBlock = 2
    ShardSize = 2
    MaxResults = {1}
SPECIFICATION Spec
INVARIANT RangeMatchesHistory
CHECK_DEADLOCK FALSE
