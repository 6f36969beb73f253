\* Two slots with values 1 and 2 over three blocks: a slot cleared after
\* the queried block sorts before a live one.
CONSTANTS
    Locs = {1, 2}
    Values = {1, 2}
    MaxBlock = 3
    ShardSize = 2
    MaxResults = {1}
SPECIFICATION Spec
INVARIANT StoredValuesHistorical
CHECK_DEADLOCK FALSE
