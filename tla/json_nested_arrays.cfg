\* An array written as an element of an array.
CONSTANTS
    MaxDepth = 2
    MaxOut = 6
    NestedArrays = TRUE
SPECIFICATION Spec
INVARIANT DocumentWellFormed
CHECK_DEADLOCK FALSE
