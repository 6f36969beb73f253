\* Every caller nesting up to depth 3 except an array directly inside an
\* array (which no caller in the repository writes).
CONSTANTS
    MaxDepth = 3
    MaxOut = 9
    NestedArrays = FALSE
SPECIFICATION Spec
INVARIANT DocumentWellFormed
INVARIANT StackMatchesDoc
CHECK_DEADLOCK FALSE
