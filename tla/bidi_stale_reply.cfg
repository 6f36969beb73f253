\* The server ends the call with OK while a read is pending.
CONSTANTS
    MaxWrites = 2
SPECIFICATION Spec
INVARIANT ReadReplyFresh
CHECK_DEADLOCK FALSE
