\* A transaction: open (request_and_read), up to three write_and_read
\* calls, close (writes_done_and_finish); the server may end the
\* call at any point with an OK or an error status.
CONSTANTS
    MaxWrites = 3
SPECIFICATION Spec
PROPERTY CallsComplete
INVARIANT CloseReportsStatus
CHECK_DEADLOCK FALSE
