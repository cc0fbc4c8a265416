\* A signal while a request is pending: nothing fails the transactions
\* left in the map.
CONSTANTS
    MaxRequests = 1
    SeqBits = 2
    MaxRetries = 1
    SendCanFail = FALSE
SPECIFICATION Spec
PROPERTY CancelDrainsPending
CHECK_DEADLOCK FALSE
