\* 1-bit sequence numbers, so every request reuses number 1: a timed-out
\* transaction still in the monitor's snapshot after it was resolved, when
\* the next request takes its number, is failed again and takes the new
\* request's entry with it.
CONSTANTS
    MaxRequests = 2
    SeqBits = 1
    MaxRetries = 0
    SendCanFail = FALSE
SPECIFICATION Spec
INVARIANT AtMostOneResult
CHECK_DEADLOCK FALSE
