\* Two requests replayed with 2-bit sequence numbers (no number reused),
\* two retries, socket writes that may fail: the safety of the
\* Resolve / handleTimeout races and of the retransmission count.
CONSTANTS
    MaxRequests = 2
    SeqBits = 2
    MaxRetries = 2
    SendCanFail = TRUE
SPECIFICATION Spec
INVARIANTS TypeOK AtMostOneResult TimeoutAfterAllRetries
\* The process exits once Replay returns and nothing is left to do.
CHECK_DEADLOCK FALSE
