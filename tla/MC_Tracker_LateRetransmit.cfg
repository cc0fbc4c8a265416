\* Sends never fail: handleTimeout decides to retransmit and unlocks;
\* before it sends, the handler returns (the response is resolved and
\* consumed, or the context is cancelled), and the retransmission still
\* goes out.
CONSTANTS
    MaxRequests = 1
    SeqBits = 2
    MaxRetries = 1
    SendCanFail = FALSE
SPECIFICATION Spec
PROPERTY NoSendAfterFinished
CHECK_DEADLOCK FALSE
