\* A request whose first send fails: the handler returns, the transaction
\* stays pending and the monitor retransmits it.
CONSTANTS
    MaxRequests = 2
    SeqBits = 2
    MaxRetries = 1
    SendCanFail = TRUE
SPECIFICATION Spec
PROPERTY NoSendAfterFinished
CHECK_DEADLOCK FALSE
