\* Two requests, one retry, socket writes that may fail, under the
\* fairness of the replay goroutine, the monitor and the clock: the tracker
\* implements TransactionOutcome and Replay always returns.
CONSTANTS
    MaxRequests = 2
    SeqBits = 2
    MaxRetries = 1
    SendCanFail = TRUE
SPECIFICATION Spec
PROPERTIES Refines ReplayTerminates
\* The process exits once Replay returns and nothing is left to do.
CHECK_DEADLOCK FALSE
