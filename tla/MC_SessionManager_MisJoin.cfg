\* Replay of up to 5 recorded requests of two sessions whose original UP
\* SEIDs reuse the values of the CP SEIDs, sequential SEIDs
\* of 2 bits (3 usable), a /30 UE pool (3 issuable addresses), 2-bit
\* sequence numbers, association and cleanup on, the mock UPF's silence on
\* unknown sessions.
CONSTANTS
    OrigCPSEIDs <- MC_OrigCPSEIDs
    OrigUPSEIDs <- MC_OverlappingUPSEIDs
    MaxMessages = 5
    SeqBits = 2
    SEIDBits = 2
    MaxSEIDAttempts = 3
    SEIDStrategy = "sequential"
    SEIDStart = 1
    PoolHostBits = 2
    AssociationEnabled = TRUE
    CleanupOnExit = TRUE
    PeerAnswersUnknownSession = FALSE
SPECIFICATION Spec
INVARIANT RoutedToOwnSession
\* The process exits once CleanupSessions returns (phase "done").
CHECK_DEADLOCK FALSE
