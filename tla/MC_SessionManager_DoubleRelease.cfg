\* Replay of up to 5 recorded requests of two sessions, sequential SEIDs
\* of 2 bits (3 usable), a /31 UE pool (1 issuable address,
\* so that a released address is reissued at once), 2-bit
\* sequence numbers, association and cleanup on, a UPF that rejects requests for
\* unknown sessions with a cause (3GPP behaviour).
CONSTANTS
    OrigCPSEIDs <- MC_OrigCPSEIDs
    OrigUPSEIDs <- MC_DisjointUPSEIDs
    MaxMessages = 5
    SeqBits = 2
    SEIDBits = 2
    MaxSEIDAttempts = 3
    SEIDStrategy = "sequential"
    SEIDStart = 1
    PoolHostBits = 1
    AssociationEnabled = TRUE
    CleanupOnExit = TRUE
    PeerAnswersUnknownSession = TRUE
SPECIFICATION Spec
INVARIANT LiveIdentifiersExclusive
\* The process exits once CleanupSessions returns (phase "done").
CHECK_DEADLOCK FALSE
