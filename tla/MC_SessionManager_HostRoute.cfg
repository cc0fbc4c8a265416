\* A /32 UE pool (session.ue_ip_pool with a host mask): the one address
\* the pool can hand out is the network address plus one, outside the block.
CONSTANTS
    OrigCPSEIDs <- MC_OrigCPSEIDs
    OrigUPSEIDs <- MC_DisjointUPSEIDs
    MaxMessages = 5
    SeqBits = 2
    SEIDBits = 2
    MaxSEIDAttempts = 3
    SEIDStrategy = "sequential"
    SEIDStart = 1
    PoolHostBits = 0
    AssociationEnabled = TRUE
    CleanupOnExit = TRUE
    PeerAnswersUnknownSession = FALSE
SPECIFICATION Spec
INVARIANT AddressesInBlock
\* The process exits once CleanupSessions returns (phase "done").
CHECK_DEADLOCK FALSE
