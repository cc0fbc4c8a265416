\* Replay of up to 4 recorded requests of two sessions, random SEIDs
\* of 2 bits (3 usable), a /31 UE pool (one issuable address, so the pool
\* runs dry), 2-bit sequence numbers, association and cleanup off, the mock
\* UPF's silence on unknown sessions.  It checks the exclusivity of live
\* identifiers under the random draw; the type invariant and the routing are
\* checked by MC_SessionManager.cfg.
CONSTANTS
    OrigCPSEIDs <- MC_OrigCPSEIDs
    OrigUPSEIDs <- MC_DisjointUPSEIDs
    MaxMessages = 4
    SeqBits = 2
    SEIDBits = 2
    MaxSEIDAttempts = 3
    SEIDStrategy = "random"
    SEIDStart = 1
    PoolHostBits = 1
    AssociationEnabled = FALSE
    CleanupOnExit = FALSE
    PeerAnswersUnknownSession = FALSE
SPECIFICATION Spec
INVARIANT LiveIdentifiersExclusive
\* The process exits once Replay returns (phase "done").
CHECK_DEADLOCK FALSE
