---------------------------- MODULE SessionManager ----------------------------
(***************************************************************************)
(* The replay loop of the PFCP generator (src/internal/session/manager.go) *)
(* with the allocators it drives and the live UPF it talks to.             *)
(*                                                                         *)
(* Replay hands the recorded requests to processMessage one at a time and  *)
(* each handler runs to completion (allocate, map, rewrite, send, wait,    *)
(* reconcile) before the next message is read.  Only the replay goroutine  *)
(* touches the session tables, so each handler is one step here; the       *)
(* transaction layer it waits on is abstracted to the outcome the wait     *)
(* returns (a response, or a timeout after the retries) together with what *)
(* the UPF did with the request.  The UPF is the mock UPF of               *)
(* src/test/mockupf/main.go, over a network that may lose a request or a   *)
(* response; PeerAnswersUnknownSession makes it answer a request for an    *)
(* unknown session with a rejection cause, as a 3GPP UPF does, instead of  *)
(* staying silent as the mock does.                                        *)
(*                                                                         *)
(* A recorded request is a record [type, sess]: sess is the original CP    *)
(* SEID of the recorded session it belongs to.  An establishment carries   *)
(* sess in its CP F-SEID; a modification or deletion carries in its header *)
(* the SEID the original UPF gave that session, trueRemote[sess].  The     *)
(* pcap parser's SEID mappings, the pairs (CP SEID, UP SEID) of the        *)
(* establishment responses it captured, are originalSEIDMappings.          *)
(***************************************************************************)
EXTENDS Naturals, Sequences, FiniteSets

CONSTANTS
    OrigCPSEIDs,        \* CP SEIDs of the sessions in the recording
    OrigUPSEIDs,        \* SEIDs the original UPF assigned in the recording
    MaxMessages,        \* bound on the number of recorded requests replayed
    SeqBits,            \* width of the PFCP sequence number (24)
    SEIDBits, MaxSEIDAttempts, SEIDStrategy, SEIDStart,
    PoolHostBits,
    AssociationEnabled, \* association.enabled
    CleanupOnExit,      \* session.cleanup_on_exit
    PeerAnswersUnknownSession

SA  == INSTANCE SEIDAllocator
IPP == INSTANCE UEIPPool

ASSUME ConstantsAssumption ==
    /\ OrigCPSEIDs \subseteq Nat \ {0} /\ OrigUPSEIDs \subseteq Nat \ {0}
    /\ MaxMessages \in Nat
    /\ SeqBits \in Nat \ {0}
    /\ SEIDBits \in Nat \ {0} /\ MaxSEIDAttempts \in Nat \ {0}
    /\ SEIDStrategy \in {"sequential", "random"}
    /\ SEIDStart \in Nat \ {0}      \* Validate: session.seid_start must be > 0
    /\ SEIDStart < 2 ^ SEIDBits
    /\ PoolHostBits \in Nat
    /\ AssociationEnabled \in BOOLEAN /\ CleanupOnExit \in BOOLEAN
    /\ PeerAnswersUnknownSession \in BOOLEAN

(* The arithmetic facts about the widths that the proofs use: 2^w of a    *)
(* positive width is at least 2 (the provers treat ^ as uninterpreted).    *)
ASSUME WidthAssumption ==
    /\ 2 ^ SeqBits \in Nat /\ 2 ^ SeqBits >= 2
    /\ 2 ^ SEIDBits \in Nat /\ 2 ^ SEIDBits >= 2
    /\ 2 ^ PoolHostBits \in Nat /\ 2 ^ PoolHostBits >= 1

AllOrig == OrigCPSEIDs \cup OrigUPSEIDs
NoSession == 0                   \* a missing entry of a lookup table
SeqMax == 2 ^ SeqBits - 1

VARIABLES
    phase,                 \* "replay", "cleanup" (CleanupSessions) or "done"
    cancelled,             \* the process context was cancelled by a signal
    msgCount,              \* recorded requests handed to processMessage
    sessions,              \* the SessionInfo records, in creation order
    byOriginalCPSEID,      \* the three lookup tables: key -> session index
    byOriginalRemoteSEID,
    byLocalSEID,
    originalSEIDMappings,  \* CP SEID -> UP SEID captured from the pcap, 0 if none
    seidAlloc, ipPool, seqCounter,
    upfSessions,           \* UP SEIDs of the sessions the UPF holds
    nextUPSEID,            \* the UPF's next UP SEID
    cleanupQueue,          \* sessions CleanupSessions has still to delete
    wire,                  \* the last request sent to the UPF
    trueRemote             \* the original UPF's SEID of each recorded session

vars == <<phase, cancelled, msgCount, sessions, byOriginalCPSEID,
          byOriginalRemoteSEID, byLocalSEID, originalSEIDMappings, seidAlloc,
          ipPool, seqCounter, upfSessions, nextUPSEID, cleanupQueue, wire,
          trueRemote>>

SessionStates == {"establishing", "established", "failed", "deleted"}
SessionRecords ==
    [origCP : OrigCPSEIDs, origRemote : OrigUPSEIDs \cup {0},
     local : SA!SEIDSpace, remote : Nat, ueip : IPP!Addresses,
     state : SessionStates]

RequestTypes == {"AssociationSetupRequest", "HeartbeatRequest",
                 "SessionEstablishmentRequest", "SessionModificationRequest",
                 "SessionDeletionRequest"}
RecordedMessages ==
    {[type |-> t, sess |-> 0] :
        t \in {"AssociationSetupRequest", "HeartbeatRequest", "Other"}}
    \cup {[type |-> t, sess |-> s] :
            t \in {"SessionEstablishmentRequest", "SessionModificationRequest",
                   "SessionDeletionRequest"},
            s \in OrigCPSEIDs}

Wires == [type : RequestTypes \cup {"none"}, seid : Nat,
          orig : OrigCPSEIDs \cup {0}, target : 0 .. MaxMessages]

-----------------------------------------------------------------------------
(* SequenceCounter.Next: 24-bit sequence numbers, wrapping to 1.           *)
(* Mutant: the wrap test is off by one and lets the counter reach 2^w.   *)
NextSeqLateWrap == IF seqCounter + 1 > SeqMax + 1 THEN 1 ELSE seqCounter + 1

NextSeq == IF seqCounter + 1 > SeqMax THEN 1 ELSE seqCounter + 1

(* findSessionByOriginalRemoteSEID: the original-remote table first, then  *)
(* the original-CP table with the same key.                                *)
(* Mutant: the fallback consults the local-SEID table instead of the      *)
(* original-CP table.                                                     *)
FindSessionLocalFallback(hdr) ==
    IF byOriginalRemoteSEID[hdr] # NoSession
    THEN byOriginalRemoteSEID[hdr]
    ELSE IF hdr \in DOMAIN byLocalSEID THEN byLocalSEID[hdr] ELSE NoSession

FindSession(hdr) ==
    IF byOriginalRemoteSEID[hdr] # NoSession
    THEN byOriginalRemoteSEID[hdr]
    ELSE byOriginalCPSEID[hdr]

(* Sending a request: the next sequence number and the datagram.           *)
Send(type, seid, orig, target) ==
    /\ seqCounter' = NextSeq
    /\ wire' = [type |-> type, seid |-> seid, orig |-> orig, target |-> target]

Consume == msgCount' = msgCount + 1

Init ==
    /\ phase = "replay"
    /\ cancelled = FALSE
    /\ msgCount = 0
    /\ sessions = << >>
    /\ byOriginalCPSEID = [k \in AllOrig |-> NoSession]
    /\ byOriginalRemoteSEID = [k \in AllOrig |-> NoSession]
    /\ byLocalSEID = [k \in SA!SEIDSpace |-> NoSession]
    /\ trueRemote \in {f \in [OrigCPSEIDs -> OrigUPSEIDs] :
                          \A a, b \in OrigCPSEIDs : a # b => f[a] # f[b]}
    /\ \E captured \in SUBSET OrigCPSEIDs :
          originalSEIDMappings =
              [c \in OrigCPSEIDs |-> IF c \in captured THEN trueRemote[c] ELSE 0]
    /\ seidAlloc = SA!NewSEIDAllocator(SEIDStart)
    /\ ipPool = IPP!NewUEIPPool
    /\ seqCounter = 0
    /\ upfSessions = {}
    /\ nextUPSEID = 1
    /\ cleanupQueue = {}
    /\ wire = [type |-> "none", seid |-> 0, orig |-> 0, target |-> 0]

-----------------------------------------------------------------------------
(* Replay: a message is read only while the context is not cancelled.      *)
Replaying == phase = "replay" /\ ~cancelled /\ msgCount < MaxMessages

(* handleAssociationSetup and handleHeartbeat: send, wait, log.  No        *)
(* session state changes whatever the outcome.                             *)
AssociationSkipped ==
    /\ Replaying /\ ~AssociationEnabled /\ Consume
    /\ UNCHANGED <<phase, cancelled, sessions, byOriginalCPSEID,
                   byOriginalRemoteSEID, byLocalSEID, originalSEIDMappings,
                   seidAlloc, ipPool, seqCounter, upfSessions, nextUPSEID,
                   cleanupQueue, wire, trueRemote>>

AssociationSent ==
    /\ Replaying /\ AssociationEnabled /\ Consume
    /\ Send("AssociationSetupRequest", 0, 0, 0)
    /\ UNCHANGED <<phase, cancelled, sessions, byOriginalCPSEID,
                   byOriginalRemoteSEID, byLocalSEID, originalSEIDMappings,
                   seidAlloc, ipPool, upfSessions, nextUPSEID, cleanupQueue,
                   trueRemote>>

HeartbeatSent ==
    /\ Replaying /\ Consume
    /\ Send("HeartbeatRequest", 0, 0, 0)
    /\ UNCHANGED <<phase, cancelled, sessions, byOriginalCPSEID,
                   byOriginalRemoteSEID, byLocalSEID, originalSEIDMappings,
                   seidAlloc, ipPool, upfSessions, nextUPSEID, cleanupQueue,
                   trueRemote>>

(* processMessage's default branch: an unsupported type is skipped.        *)
UnsupportedSkipped ==
    /\ Replaying /\ Consume
    /\ UNCHANGED <<phase, cancelled, sessions, byOriginalCPSEID,
                   byOriginalRemoteSEID, byLocalSEID, originalSEIDMappings,
                   seidAlloc, ipPool, seqCounter, upfSessions, nextUPSEID,
                   cleanupQueue, wire, trueRemote>>

-----------------------------------------------------------------------------
(* handleSessionEstablishment.  What the wait returns, with what the UPF   *)
(* did: the UPF creates the session unless the request was lost or it     *)
(* rejected it; the response may then be lost (a timeout after the        *)
(* retries) or lack a decodable UP F-SEID.  The mock UPF always accepts   *)
(* with a UP F-SEID; the rejection and the missing F-SEID are a real      *)
(* UPF's answers, kept because the handler has a branch for each.         *)
EstOutcomes == {"accepted", "rejected", "requestLost", "responseLost", "noFSEID"}
UPFCreates(out) == out \in {"accepted", "responseLost", "noFSEID"}

(* The session's state once the handler returns: established on an        *)
(* accepted response with a UP F-SEID; failed on a timeout or a rejection; *)
(* still establishing when the response cannot be decoded or has no UP     *)
(* F-SEID (those paths return without touching the session).              *)
EstState(out) ==
    CASE out = "accepted"                                   -> "established"
      [] out \in {"rejected", "requestLost", "responseLost"} -> "failed"
      [] out = "noFSEID"                                    -> "establishing"

(* SEID allocation fails: the handler returns before touching anything     *)
(* else (the sequential scan still moved the cursor).                      *)
EstSEIDExhausted(s) ==
    /\ \E o \in SA!AllocateOutcomes(seidAlloc) :
          /\ o.err
          /\ seidAlloc' = o.alloc
    /\ Consume
    /\ UNCHANGED <<phase, cancelled, sessions, byOriginalCPSEID,
                   byOriginalRemoteSEID, byLocalSEID, originalSEIDMappings,
                   ipPool, seqCounter, upfSessions, nextUPSEID, cleanupQueue,
                   wire, trueRemote>>

(* The UE IP pool is exhausted: the SEID just allocated is released.       *)
EstPoolExhausted(s) ==
    /\ \E o \in SA!AllocateOutcomes(seidAlloc) :
          /\ ~o.err
          /\ IPP!Allocate(ipPool).err
          /\ seidAlloc' = SA!Release(o.alloc, o.seid)
          /\ ipPool' = IPP!Allocate(ipPool).pool
    /\ Consume
    /\ UNCHANGED <<phase, cancelled, sessions, byOriginalCPSEID,
                   byOriginalRemoteSEID, byLocalSEID, originalSEIDMappings,
                   seqCounter, upfSessions, nextUPSEID, cleanupQueue, wire,
                   trueRemote>>

(* Both identifiers allocated: the session is stored in the tables (in the *)
(* original-remote table when the pcap gave a mapping for its CP SEID),    *)
(* the request is rewritten and sent, and the outcome is reconciled.       *)
EstSent(s) ==
    \E o \in SA!AllocateOutcomes(seidAlloc), out \in EstOutcomes :
       LET p   == IPP!Allocate(ipPool)
           i   == Len(sessions) + 1
           r   == originalSEIDMappings[s]
       IN  /\ ~o.err /\ ~p.err
           /\ seidAlloc' = o.alloc
           /\ ipPool' = p.pool
           /\ sessions' = Append(sessions,
                 [origCP |-> s, origRemote |-> r, local |-> o.seid,
                  remote |-> IF out = "accepted" THEN nextUPSEID ELSE 0,
                  ueip |-> p.ip, state |-> EstState(out)])
           /\ byOriginalCPSEID' = [byOriginalCPSEID EXCEPT ![s] = i]
           /\ byLocalSEID' = [byLocalSEID EXCEPT ![o.seid] = i]
           /\ byOriginalRemoteSEID' =
                 IF r # 0 THEN [byOriginalRemoteSEID EXCEPT ![r] = i]
                          ELSE byOriginalRemoteSEID
           /\ Send("SessionEstablishmentRequest", 0, s, i)
           /\ IF UPFCreates(out)
              THEN /\ upfSessions' = upfSessions \cup {nextUPSEID}
                   /\ nextUPSEID' = nextUPSEID + 1
              ELSE UNCHANGED <<upfSessions, nextUPSEID>>
           /\ Consume
           /\ UNCHANGED <<phase, cancelled, originalSEIDMappings,
                          cleanupQueue, trueRemote>>

HandleSessionEstablishment(s) ==
    \/ EstSEIDExhausted(s)
    \/ EstPoolExhausted(s)
    \/ EstSent(s)

-----------------------------------------------------------------------------
(* handleSessionModification.  The header of the recorded request is the   *)
(* original UPF's SEID; the session is looked up by it and the request is  *)
(* sent with the live UPF's SEID of the session found.  The mock UPF only  *)
(* reads its table for a modification, and the handler changes no session  *)
(* state whatever the response, so the outcome is not modelled.            *)
Unresolved(s) ==
    /\ FindSession(trueRemote[s]) = NoSession
    /\ Consume
    /\ UNCHANGED <<phase, cancelled, sessions, byOriginalCPSEID,
                   byOriginalRemoteSEID, byLocalSEID, originalSEIDMappings,
                   seidAlloc, ipPool, seqCounter, upfSessions, nextUPSEID,
                   cleanupQueue, wire, trueRemote>>

ModSent(s) ==
    LET i == FindSession(trueRemote[s]) IN
    /\ i # NoSession
    /\ Send("SessionModificationRequest", sessions[i].remote, s, i)
    /\ Consume
    /\ UNCHANGED <<phase, cancelled, sessions, byOriginalCPSEID,
                   byOriginalRemoteSEID, byLocalSEID, originalSEIDMappings,
                   seidAlloc, ipPool, upfSessions, nextUPSEID, cleanupQueue,
                   trueRemote>>

HandleSessionModification(s) == Unresolved(s) \/ ModSent(s)

(* What a deletion of UP SEID u comes to.  A UPF holding u deletes it and  *)
(* answers; the request or the answer may be lost.  A UPF not holding u    *)
(* stays silent (the mock UPF) or rejects with a cause.                    *)
DelOutcomes(u) ==
    IF u \in upfSessions THEN {"accepted", "responseLost", "requestLost"}
    ELSE IF PeerAnswersUnknownSession THEN {"rejected", "requestLost"}
    ELSE {"requestLost"}
UPFDeletes(out) == out \in {"accepted", "responseLost"}
(* The handler treats any response as success: the cause is not read.      *)
ResponseReceived(out) == out \in {"accepted", "rejected"}

(* The UPF's side of a deletion of u.                                      *)
UPFDelete(u, out) ==
    /\ upfSessions' = IF UPFDeletes(out) THEN upfSessions \ {u} ELSE upfSessions
    /\ UNCHANGED nextUPSEID

(* handleSessionDeletion: on a response the SEID and the UE IP go back to  *)
(* their pools and the session is marked deleted; it stays in the tables.  *)
DelSent(s) ==
    LET i == FindSession(trueRemote[s]) IN
    /\ i # NoSession
    /\ \E out \in DelOutcomes(sessions[i].remote) :
          /\ UPFDelete(sessions[i].remote, out)
          /\ IF ResponseReceived(out)
             THEN /\ seidAlloc' = SA!Release(seidAlloc, sessions[i].local)
                  /\ ipPool' = IPP!Release(ipPool, sessions[i].ueip)
                  /\ sessions' = [sessions EXCEPT ![i].state = "deleted"]
             ELSE UNCHANGED <<seidAlloc, ipPool, sessions>>
    /\ Send("SessionDeletionRequest", sessions[i].remote, s, i)
    /\ Consume
    /\ UNCHANGED <<phase, cancelled, byOriginalCPSEID, byOriginalRemoteSEID,
                   byLocalSEID, originalSEIDMappings, cleanupQueue, trueRemote>>

HandleSessionDeletion(s) == Unresolved(s) \/ DelSent(s)

(* processMessage: dispatch on the message type.                           *)
ProcessMessage(m) ==
    /\ Replaying
    /\ \/ m.type = "AssociationSetupRequest" /\ (AssociationSkipped \/ AssociationSent)
       \/ m.type = "HeartbeatRequest" /\ HeartbeatSent
       \/ m.type = "SessionEstablishmentRequest" /\ HandleSessionEstablishment(m.sess)
       \/ m.type = "SessionModificationRequest" /\ HandleSessionModification(m.sess)
       \/ m.type = "SessionDeletionRequest" /\ HandleSessionDeletion(m.sess)
       \/ m.type = "Other" /\ UnsupportedSkipped

-----------------------------------------------------------------------------
(* A SIGINT/SIGTERM cancels the context: Replay stops reading, and         *)
(* handleResponses and the timeout monitor stop, so no later wait is ever  *)
(* answered.                                                               *)
Cancel ==
    /\ phase # "done" /\ ~cancelled
    /\ cancelled' = TRUE
    /\ UNCHANGED <<phase, msgCount, sessions, byOriginalCPSEID,
                   byOriginalRemoteSEID, byLocalSEID, originalSEIDMappings,
                   seidAlloc, ipPool, seqCounter, upfSessions, nextUPSEID,
                   cleanupQueue, wire, trueRemote>>

(* Replay returns (end of the recording, or cancellation); run() then      *)
(* calls CleanupSessions when cleanup_on_exit is set, which snapshots the  *)
(* established sessions among the values of the local-SEID table (a       *)
(* session whose SEID another session has since taken is not among them). *)
EndReplay ==
    /\ phase = "replay"
    /\ cancelled \/ msgCount >= 1
    /\ IF CleanupOnExit
       THEN /\ phase' = "cleanup"
            /\ cleanupQueue' =
                  {byLocalSEID[k] : k \in {k \in SA!SEIDSpace :
                      /\ byLocalSEID[k] # NoSession
                      /\ sessions[byLocalSEID[k]].state = "established"}}
       ELSE /\ phase' = "done"
            /\ UNCHANGED cleanupQueue
    /\ UNCHANGED <<cancelled, msgCount, sessions, byOriginalCPSEID,
                   byOriginalRemoteSEID, byLocalSEID, originalSEIDMappings,
                   seidAlloc, ipPool, seqCounter, upfSessions, nextUPSEID,
                   wire, trueRemote>>

(* One iteration of CleanupSessions (in map order, so any session next).   *)
(* A response marks the session deleted; its SEID and UE IP are not        *)
(* released.  After a cancellation nothing resolves the wait, which ends   *)
(* at the 30 s cleanup deadline, and the loop then returns.                *)
CleanupDelete(i) ==
    /\ phase = "cleanup"
    /\ i \in cleanupQueue
    /\ cleanupQueue' = cleanupQueue \ {i}
    /\ Send("SessionDeletionRequest", sessions[i].remote, sessions[i].origCP, i)
    /\ \E out \in DelOutcomes(sessions[i].remote) :
          /\ UPFDelete(sessions[i].remote, out)
          /\ IF ResponseReceived(out) /\ ~cancelled
             THEN sessions' = [sessions EXCEPT ![i].state = "deleted"]
             ELSE UNCHANGED sessions
    /\ phase' = IF cancelled THEN "done" ELSE "cleanup"
    /\ UNCHANGED <<cancelled, msgCount, byOriginalCPSEID, byOriginalRemoteSEID,
                   byLocalSEID, originalSEIDMappings, seidAlloc, ipPool,
                   trueRemote>>

(* The loop ends: every snapshotted session was tried, or the cleanup     *)
(* context's deadline passed.                                              *)
CleanupEnd ==
    /\ phase = "cleanup"
    /\ phase' = "done"
    /\ UNCHANGED <<cancelled, msgCount, sessions, byOriginalCPSEID,
                   byOriginalRemoteSEID, byLocalSEID, originalSEIDMappings,
                   seidAlloc, ipPool, seqCounter, upfSessions, nextUPSEID,
                   cleanupQueue, wire, trueRemote>>

Next ==
    \/ \E m \in RecordedMessages : ProcessMessage(m)
    \/ Cancel
    \/ EndReplay
    \/ \E i \in cleanupQueue : CleanupDelete(i)
    \/ CleanupEnd

Spec == Init /\ [][Next]_vars

-----------------------------------------------------------------------------
(* Properties                                                              *)

TypeOK ==
    /\ phase \in {"replay", "cleanup", "done"}
    /\ cancelled \in BOOLEAN
    /\ msgCount \in 0 .. MaxMessages
    /\ sessions \in Seq(SessionRecords) /\ Len(sessions) <= msgCount
    /\ byOriginalCPSEID \in [AllOrig -> 0 .. Len(sessions)]
    /\ byOriginalRemoteSEID \in [AllOrig -> 0 .. Len(sessions)]
    /\ byLocalSEID \in [SA!SEIDSpace -> 0 .. Len(sessions)]
    /\ originalSEIDMappings \in [OrigCPSEIDs -> OrigUPSEIDs \cup {0}]
    /\ trueRemote \in [OrigCPSEIDs -> OrigUPSEIDs]
    /\ seidAlloc \in SA!Allocators
    /\ ipPool \in IPP!Pools
    /\ seqCounter \in 0 .. SeqMax
    /\ nextUPSEID \in 1 .. msgCount + 1
    /\ upfSessions \subseteq 1 .. nextUPSEID - 1
    /\ cleanupQueue \subseteq DOMAIN sessions
    /\ wire \in Wires

(* The identifiers of a session the manager still counts as live (not     *)
(* deleted) are held by their allocators and belong to no other live       *)
(* session: the SEID allocator and the UE IP pool never hand out, and a    *)
(* deletion never frees, an identifier a live session uses (spec 3:        *)
(* localID and assignedAddress are unique among non-deleted sessions).    *)
LiveIdentifiersExclusive ==
    \A i \in DOMAIN sessions : sessions[i].state # "deleted" =>
        /\ sessions[i].local \in seidAlloc.used
        /\ sessions[i].ueip \in ipPool.allocated
        /\ \A j \in DOMAIN sessions \ {i} : sessions[j].state # "deleted" =>
              /\ sessions[j].local # sessions[i].local
              /\ sessions[j].ueip # sessions[i].ueip

(* A modification or deletion the replay sends goes to the session         *)
(* created from the same recorded session as the recorded request it was   *)
(* rewritten from: the three-way SEID mapping and the fallback lookup of   *)
(* findSessionByOriginalRemoteSEID never redirect a request to another     *)
(* session.                                                                *)
RoutedToOwnSession ==
    wire.type \in {"SessionModificationRequest", "SessionDeletionRequest"} =>
        sessions[wire.target].origCP = wire.orig

(* Spec 4.4: an establishment that times out or is rejected leaves the     *)
(* session failed and otherwise unmapped, its localID and assignedAddress  *)
(* released.                                                               *)
FailedSessionReleased ==
    \A i \in DOMAIN sessions : sessions[i].state = "failed" =>
        /\ sessions[i].local \notin seidAlloc.used
        /\ sessions[i].ueip \notin ipPool.allocated
        /\ byLocalSEID[sessions[i].local] # i
        /\ byOriginalCPSEID[sessions[i].origCP] # i

(* Spec 3 and 4.2: the pool issues addresses of its CIDR block, and never  *)
(* the network address.  Allocate resets an out-of-block cursor to the     *)
(* network address plus one and never checks that this address is itself *)
(* in the block.                                                           *)
AddressesInBlock ==
    \A ip \in ipPool.allocated : IPP!InBlock(ip) /\ ip # 0


==============================================================================
