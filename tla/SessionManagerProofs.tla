------------------------- MODULE SessionManagerProofs -------------------------
(***************************************************************************)
(* Proofs about SessionManager for every value of its constants: lemmas   *)
(* on what the SEID allocator and the UE IP pool return, the type         *)
(* correctness of the replay, and, against the mock UPF, the exclusivity  *)
(* of the live sessions' SEIDs and UE IPs.                                 *)
(***************************************************************************)
EXTENDS SessionManager, TLAPS

(* The sequential scan of SEIDAllocator.Allocate only ever yields a SEID   *)
(* of the non-zero space, whatever iteration it stops at.                  *)
LEMMA SeqCandidateInSpace ==
    ASSUME NEW n \in 0 .. SA!SEIDMax, NEW i \in Nat
    PROVE  SA!SeqCandidate(n, i) \in SA!SEIDSpace
BY WidthAssumption, ConstantsAssumption
   DEF SA!SeqCandidate, SA!SEIDSpace, SA!SEIDMax, SA!SEIDModulus

(* SEIDAllocator.Allocate: the allocator stays well formed; a success     *)
(* returns a SEID that was free and marks exactly it used; a failure      *)
(* marks nothing.                                                          *)
LEMMA AllocateSEID ==
    ASSUME NEW a \in SA!Allocators, NEW o \in SA!AllocateOutcomes(a)
    PROVE  /\ o.alloc \in SA!Allocators
           /\ o.err \in BOOLEAN
           /\ ~o.err => /\ o.seid \in SA!SEIDSpace
                        /\ o.seid \notin a.used
                        /\ o.alloc.used = a.used \cup {o.seid}
           /\ o.err => o.alloc.used = a.used
<1> USE WidthAssumption, ConstantsAssumption
<1>1. CASE SEIDStrategy = "sequential"
  <2>1. o = SA!SequentialOutcome(a)
    BY <1>1 DEF SA!AllocateOutcomes
  <2>2. CASE SA!FirstFreeAttempt(a) = {}
    <3>1. (SA!SeqCandidate(a.next, MaxSEIDAttempts - 1) + 1) % SA!SEIDModulus
             \in 0 .. SA!SEIDMax
      <4>1. SA!SeqCandidate(a.next, MaxSEIDAttempts - 1) \in SA!SEIDSpace
        BY SeqCandidateInSpace DEF SA!Allocators
      <4> QED BY <4>1 DEF SA!SEIDSpace, SA!SEIDMax, SA!SEIDModulus
    <3> QED BY <2>1, <2>2, <3>1 DEF SA!SequentialOutcome, SA!Allocators
  <2>3. CASE SA!FirstFreeAttempt(a) # {}
    <3> DEFINE k == CHOOSE i \in SA!FirstFreeAttempt(a) : TRUE
               s == SA!SeqCandidate(a.next, k)
    <3>1. k \in SA!FreeAttempts(a)
      BY <2>3 DEF SA!FirstFreeAttempt
    <3>2. s \in SA!SEIDSpace /\ s \notin a.used
      BY <3>1, SeqCandidateInSpace DEF SA!FreeAttempts, SA!Allocators
    <3>3. o = [err |-> FALSE, seid |-> s,
               alloc |-> [next |-> (s + 1) % SA!SEIDModulus,
                          used |-> a.used \cup {s}]]
      BY <2>1, <2>3 DEF SA!SequentialOutcome
    <3>4. (s + 1) % SA!SEIDModulus \in 0 .. SA!SEIDMax
      BY <3>2 DEF SA!SEIDSpace, SA!SEIDMax, SA!SEIDModulus
    <3> QED BY <3>2, <3>3, <3>4 DEF SA!Allocators
  <2> QED BY <2>2, <2>3
<1>2. CASE SEIDStrategy # "sequential"
  <2>1. \/ \E s \in SA!SEIDSpace \ a.used :
              o = [err |-> FALSE, seid |-> s,
                   alloc |-> [a EXCEPT !.used = @ \cup {s}]]
        \/ o = [err |-> TRUE, seid |-> 0, alloc |-> a]
    BY <1>2 DEF SA!AllocateOutcomes
  <2>2. CASE o = [err |-> TRUE, seid |-> 0, alloc |-> a]
    BY <2>2
  <2>3. CASE \E s \in SA!SEIDSpace \ a.used :
               o = [err |-> FALSE, seid |-> s,
                    alloc |-> [a EXCEPT !.used = @ \cup {s}]]
    <3>1. PICK s \in SA!SEIDSpace \ a.used :
               o = [err |-> FALSE, seid |-> s,
                    alloc |-> [a EXCEPT !.used = @ \cup {s}]]
      BY <2>3
    <3>2. [a EXCEPT !.used = @ \cup {s}] = [next |-> a.next, used |-> a.used \cup {s}]
      BY DEF SA!Allocators
    <3> QED BY <3>1, <3>2 DEF SA!Allocators
  <2> QED BY <2>1, <2>2, <2>3
<1> QED BY <1>1, <1>2

(* UEIPPool.Allocate: the pool stays well formed; a success returns an    *)
(* address that was free and marks exactly it allocated; a failure marks  *)
(* nothing.                                                                *)
LEMMA AllocateUEIP ==
    ASSUME NEW p \in IPP!Pools
    PROVE  LET r == IPP!Allocate(p) IN
           /\ r.pool \in IPP!Pools
           /\ r.err \in BOOLEAN
           /\ ~r.err => /\ r.ip \in IPP!Addresses
                        /\ r.ip \notin p.allocated
                        /\ r.pool.allocated = p.allocated \cup {r.ip}
           /\ r.err => r.pool.allocated = p.allocated
<1> USE WidthAssumption, ConstantsAssumption
<1>1. IPP!ScanStart(p) \in IPP!Addresses
  BY DEF IPP!ScanStart, IPP!Addresses, IPP!InBlock, IPP!BlockSize, IPP!Pools
<1>2. CASE IPP!FirstFreeStep(p) = {}
  BY <1>1, <1>2 DEF IPP!Allocate, IPP!Pools
<1>3. CASE IPP!FirstFreeStep(p) # {}
  <2> DEFINE k  == CHOOSE i \in IPP!FirstFreeStep(p) : TRUE
             ip == IPP!ScanAddress(IPP!ScanStart(p), k)
  <2>1. k \in IPP!FreeSteps(p)
    BY <1>3 DEF IPP!FirstFreeStep
  <2>2. ip \in IPP!Addresses /\ ip \notin p.allocated
    BY <1>1, <2>1 DEF IPP!FreeSteps, IPP!ScanAddress, IPP!ScanLength,
                      IPP!Addresses, IPP!BlockSize
  <2>3. IPP!Advance(ip) \in IPP!Addresses
    BY <2>2 DEF IPP!Advance, IPP!InBlock, IPP!Addresses, IPP!BlockSize
  <2>4. IPP!Allocate(p) =
          [err |-> FALSE, ip |-> ip,
           pool |-> [next |-> IPP!Advance(ip), allocated |-> p.allocated \cup {ip}]]
    BY <1>3 DEF IPP!Allocate
  <2> QED BY <2>2, <2>3, <2>4 DEF IPP!Pools
<1> QED BY <1>2, <1>3

(* SequenceCounter.Next stays within the 24-bit range and is never 0.    *)
LEMMA NextSeqType ==
    ASSUME seqCounter \in 0 .. SeqMax
    PROVE  NextSeq \in 1 .. SeqMax
BY WidthAssumption DEF NextSeq, SeqMax

(* A request the replay sends is a well-formed datagram.                   *)
LEMMA SendType ==
    ASSUME NEW type \in RequestTypes, NEW seid \in Nat,
           NEW orig \in OrigCPSEIDs \cup {0}, NEW target \in 0 .. MaxMessages,
           seqCounter \in 0 .. SeqMax,
           Send(type, seid, orig, target)
    PROVE  seqCounter' \in 0 .. SeqMax /\ wire' \in Wires
BY NextSeqType DEF Send, Wires

-----------------------------------------------------------------------------
(* Type correctness: the replay never leaves the types of TypeOK.          *)

LEMMA InitTypeOK == Init => TypeOK
<1> SUFFICES ASSUME Init PROVE TypeOK
  OBVIOUS
<1> USE ConstantsAssumption, WidthAssumption
<1>1. seidAlloc \in SA!Allocators
  BY DEF Init, SA!NewSEIDAllocator, SA!Allocators, SA!SEIDMax, SA!SEIDModulus
<1>2. ipPool \in IPP!Pools
  BY DEF Init, IPP!NewUEIPPool, IPP!Pools, IPP!Addresses, IPP!BlockSize
<1>3. originalSEIDMappings \in [OrigCPSEIDs -> OrigUPSEIDs \cup {0}]
  BY DEF Init
<1>4. trueRemote \in [OrigCPSEIDs -> OrigUPSEIDs]
  BY DEF Init
<1>5. /\ byOriginalCPSEID \in [AllOrig -> 0 .. Len(sessions)]
      /\ byOriginalRemoteSEID \in [AllOrig -> 0 .. Len(sessions)]
      /\ byLocalSEID \in [SA!SEIDSpace -> 0 .. Len(sessions)]
  BY DEF Init, NoSession
<1>6. wire \in Wires
  BY DEF Init, Wires
<1>7. seqCounter \in 0 .. SeqMax
  BY DEF Init, SeqMax
<1>8. /\ sessions \in Seq(SessionRecords) /\ Len(sessions) <= msgCount
      /\ msgCount \in 0 .. MaxMessages
  BY DEF Init
<1>9. phase \in {"replay", "cleanup", "done"} /\ cancelled \in BOOLEAN
  BY Zenon DEF Init
<1>12. nextUPSEID \in 1 .. msgCount + 1
  BY DEF Init
<1>10. upfSessions \subseteq 1 .. nextUPSEID - 1
  BY DEF Init
<1>11. cleanupQueue \subseteq DOMAIN sessions
  BY DEF Init
<1> QED BY <1>1, <1>2, <1>3, <1>4, <1>5, <1>6, <1>7, <1>8, <1>9, <1>10, <1>11, <1>12
  DEF TypeOK

(* The steps that leave the session tables alone: association, heartbeat, *)
(* an unsupported message, a signal, the end of the replay loop, the end  *)
(* of cleanup.                                                             *)
LEMMA AssociationSkippedTypeOK == TypeOK /\ AssociationSkipped => TypeOK'
BY ConstantsAssumption DEF TypeOK, AssociationSkipped, Replaying, Consume

LEMMA AssociationSentTypeOK == TypeOK /\ AssociationSent => TypeOK'
<1> SUFFICES ASSUME TypeOK, AssociationSent PROVE TypeOK'
  OBVIOUS
<1>1. seqCounter' \in 0 .. SeqMax /\ wire' \in Wires
  BY SendType, ConstantsAssumption DEF AssociationSent, TypeOK, RequestTypes
<1> QED BY <1>1, ConstantsAssumption DEF TypeOK, AssociationSent, Replaying, Consume

LEMMA HeartbeatSentTypeOK == TypeOK /\ HeartbeatSent => TypeOK'
<1> SUFFICES ASSUME TypeOK, HeartbeatSent PROVE TypeOK'
  OBVIOUS
<1>1. seqCounter' \in 0 .. SeqMax /\ wire' \in Wires
  BY SendType, ConstantsAssumption DEF HeartbeatSent, TypeOK, RequestTypes
<1> QED BY <1>1, ConstantsAssumption DEF TypeOK, HeartbeatSent, Replaying, Consume

LEMMA UnsupportedSkippedTypeOK == TypeOK /\ UnsupportedSkipped => TypeOK'
BY ConstantsAssumption DEF TypeOK, UnsupportedSkipped, Replaying, Consume

LEMMA CancelTypeOK == TypeOK /\ Cancel => TypeOK'
BY DEF TypeOK, Cancel

LEMMA EndReplayTypeOK == TypeOK /\ EndReplay => TypeOK'
<1> SUFFICES ASSUME TypeOK, EndReplay PROVE TypeOK'
  OBVIOUS
<1>1. cleanupQueue' \subseteq DOMAIN sessions
  <2>1. CASE CleanupOnExit
    BY <2>1 DEF EndReplay, TypeOK, NoSession
  <2>2. CASE ~CleanupOnExit
    BY <2>2 DEF EndReplay, TypeOK
  <2> QED BY <2>1, <2>2
<1>2. phase' \in {"replay", "cleanup", "done"}
  BY DEF EndReplay
<1> QED BY <1>1, <1>2 DEF TypeOK, EndReplay

LEMMA CleanupEndTypeOK == TypeOK /\ CleanupEnd => TypeOK'
BY DEF TypeOK, CleanupEnd

(* handleSessionEstablishment when an allocation fails.                   *)
LEMMA EstSEIDExhaustedTypeOK ==
    ASSUME NEW s \in OrigCPSEIDs, TypeOK, Replaying, EstSEIDExhausted(s)
    PROVE  TypeOK'
<1>1. seidAlloc' \in SA!Allocators
  BY AllocateSEID DEF EstSEIDExhausted, TypeOK
<1> QED BY <1>1, ConstantsAssumption DEF TypeOK, EstSEIDExhausted, Replaying, Consume

LEMMA EstPoolExhaustedTypeOK ==
    ASSUME NEW s \in OrigCPSEIDs, TypeOK, Replaying, EstPoolExhausted(s)
    PROVE  TypeOK'
<1>1. PICK o \in SA!AllocateOutcomes(seidAlloc) :
         /\ ~o.err /\ IPP!Allocate(ipPool).err
         /\ seidAlloc' = SA!Release(o.alloc, o.seid)
         /\ ipPool' = IPP!Allocate(ipPool).pool
  BY DEF EstPoolExhausted
<1>2. seidAlloc' \in SA!Allocators
  BY <1>1, AllocateSEID DEF TypeOK, SA!Release, SA!Allocators
<1>3. ipPool' \in IPP!Pools
  BY <1>1, AllocateUEIP DEF TypeOK
<1> QED BY <1>2, <1>3, ConstantsAssumption
        DEF TypeOK, EstPoolExhausted, Replaying, Consume

(* One establishment step with its allocation result o and outcome out:  *)
(* the body of EstSent.                                                    *)
EstSentStep(s, o, out) ==
    LET p   == IPP!Allocate(ipPool)
        i   == Len(sessions) + 1
        r   == originalSEIDMappings[s]
    IN  /\ ~o.err /\ ~p.err
        /\ seidAlloc' = o.alloc
        /\ ipPool' = p.pool
        /\ sessions' = Append(sessions,
              [origCP |-> s, origRemote |-> r, local |-> o.seid,
               remote |-> IF out = "accepted" THEN nextUPSEID ELSE 0,
               ueip |-> p.ip, state |-> EstState(out)])
        /\ byOriginalCPSEID' = [byOriginalCPSEID EXCEPT ![s] = i]
        /\ byLocalSEID' = [byLocalSEID EXCEPT ![o.seid] = i]
        /\ byOriginalRemoteSEID' =
              IF r # 0 THEN [byOriginalRemoteSEID EXCEPT ![r] = i]
                       ELSE byOriginalRemoteSEID
        /\ Send("SessionEstablishmentRequest", 0, s, i)
        /\ IF UPFCreates(out)
           THEN /\ upfSessions' = upfSessions \cup {nextUPSEID}
                /\ nextUPSEID' = nextUPSEID + 1
           ELSE UNCHANGED <<upfSessions, nextUPSEID>>
        /\ Consume
        /\ UNCHANGED <<phase, cancelled, originalSEIDMappings,
                       cleanupQueue, trueRemote>>

(* handleSessionEstablishment when both identifiers are allocated: the new *)
(* session record, the three tables and the UPF's session set keep their   *)
(* types.                                                                  *)
LEMMA EstSentTypeOK ==
    ASSUME NEW s \in OrigCPSEIDs, TypeOK, Replaying, EstSent(s)
    PROVE  TypeOK'
<1> USE ConstantsAssumption
<1>1. PICK o \in SA!AllocateOutcomes(seidAlloc), out \in EstOutcomes :
        EstSentStep(s, o, out)
  BY DEF EstSent, EstSentStep
<1> USE DEF EstSentStep
<1> DEFINE p == IPP!Allocate(ipPool)
           i == Len(sessions) + 1
           r == originalSEIDMappings[s]
           rec == [origCP |-> s, origRemote |-> r, local |-> o.seid,
                   remote |-> IF out = "accepted" THEN nextUPSEID ELSE 0,
                   ueip |-> p.ip, state |-> EstState(out)]
<1>2. seidAlloc' \in SA!Allocators /\ o.seid \in SA!SEIDSpace
  BY <1>1, AllocateSEID DEF TypeOK
<1>3. ipPool' \in IPP!Pools /\ p.ip \in IPP!Addresses
  BY <1>1, AllocateUEIP DEF TypeOK
<1>4. EstState(out) \in SessionStates
  BY DEF EstState, EstOutcomes, SessionStates
<1>5. rec \in SessionRecords
  BY <1>2, <1>3, <1>4 DEF TypeOK, SessionRecords
<1>6. /\ sessions' \in Seq(SessionRecords)
      /\ Len(sessions') = i
      /\ DOMAIN sessions \subseteq DOMAIN sessions'
  BY <1>1, <1>5 DEF TypeOK
<1>7. msgCount' = msgCount + 1 /\ msgCount' \in 0 .. MaxMessages
  BY <1>1 DEF Consume, Replaying, TypeOK
<1>8. /\ byOriginalCPSEID' \in [AllOrig -> 0 .. Len(sessions')]
      /\ byLocalSEID' \in [SA!SEIDSpace -> 0 .. Len(sessions')]
  BY <1>1, <1>2, <1>6 DEF TypeOK, AllOrig
<1>9. byOriginalRemoteSEID' \in [AllOrig -> 0 .. Len(sessions')]
  BY <1>1, <1>6 DEF TypeOK, AllOrig
<1>10. seqCounter' \in 0 .. SeqMax /\ wire' \in Wires
  <2>1. i \in 0 .. MaxMessages
    BY <1>7 DEF TypeOK
  <2> QED BY <1>1, <2>1, SendType DEF TypeOK, RequestTypes
<1>11. nextUPSEID' \in 1 .. msgCount' + 1 /\ upfSessions' \subseteq 1 .. nextUPSEID' - 1
  <2>1. CASE UPFCreates(out)
    <3>1. upfSessions' = upfSessions \cup {nextUPSEID} /\ nextUPSEID' = nextUPSEID + 1
      BY <1>1, <2>1
    <3> QED BY <3>1, <1>7 DEF TypeOK
  <2>2. CASE ~UPFCreates(out)
    <3>1. upfSessions' = upfSessions /\ nextUPSEID' = nextUPSEID
      BY <1>1, <2>2
    <3> QED BY <3>1, <1>7 DEF TypeOK
  <2> QED BY <2>1, <2>2
<1>12. /\ phase' \in {"replay", "cleanup", "done"} /\ cancelled' \in BOOLEAN
       /\ originalSEIDMappings' \in [OrigCPSEIDs -> OrigUPSEIDs \cup {0}]
       /\ trueRemote' \in [OrigCPSEIDs -> OrigUPSEIDs]
       /\ cleanupQueue' \subseteq DOMAIN sessions'
  BY <1>1, <1>6 DEF TypeOK
<1>13. Len(sessions') <= msgCount'
  BY <1>6, <1>7 DEF TypeOK
<1> QED BY <1>2, <1>3, <1>6, <1>7, <1>8, <1>9, <1>10, <1>11, <1>12, <1>13
        DEF TypeOK

(* findSessionByOriginalRemoteSEID returns no session or one of them.     *)
LEMMA FindSessionType ==
    ASSUME TypeOK, NEW hdr \in AllOrig
    PROVE  FindSession(hdr) \in 0 .. Len(sessions)
BY DEF TypeOK, FindSession

(* Marking a session deleted keeps the sequence of records well typed.    *)
LEMMA MarkDeletedType ==
    ASSUME NEW S \in Seq(SessionRecords), NEW i \in 1 .. Len(S)
    PROVE  /\ [S EXCEPT ![i].state = "deleted"] \in Seq(SessionRecords)
           /\ Len([S EXCEPT ![i].state = "deleted"]) = Len(S)
<1>1. [S[i] EXCEPT !.state = "deleted"] \in SessionRecords
  <2>1. S[i] \in SessionRecords
    OBVIOUS
  <2>2. [S[i] EXCEPT !.state = "deleted"] =
          [origCP |-> S[i].origCP, origRemote |-> S[i].origRemote,
           local |-> S[i].local, remote |-> S[i].remote, ueip |-> S[i].ueip,
           state |-> "deleted"]
    BY <2>1 DEF SessionRecords
  <2> QED BY <2>1, <2>2 DEF SessionRecords, SessionStates
<1>2. [S EXCEPT ![i].state = "deleted"] = [S EXCEPT ![i] = [S[i] EXCEPT !.state = "deleted"]]
  OBVIOUS
<1> QED BY <1>1, <1>2

(* handleSessionModification and handleSessionDeletion.                   *)
LEMMA UnresolvedTypeOK ==
    ASSUME NEW s \in OrigCPSEIDs, TypeOK, Replaying, Unresolved(s)
    PROVE  TypeOK'
BY ConstantsAssumption DEF TypeOK, Unresolved, Replaying, Consume

LEMMA ModSentTypeOK ==
    ASSUME NEW s \in OrigCPSEIDs, TypeOK, Replaying, ModSent(s)
    PROVE  TypeOK'
<1> USE ConstantsAssumption
<1> DEFINE i == FindSession(trueRemote[s])
<1>1. i \in 1 .. Len(sessions)
  <2>1. trueRemote[s] \in AllOrig
    BY DEF TypeOK, AllOrig
  <2>2. i \in 0 .. Len(sessions)
    BY <2>1, FindSessionType
  <2> QED BY <2>2 DEF ModSent, NoSession
<1>2. sessions[i].remote \in Nat /\ i \in 0 .. MaxMessages
  <2>1. sessions[i] \in SessionRecords
    BY <1>1 DEF TypeOK
  <2> QED BY <1>1, <2>1 DEF TypeOK, SessionRecords
<1>3. seqCounter' \in 0 .. SeqMax /\ wire' \in Wires
  BY <1>2, SendType DEF ModSent, TypeOK, RequestTypes
<1> QED BY <1>3 DEF TypeOK, ModSent, Replaying, Consume

(* Releasing a SEID keeps the allocator well formed.                       *)
LEMMA ReleaseSEIDType ==
    ASSUME NEW a \in SA!Allocators, NEW x
    PROVE  SA!Release(a, x) \in SA!Allocators
BY DEF SA!Release, SA!Allocators

LEMMA DelSentTypeOK ==
    ASSUME NEW s \in OrigCPSEIDs, TypeOK, Replaying, DelSent(s)
    PROVE  TypeOK'
<1> USE ConstantsAssumption
<1> DEFINE i == FindSession(trueRemote[s])
<1>1. i \in 1 .. Len(sessions)
  <2>1. trueRemote[s] \in AllOrig
    BY DEF TypeOK, AllOrig
  <2>2. i \in 0 .. Len(sessions)
    BY <2>1, FindSessionType
  <2> QED BY <2>2 DEF DelSent, NoSession
<1>2. sessions[i].remote \in Nat /\ i \in 0 .. MaxMessages
      /\ sessions[i].local \in SA!SEIDSpace /\ sessions[i].ueip \in IPP!Addresses
  <2>1. sessions[i] \in SessionRecords
    BY <1>1 DEF TypeOK
  <2>2. i \in 0 .. MaxMessages
    BY <1>1 DEF TypeOK
  <2>3. sessions[i].remote \in Nat /\ sessions[i].local \in SA!SEIDSpace
        /\ sessions[i].ueip \in IPP!Addresses
    BY <2>1 DEF SessionRecords
  <2> QED BY <2>2, <2>3
<1>3. seqCounter' \in 0 .. SeqMax /\ wire' \in Wires
  BY <1>2, SendType DEF DelSent, TypeOK, RequestTypes
<1>4. PICK out \in DelOutcomes(sessions[i].remote) :
        /\ UPFDelete(sessions[i].remote, out)
        /\ IF ResponseReceived(out)
           THEN /\ seidAlloc' = SA!Release(seidAlloc, sessions[i].local)
                /\ ipPool' = IPP!Release(ipPool, sessions[i].ueip)
                /\ sessions' = [sessions EXCEPT ![i].state = "deleted"]
           ELSE UNCHANGED <<seidAlloc, ipPool, sessions>>
  BY DEF DelSent
<1>5. /\ seidAlloc' \in SA!Allocators /\ ipPool' \in IPP!Pools
      /\ sessions' \in Seq(SessionRecords) /\ Len(sessions') = Len(sessions)
  <2>1. CASE ResponseReceived(out)
    <3>1. seidAlloc' \in SA!Allocators
      <4>1. seidAlloc \in SA!Allocators
        BY DEF TypeOK
      <4>2. seidAlloc' = SA!Release(seidAlloc, sessions[i].local)
        BY <1>4, <2>1
      <4> HIDE DEF i
      <4> QED BY <4>1, <4>2, ReleaseSEIDType
    <3>2. ipPool' \in IPP!Pools
      <4>1. ipPool' = [next |-> ipPool.next,
                       allocated |-> ipPool.allocated \ {sessions[i].ueip}]
        BY <1>4, <2>1 DEF TypeOK, IPP!Release, IPP!Pools
      <4> QED BY <4>1 DEF TypeOK, IPP!Pools
    <3>3. sessions' \in Seq(SessionRecords) /\ Len(sessions') = Len(sessions)
      <4>1. sessions' = [sessions EXCEPT ![i].state = "deleted"]
        BY <1>4, <2>1
      <4>2. sessions \in Seq(SessionRecords)
        BY DEF TypeOK
      <4> HIDE DEF i
      <4> QED BY <1>1, <4>1, <4>2, MarkDeletedType
    <3> QED BY <3>1, <3>2, <3>3
  <2>2. CASE ~ResponseReceived(out)
    BY <1>4, <2>2 DEF TypeOK
  <2> QED BY <2>1, <2>2
<1>6. upfSessions' \subseteq upfSessions /\ nextUPSEID' = nextUPSEID
  BY <1>4 DEF UPFDelete
<1>7. msgCount' = msgCount + 1 /\ msgCount' \in 0 .. MaxMessages
  BY DEF DelSent, Consume, Replaying, TypeOK
<1>8. UNCHANGED <<phase, cancelled, byOriginalCPSEID, byOriginalRemoteSEID,
                  byLocalSEID, originalSEIDMappings, cleanupQueue, trueRemote>>
  BY DEF DelSent
<1>9. /\ byOriginalCPSEID' \in [AllOrig -> 0 .. Len(sessions')]
      /\ byOriginalRemoteSEID' \in [AllOrig -> 0 .. Len(sessions')]
      /\ byLocalSEID' \in [SA!SEIDSpace -> 0 .. Len(sessions')]
      /\ cleanupQueue' \subseteq DOMAIN sessions'
  BY <1>5, <1>8 DEF TypeOK
<1>10. /\ Len(sessions') <= msgCount'
       /\ nextUPSEID' \in 1 .. msgCount' + 1
       /\ upfSessions' \subseteq 1 .. nextUPSEID' - 1
  BY <1>5, <1>6, <1>7 DEF TypeOK
<1>11. /\ phase' \in {"replay", "cleanup", "done"} /\ cancelled' \in BOOLEAN
       /\ originalSEIDMappings' \in [OrigCPSEIDs -> OrigUPSEIDs \cup {0}]
       /\ trueRemote' \in [OrigCPSEIDs -> OrigUPSEIDs]
  BY <1>8, Zenon DEF TypeOK
<1> QED BY <1>3, <1>5, <1>7, <1>9, <1>10, <1>11 DEF TypeOK

(* One iteration of CleanupSessions.                                       *)
LEMMA CleanupDeleteTypeOK ==
    ASSUME NEW i \in cleanupQueue, TypeOK, CleanupDelete(i)
    PROVE  TypeOK'
<1> USE ConstantsAssumption
<1>1. i \in 1 .. Len(sessions)
  BY DEF TypeOK
<1>2. /\ sessions[i].remote \in Nat /\ i \in 0 .. MaxMessages
      /\ sessions[i].origCP \in OrigCPSEIDs
  <2>1. sessions[i] \in SessionRecords
    BY <1>1 DEF TypeOK
  <2>2. i \in 0 .. MaxMessages
    BY <1>1 DEF TypeOK
  <2>3. sessions[i].remote \in Nat /\ sessions[i].origCP \in OrigCPSEIDs
    BY <2>1 DEF SessionRecords
  <2> QED BY <2>2, <2>3
<1>3. seqCounter' \in 0 .. SeqMax /\ wire' \in Wires
  BY <1>2, SendType DEF CleanupDelete, TypeOK, RequestTypes
<1>4. PICK out \in DelOutcomes(sessions[i].remote) :
        /\ UPFDelete(sessions[i].remote, out)
        /\ IF ResponseReceived(out) /\ ~cancelled
           THEN sessions' = [sessions EXCEPT ![i].state = "deleted"]
           ELSE UNCHANGED sessions
  BY DEF CleanupDelete
<1>5. sessions' \in Seq(SessionRecords) /\ Len(sessions') = Len(sessions)
  <2>1. CASE ResponseReceived(out) /\ ~cancelled
    <3>1. sessions' = [sessions EXCEPT ![i].state = "deleted"]
      BY <1>4, <2>1
    <3>2. sessions \in Seq(SessionRecords)
      BY DEF TypeOK
    <3> QED BY <1>1, <3>1, <3>2, MarkDeletedType
  <2>2. CASE ~(ResponseReceived(out) /\ ~cancelled)
    BY <1>4, <2>2 DEF TypeOK
  <2> QED BY <2>1, <2>2
<1>6. upfSessions' \subseteq upfSessions /\ nextUPSEID' = nextUPSEID
  BY <1>4 DEF UPFDelete
<1>7. /\ phase' \in {"replay", "cleanup", "done"}
      /\ cleanupQueue' \subseteq DOMAIN sessions'
  BY <1>5 DEF CleanupDelete, TypeOK
<1>8. UNCHANGED <<cancelled, msgCount, byOriginalCPSEID, byOriginalRemoteSEID,
                  byLocalSEID, originalSEIDMappings, seidAlloc, ipPool, trueRemote>>
  BY DEF CleanupDelete
<1> QED BY <1>3, <1>5, <1>6, <1>7, <1>8 DEF TypeOK

(* processMessage: every branch of the dispatch keeps the types.          *)
LEMMA ProcessMessageTypeOK ==
    ASSUME NEW m \in RecordedMessages, TypeOK, ProcessMessage(m)
    PROVE  TypeOK'
<1>1. Replaying
  BY DEF ProcessMessage
<1>2. CASE m.type = "AssociationSetupRequest"
  BY <1>2, AssociationSkippedTypeOK, AssociationSentTypeOK DEF ProcessMessage
<1>3. CASE m.type = "HeartbeatRequest"
  BY <1>3, HeartbeatSentTypeOK DEF ProcessMessage
<1>4. CASE m.type = "Other"
  BY <1>4, UnsupportedSkippedTypeOK DEF ProcessMessage
<1>5. CASE m.type \in {"SessionEstablishmentRequest", "SessionModificationRequest",
                       "SessionDeletionRequest"}
  <2>1. m.sess \in OrigCPSEIDs
    BY <1>5 DEF RecordedMessages
  <2>2. CASE m.type = "SessionEstablishmentRequest"
    BY <1>1, <2>1, <2>2, EstSEIDExhaustedTypeOK, EstPoolExhaustedTypeOK,
       EstSentTypeOK DEF ProcessMessage, HandleSessionEstablishment
  <2>3. CASE m.type = "SessionModificationRequest"
    BY <1>1, <2>1, <2>3, UnresolvedTypeOK, ModSentTypeOK
       DEF ProcessMessage, HandleSessionModification
  <2>4. CASE m.type = "SessionDeletionRequest"
    BY <1>1, <2>1, <2>4, UnresolvedTypeOK, DelSentTypeOK
       DEF ProcessMessage, HandleSessionDeletion
  <2> QED BY <1>5, <2>2, <2>3, <2>4
<1> QED BY <1>2, <1>3, <1>4, <1>5 DEF RecordedMessages

(* The replay, the signal handler and the cleanup preserve the types of  *)
(* every variable, for every recording and configuration.                 *)
THEOREM TypeCorrect == Spec => []TypeOK
<1>1. Init => TypeOK
  BY InitTypeOK
<1>2. TypeOK /\ [Next]_vars => TypeOK'
  <2> SUFFICES ASSUME TypeOK, [Next]_vars PROVE TypeOK'
    OBVIOUS
  <2>1. CASE \E m \in RecordedMessages : ProcessMessage(m)
    BY <2>1, ProcessMessageTypeOK
  <2>2. CASE Cancel
    BY <2>2, CancelTypeOK
  <2>3. CASE EndReplay
    BY <2>3, EndReplayTypeOK
  <2>4. CASE \E i \in cleanupQueue : CleanupDelete(i)
    BY <2>4, CleanupDeleteTypeOK
  <2>5. CASE CleanupEnd
    BY <2>5, CleanupEndTypeOK
  <2>6. CASE UNCHANGED vars
    BY <2>6 DEF TypeOK, vars
  <2> QED BY <2>1, <2>2, <2>3, <2>4, <2>5, <2>6 DEF Next
<1> QED BY <1>1, <1>2, PTL DEF Spec

-----------------------------------------------------------------------------
(* Exclusive identifiers.  handleSessionDeletion releases on any response, *)
(* so the invariant rests on what the peer answers: the mock UPF answers a *)
(* deletion only for a UP SEID it holds.  It holds the UP SEID of no       *)
(* session the manager has marked deleted, and each UP SEID is issued     *)
(* once (every session's remote SEID is below the UPF's next one).        *)
DeletedNotAtUPF ==
    \A i \in DOMAIN sessions :
        sessions[i].state = "deleted" => sessions[i].remote \notin upfSessions

RemoteBelowNext ==
    \A i \in DOMAIN sessions : sessions[i].remote < nextUPSEID

IInv == TypeOK /\ LiveIdentifiersExclusive /\ DeletedNotAtUPF /\ RemoteBelowNext

(* A step that leaves the sessions alone, frees no identifier and gives  *)
(* the UPF no new session preserves the strengthened invariant.           *)
LEMMA FrameIInv ==
    ASSUME IInv, TypeOK',
           sessions' = sessions,
           seidAlloc.used \subseteq seidAlloc'.used,
           ipPool.allocated \subseteq ipPool'.allocated,
           upfSessions' \subseteq upfSessions,
           nextUPSEID' = nextUPSEID
    PROVE  IInv'
<1>1. LiveIdentifiersExclusive'
  BY DEF IInv, LiveIdentifiersExclusive
<1>2. DeletedNotAtUPF'
  BY DEF IInv, DeletedNotAtUPF
<1>3. RemoteBelowNext'
  BY DEF IInv, RemoteBelowNext
<1> QED BY <1>1, <1>2, <1>3 DEF IInv

(* handleSessionEstablishment: the new session's SEID and UE IP were free, *)
(* so they belong to no live session, and its UP SEID is the UPF's newest. *)
LEMMA EstSentIInv ==
    ASSUME NEW s \in OrigCPSEIDs, IInv, Replaying, EstSent(s)
    PROVE  IInv'
<1>1. TypeOK'
  BY EstSentTypeOK DEF IInv
<1>2. PICK o \in SA!AllocateOutcomes(seidAlloc), out \in EstOutcomes :
        EstSentStep(s, o, out)
  BY DEF EstSent, EstSentStep
<1> DEFINE p == IPP!Allocate(ipPool)
           n == Len(sessions) + 1
           rec == [origCP |-> s, origRemote |-> originalSEIDMappings[s],
                   local |-> o.seid,
                   remote |-> IF out = "accepted" THEN nextUPSEID ELSE 0,
                   ueip |-> p.ip, state |-> EstState(out)]
<1>3. /\ o.seid \notin seidAlloc.used
      /\ seidAlloc'.used = seidAlloc.used \cup {o.seid}
  BY <1>2, AllocateSEID DEF IInv, TypeOK, EstSentStep
<1>4. /\ p.ip \notin ipPool.allocated
      /\ ipPool'.allocated = ipPool.allocated \cup {p.ip}
  BY <1>2, AllocateUEIP DEF IInv, TypeOK, EstSentStep
<1>5. /\ sessions' = Append(sessions, rec)
      /\ DOMAIN sessions' = DOMAIN sessions \cup {n}
      /\ n \notin DOMAIN sessions
      /\ \A k \in DOMAIN sessions : sessions'[k] = sessions[k]
      /\ sessions'[n] = rec
  BY <1>2 DEF EstSentStep, IInv, TypeOK
<1>6. rec.state # "deleted"
  BY DEF EstState, EstOutcomes
<1>7. /\ nextUPSEID \in Nat \ {0}
      /\ nextUPSEID' \in {nextUPSEID, nextUPSEID + 1}
      /\ upfSessions' \subseteq upfSessions \cup {nextUPSEID}
      /\ out = "accepted" => nextUPSEID' = nextUPSEID + 1
  BY <1>2 DEF EstSentStep, UPFCreates, IInv, TypeOK
<1>8. LiveIdentifiersExclusive'
  <2> SUFFICES ASSUME NEW k \in DOMAIN sessions', sessions'[k].state # "deleted"
               PROVE  /\ sessions'[k].local \in seidAlloc'.used
                      /\ sessions'[k].ueip \in ipPool'.allocated
                      /\ \A j \in DOMAIN sessions' \ {k} :
                            sessions'[j].state # "deleted" =>
                               /\ sessions'[j].local # sessions'[k].local
                               /\ sessions'[j].ueip # sessions'[k].ueip
    BY DEF LiveIdentifiersExclusive
  <2>1. CASE k = n
    <3>1. sessions'[k].local \in seidAlloc'.used /\ sessions'[k].ueip \in ipPool'.allocated
      BY <1>3, <1>4, <1>5, <2>1
    <3>2. ASSUME NEW j \in DOMAIN sessions' \ {k}, sessions'[j].state # "deleted"
          PROVE  sessions'[j].local # sessions'[k].local /\ sessions'[j].ueip # sessions'[k].ueip
      <4>1. j \in DOMAIN sessions /\ sessions'[j] = sessions[j]
        BY <1>5, <2>1
      <4>2. sessions[j].local \in seidAlloc.used /\ sessions[j].ueip \in ipPool.allocated
        BY <3>2, <4>1 DEF IInv, LiveIdentifiersExclusive
      <4> QED BY <1>3, <1>4, <1>5, <2>1, <4>1, <4>2
    <3> QED BY <3>1, <3>2
  <2>2. CASE k # n
    <3>1. k \in DOMAIN sessions /\ sessions'[k] = sessions[k]
      BY <1>5, <2>2
    <3>2. sessions[k].local \in seidAlloc.used /\ sessions[k].ueip \in ipPool.allocated
      BY <3>1 DEF IInv, LiveIdentifiersExclusive
    <3>3. ASSUME NEW j \in DOMAIN sessions' \ {k}, sessions'[j].state # "deleted"
          PROVE  sessions'[j].local # sessions'[k].local /\ sessions'[j].ueip # sessions'[k].ueip
      <4>1. CASE j = n
        BY <1>3, <1>4, <1>5, <3>1, <3>2, <4>1
      <4>2. CASE j # n
        <5>1. j \in DOMAIN sessions /\ sessions'[j] = sessions[j]
          BY <1>5, <4>2
        <5> QED BY <3>1, <3>3, <5>1 DEF IInv, LiveIdentifiersExclusive
      <4> QED BY <4>1, <4>2
    <3> QED BY <1>3, <1>4, <3>1, <3>2, <3>3
  <2> QED BY <2>1, <2>2
<1>9. DeletedNotAtUPF'
  <2> SUFFICES ASSUME NEW k \in DOMAIN sessions', sessions'[k].state = "deleted"
               PROVE  sessions'[k].remote \notin upfSessions'
    BY DEF DeletedNotAtUPF
  <2>1. k \in DOMAIN sessions /\ sessions'[k] = sessions[k]
    BY <1>5, <1>6
  <2>2. sessions[k].remote \notin upfSessions /\ sessions[k].remote < nextUPSEID
    BY <2>1 DEF IInv, DeletedNotAtUPF, RemoteBelowNext
  <2> QED BY <1>7, <2>1, <2>2
<1>10. RemoteBelowNext'
  <2> SUFFICES ASSUME NEW k \in DOMAIN sessions' PROVE sessions'[k].remote < nextUPSEID'
    BY DEF RemoteBelowNext
  <2>1. CASE k = n
    <3>1. sessions'[k].remote = IF out = "accepted" THEN nextUPSEID ELSE 0
      BY <1>5, <2>1
    <3>2. CASE out = "accepted"
      BY <1>7, <3>1, <3>2
    <3>3. CASE out # "accepted"
      BY <1>7, <3>1, <3>3
    <3> QED BY <3>2, <3>3
  <2>2. CASE k # n
    <3>1. k \in DOMAIN sessions /\ sessions'[k] = sessions[k]
      BY <1>5, <2>2
    <3>2. sessions[k].remote < nextUPSEID
      BY <3>1 DEF IInv, RemoteBelowNext
    <3>3. sessions[k].remote \in Nat
      <4>1. sessions[k] \in SessionRecords
        BY <3>1 DEF IInv, TypeOK
      <4> QED BY <4>1 DEF SessionRecords
    <3> QED BY <1>7, <3>1, <3>2, <3>3
  <2> QED BY <2>1, <2>2
<1> QED BY <1>1, <1>8, <1>9, <1>10 DEF IInv

(* A deletion gets a response from the mock UPF only for a UP SEID it      *)
(* holds, and then the UPF has deleted that session.                      *)
LEMMA ResponseMeansHeld ==
    ASSUME ~PeerAnswersUnknownSession, NEW u, NEW out \in DelOutcomes(u),
           ResponseReceived(out), UPFDelete(u, out)
    PROVE  /\ u \in upfSessions
           /\ upfSessions' = upfSessions \ {u}
           /\ nextUPSEID' = nextUPSEID
BY DEF DelOutcomes, ResponseReceived, UPFDelete, UPFDeletes

(* Marking session i deleted: the other records are untouched.             *)
LEMMA MarkDeletedFacts ==
    ASSUME NEW S \in Seq(SessionRecords), NEW i \in 1 .. Len(S)
    PROVE  LET T == [S EXCEPT ![i].state = "deleted"] IN
           /\ DOMAIN T = DOMAIN S
           /\ \A k \in DOMAIN S \ {i} : T[k] = S[k]
           /\ T[i].state = "deleted"
           /\ T[i].remote = S[i].remote
OBVIOUS

(* handleSessionDeletion, against the mock UPF.  A response means the UPF  *)
(* held the session's UP SEID, so the session was not yet deleted and its *)
(* identifiers belong to it alone: releasing them frees nothing a live    *)
(* session holds.                                                          *)
LEMMA DelSentIInv ==
    ASSUME ~PeerAnswersUnknownSession,
           NEW s \in OrigCPSEIDs, IInv, Replaying, DelSent(s)
    PROVE  IInv'
<1>1. TypeOK'
  BY DelSentTypeOK DEF IInv
<1> DEFINE i == FindSession(trueRemote[s])
           u == sessions[i].remote
<1>2. i \in 1 .. Len(sessions)
  <2>1. trueRemote[s] \in AllOrig
    BY DEF IInv, TypeOK, AllOrig
  <2>2. i \in 0 .. Len(sessions)
    BY <2>1, FindSessionType DEF IInv
  <2> QED BY <2>2 DEF DelSent, NoSession
<1>3. PICK out \in DelOutcomes(u) :
        /\ UPFDelete(u, out)
        /\ IF ResponseReceived(out)
           THEN /\ seidAlloc' = SA!Release(seidAlloc, sessions[i].local)
                /\ ipPool' = IPP!Release(ipPool, sessions[i].ueip)
                /\ sessions' = [sessions EXCEPT ![i].state = "deleted"]
           ELSE UNCHANGED <<seidAlloc, ipPool, sessions>>
  BY DEF DelSent
<1>4. nextUPSEID' = nextUPSEID
  BY <1>3 DEF UPFDelete
<1>5. CASE ~ResponseReceived(out)
  <2>1. upfSessions' \subseteq upfSessions
    BY <1>3 DEF UPFDelete
  <2> QED BY <1>1, <1>3, <1>4, <1>5, <2>1, FrameIInv
<1>6. CASE ResponseReceived(out)
  <2>1. u \in upfSessions /\ upfSessions' = upfSessions \ {u}
    BY <1>3, <1>6, ResponseMeansHeld
  <2>2. sessions[i].state # "deleted"
    BY <1>2, <2>1 DEF IInv, DeletedNotAtUPF
  <2>3. /\ seidAlloc'.used = seidAlloc.used \ {sessions[i].local}
        /\ ipPool'.allocated = ipPool.allocated \ {sessions[i].ueip}
    BY <1>3, <1>6 DEF SA!Release, IPP!Release, IInv, TypeOK, SA!Allocators, IPP!Pools
  <2>4. /\ DOMAIN sessions' = DOMAIN sessions
        /\ \A k \in DOMAIN sessions \ {i} : sessions'[k] = sessions[k]
        /\ sessions'[i].state = "deleted"
        /\ sessions'[i].remote = u
    <3>1. sessions' = [sessions EXCEPT ![i].state = "deleted"]
      BY <1>3, <1>6
    <3>2. sessions \in Seq(SessionRecords)
      BY DEF IInv, TypeOK
    <3> HIDE DEF i
    <3> QED BY <1>2, <3>1, <3>2, MarkDeletedFacts
  <2>5. LiveIdentifiersExclusive'
    <3> SUFFICES ASSUME NEW k \in DOMAIN sessions', sessions'[k].state # "deleted"
                 PROVE  /\ sessions'[k].local \in seidAlloc'.used
                        /\ sessions'[k].ueip \in ipPool'.allocated
                        /\ \A j \in DOMAIN sessions' \ {k} :
                              sessions'[j].state # "deleted" =>
                                 /\ sessions'[j].local # sessions'[k].local
                                 /\ sessions'[j].ueip # sessions'[k].ueip
      BY DEF LiveIdentifiersExclusive
    <3>1. k \in DOMAIN sessions \ {i} /\ sessions'[k] = sessions[k]
      BY <2>4
    <3>2. /\ sessions[k].local \in seidAlloc.used
          /\ sessions[k].ueip \in ipPool.allocated
          /\ sessions[k].local # sessions[i].local
          /\ sessions[k].ueip # sessions[i].ueip
      BY <1>2, <2>2, <3>1 DEF IInv, LiveIdentifiersExclusive
    <3>3. ASSUME NEW j \in DOMAIN sessions' \ {k}, sessions'[j].state # "deleted"
          PROVE  sessions'[j].local # sessions'[k].local /\ sessions'[j].ueip # sessions'[k].ueip
      <4>1. j \in DOMAIN sessions \ {i} /\ sessions'[j] = sessions[j]
        BY <2>4, <3>3
      <4> QED BY <3>1, <3>3, <4>1 DEF IInv, LiveIdentifiersExclusive
    <3> QED BY <2>3, <3>1, <3>2, <3>3
  <2>6. DeletedNotAtUPF'
    <3> SUFFICES ASSUME NEW k \in DOMAIN sessions', sessions'[k].state = "deleted"
                 PROVE  sessions'[k].remote \notin upfSessions'
      BY DEF DeletedNotAtUPF
    <3>1. CASE k = i
      BY <2>1, <2>4, <3>1
    <3>2. CASE k # i
      BY <2>1, <2>4, <3>2 DEF IInv, DeletedNotAtUPF
    <3> QED BY <3>1, <3>2
  <2>7. RemoteBelowNext'
    <3> SUFFICES ASSUME NEW k \in DOMAIN sessions' PROVE sessions'[k].remote < nextUPSEID'
      BY DEF RemoteBelowNext
    <3>1. CASE k = i
      BY <1>2, <1>4, <2>4, <3>1 DEF IInv, RemoteBelowNext
    <3>2. CASE k # i
      BY <1>4, <2>4, <3>2 DEF IInv, RemoteBelowNext
    <3> QED BY <3>1, <3>2
  <2> QED BY <1>1, <2>5, <2>6, <2>7 DEF IInv
<1> QED BY <1>5, <1>6

(* One iteration of CleanupSessions, against the mock UPF: a session it   *)
(* marks deleted had its UP SEID deleted at the UPF, and nothing is        *)
(* released.                                                               *)
LEMMA CleanupDeleteIInv ==
    ASSUME ~PeerAnswersUnknownSession,
           NEW i \in cleanupQueue, IInv, CleanupDelete(i)
    PROVE  IInv'
<1>1. TypeOK'
  BY CleanupDeleteTypeOK DEF IInv
<1>2. i \in 1 .. Len(sessions)
  BY DEF IInv, TypeOK
<1> DEFINE u == sessions[i].remote
<1>3. PICK out \in DelOutcomes(u) :
        /\ UPFDelete(u, out)
        /\ IF ResponseReceived(out) /\ ~cancelled
           THEN sessions' = [sessions EXCEPT ![i].state = "deleted"]
           ELSE UNCHANGED sessions
  BY DEF CleanupDelete
<1>4. /\ nextUPSEID' = nextUPSEID
      /\ upfSessions' \subseteq upfSessions
      /\ UNCHANGED <<seidAlloc, ipPool>>
  BY <1>3 DEF UPFDelete, CleanupDelete
<1>5. CASE ~(ResponseReceived(out) /\ ~cancelled)
  BY <1>1, <1>3, <1>4, <1>5, FrameIInv
<1>6. CASE ResponseReceived(out) /\ ~cancelled
  <2>1. upfSessions' = upfSessions \ {u}
    BY <1>3, <1>6, ResponseMeansHeld
  <2>2. /\ DOMAIN sessions' = DOMAIN sessions
        /\ \A k \in DOMAIN sessions \ {i} : sessions'[k] = sessions[k]
        /\ sessions'[i].state = "deleted"
        /\ sessions'[i].remote = u
    <3>1. sessions' = [sessions EXCEPT ![i].state = "deleted"]
      BY <1>3, <1>6
    <3>2. sessions \in Seq(SessionRecords)
      BY DEF IInv, TypeOK
    <3> QED BY <1>2, <3>1, <3>2, MarkDeletedFacts
  <2>3. LiveIdentifiersExclusive'
    <3> SUFFICES ASSUME NEW k \in DOMAIN sessions', sessions'[k].state # "deleted"
                 PROVE  /\ sessions'[k].local \in seidAlloc'.used
                        /\ sessions'[k].ueip \in ipPool'.allocated
                        /\ \A j \in DOMAIN sessions' \ {k} :
                              sessions'[j].state # "deleted" =>
                                 /\ sessions'[j].local # sessions'[k].local
                                 /\ sessions'[j].ueip # sessions'[k].ueip
      BY DEF LiveIdentifiersExclusive
    <3>1. k \in DOMAIN sessions \ {i} /\ sessions'[k] = sessions[k]
      BY <2>2
    <3>2. ASSUME NEW j \in DOMAIN sessions' \ {k}, sessions'[j].state # "deleted"
          PROVE  sessions'[j].local # sessions'[k].local /\ sessions'[j].ueip # sessions'[k].ueip
      <4>1. j \in DOMAIN sessions \ {i} /\ sessions'[j] = sessions[j]
        BY <2>2, <3>2
      <4> QED BY <3>1, <3>2, <4>1 DEF IInv, LiveIdentifiersExclusive
    <3> QED BY <1>4, <3>1, <3>2 DEF IInv, LiveIdentifiersExclusive
  <2>4. DeletedNotAtUPF'
    <3> SUFFICES ASSUME NEW k \in DOMAIN sessions', sessions'[k].state = "deleted"
                 PROVE  sessions'[k].remote \notin upfSessions'
      BY DEF DeletedNotAtUPF
    <3>1. CASE k = i
      BY <2>1, <2>2, <3>1
    <3>2. CASE k # i
      BY <2>1, <2>2, <3>2 DEF IInv, DeletedNotAtUPF
    <3> QED BY <3>1, <3>2
  <2>5. RemoteBelowNext'
    <3> SUFFICES ASSUME NEW k \in DOMAIN sessions' PROVE sessions'[k].remote < nextUPSEID'
      BY DEF RemoteBelowNext
    <3>1. CASE k = i
      BY <1>2, <1>4, <2>2, <3>1 DEF IInv, RemoteBelowNext
    <3>2. CASE k # i
      BY <1>4, <2>2, <3>2 DEF IInv, RemoteBelowNext
    <3> QED BY <3>1, <3>2
  <2> QED BY <1>1, <2>3, <2>4, <2>5 DEF IInv
<1> QED BY <1>5, <1>6

(* A failed allocation in handleSessionEstablishment gives nothing away:  *)
(* the SEID allocated before an exhausted UE IP pool is released again.   *)
LEMMA EstSEIDExhaustedIInv ==
    ASSUME NEW s \in OrigCPSEIDs, IInv, Replaying, EstSEIDExhausted(s)
    PROVE  IInv'
<1>1. seidAlloc'.used = seidAlloc.used
  BY AllocateSEID DEF EstSEIDExhausted, IInv, TypeOK
<1> QED BY <1>1, EstSEIDExhaustedTypeOK, FrameIInv DEF EstSEIDExhausted, IInv

LEMMA EstPoolExhaustedIInv ==
    ASSUME NEW s \in OrigCPSEIDs, IInv, Replaying, EstPoolExhausted(s)
    PROVE  IInv'
<1>1. PICK o \in SA!AllocateOutcomes(seidAlloc) :
         /\ ~o.err /\ IPP!Allocate(ipPool).err
         /\ seidAlloc' = SA!Release(o.alloc, o.seid)
         /\ ipPool' = IPP!Allocate(ipPool).pool
  BY DEF EstPoolExhausted
<1>2. o.alloc \in SA!Allocators /\ o.seid \notin seidAlloc.used
      /\ o.alloc.used = seidAlloc.used \cup {o.seid}
  BY <1>1, AllocateSEID DEF IInv, TypeOK
<1>3. seidAlloc'.used = seidAlloc.used
  BY <1>1, <1>2 DEF SA!Release, SA!Allocators
<1>4. ipPool'.allocated = ipPool.allocated
  BY <1>1, AllocateUEIP DEF IInv, TypeOK
<1> QED BY <1>3, <1>4, EstPoolExhaustedTypeOK, FrameIInv
        DEF EstPoolExhausted, IInv

(* Every step of the replay and the cleanup, against the mock UPF.        *)
LEMMA NextIInv ==
    ASSUME ~PeerAnswersUnknownSession, IInv, [Next]_vars
    PROVE  IInv'
<1>0. TypeOK
  BY DEF IInv
<1>1. CASE \E m \in RecordedMessages : ProcessMessage(m)
  <2>1. PICK m \in RecordedMessages : ProcessMessage(m)
    BY <1>1
  <2>2. Replaying
    BY <2>1 DEF ProcessMessage
  <2>3. CASE m.type = "AssociationSetupRequest"
    <3>1. CASE AssociationSkipped
      BY <3>1, <1>0, AssociationSkippedTypeOK, FrameIInv DEF AssociationSkipped
    <3>2. CASE AssociationSent
      BY <3>2, <1>0, AssociationSentTypeOK, FrameIInv DEF AssociationSent
    <3> QED BY <2>1, <2>3, <3>1, <3>2 DEF ProcessMessage
  <2>4. CASE m.type = "HeartbeatRequest"
    BY <2>1, <2>4, <1>0, HeartbeatSentTypeOK, FrameIInv DEF ProcessMessage, HeartbeatSent
  <2>5. CASE m.type = "Other"
    BY <2>1, <2>5, <1>0, UnsupportedSkippedTypeOK, FrameIInv
       DEF ProcessMessage, UnsupportedSkipped
  <2>6. CASE m.type \in {"SessionEstablishmentRequest", "SessionModificationRequest",
                         "SessionDeletionRequest"}
    <3>1. m.sess \in OrigCPSEIDs
      BY <2>6 DEF RecordedMessages
    <3>2. CASE m.type = "SessionEstablishmentRequest"
      <4>1. HandleSessionEstablishment(m.sess)
        BY <2>1, <3>2 DEF ProcessMessage
      <4> QED BY <2>2, <3>1, <4>1, EstSEIDExhaustedIInv, EstPoolExhaustedIInv,
                 EstSentIInv DEF HandleSessionEstablishment
    <3>3. CASE m.type = "SessionModificationRequest"
      <4>0. HandleSessionModification(m.sess)
        BY <2>1, <3>3 DEF ProcessMessage
      <4>1. CASE Unresolved(m.sess)
        BY <2>2, <3>1, <4>1, <1>0, UnresolvedTypeOK, FrameIInv DEF Unresolved
      <4>2. CASE ModSent(m.sess)
        BY <2>2, <3>1, <4>2, <1>0, ModSentTypeOK, FrameIInv DEF ModSent
      <4> QED BY <4>0, <4>1, <4>2 DEF HandleSessionModification
    <3>4. CASE m.type = "SessionDeletionRequest"
      <4>0. HandleSessionDeletion(m.sess)
        BY <2>1, <3>4 DEF ProcessMessage
      <4>1. CASE Unresolved(m.sess)
        BY <2>2, <3>1, <4>1, <1>0, UnresolvedTypeOK, FrameIInv DEF Unresolved
      <4>2. CASE DelSent(m.sess)
        BY <2>2, <3>1, <4>2, DelSentIInv
      <4> QED BY <4>0, <4>1, <4>2 DEF HandleSessionDeletion
    <3> QED BY <2>6, <3>2, <3>3, <3>4
  <2>7. m.type \in {"AssociationSetupRequest", "HeartbeatRequest", "Other",
                    "SessionEstablishmentRequest", "SessionModificationRequest",
                    "SessionDeletionRequest"}
    BY DEF RecordedMessages
  <2> QED BY <2>3, <2>4, <2>5, <2>6, <2>7
<1>2. CASE Cancel
  BY <1>2, <1>0, CancelTypeOK, FrameIInv DEF Cancel
<1>3. CASE EndReplay
  BY <1>3, <1>0, EndReplayTypeOK, FrameIInv DEF EndReplay
<1>4. CASE \E i \in cleanupQueue : CleanupDelete(i)
  BY <1>4, CleanupDeleteIInv
<1>5. CASE CleanupEnd
  BY <1>5, <1>0, CleanupEndTypeOK, FrameIInv DEF CleanupEnd
<1>6. CASE UNCHANGED vars
  BY <1>6 DEF vars, IInv, TypeOK, LiveIdentifiersExclusive, DeletedNotAtUPF, RemoteBelowNext
<1> QED BY <1>1, <1>2, <1>3, <1>4, <1>5, <1>6 DEF Next

(* Against the mock UPF, which answers a deletion only for a session it   *)
(* holds, no two live sessions ever share a local SEID or a UE IP, and    *)
(* each live session's SEID and UE IP are marked in use in the SEID      *)
(* allocator and the UE IP pool (handleSessionEstablishment and           *)
(* handleSessionDeletion in manager.go), for every recording and every   *)
(* width of the SEID space and the pool.                                   *)
THEOREM LiveIdentifiersExclusiveHolds ==
    ASSUME ~PeerAnswersUnknownSession
    PROVE  Spec => []LiveIdentifiersExclusive
<1>1. Init => IInv
  <2> SUFFICES ASSUME Init PROVE IInv
    OBVIOUS
  <2>1. TypeOK
    BY InitTypeOK
  <2>2. sessions = << >>
    BY DEF Init
  <2> QED BY <2>1, <2>2 DEF IInv, LiveIdentifiersExclusive, DeletedNotAtUPF,
                            RemoteBelowNext
<1>2. IInv /\ [Next]_vars => IInv'
  BY NextIInv
<1>3. IInv => LiveIdentifiersExclusive
  BY DEF IInv
<1> QED BY <1>1, <1>2, <1>3, PTL DEF Spec

==============================================================================
