---------------------- MODULE TransactionTrackerProofs ----------------------
(***************************************************************************)
(* Proofs about TransactionTracker for every value of its constants: the  *)
(* type correctness of the replay goroutine, the receive path and the     *)
(* timeout monitor, and, while no sequence number is reused, that a       *)
(* handle gets at most one result and that a timeout comes only after     *)
(* every retransmission.                                                   *)
(***************************************************************************)
EXTENDS TransactionTracker, TLAPS

USE TrackerAssumption, TrackerWidthAssumption
    DEF NoTx, Reqs, SeqNums, SeqMax, ResultKinds

(* SequenceCounter.Next stays in the non-zero sequence space.              *)
LEMMA NextSeqType ==
    ASSUME seqCounter \in 0 .. SeqMax
    PROVE  NextSeq \in SeqNums
BY DEF NextSeq, SeqNums, SeqMax

(* TypeOK in parts, one per group of variables an action writes: the     *)
(* context flag, the goroutines' control state, the sequence-number maps, *)
(* the monitor's per-request state, the network counters and the result   *)
(* slots.  A step is shown to keep the parts it writes; the others are    *)
(* unchanged.                                                              *)
TypeCtl ==
    /\ hpc \in {"idle", "waiting", "done"}
    /\ cur \in 0 .. MaxRequests
    /\ seqCounter \in 0 .. SeqMax
    /\ mpc \in {"idle", "handling", "sending", "stopped"}
    /\ todo \subseteq Reqs
    /\ sendingTx \in Reqs \cup {NoTx}

TypeMaps ==
    /\ seqOf \in [Reqs -> 0 .. SeqMax]
    /\ pending \in [SeqNums -> Reqs \cup {NoTx}]

TypeMon ==
    /\ retry \in [Reqs -> 0 .. MaxRetries]
    /\ expired \in [Reqs -> BOOLEAN]

TypeNet ==
    /\ reqNet \in [Reqs -> Nat] /\ respNet \in [Reqs -> Nat]
    /\ attempts \in [Reqs -> Nat] /\ processed \in [Reqs -> Nat]

TypeRes ==
    /\ fulfilled \in [Reqs -> Nat]
    /\ result \in [Reqs -> ResultKinds]

LEMMA TypeSplit ==
    ASSUME TypeOK
    PROVE  /\ cancelled \in BOOLEAN /\ TypeCtl /\ TypeMaps /\ TypeMon
           /\ TypeNet /\ TypeRes
BY Zenon DEF TypeOK, TypeCtl, TypeMaps, TypeMon, TypeNet, TypeRes

LEMMA TypeJoin ==
    ASSUME cancelled' \in BOOLEAN, TypeCtl', TypeMaps', TypeMon', TypeNet',
           TypeRes'
    PROVE  TypeOK'
BY Zenon DEF TypeOK, TypeCtl, TypeMaps, TypeMon, TypeNet, TypeRes

(* An update of a per-request counter keeps it natural when the new      *)
(* value is, or when the point is not a request (the update is then no    *)
(* change).                                                                *)
LEMMA ExceptNat ==
    ASSUME NEW f \in [Reqs -> Nat], NEW x, NEW v,
           x \in Reqs => v \in Nat
    PROVE  [f EXCEPT ![x] = v] \in [Reqs -> Nat]
<1>1. CASE x \in Reqs
  BY <1>1
<1>2. CASE x \notin Reqs
  <2>1. [f EXCEPT ![x] = v] = f
    BY <1>2
  <2> QED BY <2>1
<1> QED BY <1>1, <1>2

(* The same for the per-request result.                                    *)
LEMMA ExceptKind ==
    ASSUME NEW f \in [Reqs -> ResultKinds], NEW x, NEW v,
           x \in Reqs => v \in ResultKinds
    PROVE  [f EXCEPT ![x] = v] \in [Reqs -> ResultKinds]
<1>1. CASE x \in Reqs
  BY <1>1
<1>2. CASE x \notin Reqs
  <2>1. [f EXCEPT ![x] = v] = f
    BY <1>2
  <2> QED BY <2>1
<1> QED BY <1>1, <1>2

(* UDPClient.Send, whether the write succeeds or not, keeps the counters *)
(* of attempts and of requests in flight natural.                          *)
LEMMA TransmitType ==
    ASSUME NEW k, NEW ok \in BOOLEAN,
           attempts \in [Reqs -> Nat], reqNet \in [Reqs -> Nat],
           Transmit(k, ok)
    PROVE  attempts' \in [Reqs -> Nat] /\ reqNet' \in [Reqs -> Nat]
<1>1. attempts' = [attempts EXCEPT ![k] = attempts[k] + 1]
  BY Zenon DEF Transmit
<1>2. attempts' \in [Reqs -> Nat]
  <2>1. k \in Reqs => attempts[k] + 1 \in Nat
    OBVIOUS
  <2> QED BY <1>1, <2>1, ExceptNat
<1>3. CASE ok
  <2>1. reqNet' = [reqNet EXCEPT ![k] = reqNet[k] + 1]
    BY <1>3, Zenon DEF Transmit
  <2>2. k \in Reqs => reqNet[k] + 1 \in Nat
    OBVIOUS
  <2>3. reqNet' \in [Reqs -> Nat]
    BY <2>1, <2>2, ExceptNat
  <2> QED BY <1>2, <2>3
<1>4. CASE ~ok
  <2>1. reqNet' = reqNet
    BY <1>4, Zenon DEF Transmit
  <2> QED BY <1>2, <2>1
<1> QED BY <1>3, <1>4

(* A send on a request's ResultCh keeps the counts natural and the result *)
(* a result kind, whichever request it is.                                 *)
LEMMA FulfilType ==
    ASSUME NEW j, NEW kind \in ResultKinds,
           fulfilled \in [Reqs -> Nat], result \in [Reqs -> ResultKinds],
           Fulfil(j, kind)
    PROVE  fulfilled' \in [Reqs -> Nat] /\ result' \in [Reqs -> ResultKinds]
<1>1. fulfilled' = [fulfilled EXCEPT ![j] = fulfilled[j] + 1]
  BY DEF Fulfil
<1>2. result' = [result EXCEPT ![j] = IF result[j] = "none" THEN kind
                                                       ELSE result[j]]
  BY DEF Fulfil
<1>3. j \in Reqs => fulfilled[j] + 1 \in Nat
  OBVIOUS
<1>4. j \in Reqs => (IF result[j] = "none" THEN kind ELSE result[j])
                      \in ResultKinds
  OBVIOUS
<1>5. fulfilled' \in [Reqs -> Nat]
  BY <1>1, <1>3, ExceptNat
<1>6. result' \in [Reqs -> ResultKinds]
  BY <1>2, <1>4, ExceptKind
<1> QED BY <1>5, <1>6

(* Deleting the pending entry of a sequence number, known or not.          *)
LEMMA ClearType ==
    ASSUME NEW s, pending \in [SeqNums -> Reqs \cup {NoTx}]
    PROVE  [pending EXCEPT ![s] = NoTx] \in [SeqNums -> Reqs \cup {NoTx}]
<1>1. CASE s \in SeqNums
  BY <1>1
<1>2. CASE s \notin SeqNums
  <2>1. [pending EXCEPT ![s] = NoTx] = pending
    BY <1>2
  <2> QED BY <2>1
<1> QED BY <1>1, <1>2

LEMMA InitTypeOK == Init => TypeOK
<1> SUFFICES ASSUME Init PROVE TypeOK
  OBVIOUS
<1>1. cancelled \in BOOLEAN
  BY Zenon DEF Init
<1>2. TypeCtl /\ TypeMaps /\ TypeNet /\ TypeRes
  BY DEF Init, TypeCtl, TypeMaps, TypeNet, TypeRes
<1>3. TypeMon
  BY DEF Init, TypeMon
<1> QED BY <1>1, <1>2, <1>3, Zenon
        DEF TypeOK, TypeCtl, TypeMaps, TypeMon, TypeNet, TypeRes

LEMMA IssueTypeOK ==
    ASSUME TypeOK, Issue
    PROVE  TypeOK'
<1>0. /\ cancelled \in BOOLEAN /\ TypeCtl /\ TypeMaps /\ TypeMon
      /\ TypeNet /\ TypeRes
  BY TypeSplit
<1>1. NextSeq \in SeqNums
  BY <1>0, NextSeqType DEF TypeCtl
<1>2. /\ cur < MaxRequests /\ cur' = cur + 1 /\ seqCounter' = NextSeq
      /\ seqOf' = [seqOf EXCEPT ![cur + 1] = NextSeq]
      /\ pending' = [pending EXCEPT ![NextSeq] = cur + 1]
      /\ UNCHANGED <<cancelled, monitorVars, respNet, processed, fulfilled,
                     result>>
  BY Zenon DEF Issue
<1>3. PICK ok \in SendOutcomes :
            /\ Transmit(cur + 1, ok)
            /\ hpc' = IF ok THEN "waiting" ELSE "idle"
  BY Zenon DEF Issue
<1>4. ok \in BOOLEAN
  BY Zenon DEF SendOutcomes
<1>5. hpc' \in {"idle", "waiting", "done"}
  BY <1>3, <1>4, Zenon
<1>6. attempts' \in [Reqs -> Nat] /\ reqNet' \in [Reqs -> Nat]
  BY <1>0, <1>3, <1>4, TransmitType, Zenon DEF TypeNet
<1>7. TypeCtl'
  BY <1>0, <1>1, <1>2, <1>5 DEF TypeCtl, monitorVars
<1>8. TypeMaps'
  BY <1>0, <1>1, <1>2 DEF TypeCtl, TypeMaps
<1>9. TypeMon' /\ TypeRes'
  BY <1>0, <1>2 DEF TypeMon, TypeRes, monitorVars
<1>10. TypeNet'
  BY <1>0, <1>2, <1>6 DEF TypeNet
<1>11. cancelled' \in BOOLEAN
  BY <1>0, <1>2
<1> QED BY <1>7, <1>8, <1>9, <1>10, <1>11, TypeJoin

(* The steps of the replay goroutine other than Issue, and the signal,    *)
(* write only hpc or cancelled.                                            *)
LEMMA WaitTypeOK ==
    ASSUME TypeOK, Wait \/ WaitCancelled \/ ReplayEnd \/ Cancel
    PROVE  TypeOK'
<1>0. /\ cancelled \in BOOLEAN /\ TypeCtl /\ TypeMaps /\ TypeMon
      /\ TypeNet /\ TypeRes
  BY TypeSplit
<1>1. /\ hpc' \in {"idle", "done", hpc} /\ cancelled' \in {TRUE, cancelled}
      /\ UNCHANGED <<cur, seqCounter, seqOf, pending, monitorVars, netVars,
                     attempts, fulfilled, result>>
  BY Zenon DEF Wait, WaitCancelled, ReplayEnd, Cancel
<1>2. TypeCtl' /\ TypeMaps' /\ TypeMon' /\ TypeNet' /\ TypeRes'
  BY <1>0, <1>1 DEF TypeCtl, TypeMaps, TypeMon, TypeNet, TypeRes,
                    monitorVars, netVars
<1>3. cancelled' \in BOOLEAN
  BY <1>0, <1>1, Zenon
<1> QED BY <1>2, <1>3, TypeJoin

(* A counter of the network moved by one keeps its type: an increment      *)
(* always, a decrement when the counter was positive.                      *)
LEMMA ExceptInc ==
    ASSUME NEW f \in [Reqs -> Nat], NEW x \in Reqs
    PROVE  [f EXCEPT ![x] = f[x] + 1] \in [Reqs -> Nat]
<1>1. f[x] + 1 \in Nat
  BY SMTT(30)
<1> QED BY <1>1, ExceptNat, Zenon

LEMMA ExceptDec ==
    ASSUME NEW f \in [Reqs -> Nat], NEW x \in Reqs, f[x] > 0
    PROVE  [f EXCEPT ![x] = f[x] - 1] \in [Reqs -> Nat]
<1>1. f[x] - 1 \in Nat
  BY SMTT(30)
<1> QED BY <1>1, ExceptNat, Zenon

(* The network and the UPF write only the network counters.               *)
LEMMA NetTypeOK ==
    ASSUME NEW k \in Reqs, TypeOK,
           PeerHandles(k) \/ LoseRequest(k) \/ LoseResponse(k)
    PROVE  TypeOK'
<1>0. /\ cancelled \in BOOLEAN /\ TypeCtl /\ TypeMaps /\ TypeMon
      /\ TypeNet /\ TypeRes
  BY TypeSplit
<1>1. UNCHANGED <<hpc, cur, cancelled, seqCounter, seqOf, pending,
                  monitorVars, attempts, fulfilled, result>>
  BY DEF PeerHandles, LoseRequest, LoseResponse
<1>2. TypeNet'
  <2>0. TypeNet
    BY <1>0
  <2>1. CASE PeerHandles(k)
    <3>1. /\ reqNet' = [reqNet EXCEPT ![k] = @ - 1]
          /\ respNet' = [respNet EXCEPT ![k] = @ + 1]
          /\ processed' = [processed EXCEPT ![k] = @ + 1]
          /\ reqNet[k] > 0
      BY <2>1, Zenon DEF PeerHandles
    <3>0. /\ reqNet \in [Reqs -> Nat] /\ respNet \in [Reqs -> Nat]
          /\ processed \in [Reqs -> Nat]
      BY <2>0, Zenon DEF TypeNet
    <3>2. reqNet' \in [Reqs -> Nat]
      BY <3>0, <3>1, ExceptDec, Zenon
    <3>3. respNet' \in [Reqs -> Nat]
      BY <3>0, <3>1, ExceptInc, Zenon
    <3>4. processed' \in [Reqs -> Nat]
      BY <3>0, <3>1, ExceptInc, Zenon
    <3> QED BY <1>0, <1>1, <3>2, <3>3, <3>4 DEF TypeNet
  <2>2. CASE LoseRequest(k)
    <3>1. reqNet' = [reqNet EXCEPT ![k] = @ - 1] /\ reqNet[k] > 0
      BY <2>2, Zenon DEF LoseRequest
    <3>0. reqNet \in [Reqs -> Nat]
      BY <2>0, Zenon DEF TypeNet
    <3>2. reqNet' \in [Reqs -> Nat]
      BY <3>0, <3>1, ExceptDec, Zenon
    <3> QED BY <1>0, <2>2, <3>2 DEF LoseRequest, TypeNet
  <2>3. CASE LoseResponse(k)
    <3>1. respNet' = [respNet EXCEPT ![k] = @ - 1] /\ respNet[k] > 0
      BY <2>3, Zenon DEF LoseResponse
    <3>0. respNet \in [Reqs -> Nat]
      BY <2>0, Zenon DEF TypeNet
    <3>2. respNet' \in [Reqs -> Nat]
      BY <3>0, <3>1, ExceptDec, Zenon
    <3> QED BY <1>0, <2>3, <3>2 DEF LoseResponse, TypeNet
  <2> QED BY <2>1, <2>2, <2>3
<1>3. TypeCtl' /\ TypeMaps' /\ TypeMon' /\ TypeRes'
  BY <1>0, <1>1 DEF TypeCtl, TypeMaps, TypeMon, TypeRes, monitorVars
<1> QED BY <1>0, <1>1, <1>2, <1>3, TypeJoin

(* The receive path writes the response counter, the map and the slots.  *)
LEMMA ReceiveTypeOK ==
    ASSUME NEW k \in Reqs, TypeOK, Receive(k)
    PROVE  TypeOK'
<1>0. /\ cancelled \in BOOLEAN /\ TypeCtl /\ TypeMaps /\ TypeMon
      /\ TypeNet /\ TypeRes
  BY TypeSplit
<1>1. /\ respNet' = [respNet EXCEPT ![k] = @ - 1] /\ respNet[k] > 0
      /\ Resolve(seqOf[k])
      /\ UNCHANGED <<hpc, cur, cancelled, seqCounter, seqOf, monitorVars,
                     reqNet, processed, attempts>>
  BY DEF Receive
<1>2. TypeMaps' /\ TypeRes'
  <2>1. CASE pending[seqOf[k]] = NoTx
    BY <1>0, <1>1, <2>1 DEF Resolve, TypeMaps, TypeRes
  <2>2. CASE pending[seqOf[k]] # NoTx
    <3>1. pending' = [pending EXCEPT ![seqOf[k]] = NoTx]
          /\ Fulfil(pending[seqOf[k]], "response")
      BY <1>1, <2>2 DEF Resolve
    <3>2. pending' \in [SeqNums -> Reqs \cup {NoTx}]
      BY <1>0, <3>1, ClearType DEF TypeMaps
    <3>3. fulfilled' \in [Reqs -> Nat] /\ result' \in [Reqs -> ResultKinds]
      BY <1>0, <3>1, FulfilType DEF TypeRes
    <3> QED BY <1>0, <1>1, <3>2, <3>3 DEF TypeMaps, TypeRes
  <2> QED BY <2>1, <2>2
<1>3. TypeNet'
  <2>1. respNet[k] - 1 \in Nat
    BY <1>0, <1>1 DEF TypeNet
  <2>2. respNet' \in [Reqs -> Nat]
    BY <1>0, <1>1, <2>1, ExceptNat DEF TypeNet
  <2> QED BY <1>0, <1>1, <2>2 DEF TypeNet
<1>4. TypeCtl' /\ TypeMon'
  BY <1>0, <1>1 DEF TypeCtl, TypeMon, monitorVars
<1> QED BY <1>0, <1>1, <1>2, <1>3, <1>4, TypeJoin

(* The clock and the monitor write its control state and, on a retry, the *)
(* retry count and the expiry flag; Retransmit also sends.                 *)
LEMMA MonitorTypeOK ==
    ASSUME NEW k \in Reqs, TypeOK,
           Expire(k) \/ CheckTimeouts \/ MonitorStop \/ TimeoutStale(k)
             \/ TimeoutRetry(k) \/ Retransmit
    PROVE  TypeOK'
<1>0. /\ cancelled \in BOOLEAN /\ TypeCtl /\ TypeMaps /\ TypeMon
      /\ TypeNet /\ TypeRes
  BY TypeSplit
<1>1. UNCHANGED <<hpc, cur, cancelled, seqCounter, seqOf, pending, respNet,
                  processed, fulfilled, result>>
  BY DEF Expire, CheckTimeouts, MonitorStop, TimeoutStale, TimeoutRetry,
         Retransmit, netVars
<1>2. TypeMaps' /\ TypeRes'
  BY <1>0, <1>1 DEF TypeMaps, TypeRes
<1>3. TypeMon'
  <2>1. CASE Expire(k)
    BY <1>0, <2>1 DEF Expire, TypeMon
  <2>2. CASE TimeoutRetry(k)
    <3>1. retry' \in [Reqs -> 0 .. MaxRetries]
      BY <1>0, <2>2 DEF TimeoutRetry, TypeMon
    <3>2. expired' \in [Reqs -> BOOLEAN]
      BY <1>0, <2>2 DEF TimeoutRetry, TypeMon
    <3> QED BY <3>1, <3>2 DEF TypeMon
  <2>3. CASE CheckTimeouts \/ MonitorStop \/ TimeoutStale(k) \/ Retransmit
    BY <1>0, <2>3 DEF CheckTimeouts, MonitorStop, TimeoutStale, Retransmit,
                      TypeMon
  <2> QED BY <2>1, <2>2, <2>3
<1>4. TypeCtl'
  <2>1. PendingTxs \subseteq Reqs
    BY <1>0 DEF PendingTxs, TypeMaps
  <2> QED BY <1>0, <1>1, <2>1 DEF Expire, CheckTimeouts, MonitorStop,
                                   TimeoutStale, TimeoutRetry, Retransmit,
                                   AfterHandle, TypeCtl
<1>5. TypeNet'
  <2>1. CASE Retransmit
    <3>1. PICK ok \in SendOutcomes : Transmit(sendingTx, ok)
      BY <2>1, Zenon DEF Retransmit
    <3>2. ok \in BOOLEAN
      BY Zenon DEF SendOutcomes
    <3>3. attempts' \in [Reqs -> Nat] /\ reqNet' \in [Reqs -> Nat]
      BY <1>0, <3>1, <3>2, TransmitType, Zenon DEF TypeNet
    <3> QED BY <1>0, <1>1, <3>3 DEF TypeNet
  <2>2. CASE ~Retransmit
    BY <1>0, <2>2 DEF Expire, CheckTimeouts, MonitorStop, TimeoutStale,
                      TimeoutRetry, TypeNet, netVars
  <2> QED BY <2>1, <2>2
<1> QED BY <1>0, <1>1, <1>2, <1>3, <1>4, <1>5, TypeJoin

(* Giving up writes the monitor's control state, the map and the slot.    *)
LEMMA GiveUpTypeOK ==
    ASSUME NEW k \in Reqs, TypeOK, TimeoutGiveUp(k)
    PROVE  TypeOK'
<1>0. /\ cancelled \in BOOLEAN /\ TypeCtl /\ TypeMaps /\ TypeMon
      /\ TypeNet /\ TypeRes
  BY TypeSplit
<1>1. /\ pending' = [pending EXCEPT ![seqOf[k]] = NoTx]
      /\ Fulfil(k, "timeout")
      /\ UNCHANGED <<hpc, cur, cancelled, seqCounter, seqOf, retry, expired,
                     sendingTx, netVars, attempts>>
  BY DEF TimeoutGiveUp
<1>2. pending' \in [SeqNums -> Reqs \cup {NoTx}]
  BY <1>0, <1>1, ClearType DEF TypeMaps
<1>3. fulfilled' \in [Reqs -> Nat] /\ result' \in [Reqs -> ResultKinds]
  BY <1>0, <1>1, FulfilType DEF TypeRes
<1>4. TypeCtl'
  BY <1>0, <1>1 DEF TimeoutGiveUp, AfterHandle, TypeCtl
<1>5. TypeMaps' /\ TypeMon' /\ TypeNet' /\ TypeRes'
  BY <1>0, <1>1, <1>2, <1>3 DEF TypeMaps, TypeMon, TypeNet, TypeRes, netVars
<1> QED BY <1>0, <1>1, <1>4, <1>5, TypeJoin

(* Every step of the goroutines and of the network keeps the variables in *)
(* their types, whatever the width, the bounds and the send outcomes.     *)
THEOREM TypeCorrect == Spec => []TypeOK
<1>1. Init => TypeOK
  BY InitTypeOK
<1>2. TypeOK /\ [Next]_vars => TypeOK'
  <2> SUFFICES ASSUME TypeOK, [Next]_vars PROVE TypeOK'
    OBVIOUS
  <2>1. CASE Issue
    BY <2>1, IssueTypeOK
  <2>2. CASE Wait \/ WaitCancelled \/ ReplayEnd \/ Cancel
    BY <2>2, WaitTypeOK
  <2>3. CASE CheckTimeouts \/ MonitorStop \/ Retransmit
    BY <2>3, MonitorTypeOK, TrackerAssumption DEF Reqs
  <2>4. ASSUME NEW k \in Reqs,
               \/ PeerHandles(k) \/ LoseRequest(k) \/ LoseResponse(k)
               \/ Receive(k) \/ Expire(k) \/ HandleTimeout(k)
        PROVE  TypeOK'
    BY <2>4, NetTypeOK, ReceiveTypeOK, MonitorTypeOK, GiveUpTypeOK
       DEF HandleTimeout
  <2>5. CASE UNCHANGED vars
    BY <2>5 DEF TypeOK, vars
  <2> QED BY <2>1, <2>2, <2>3, <2>4, <2>5 DEF Next
<1> QED BY <1>1, <1>2, PTL DEF Spec

-----------------------------------------------------------------------------
(* While the replay issues no more requests than there are sequence       *)
(* numbers (16,777,215 with 24 bits), no number is reused, and Resolve    *)
(* and handleTimeout, which find a transaction by its number, find only   *)
(* that transaction.                                                       *)
NoSeqReuse == MaxRequests <= SeqMax

(* Request k took number k, and the counter is at the last one issued.    *)
SeqOfIssued ==
    /\ seqCounter = cur
    /\ \A k \in Reqs : seqOf[k] = IF k <= cur THEN k ELSE 0

(* The entry of number s, if any, is request s, already issued.           *)
PendingOwn ==
    \A s \in SeqNums : pending[s] \in {NoTx, s} /\ (s > cur => pending[s] = NoTx)

(* Nothing has happened yet to a request not yet issued.                  *)
FreshUntouched ==
    \A k \in Reqs : k > cur => /\ reqNet[k] = 0 /\ respNet[k] = 0
                               /\ attempts[k] = 0 /\ retry[k] = 0
                               /\ fulfilled[k] = 0 /\ result[k] = "none"

(* A request still in the map has no result yet.                          *)
PendingUnfulfilled ==
    \A k \in Reqs : pending[k] = k => fulfilled[k] = 0 /\ result[k] = "none"

(* The monitor works only on issued requests, and holds one to resend     *)
(* exactly while it is about to send.                                      *)
MonitorOwn ==
    /\ todo \subseteq 1 .. cur
    /\ (mpc = "sending") <=> (sendingTx # NoTx)
    /\ sendingTx <= cur

(* Each issued request was sent once and once more per retry, counting    *)
(* the retransmission the monitor is about to make.                        *)
SendCount ==
    \A k \in 1 .. cur :
        attempts[k] + (IF sendingTx = k THEN 1 ELSE 0) = retry[k] + 1

(* A request that timed out was sent MaxRetries + 1 times, is out of the  *)
(* map and is not about to be resent.                                      *)
TimedOutDone ==
    \A k \in Reqs : result[k] = "timeout" =>
        attempts[k] = MaxSends /\ sendingTx # k /\ pending[k] = NoTx

IInv ==
    /\ TypeOK /\ SeqOfIssued /\ PendingOwn /\ FreshUntouched
    /\ PendingUnfulfilled /\ AtMostOneResult /\ MonitorOwn /\ SendCount
    /\ TimedOutDone

LEMMA ReqsAreSeqNums ==
    ASSUME NoSeqReuse
    PROVE  Reqs \subseteq SeqNums
BY DEF NoSeqReuse

LEMMA InitIInv == Init => IInv
<1> SUFFICES ASSUME Init PROVE IInv
  OBVIOUS
<1>1. TypeOK
  BY InitTypeOK
<1>2. SeqOfIssued /\ PendingOwn /\ FreshUntouched /\ PendingUnfulfilled
  BY DEF Init, SeqOfIssued, PendingOwn, FreshUntouched, PendingUnfulfilled
<1>3. AtMostOneResult /\ MonitorOwn /\ SendCount /\ TimedOutDone
  BY DEF Init, AtMostOneResult, MonitorOwn, SendCount, TimedOutDone
<1> QED BY <1>1, <1>2, <1>3 DEF IInv

(* A step that leaves the tracker, the counters and the results alone    *)
(* and keeps the network empty for requests not yet issued keeps IInv.     *)
LEMMA FrameIInv ==
    ASSUME IInv, TypeOK',
           UNCHANGED <<cur, seqCounter, seqOf, pending, retry, mpc, todo,
                       sendingTx, attempts, fulfilled, result>>,
           \A k \in Reqs : k > cur => reqNet'[k] = 0 /\ respNet'[k] = 0
    PROVE  IInv'
<1>1. SeqOfIssued' /\ PendingOwn' /\ PendingUnfulfilled'
  BY DEF IInv, SeqOfIssued, PendingOwn, PendingUnfulfilled
<1>2. FreshUntouched'
  BY DEF IInv, FreshUntouched
<1>3. AtMostOneResult' /\ MonitorOwn' /\ SendCount' /\ TimedOutDone'
  BY DEF IInv, AtMostOneResult, MonitorOwn, SendCount, TimedOutDone
<1> QED BY <1>1, <1>2, <1>3 DEF IInv

LEMMA WaitIInv ==
    ASSUME IInv, Wait \/ WaitCancelled \/ ReplayEnd \/ Cancel
    PROVE  IInv'
<1>1. TypeOK'
  BY WaitTypeOK DEF IInv
<1>2. UNCHANGED <<cur, seqCounter, seqOf, pending, retry, mpc, todo,
                  sendingTx, attempts, fulfilled, result, reqNet, respNet>>
  BY DEF Wait, WaitCancelled, ReplayEnd, Cancel, monitorVars, netVars
<1>3. \A k \in Reqs : k > cur => reqNet'[k] = 0 /\ respNet'[k] = 0
  BY <1>2 DEF IInv, FreshUntouched
<1> QED BY <1>1, <1>2, <1>3, FrameIInv

LEMMA NetIInv ==
    ASSUME NEW j \in Reqs, IInv,
           PeerHandles(j) \/ LoseRequest(j) \/ LoseResponse(j)
    PROVE  IInv'
<1>1. TypeOK'
  BY NetTypeOK DEF IInv
<1>2. UNCHANGED <<cur, seqCounter, seqOf, pending, retry, mpc, todo,
                  sendingTx, attempts, fulfilled, result>>
  BY DEF PeerHandles, LoseRequest, LoseResponse, monitorVars
<1>0. TypeCtl /\ TypeNet
  BY TypeSplit DEF IInv
<1>3. j <= cur
  <2>1. reqNet[j] > 0 \/ respNet[j] > 0
    BY Zenon DEF PeerHandles, LoseRequest, LoseResponse
  <2> QED BY <1>0, <2>1 DEF IInv, FreshUntouched, TypeCtl, TypeNet
<1>4. \A k \in Reqs : k > cur => reqNet'[k] = 0 /\ respNet'[k] = 0
  <2>1. \A k \in Reqs : k > cur => reqNet[k] = 0 /\ respNet[k] = 0
    BY DEF IInv, FreshUntouched
  <2>2. \A k \in Reqs : k # j => reqNet'[k] = reqNet[k] /\ respNet'[k] = respNet[k]
    BY <1>0 DEF PeerHandles, LoseRequest, LoseResponse, TypeNet
  <2> QED BY <1>0, <1>3, <2>1, <2>2 DEF TypeCtl
<1> QED BY <1>1, <1>2, <1>4, FrameIInv

LEMMA ExpireIInv ==
    ASSUME NEW j \in Reqs, IInv, Expire(j)
    PROVE  IInv'
<1>1. TypeOK'
  BY MonitorTypeOK DEF IInv
<1>2. UNCHANGED <<cur, seqCounter, seqOf, pending, retry, mpc, todo,
                  sendingTx, attempts, fulfilled, result, reqNet, respNet>>
  BY DEF Expire, netVars
<1>3. \A k \in Reqs : k > cur => reqNet'[k] = 0 /\ respNet'[k] = 0
  BY <1>2 DEF IInv, FreshUntouched
<1> QED BY <1>1, <1>2, <1>3, FrameIInv

(* The monitor's bookkeeping steps move only its snapshot and its pc.     *)
LEMMA MonitorCtlIInv ==
    ASSUME IInv, TypeOK',
           UNCHANGED <<cur, seqCounter, seqOf, pending, retry, sendingTx,
                       attempts, fulfilled, result, reqNet, respNet>>,
           todo' \subseteq 1 .. cur, mpc' # "sending", sendingTx = NoTx
    PROVE  IInv'
<1>1. SeqOfIssued' /\ PendingOwn' /\ PendingUnfulfilled' /\ FreshUntouched'
  BY DEF IInv, SeqOfIssued, PendingOwn, PendingUnfulfilled, FreshUntouched
<1>2. AtMostOneResult' /\ SendCount' /\ TimedOutDone'
  BY DEF IInv, AtMostOneResult, SendCount, TimedOutDone
<1>3. MonitorOwn'
  BY DEF IInv, MonitorOwn
<1> QED BY <1>1, <1>2, <1>3 DEF IInv

(* The snapshot holds only issued requests: an entry's request is its     *)
(* number, and only issued numbers have entries.                           *)
LEMMA PendingTxsIssued ==
    ASSUME IInv
    PROVE  PendingTxs \subseteq 1 .. cur
<1> SUFFICES ASSUME NEW s \in SeqNums, pending[s] # NoTx
             PROVE  pending[s] \in 1 .. cur
  BY Zenon DEF PendingTxs
<1>1. TypeCtl
  BY TypeSplit, Zenon DEF IInv
<1>2. pending[s] = s /\ ~(s > cur)
  BY DEF IInv, PendingOwn
<1> QED BY <1>1, <1>2 DEF TypeCtl

LEMMA CheckTimeoutsIInv ==
    ASSUME IInv, CheckTimeouts
    PROVE  IInv'
<1>1. TypeOK'
  BY MonitorTypeOK, TrackerAssumption DEF IInv
<1>2. sendingTx = NoTx
  BY DEF CheckTimeouts, IInv, MonitorOwn
<1>3. todo' \subseteq 1 .. cur
  BY PendingTxsIssued DEF CheckTimeouts
<1>4. UNCHANGED <<cur, seqCounter, seqOf, pending, retry, sendingTx,
                  attempts, fulfilled, result, reqNet, respNet>> /\ mpc' # "sending"
  BY DEF CheckTimeouts, netVars
<1> QED BY <1>1, <1>2, <1>3, <1>4, MonitorCtlIInv

LEMMA MonitorStopIInv ==
    ASSUME IInv, MonitorStop
    PROVE  IInv'
<1>1. TypeOK'
  BY MonitorTypeOK, TrackerAssumption DEF IInv
<1>2. sendingTx = NoTx /\ todo \subseteq 1 .. cur
  BY DEF MonitorStop, IInv, MonitorOwn
<1>3. UNCHANGED <<cur, seqCounter, seqOf, pending, retry, sendingTx, todo,
                  attempts, fulfilled, result, reqNet, respNet>>
      /\ mpc' # "sending"
  BY DEF MonitorStop, netVars
<1> QED BY <1>1, <1>2, <1>3, MonitorCtlIInv

LEMMA TimeoutStaleIInv ==
    ASSUME NEW j \in Reqs, IInv, TimeoutStale(j)
    PROVE  IInv'
<1>1. TypeOK'
  BY MonitorTypeOK DEF IInv
<1>2. sendingTx = NoTx
  BY DEF TimeoutStale, IInv, MonitorOwn
<1>3. todo' \subseteq 1 .. cur
  BY DEF TimeoutStale, IInv, MonitorOwn
<1>4. UNCHANGED <<cur, seqCounter, seqOf, pending, retry, sendingTx,
                  attempts, fulfilled, result, reqNet, respNet>> /\ mpc' # "sending"
  BY DEF TimeoutStale, AfterHandle, netVars
<1> QED BY <1>1, <1>2, <1>3, <1>4, MonitorCtlIInv

(* Issue takes number cur + 1 for request cur + 1 and makes its entry.    *)
LEMMA IssueIInv ==
    ASSUME IInv, NoSeqReuse, Issue
    PROVE  IInv'
<1> DEFINE k0 == cur + 1
<1>0. TypeCtl /\ TypeMaps /\ TypeMon /\ TypeNet /\ TypeRes
  BY TypeSplit, Zenon DEF IInv
<1>1. TypeOK'
  BY IssueTypeOK DEF IInv
<1>2. cur < MaxRequests /\ k0 \in Reqs /\ k0 \in SeqNums
  BY <1>0, ReqsAreSeqNums DEF Issue, TypeCtl
<1>3. NextSeq = k0
  BY <1>0, <1>2 DEF NextSeq, IInv, SeqOfIssued, NoSeqReuse, TypeCtl
<1>4. /\ cur' = k0 /\ seqCounter' = k0
      /\ seqOf' = [seqOf EXCEPT ![k0] = k0]
      /\ pending' = [pending EXCEPT ![k0] = k0]
      /\ UNCHANGED <<cancelled, monitorVars, respNet, processed, fulfilled,
                     result>>
  BY <1>3, Zenon DEF Issue
<1>5. UNCHANGED <<retry, expired, mpc, todo, sendingTx>>
  BY <1>4 DEF monitorVars
<1>6. /\ attempts' = [attempts EXCEPT ![k0] = attempts[k0] + 1]
      /\ \A j \in Reqs : j # k0 => reqNet'[j] = reqNet[j]
  <2>1. PICK ok \in SendOutcomes : Transmit(k0, ok)
    BY Zenon DEF Issue
  <2>2. attempts' = [attempts EXCEPT ![k0] = attempts[k0] + 1]
    BY <2>1, Zenon DEF Transmit
  <2>3. reqNet' = reqNet \/ reqNet' = [reqNet EXCEPT ![k0] = reqNet[k0] + 1]
    BY <2>1, Zenon DEF Transmit
  <2>4. \A j \in Reqs : j # k0 => reqNet'[j] = reqNet[j]
    BY <1>0, <2>3 DEF TypeNet
  <2> QED BY <2>2, <2>4
<1>7. SeqOfIssued'
  <2>1. seqCounter' = cur'
    BY <1>4
  <2>2. \A k \in Reqs : seqOf'[k] = IF k <= cur' THEN k ELSE 0
    <3> SUFFICES ASSUME NEW k \in Reqs PROVE seqOf'[k] = IF k <= cur' THEN k ELSE 0
      OBVIOUS
    <3>1. CASE k = k0
      BY <1>0, <1>2, <1>4, <3>1 DEF TypeCtl, TypeMaps
    <3>2. CASE k # k0
      <4>1. seqOf'[k] = seqOf[k]
        BY <1>0, <1>4, <3>2 DEF TypeMaps
      <4>2. seqOf[k] = IF k <= cur THEN k ELSE 0
        BY DEF IInv, SeqOfIssued
      <4> QED BY <1>0, <1>4, <3>2, <4>1, <4>2 DEF TypeCtl
    <3> QED BY <3>1, <3>2
  <2> QED BY <2>1, <2>2 DEF SeqOfIssued
<1>8. PendingOwn'
  BY <1>0, <1>2, <1>4 DEF IInv, PendingOwn, TypeCtl, TypeMaps
<1>9. FreshUntouched'
  BY <1>0, <1>2, <1>4, <1>5, <1>6
     DEF IInv, FreshUntouched, TypeCtl, TypeNet
<1>10. PendingUnfulfilled'
  <2>1. fulfilled[k0] = 0 /\ result[k0] = "none"
    BY <1>0, <1>2 DEF IInv, FreshUntouched, TypeCtl
  <2>2. \A k \in Reqs : k # k0 => pending'[k] = pending[k]
    BY <1>0, <1>4, ReqsAreSeqNums DEF TypeMaps
  <2> QED BY <1>4, <2>1, <2>2 DEF IInv, PendingUnfulfilled
<1>11. AtMostOneResult' /\ MonitorOwn'
  BY <1>0, <1>4, <1>5 DEF IInv, AtMostOneResult, MonitorOwn, TypeCtl
<1>12. SendCount'
  <2>1. attempts[k0] = 0 /\ retry[k0] = 0 /\ sendingTx # k0
    BY <1>0, <1>2 DEF IInv, FreshUntouched, MonitorOwn, TypeCtl
  <2>2. \A k \in 1 .. cur : attempts'[k] = attempts[k]
    BY <1>0, <1>2, <1>6 DEF TypeNet, TypeCtl
  <2>3. attempts'[k0] = 1
    BY <1>0, <1>2, <1>6, <2>1 DEF TypeNet
  <2>4. \A k \in 1 .. cur :
          attempts[k] + (IF sendingTx = k THEN 1 ELSE 0) = retry[k] + 1
    BY DEF IInv, SendCount
  <2>5. \A k \in 1 .. cur' :
          attempts'[k] + (IF sendingTx' = k THEN 1 ELSE 0) = retry'[k] + 1
    BY <1>0, <1>4, <1>5, <2>1, <2>2, <2>3, <2>4 DEF TypeCtl
  <2> QED BY <2>5 DEF SendCount
<1>13. TimedOutDone'
  <2>1. result[k0] = "none"
    BY <1>0, <1>2 DEF IInv, FreshUntouched, TypeCtl
  <2>2. \A k \in Reqs : k # k0 => pending'[k] = pending[k]
    BY <1>0, <1>4, ReqsAreSeqNums DEF TypeMaps
  <2> QED BY <1>0, <1>4, <1>5, <1>6, <2>1, <2>2
          DEF IInv, TimedOutDone, TypeNet
<1> QED BY <1>1, <1>7, <1>8, <1>9, <1>10, <1>11, <1>12, <1>13 DEF IInv

(* A response to issued request j resolves number j: either the entry is  *)
(* gone (the monitor failed it first) and nothing happens, or it is j's    *)
(* own entry, removed as j gets its first and only result.                 *)
LEMMA ReceiveIInv ==
    ASSUME NEW j \in Reqs, IInv, NoSeqReuse, Receive(j)
    PROVE  IInv'
<1>0. TypeCtl /\ TypeMaps /\ TypeMon /\ TypeNet /\ TypeRes
  BY TypeSplit, Zenon DEF IInv
<1>1. TypeOK'
  BY ReceiveTypeOK DEF IInv
<1>2. j <= cur /\ seqOf[j] = j /\ j \in SeqNums
  <2>1. respNet[j] > 0
    BY DEF Receive
  <2>2. ~(j > cur)
    BY <1>0, <2>1 DEF IInv, FreshUntouched, TypeNet
  <2>3. j <= cur
    BY <1>0, <2>2 DEF TypeCtl
  <2>4. seqOf[j] = j
    BY <2>3 DEF IInv, SeqOfIssued
  <2> QED BY <2>3, <2>4, ReqsAreSeqNums
<1>3. /\ respNet' = [respNet EXCEPT ![j] = respNet[j] - 1]
      /\ Resolve(j)
      /\ UNCHANGED <<cur, seqCounter, seqOf, retry, mpc, todo, sendingTx,
                     reqNet, attempts>>
  BY <1>2 DEF Receive, monitorVars
<1>4. \A k \in Reqs : k > cur => reqNet'[k] = 0 /\ respNet'[k] = 0
  <2>1. \A k \in Reqs : k # j => respNet'[k] = respNet[k]
    BY <1>0, <1>3 DEF TypeNet
  <2> QED BY <1>0, <1>2, <1>3, <2>1 DEF IInv, FreshUntouched, TypeCtl
<1>5. CASE pending[j] = NoTx
  <2>1. UNCHANGED <<pending, fulfilled, result>>
    BY <1>3, <1>5 DEF Resolve
  <2> QED BY <1>1, <1>3, <1>4, <2>1, FrameIInv
<1>6. CASE pending[j] # NoTx
  <2>1. pending[j] = j
    BY <1>2, <1>6 DEF IInv, PendingOwn
  <2>2. /\ pending' = [pending EXCEPT ![j] = NoTx]
        /\ fulfilled' = [fulfilled EXCEPT ![j] = fulfilled[j] + 1]
        /\ result' = [result EXCEPT ![j] = IF result[j] = "none"
                                          THEN "response" ELSE result[j]]
    BY <1>3, <1>6, <2>1 DEF Resolve, Fulfil
  <2>3. fulfilled[j] = 0 /\ result[j] = "none"
    BY <2>1 DEF IInv, PendingUnfulfilled
  <2>4. SeqOfIssued' /\ PendingOwn'
    BY <1>0, <1>2, <1>3, <2>2 DEF IInv, SeqOfIssued, PendingOwn, TypeMaps
  <2>5. FreshUntouched'
    <3>1. \A k \in Reqs : k > cur => fulfilled'[k] = fulfilled[k]
                                    /\ result'[k] = result[k]
      BY <1>0, <1>2, <2>2 DEF TypeRes, TypeCtl
    <3> QED BY <1>3, <1>4, <3>1 DEF IInv, FreshUntouched
  <2>6. PendingUnfulfilled'
    BY <1>0, <1>2, <2>2 DEF IInv, PendingUnfulfilled, TypeMaps, TypeRes
  <2>7. AtMostOneResult'
    BY <1>0, <2>2, <2>3 DEF IInv, AtMostOneResult, TypeRes
  <2>8. MonitorOwn' /\ SendCount'
    BY <1>3 DEF IInv, MonitorOwn, SendCount
  <2>9. TimedOutDone'
    BY <1>0, <1>2, <1>3, <2>2, <2>3 DEF IInv, TimedOutDone, TypeMaps, TypeRes
  <2> QED BY <1>1, <2>4, <2>5, <2>6, <2>7, <2>8, <2>9 DEF IInv
<1> QED BY <1>5, <1>6

(* What handleTimeout may assume of a request of its snapshot it finds    *)
(* still in the map: it is issued, the entry is its own, and the monitor  *)
(* holds nothing to resend.                                                *)
LEMMA HandleFacts ==
    ASSUME NEW j \in Reqs, IInv, NoSeqReuse,
           mpc = "handling", j \in todo, pending[seqOf[j]] # NoTx
    PROVE  /\ j <= cur /\ seqOf[j] = j /\ j \in SeqNums /\ pending[j] = j
           /\ sendingTx = NoTx /\ sendingTx # j
           /\ attempts[j] = retry[j] + 1
           /\ fulfilled[j] = 0 /\ result[j] = "none"
<1>1. j <= cur /\ seqOf[j] = j /\ j \in SeqNums
  BY ReqsAreSeqNums DEF IInv, MonitorOwn, SeqOfIssued
<1>2. pending[j] = j
  BY <1>1 DEF IInv, PendingOwn
<1>3. sendingTx = NoTx /\ sendingTx # j
  BY DEF IInv, MonitorOwn
<1>4. attempts[j] = retry[j] + 1
  <2>1. j \in 1 .. cur
    BY <1>1
  <2>2. attempts[j] + (IF sendingTx = j THEN 1 ELSE 0) = retry[j] + 1
    BY <2>1 DEF IInv, SendCount
  <2>3. TypeNet /\ TypeMon
    BY TypeSplit, Zenon DEF IInv
  <2> QED BY <1>3, <2>2, <2>3 DEF TypeNet, TypeMon
<1> QED BY <1>1, <1>2, <1>3, <1>4 DEF IInv, PendingUnfulfilled

(* A retry charges the retransmission to j before it is sent.              *)
LEMMA TimeoutRetryIInv ==
    ASSUME NEW j \in Reqs, IInv, NoSeqReuse, TimeoutRetry(j)
    PROVE  IInv'
<1>0. TypeCtl /\ TypeMaps /\ TypeMon /\ TypeNet /\ TypeRes
  BY TypeSplit, Zenon DEF IInv
<1>1. TypeOK'
  BY MonitorTypeOK DEF IInv
<1>2. /\ j <= cur /\ pending[j] = j /\ sendingTx = NoTx
      /\ attempts[j] = retry[j] + 1 /\ result[j] = "none"
  BY HandleFacts DEF TimeoutRetry
<1>3. /\ todo' = todo \ {j} /\ mpc' = "sending" /\ sendingTx' = j
      /\ retry' = [retry EXCEPT ![j] = retry[j] + 1]
      /\ UNCHANGED <<cur, seqCounter, seqOf, pending, reqNet, respNet,
                     attempts, fulfilled, result>>
  BY DEF TimeoutRetry, netVars
<1>4. SeqOfIssued' /\ PendingOwn' /\ PendingUnfulfilled' /\ AtMostOneResult'
  BY <1>3 DEF IInv, SeqOfIssued, PendingOwn, PendingUnfulfilled,
              AtMostOneResult
<1>5. FreshUntouched'
  BY <1>0, <1>2, <1>3 DEF IInv, FreshUntouched, TypeMon
<1>6. MonitorOwn'
  BY <1>2, <1>3 DEF IInv, MonitorOwn
<1>7. SendCount'
  BY <1>0, <1>2, <1>3 DEF IInv, SendCount, TypeMon
<1>8. TimedOutDone'
  BY <1>2, <1>3 DEF IInv, TimedOutDone
<1> QED BY <1>1, <1>4, <1>5, <1>6, <1>7, <1>8 DEF IInv

(* Giving up removes j's own entry and gives j its only result, after     *)
(* MaxRetries + 1 sends.                                                   *)
LEMMA TimeoutGiveUpIInv ==
    ASSUME NEW j \in Reqs, IInv, NoSeqReuse, TimeoutGiveUp(j)
    PROVE  IInv'
<1>0. TypeCtl /\ TypeMaps /\ TypeMon /\ TypeNet /\ TypeRes
  BY TypeSplit, Zenon DEF IInv
<1>1. TypeOK'
  BY GiveUpTypeOK DEF IInv
<1>2. /\ j <= cur /\ seqOf[j] = j /\ j \in SeqNums /\ pending[j] = j
      /\ sendingTx = NoTx /\ attempts[j] = retry[j] + 1
      /\ fulfilled[j] = 0 /\ result[j] = "none"
  BY HandleFacts DEF TimeoutGiveUp
<1>3. retry[j] = MaxRetries
  BY <1>0 DEF TimeoutGiveUp, TypeMon
<1>4. /\ todo' = todo \ {j} /\ mpc' # "sending"
      /\ pending' = [pending EXCEPT ![j] = NoTx]
      /\ fulfilled' = [fulfilled EXCEPT ![j] = fulfilled[j] + 1]
      /\ result' = [result EXCEPT ![j] = IF result[j] = "none"
                                        THEN "timeout" ELSE result[j]]
      /\ UNCHANGED <<cur, seqCounter, seqOf, retry, sendingTx, reqNet,
                     respNet, attempts>>
  BY <1>2 DEF TimeoutGiveUp, Fulfil, AfterHandle, netVars
<1>5. SeqOfIssued' /\ PendingOwn'
  BY <1>0, <1>2, <1>4 DEF IInv, SeqOfIssued, PendingOwn, TypeMaps
<1>6. FreshUntouched'
  BY <1>0, <1>2, <1>4 DEF IInv, FreshUntouched, TypeRes
<1>7. PendingUnfulfilled' /\ AtMostOneResult'
  BY <1>0, <1>2, <1>4 DEF IInv, PendingUnfulfilled, AtMostOneResult,
                          TypeMaps, TypeRes
<1>8. MonitorOwn' /\ SendCount'
  BY <1>2, <1>4 DEF IInv, MonitorOwn, SendCount
<1>9. TimedOutDone'
  BY <1>0, <1>2, <1>3, <1>4 DEF IInv, TimedOutDone, MaxSends, TypeMaps,
                                TypeRes
<1> QED BY <1>1, <1>5, <1>6, <1>7, <1>8, <1>9 DEF IInv

(* The retransmission is the send the retry already counted.               *)
LEMMA RetransmitIInv ==
    ASSUME IInv, Retransmit
    PROVE  IInv'
<1>0. TypeCtl /\ TypeMaps /\ TypeMon /\ TypeNet /\ TypeRes
  BY TypeSplit, Zenon DEF IInv
<1>1. TypeOK'
  BY MonitorTypeOK, TrackerAssumption DEF IInv
<1> DEFINE s0 == sendingTx
<1>2. s0 \in Reqs /\ s0 <= cur
  BY <1>0 DEF Retransmit, IInv, MonitorOwn, TypeCtl
<1>3. /\ attempts' = [attempts EXCEPT ![s0] = attempts[s0] + 1]
      /\ \A j \in Reqs : j # s0 => reqNet'[j] = reqNet[j]
  <2>1. PICK ok \in SendOutcomes : Transmit(s0, ok)
    BY Zenon DEF Retransmit
  <2>2. attempts' = [attempts EXCEPT ![s0] = attempts[s0] + 1]
    BY <2>1, Zenon DEF Transmit
  <2>3. reqNet' = reqNet \/ reqNet' = [reqNet EXCEPT ![s0] = reqNet[s0] + 1]
    BY <2>1, Zenon DEF Transmit
  <2>4. \A j \in Reqs : j # s0 => reqNet'[j] = reqNet[j]
    BY <1>0, <2>3 DEF TypeNet
  <2> QED BY <2>2, <2>4
<1>4. /\ sendingTx' = NoTx /\ mpc' # "sending"
      /\ UNCHANGED <<cur, seqCounter, seqOf, pending, retry, todo, respNet,
                     fulfilled, result>>
  BY DEF Retransmit, AfterHandle
<1>5. result[s0] # "timeout"
  BY <1>2 DEF IInv, TimedOutDone
<1>6. SeqOfIssued' /\ PendingOwn' /\ PendingUnfulfilled' /\ AtMostOneResult'
  BY <1>4 DEF IInv, SeqOfIssued, PendingOwn, PendingUnfulfilled,
              AtMostOneResult
<1>11. \A k \in Reqs : k # s0 => attempts'[k] = attempts[k]
  BY <1>0, <1>2, <1>3 DEF TypeNet
<1>12. attempts'[s0] = attempts[s0] + 1
  BY <1>0, <1>2, <1>3 DEF TypeNet
<1>7. FreshUntouched'
  <2>1. \A k \in Reqs : k > cur => k # s0
    BY <1>0, <1>2 DEF TypeCtl
  <2> QED BY <1>3, <1>4, <1>11, <2>1 DEF IInv, FreshUntouched
<1>8. MonitorOwn'
  BY <1>0, <1>4 DEF IInv, MonitorOwn, TypeCtl
<1>9. SendCount'
  <2>1. \A k \in 1 .. cur :
          attempts[k] + (IF sendingTx = k THEN 1 ELSE 0) = retry[k] + 1
    BY DEF IInv, SendCount
  <2>2. \A k \in 1 .. cur : attempts'[k] = retry'[k] + 1
    <3> SUFFICES ASSUME NEW k \in 1 .. cur PROVE attempts'[k] = retry'[k] + 1
      OBVIOUS
    <3>1. k \in Reqs
      BY <1>0 DEF TypeCtl
    <3>2. CASE k = s0
      BY <1>0, <1>2, <1>4, <1>12, <2>1, <3>2 DEF TypeNet
    <3>3. CASE k # s0
      BY <1>0, <1>4, <1>11, <2>1, <3>1, <3>3 DEF TypeNet
    <3> QED BY <3>2, <3>3
  <2>3. \A k \in 1 .. cur' : (IF sendingTx' = k THEN 1 ELSE 0) = 0
    BY <1>4
  <2>4. retry \in [Reqs -> 0 .. MaxRetries]
    BY <1>0, Zenon DEF TypeMon
  <2>5. \A k \in 1 .. cur' : attempts'[k] + (IF sendingTx' = k THEN 1 ELSE 0)
                               = retry'[k] + 1
    BY <1>0, <1>4, <2>2, <2>3, <2>4 DEF TypeCtl
  <2> QED BY <2>5 DEF SendCount
<1>10. TimedOutDone'
  BY <1>4, <1>5, <1>11 DEF IInv, TimedOutDone
<1> QED BY <1>1, <1>6, <1>7, <1>8, <1>9, <1>10 DEF IInv

LEMMA NextIInv ==
    ASSUME IInv, NoSeqReuse, [Next]_vars
    PROVE  IInv'
<1>1. CASE Issue
  BY <1>1, IssueIInv
<1>2. CASE Wait \/ WaitCancelled \/ ReplayEnd \/ Cancel
  BY <1>2, WaitIInv
<1>3. CASE CheckTimeouts
  BY <1>3, CheckTimeoutsIInv
<1>4. CASE Retransmit
  BY <1>4, RetransmitIInv
<1>7. CASE MonitorStop
  BY <1>7, MonitorStopIInv
<1>5. ASSUME NEW j \in Reqs,
             \/ PeerHandles(j) \/ LoseRequest(j) \/ LoseResponse(j)
             \/ Receive(j) \/ Expire(j) \/ HandleTimeout(j)
      PROVE  IInv'
  <2>1. CASE PeerHandles(j) \/ LoseRequest(j) \/ LoseResponse(j)
    BY <2>1, NetIInv
  <2>2. CASE Receive(j)
    BY <2>2, ReceiveIInv
  <2>3. CASE Expire(j)
    BY <2>3, ExpireIInv
  <2>4. CASE TimeoutStale(j)
    BY <2>4, TimeoutStaleIInv
  <2>5. CASE TimeoutRetry(j)
    BY <2>5, TimeoutRetryIInv
  <2>6. CASE TimeoutGiveUp(j)
    BY <2>6, TimeoutGiveUpIInv
  <2> QED BY <1>5, <2>1, <2>2, <2>3, <2>4, <2>5, <2>6 DEF HandleTimeout
<1>6. CASE UNCHANGED vars
  BY <1>6 DEF IInv, vars, TypeOK, SeqOfIssued, PendingOwn, FreshUntouched,
              PendingUnfulfilled, AtMostOneResult, MonitorOwn, SendCount,
              TimedOutDone
<1> QED BY <1>1, <1>2, <1>3, <1>4, <1>5, <1>6, <1>7 DEF Next

LEMMA IInvHolds ==
    ASSUME NoSeqReuse
    PROVE  Spec => []IInv
<1>1. Init => IInv
  BY InitIInv
<1>2. IInv /\ [Next]_vars => IInv'
  BY NextIInv
<1> QED BY <1>1, <1>2, PTL DEF Spec

(* Spec 4.5 (Resolve and the timeout sweep race; the loser no-ops): while *)
(* no sequence number is reused, every request's ResultCh gets at most    *)
(* one result, whatever the interleaving of the receive path, the monitor *)
(* and the lossy network.                                                  *)
THEOREM AtMostOneResultHolds ==
    ASSUME NoSeqReuse
    PROVE  Spec => []AtMostOneResult
<1>1. IInv => AtMostOneResult
  BY DEF IInv
<1> QED BY <1>1, IInvHolds, PTL

(* Spec 8 (retransmitted exactly maxRetries times, then a timeout): while *)
(* no sequence number is reused, handleTimeout fails a request only after *)
(* UDPClient.Send was called for it MaxRetries + 1 times, although each    *)
(* retransmission happens after the monitor unlocks.                       *)
THEOREM TimeoutAfterAllRetriesHolds ==
    ASSUME NoSeqReuse
    PROVE  Spec => []TimeoutAfterAllRetries
<1>1. IInv => TimeoutAfterAllRetries
  BY DEF IInv, TimedOutDone, TimeoutAfterAllRetries
<1> QED BY <1>1, IInvHolds, PTL

==============================================================================
