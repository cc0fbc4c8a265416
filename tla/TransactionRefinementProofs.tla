---------------------- MODULE TransactionRefinementProofs ----------------------
(***************************************************************************)
(* The tracker implements TransactionOutcome (the property Refines of the  *)
(* run tracker_liveness_refinement), for every value of the constants,    *)
(* while no sequence number is reused.  Under the mapping issued <- cur,  *)
(* outcome <- result:                                                      *)
(*   - Issue (Track and Send of the next request) is TO!Issue;             *)
(*   - the mock UPF handling a copy is TO!PeerHandles;                     *)
(*   - Resolve that finds the request's entry is TO!Respond, and one that  *)
(*     finds none is a stutter;                                            *)
(*   - handleTimeout giving up is TO!GiveUp;                               *)
(*   - every other step leaves cur, processed and result alone.            *)
(* Besides IInv the proof needs a bound on the network: the copies of a   *)
(* request handled by the UPF or still in flight to it never exceed the   *)
(* sends, and the responses in flight never exceed the copies handled.    *)
(***************************************************************************)
EXTENDS TransactionTrackerProofs

USE DEF NoTx, Reqs, ResultKinds, MaxSends

(* Every datagram of request k on the wire came from a send of k (a copy  *)
(* the UPF read or one still in flight), and every response came from a   *)
(* copy the UPF handled.                                                   *)
NetBound ==
    \A k \in Reqs : /\ respNet[k] <= processed[k]
                    /\ processed[k] + reqNet[k] <= attempts[k]

-----------------------------------------------------------------------------
(* A send (the first one in Issue, or the monitor's retransmission) adds  *)
(* one attempt and at most one copy in flight.                             *)
LEMMA SendKeepsNetBound ==
    ASSUME NEW x \in Reqs, TypeNet, NetBound,
           attempts' = [attempts EXCEPT ![x] = attempts[x] + 1],
           reqNet' = reqNet \/ reqNet' = [reqNet EXCEPT ![x] = reqNet[x] + 1],
           UNCHANGED <<respNet, processed>>
    PROVE  NetBound'
<1>1. /\ reqNet \in [Reqs -> Nat] /\ attempts \in [Reqs -> Nat]
      /\ respNet \in [Reqs -> Nat] /\ processed \in [Reqs -> Nat]
  BY DEF TypeNet
<1>0. respNet' = respNet /\ processed' = processed
  BY Zenon
<1>2. CASE reqNet' = reqNet
  <2> SUFFICES ASSUME NEW k \in Reqs
               PROVE  /\ respNet'[k] <= processed'[k]
                      /\ processed'[k] + reqNet'[k] <= attempts'[k]
    BY DEF NetBound
  <2>1. processed[k] + reqNet[k] <= attempts[k] /\ respNet[k] <= processed[k]
    BY DEF NetBound
  <2>2. attempts'[k] \in {attempts[k], attempts[k] + 1}
    BY <1>1
  <2>3. respNet'[k] <= processed'[k]
    BY <1>0, <2>1
  <2>4. attempts[k] <= attempts'[k]
    BY <1>1, <2>2
  <2>5. processed'[k] + reqNet'[k] <= attempts'[k]
    BY <1>0, <1>1, <1>2, <2>1, <2>4
  <2> QED BY <2>3, <2>5
<1>3. CASE reqNet' = [reqNet EXCEPT ![x] = reqNet[x] + 1]
  BY <1>0, <1>1, <1>3 DEF NetBound
<1> QED BY <1>2, <1>3

(* Transmit in the form the lemma above takes.                            *)
LEMMA TransmitEffect ==
    ASSUME NEW x, NEW ok, Transmit(x, ok)
    PROVE  /\ attempts' = [attempts EXCEPT ![x] = attempts[x] + 1]
           /\ reqNet' = reqNet \/ reqNet' = [reqNet EXCEPT ![x] = reqNet[x] + 1]
BY Zenon DEF Transmit

(* A step that neither sends nor touches the network keeps the bound.     *)
LEMMA FrameNetBound ==
    ASSUME NetBound, UNCHANGED <<reqNet, respNet, processed, attempts>>
    PROVE  NetBound'
BY DEF NetBound

LEMMA InitNetBound == Init => NetBound
BY DEF Init, NetBound

(* NetBound is inductive given IInv (which places sendingTx in Reqs while *)
(* the monitor is about to resend).                                        *)
LEMMA NextNetBound ==
    ASSUME IInv, NetBound, [Next]_vars
    PROVE  NetBound'
<1>0. TypeCtl /\ TypeNet
  BY TypeSplit, Zenon DEF IInv
<1>1. CASE Issue
  <2>1. cur + 1 \in Reqs
    BY <1>0, <1>1, TrackerAssumption DEF Issue, TypeCtl
  <2>2. PICK ok \in SendOutcomes : Transmit(cur + 1, ok)
    BY <1>1, Zenon DEF Issue
  <2>3. UNCHANGED <<respNet, processed>>
    BY <1>1 DEF Issue
  <2> QED BY <1>0, <2>1, <2>2, <2>3, TransmitEffect, SendKeepsNetBound
<1>2. CASE Retransmit
  <2>1. sendingTx \in Reqs
    BY <1>0, <1>2 DEF Retransmit, IInv, MonitorOwn, TypeCtl
  <2>2. PICK ok \in SendOutcomes : Transmit(sendingTx, ok)
    BY <1>2, Zenon DEF Retransmit
  <2>3. UNCHANGED <<respNet, processed>>
    BY <1>2 DEF Retransmit
  <2> QED BY <1>0, <2>1, <2>2, <2>3, TransmitEffect, SendKeepsNetBound
<1>8. reqNet \in [Reqs -> Nat] /\ respNet \in [Reqs -> Nat]
      /\ processed \in [Reqs -> Nat] /\ attempts \in [Reqs -> Nat]
  BY <1>0 DEF TypeNet
<1>3. ASSUME NEW k \in Reqs, PeerHandles(k)
      PROVE  NetBound'
  <2>1. /\ reqNet' = [reqNet EXCEPT ![k] = reqNet[k] - 1]
        /\ processed' = [processed EXCEPT ![k] = processed[k] + 1]
        /\ respNet' = [respNet EXCEPT ![k] = respNet[k] + 1]
        /\ UNCHANGED attempts
    BY <1>3, Zenon DEF PeerHandles
  <2> QED BY <1>8, <2>1 DEF NetBound
<1>4. ASSUME NEW k \in Reqs, LoseRequest(k)
      PROVE  NetBound'
  <2>1. /\ reqNet[k] > 0
        /\ reqNet' = [reqNet EXCEPT ![k] = reqNet[k] - 1]
        /\ UNCHANGED <<respNet, processed, attempts>>
    BY <1>4, Zenon DEF LoseRequest
  <2> QED BY <1>8, <2>1 DEF NetBound
<1>5. ASSUME NEW k \in Reqs, LoseResponse(k) \/ Receive(k)
      PROVE  NetBound'
  <2>1. respNet[k] > 0 /\ respNet' = [respNet EXCEPT ![k] = respNet[k] - 1]
        /\ UNCHANGED <<reqNet, processed, attempts>>
    BY <1>5, Zenon DEF LoseResponse, Receive
  <2> QED BY <1>8, <2>1 DEF NetBound
<1>6. ASSUME NEW k \in Reqs, Expire(k) \/ HandleTimeout(k)
      PROVE  NetBound'
  BY <1>6, FrameNetBound
     DEF Expire, HandleTimeout, TimeoutStale, TimeoutRetry, TimeoutGiveUp,
         netVars
<1>7. CASE Wait \/ WaitCancelled \/ ReplayEnd \/ Cancel \/ CheckTimeouts
           \/ MonitorStop \/ UNCHANGED vars
  BY <1>7, FrameNetBound
     DEF Wait, WaitCancelled, ReplayEnd, Cancel, CheckTimeouts, MonitorStop,
         netVars, vars
<1> QED BY <1>1, <1>2, <1>3, <1>4, <1>5, <1>6, <1>7 DEF Next

-----------------------------------------------------------------------------
(* The numeric constants, without the Boolean SendCanFail.                *)
LEMMA ConstsNat ==
    MaxRetries \in Nat /\ MaxRequests \in Nat
BY TrackerAssumption, Zenon

(* An issued request has been sent at most MaxRetries + 1 times: SendCount *)
(* with RetryCount <= maxRetries.                                          *)
LEMMA AttemptsBounded ==
    ASSUME IInv, NEW k \in Reqs, k <= cur
    PROVE  attempts[k] <= MaxSends
<1>1. attempts[k] + (IF sendingTx = k THEN 1 ELSE 0) = retry[k] + 1
  BY DEF IInv, SendCount
<1>2. retry \in [Reqs -> 0 .. MaxRetries] /\ attempts \in [Reqs -> Nat]
  BY TypeSplit, Zenon DEF IInv, TypeMon, TypeNet
<1>3. attempts[k] <= retry[k] + 1
  <2>1. CASE sendingTx = k
    BY <1>1, <1>2, <2>1
  <2>2. CASE sendingTx # k
    BY <1>1, <1>2, <2>2
  <2> QED BY <2>1, <2>2
<1> QED BY <1>2, <1>3, ConstsNat

(* Traffic for request k means k was issued.                               *)
LEMMA TrafficIssued ==
    ASSUME IInv, NEW k \in Reqs, reqNet[k] > 0 \/ respNet[k] > 0
    PROVE  k <= cur
<1>1. ~(k > cur)
  BY DEF IInv, FreshUntouched
<1>2. TypeCtl
  BY TypeSplit, Zenon DEF IInv
<1> QED BY <1>1, <1>2 DEF TypeCtl

(* Track and Send of the next request is the abstract Issue.               *)
LEMMA IssueRefines ==
    ASSUME Issue
    PROVE  TO!Issue
BY Zenon DEF Issue, TO!Issue

(* The mock UPF handles a copy in flight: the copy came from one of at     *)
(* most MaxSends sends, so fewer than MaxSends copies were handled before. *)
LEMMA PeerHandlesRefines ==
    ASSUME IInv, NetBound, NEW k \in Reqs, PeerHandles(k)
    PROVE  TO!PeerHandles(k)
<1>1. /\ reqNet[k] > 0
      /\ processed' = [processed EXCEPT ![k] = processed[k] + 1]
      /\ UNCHANGED <<cur, result>>
  BY Zenon DEF PeerHandles
<1>2. k <= cur
  BY <1>1, TrafficIssued
<1>3. attempts[k] <= MaxSends
  BY <1>2, AttemptsBounded
<1>4. processed[k] + reqNet[k] <= attempts[k]
  BY DEF NetBound
<1>5. /\ reqNet \in [Reqs -> Nat] /\ processed \in [Reqs -> Nat]
      /\ attempts \in [Reqs -> Nat]
  BY TypeSplit, Zenon DEF IInv, TypeNet
<1>6. processed[k] < attempts[k]
  BY <1>1, <1>4, <1>5, ConstsNat
<1>7. processed[k] < MaxSends
  BY <1>3, <1>5, <1>6, ConstsNat
<1> QED BY <1>1, <1>2, <1>7 DEF TO!PeerHandles

(* A response to request k names k's own number, k's entry if any.         *)
LEMMA ReceiveFacts ==
    ASSUME IInv, NoSeqReuse, NEW j \in Reqs, Receive(j)
    PROVE  /\ j <= cur /\ seqOf[j] = j /\ pending[j] \in {NoTx, j}
           /\ respNet[j] > 0
           /\ Resolve(j)
           /\ UNCHANGED <<cur, processed>>
<1>1. respNet[j] > 0 /\ Resolve(seqOf[j]) /\ UNCHANGED <<cur, processed>>
  BY Zenon DEF Receive
<1>2. j <= cur
  BY <1>1, TrafficIssued
<1>3. seqOf[j] = j
  BY <1>2 DEF IInv, SeqOfIssued
<1>4. j \in SeqNums
  BY ReqsAreSeqNums
<1>5. pending[j] \in {NoTx, j}
  BY <1>4 DEF IInv, PendingOwn
<1> QED BY <1>1, <1>2, <1>3, <1>5

(* Resolve that finds the entry gives the abstract Respond (the UPF has   *)
(* handled a copy, since a response is in flight); one that finds none     *)
(* changes no result.                                                      *)
LEMMA ReceiveRefines ==
    ASSUME IInv, NetBound, NoSeqReuse, NEW j \in Reqs, Receive(j)
    PROVE  TO!Respond(j) \/ UNCHANGED <<cur, processed, result>>
<1>1. /\ j <= cur /\ pending[j] \in {NoTx, j} /\ respNet[j] > 0
      /\ Resolve(j) /\ UNCHANGED <<cur, processed>>
  BY ReceiveFacts
<1>2. CASE pending[j] = NoTx
  BY <1>1, <1>2, Zenon DEF Resolve
<1>3. CASE pending[j] = j
  <2>1. result[j] = "none"
    BY <1>3 DEF IInv, PendingUnfulfilled
  <2>2. result' = [result EXCEPT ![j] = "response"]
    <3>1. pending[j] # NoTx
      BY <1>3
    <3>2. result' = [result EXCEPT ![j] = IF result[j] = "none"
                                         THEN "response" ELSE result[j]]
      BY <1>1, <1>3, <3>1, Zenon DEF Resolve, Fulfil
    <3> QED BY <2>1, <3>2
  <2>3. processed[j] >= 1
    <3>1. respNet \in [Reqs -> Nat] /\ processed \in [Reqs -> Nat]
      BY TypeSplit, Zenon DEF IInv, TypeNet
    <3>2. respNet[j] <= processed[j]
      BY DEF NetBound
    <3> QED BY <1>1, <3>1, <3>2
  <2> QED BY <1>1, <2>1, <2>2, <2>3 DEF TO!Respond
<1> QED BY <1>1, <1>2, <1>3

(* handleTimeout giving up fails the request's own, unfulfilled handle:    *)
(* the abstract GiveUp.                                                    *)
LEMMA GiveUpRefines ==
    ASSUME IInv, NoSeqReuse, NEW j \in Reqs, TimeoutGiveUp(j)
    PROVE  TO!GiveUp(j)
<1>1. mpc = "handling" /\ j \in todo /\ pending[seqOf[j]] # NoTx
  BY DEF TimeoutGiveUp
<1>2. j <= cur /\ result[j] = "none"
  BY <1>1, HandleFacts
<1>3. /\ result' = [result EXCEPT ![j] = IF result[j] = "none"
                                        THEN "timeout" ELSE result[j]]
      /\ UNCHANGED <<cur, processed>>
  BY Zenon DEF TimeoutGiveUp, Fulfil, netVars
<1> QED BY <1>2, <1>3 DEF TO!GiveUp

(* Every other step leaves cur, processed and result alone.                *)
LEMMA OtherStutters ==
    ASSUME NEW k \in Reqs,
           \/ Wait \/ WaitCancelled \/ ReplayEnd \/ Cancel \/ CheckTimeouts
           \/ MonitorStop \/ Retransmit \/ LoseRequest(k) \/ LoseResponse(k)
           \/ Expire(k) \/ TimeoutStale(k) \/ TimeoutRetry(k)
    PROVE  UNCHANGED <<cur, processed, result>>
BY Zenon DEF Wait, WaitCancelled, ReplayEnd, Cancel, CheckTimeouts,
             MonitorStop, Retransmit, LoseRequest, LoseResponse, Expire,
             TimeoutStale, TimeoutRetry, netVars

LEMMA NextRefines ==
    ASSUME IInv, NetBound, NoSeqReuse, [Next]_vars
    PROVE  [TO!Next]_TO!avars
<1>1. CASE Issue
  BY <1>1, IssueRefines DEF TO!Next
<1>2. ASSUME NEW k \in Reqs, PeerHandles(k)
      PROVE  [TO!Next]_TO!avars
  BY <1>2, PeerHandlesRefines DEF TO!Next, TO!Reqs
<1>3. ASSUME NEW k \in Reqs, Receive(k)
      PROVE  [TO!Next]_TO!avars
  BY <1>3, ReceiveRefines DEF TO!Next, TO!Reqs, TO!avars
<1>4. ASSUME NEW k \in Reqs, TimeoutGiveUp(k)
      PROVE  [TO!Next]_TO!avars
  BY <1>4, GiveUpRefines DEF TO!Next, TO!Reqs
<1>5. ASSUME NEW k \in Reqs,
             \/ Wait \/ WaitCancelled \/ ReplayEnd \/ Cancel \/ CheckTimeouts
             \/ MonitorStop \/ Retransmit \/ LoseRequest(k) \/ LoseResponse(k)
             \/ Expire(k) \/ TimeoutStale(k) \/ TimeoutRetry(k)
      PROVE  [TO!Next]_TO!avars
  BY <1>5, OtherStutters DEF TO!avars
<1>6. CASE UNCHANGED vars
  BY <1>6 DEF vars, TO!avars
<1>7. Reqs # {}
  BY TrackerAssumption
<1> QED BY <1>1, <1>2, <1>3, <1>4, <1>5, <1>6, <1>7 DEF Next, HandleTimeout

(* The invariant of the refinement: IInv and the network bound.            *)
RInv == IInv /\ NetBound

LEMMA RInvHolds ==
    ASSUME NoSeqReuse
    PROVE  Spec => []RInv
<1>1. Init => RInv
  BY InitIInv, InitNetBound DEF RInv
<1>2. RInv /\ [Next]_vars => RInv'
  BY NextIInv, NextNetBound DEF RInv
<1> QED BY <1>1, <1>2, PTL DEF Spec

(* The tracker, the receive path, the monitor and the lossy network       *)
(* implement the TransactionOutcome contract (Refines), for every number  *)
(* of requests and every retry limit, while no sequence number is reused: *)
(* the UPF handles at most MaxRetries + 1 copies of a request, a handle   *)
(* gets a response only after the UPF handled a copy, and each handle is  *)
(* fulfilled once, by Resolve or by handleTimeout, never changed after.   *)
THEOREM RefinementHolds ==
    ASSUME NoSeqReuse
    PROVE  Spec => Refines
<1>1. Init => TO!Init
  BY DEF Init, TO!Init, TO!Reqs
<1>2. RInv /\ [Next]_vars => [TO!Next]_TO!avars
  BY NextRefines DEF RInv
<1> QED BY <1>1, <1>2, RInvHolds, PTL DEF Spec, Refines, TO!Spec

==============================================================================
