------------------------- MODULE TransactionTracker -------------------------
(***************************************************************************)
(* The PFCP transaction layer (src/internal/network/transaction.go) with   *)
(* the goroutines that drive it, during Replay:                            *)
(*   - the replay goroutine: per request, SequenceCounter.Next, Track,     *)
(*     UDPClient.Send, waitForResult (manager.go);                         *)
(*   - the receive path: Receiver.listen and handleResponses, which call   *)
(*     Resolve with the sequence number of each response;                  *)
(*   - the timeout monitor: every tick checkTimeouts snapshots the expired *)
(*     transactions under the lock, then runs handleTimeout on each, which *)
(*     retransmits after unlocking or fails the transaction;               *)
(*   - the mock UPF, answering every request it receives;                  *)
(*   - the signal handler's cancel().                                      *)
(* Requests are numbered 1..MaxRequests in replay order; the network may   *)
(* lose and reorder datagrams.  Time is abstracted to a flag per           *)
(* transaction: its timeout has elapsed since it was last (re)sent.        *)
(***************************************************************************)
EXTENDS Naturals

CONSTANTS
    MaxRequests,   \* recorded requests the replay sends
    SeqBits,       \* width of the sequence number (24)
    MaxRetries,    \* timing.max_retries
    SendCanFail    \* a socket write may return an error

ASSUME TrackerAssumption ==
    /\ MaxRequests \in Nat \ {0}
    /\ SeqBits \in Nat \ {0}
    /\ MaxRetries \in Nat
    /\ SendCanFail \in BOOLEAN

ASSUME TrackerWidthAssumption == 2 ^ SeqBits \in Nat /\ 2 ^ SeqBits >= 2

Reqs == 1 .. MaxRequests
NoTx == 0
SeqMax == 2 ^ SeqBits - 1
SeqNums == 1 .. SeqMax
MaxSends == MaxRetries + 1
ResultKinds == {"none", "response", "timeout"}
SendOutcomes == IF SendCanFail THEN BOOLEAN ELSE {TRUE}

VARIABLES
    hpc,         \* replay goroutine: "idle", "waiting" on a result, "done"
    cur,         \* requests issued so far; the current one while waiting
    cancelled,   \* the context was cancelled
    seqCounter,
    seqOf,       \* PendingTransaction.SeqNum of each request (0: not yet)
    pending,     \* TransactionTracker.pending: sequence number -> request
    retry,       \* PendingTransaction.RetryCount
    expired,     \* now.Sub(SentAt) > timeout
    mpc,         \* timeout monitor: "idle", "handling" its snapshot, "sending",
                 \* "stopped" once its select took ctx.Done()
    todo,        \* the snapshot's transactions not yet handled
    sendingTx,   \* the transaction being retransmitted after the unlock
    reqNet,      \* copies of each request in flight to the UPF
    respNet,     \* responses to each request in flight back
    \* Observation only:
    attempts,    \* calls of UDPClient.Send for each request
    processed,   \* copies of each request the UPF handled
    fulfilled,   \* results sent to each request's ResultCh
    result       \* the first result sent to it

vars == <<hpc, cur, cancelled, seqCounter, seqOf, pending, retry, expired,
          mpc, todo, sendingTx, reqNet, respNet, attempts, processed,
          fulfilled, result>>

monitorVars == <<retry, expired, mpc, todo, sendingTx>>
netVars == <<reqNet, respNet, processed>>

-----------------------------------------------------------------------------
(* SequenceCounter.Next: wraps to 1 past the width.                        *)
NextSeq == IF seqCounter + 1 > SeqMax THEN 1 ELSE seqCounter + 1

(* The transactions the pending map holds.                                 *)
PendingTxs == {pending[s] : s \in SeqNums} \ {NoTx}

(* A send on the request's buffered ResultCh.                              *)
Fulfil(j, kind) ==
    /\ fulfilled' = [fulfilled EXCEPT ![j] = @ + 1]
    /\ result' = [result EXCEPT ![j] = IF @ = "none" THEN kind ELSE @]

(* UDPClient.Send of request k's bytes; ok is whether the write succeeded. *)
Transmit(k, ok) ==
    /\ attempts' = [attempts EXCEPT ![k] = @ + 1]
    /\ reqNet' = IF ok THEN [reqNet EXCEPT ![k] = @ + 1] ELSE reqNet

Init ==
    /\ hpc = "idle"
    /\ cur = 0
    /\ cancelled = FALSE
    /\ seqCounter = 0
    /\ seqOf = [k \in Reqs |-> 0]
    /\ pending = [s \in SeqNums |-> NoTx]
    /\ retry = [k \in Reqs |-> 0]
    /\ expired = [k \in Reqs |-> FALSE]
    /\ mpc = "idle"
    /\ todo = {}
    /\ sendingTx = NoTx
    /\ reqNet = [k \in Reqs |-> 0]
    /\ respNet = [k \in Reqs |-> 0]
    /\ attempts = [k \in Reqs |-> 0]
    /\ processed = [k \in Reqs |-> 0]
    /\ fulfilled = [k \in Reqs |-> 0]
    /\ result = [k \in Reqs |-> "none"]

-----------------------------------------------------------------------------
(* The replay goroutine.  The loop checks the context, then the handler   *)
(* takes the next sequence number, Tracks the request (overwriting any    *)
(* entry with the same number) and sends it.  A failed send returns from  *)
(* the handler at once; Replay logs the error and goes on.                 *)
Issue ==
    /\ hpc = "idle" /\ ~cancelled /\ cur < MaxRequests
    /\ LET k == cur + 1
           s == NextSeq
       IN  /\ cur' = k
           /\ seqCounter' = s
           /\ seqOf' = [seqOf EXCEPT ![k] = s]
           /\ pending' = [pending EXCEPT ![s] = k]
           /\ \E ok \in SendOutcomes :
                 /\ Transmit(k, ok)
                 /\ hpc' = IF ok THEN "waiting" ELSE "idle"
    /\ UNCHANGED <<cancelled, monitorVars, respNet, processed, fulfilled,
                   result>>

(* waitForResult: the result arrives, or the context is done (Go's select *)
(* picks either when both are ready).                                      *)
Wait ==
    /\ hpc = "waiting" /\ fulfilled[cur] >= 1
    /\ hpc' = "idle"
    /\ UNCHANGED <<cur, cancelled, seqCounter, seqOf, pending, monitorVars,
                   netVars, attempts, fulfilled, result>>

WaitCancelled ==
    /\ hpc = "waiting" /\ cancelled
    /\ hpc' = "idle"
    /\ UNCHANGED <<cur, cancelled, seqCounter, seqOf, pending, monitorVars,
                   netVars, attempts, fulfilled, result>>

(* Replay returns: every request handled, or the context cancelled.        *)
ReplayEnd ==
    /\ hpc = "idle" /\ (cur = MaxRequests \/ cancelled)
    /\ hpc' = "done"
    /\ UNCHANGED <<cur, cancelled, seqCounter, seqOf, pending, monitorVars,
                   netVars, attempts, fulfilled, result>>

(* SIGINT/SIGTERM: the signal goroutine calls cancel().                    *)
Cancel ==
    /\ hpc # "done" /\ ~cancelled
    /\ cancelled' = TRUE
    /\ UNCHANGED <<hpc, cur, seqCounter, seqOf, pending, monitorVars, netVars,
                   attempts, fulfilled, result>>

-----------------------------------------------------------------------------
(* The mock UPF answers every request it reads; the network loses         *)
(* datagrams either way.                                                   *)
PeerHandles(k) ==
    /\ reqNet[k] > 0
    /\ reqNet' = [reqNet EXCEPT ![k] = @ - 1]
    /\ processed' = [processed EXCEPT ![k] = @ + 1]
    /\ respNet' = [respNet EXCEPT ![k] = @ + 1]
    /\ UNCHANGED <<hpc, cur, cancelled, seqCounter, seqOf, pending,
                   monitorVars, attempts, fulfilled, result>>

LoseRequest(k) ==
    /\ reqNet[k] > 0
    /\ reqNet' = [reqNet EXCEPT ![k] = @ - 1]
    /\ UNCHANGED <<hpc, cur, cancelled, seqCounter, seqOf, pending,
                   monitorVars, respNet, processed, attempts, fulfilled, result>>

LoseResponse(k) ==
    /\ respNet[k] > 0
    /\ respNet' = [respNet EXCEPT ![k] = @ - 1]
    /\ UNCHANGED <<hpc, cur, cancelled, seqCounter, seqOf, pending,
                   monitorVars, reqNet, processed, attempts, fulfilled, result>>

(* Mutant: Resolve fulfils the handle but leaves the entry in the map.     *)
ResolveKeep(s) ==
    IF pending[s] = NoTx
    THEN UNCHANGED <<pending, fulfilled, result>>
    ELSE /\ UNCHANGED pending
         /\ Fulfil(pending[s], "response")

(* Resolve: the pending entry of the sequence number, if any, is removed  *)
(* under the lock and its handle fulfilled with the response; a response  *)
(* for an unknown sequence number is dropped.                              *)
Resolve(s) ==
    IF pending[s] = NoTx
    THEN UNCHANGED <<pending, fulfilled, result>>
    ELSE /\ pending' = [pending EXCEPT ![s] = NoTx]
         /\ Fulfil(pending[s], "response")

(* The receive path reads a response to request k (it carries k's         *)
(* sequence number) and resolves it.  handleResponses' select may still   *)
(* take a buffered message after the context is cancelled, until it picks *)
(* ctx.Done(); with no fairness on this path, the model lets it do so at   *)
(* any later time (an over-approximation of when it stops).               *)
Receive(k) ==
    /\ respNet[k] > 0
    /\ respNet' = [respNet EXCEPT ![k] = @ - 1]
    /\ Resolve(seqOf[k])
    /\ UNCHANGED <<hpc, cur, cancelled, seqCounter, seqOf, monitorVars,
                   reqNet, processed, attempts>>

-----------------------------------------------------------------------------
(* Time passes: the timeout of a pending transaction elapses.              *)
Expire(k) ==
    /\ k \in PendingTxs /\ ~expired[k]
    /\ expired' = [expired EXCEPT ![k] = TRUE]
    /\ UNCHANGED <<hpc, cur, cancelled, seqCounter, seqOf, pending, retry, mpc,
                   todo, sendingTx, netVars, attempts, fulfilled, result>>

(* A tick of the monitor: checkTimeouts collects the expired transactions *)
(* under the lock.  Go's select may take a ready tick even once the       *)
(* context is done.                                                        *)
CheckTimeouts ==
    /\ mpc = "idle"
    /\ LET due == {k \in PendingTxs : expired[k]} IN
          /\ due # {}
          /\ todo' = due
          /\ mpc' = "handling"
    /\ UNCHANGED <<hpc, cur, cancelled, seqCounter, seqOf, pending, retry,
                   expired, sendingTx, netVars, attempts, fulfilled, result>>

(* The monitor's select takes ctx.Done() between ticks and the goroutine   *)
(* returns: what is still pending is never timed out.                      *)
MonitorStop ==
    /\ mpc = "idle" /\ cancelled
    /\ mpc' = "stopped"
    /\ UNCHANGED <<hpc, cur, cancelled, seqCounter, seqOf, pending, retry,
                   expired, todo, sendingTx, netVars, attempts, fulfilled,
                   result>>

AfterHandle(rest) == IF rest = {} THEN "idle" ELSE "handling"

(* handleTimeout(tx), in map order.  It re-checks, by tx's sequence       *)
(* number, that the transaction is still pending; if not (resolved since *)
(* the snapshot) it returns.                                               *)
TimeoutStale(k) ==
    /\ mpc = "handling" /\ k \in todo
    /\ pending[seqOf[k]] = NoTx
    /\ todo' = todo \ {k}
    /\ mpc' = AfterHandle(todo')
    /\ UNCHANGED <<hpc, cur, cancelled, seqCounter, seqOf, pending, retry,
                   expired, sendingTx, netVars, attempts, fulfilled, result>>

(* Mutant: the retry test off by one (RetryCount <= maxRetries).           *)
TimeoutRetryLate(k) ==
    /\ mpc = "handling" /\ k \in todo
    /\ pending[seqOf[k]] # NoTx
    /\ retry[k] <= MaxRetries
    /\ todo' = todo \ {k}
    /\ retry' = [retry EXCEPT ![k] = @ + 1]
    /\ expired' = [expired EXCEPT ![k] = FALSE]
    /\ mpc' = "sending"
    /\ sendingTx' = k
    /\ UNCHANGED <<hpc, cur, cancelled, seqCounter, seqOf, pending, netVars,
                   attempts, fulfilled, result>>

(* Retries left: RetryCount and SentAt are updated under the lock; the    *)
(* retransmission happens after the unlock (Retransmit).                   *)
TimeoutRetry(k) ==
    /\ mpc = "handling" /\ k \in todo
    /\ pending[seqOf[k]] # NoTx
    /\ retry[k] < MaxRetries
    /\ todo' = todo \ {k}
    /\ retry' = [retry EXCEPT ![k] = @ + 1]
    /\ expired' = [expired EXCEPT ![k] = FALSE]
    /\ mpc' = "sending"
    /\ sendingTx' = k
    /\ UNCHANGED <<hpc, cur, cancelled, seqCounter, seqOf, pending, netVars,
                   attempts, fulfilled, result>>

(* Mutant: the give-up test one retry early.                              *)
TimeoutGiveUpEarly(k) ==
    /\ mpc = "handling" /\ k \in todo
    /\ pending[seqOf[k]] # NoTx
    /\ ~(retry[k] < MaxRetries - 1)
    /\ todo' = todo \ {k}
    /\ mpc' = AfterHandle(todo')
    /\ pending' = [pending EXCEPT ![seqOf[k]] = NoTx]
    /\ Fulfil(k, "timeout")
    /\ UNCHANGED <<hpc, cur, cancelled, seqCounter, seqOf, retry, expired,
                   sendingTx, netVars, attempts>>

(* Mutant: the entry is deleted but the handle is never fulfilled.        *)
TimeoutGiveUpSilent(k) ==
    /\ mpc = "handling" /\ k \in todo
    /\ pending[seqOf[k]] # NoTx
    /\ ~(retry[k] < MaxRetries)
    /\ todo' = todo \ {k}
    /\ mpc' = AfterHandle(todo')
    /\ pending' = [pending EXCEPT ![seqOf[k]] = NoTx]
    /\ UNCHANGED <<hpc, cur, cancelled, seqCounter, seqOf, retry, expired,
                   sendingTx, netVars, attempts, fulfilled, result>>

(* Retries exhausted: the entry is deleted under the lock and the handle  *)
(* is fulfilled with a timeout error.                                      *)
TimeoutGiveUp(k) ==
    /\ mpc = "handling" /\ k \in todo
    /\ pending[seqOf[k]] # NoTx
    /\ ~(retry[k] < MaxRetries)
    /\ todo' = todo \ {k}
    /\ mpc' = AfterHandle(todo')
    /\ pending' = [pending EXCEPT ![seqOf[k]] = NoTx]
    /\ Fulfil(k, "timeout")
    /\ UNCHANGED <<hpc, cur, cancelled, seqCounter, seqOf, retry, expired,
                   sendingTx, netVars, attempts>>

(* The retransmission of the request's retained bytes; a failed send is   *)
(* only logged.                                                            *)
Retransmit ==
    /\ mpc = "sending"
    /\ \E ok \in SendOutcomes : Transmit(sendingTx, ok)
    /\ mpc' = AfterHandle(todo)
    /\ sendingTx' = NoTx
    /\ UNCHANGED <<hpc, cur, cancelled, seqCounter, seqOf, pending, retry,
                   expired, todo, respNet, processed, fulfilled, result>>

HandleTimeout(k) == TimeoutStale(k) \/ TimeoutRetry(k) \/ TimeoutGiveUp(k)

-----------------------------------------------------------------------------
Next ==
    \/ Issue \/ Wait \/ WaitCancelled \/ ReplayEnd \/ Cancel
    \/ CheckTimeouts \/ MonitorStop \/ Retransmit
    \/ \E k \in Reqs :
          \/ PeerHandles(k) \/ LoseRequest(k) \/ LoseResponse(k) \/ Receive(k)
          \/ Expire(k) \/ HandleTimeout(k)

(* The goroutines are scheduled and time passes: the replay goroutine,    *)
(* the monitor's ticker (every 100 ms) and its loop over the snapshot     *)
(* each make progress when they can.  The network, the UPF and the        *)
(* receive path get no fairness (datagrams may be lost for ever), nor     *)
(* does the signal.                                                        *)
Fairness ==
    /\ WF_vars(Issue) /\ WF_vars(Wait) /\ WF_vars(WaitCancelled)
    /\ WF_vars(ReplayEnd)
    /\ WF_vars(CheckTimeouts) /\ WF_vars(MonitorStop) /\ WF_vars(Retransmit)
    /\ \A k \in Reqs : WF_vars(Expire(k)) /\ WF_vars(HandleTimeout(k))

Spec == Init /\ [][Next]_vars /\ Fairness

-----------------------------------------------------------------------------
TypeOK ==
    /\ hpc \in {"idle", "waiting", "done"}
    /\ cur \in 0 .. MaxRequests
    /\ cancelled \in BOOLEAN
    /\ seqCounter \in 0 .. SeqMax
    /\ seqOf \in [Reqs -> 0 .. SeqMax]
    /\ pending \in [SeqNums -> Reqs \cup {NoTx}]
    /\ retry \in [Reqs -> 0 .. MaxRetries]
    /\ expired \in [Reqs -> BOOLEAN]
    /\ mpc \in {"idle", "handling", "sending", "stopped"}
    /\ todo \subseteq Reqs
    /\ sendingTx \in Reqs \cup {NoTx}
    /\ reqNet \in [Reqs -> Nat] /\ respNet \in [Reqs -> Nat]
    /\ attempts \in [Reqs -> Nat] /\ processed \in [Reqs -> Nat]
    /\ fulfilled \in [Reqs -> Nat]
    /\ result \in [Reqs -> ResultKinds]

(* Spec 4.5: a transaction's result handle is fulfilled exactly once, by  *)
(* whichever of Resolve and handleTimeout removes it first; the other must *)
(* see it gone.  A second send on the one-slot ResultCh would block the    *)
(* receive path or the monitor for ever.                                   *)
AtMostOneResult == \A k \in Reqs : fulfilled[k] <= 1

(* Spec 8: a transaction that gets no response is retransmitted exactly    *)
(* maxRetries times (MaxRetries + 1 sends in all) before handleTimeout      *)
(* fails it, although the monitor sends each retransmission after          *)
(* releasing the lock.                                                     *)
TimeoutAfterAllRetries ==
    \A k \in Reqs : result[k] = "timeout" => attempts[k] = MaxSends

(* The tracker, the receive path and the monitor implement the contract    *)
(* of TransactionOutcome: the UPF handles at most MaxRetries + 1 copies of *)
(* a request, a handle gets a response only once the UPF has handled a    *)
(* copy of its own request, and a result once given never changes.        *)
TO == INSTANCE TransactionOutcome WITH issued <- cur, outcome <- result
Refines == TO!Spec

(* Every waitForResult returns, by a response, a timeout after the        *)
(* retries or the cancellation, so Replay finishes.                        *)
ReplayTerminates == <>(hpc = "done")

(* The handler is done with request k: it has returned (a result, a       *)
(* cancellation or a failed send).                                         *)
Finished(k) == k <= cur /\ ~(k = cur /\ hpc = "waiting")

(* Spec 8 and 4.6: once the handler has its result, and after a failed     *)
(* send (a transport failure), the request is not sent again.             *)
NoSendAfterFinished ==
    [][\A k \in Reqs : Finished(k) => attempts'[k] = attempts[k]]_vars

(* Spec 5: a cancellation fulfils every pending transaction with a        *)
(* cancellation failure (CancelAll), so none is left in the map.           *)
CancelDrainsPending == cancelled ~> PendingTxs = {}

==============================================================================
