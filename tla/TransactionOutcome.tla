------------------------- MODULE TransactionOutcome -------------------------
(***************************************************************************)
(* What the transaction layer promises the replay loop (spec 4.5): each    *)
(* request, once issued, is handled by the peer some number of times (the *)
(* original and its retransmissions, at most MaxSends copies), and gets at *)
(* most one outcome, which never changes: a response, only once the peer   *)
(* has handled a copy, or a timeout.  The replay issues requests in order. *)
(***************************************************************************)
EXTENDS Naturals

CONSTANTS MaxRequests, MaxSends

Reqs == 1 .. MaxRequests
Outcomes == {"none", "response", "timeout"}

VARIABLES
    issued,      \* requests handed to the transaction layer so far
    processed,   \* copies of each request the peer has handled
    outcome      \* the result the caller's handle was fulfilled with

avars == <<issued, processed, outcome>>

Init ==
    /\ issued = 0
    /\ processed = [k \in Reqs |-> 0]
    /\ outcome = [k \in Reqs |-> "none"]

Issue ==
    /\ issued < MaxRequests
    /\ issued' = issued + 1
    /\ UNCHANGED <<processed, outcome>>

PeerHandles(k) ==
    /\ k <= issued
    /\ processed[k] < MaxSends
    /\ processed' = [processed EXCEPT ![k] = @ + 1]
    /\ UNCHANGED <<issued, outcome>>

Respond(k) ==
    /\ k <= issued
    /\ outcome[k] = "none"
    /\ processed[k] >= 1
    /\ outcome' = [outcome EXCEPT ![k] = "response"]
    /\ UNCHANGED <<issued, processed>>

GiveUp(k) ==
    /\ k <= issued
    /\ outcome[k] = "none"
    /\ outcome' = [outcome EXCEPT ![k] = "timeout"]
    /\ UNCHANGED <<issued, processed>>

Next ==
    \/ Issue
    \/ \E k \in Reqs : PeerHandles(k) \/ Respond(k) \/ GiveUp(k)

Spec == Init /\ [][Next]_avars

==============================================================================
