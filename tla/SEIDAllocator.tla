---------------------------- MODULE SEIDAllocator ----------------------------
(***************************************************************************)
(* The SEID allocator of src/unnamed/part_005 (session/seid_allocator.go). *)
(* An allocator is a record [next, used]: the cursor nextSEID and the set   *)
(* usedSEIDs.  Every call runs under the allocator's mutex, so a call is   *)
(* one atomic transformation of this record; the operators below are those *)
(* transformations.  SEIDs are SEIDBits-bit unsigned integers (64 in the   *)
(* code), so the cursor wraps modulo 2^SEIDBits.                           *)
(***************************************************************************)
EXTENDS Naturals

CONSTANTS
    SEIDBits,          \* width of a SEID (64 in the code)
    MaxSEIDAttempts,   \* iterations of the sequential scan (1000000 in the code)
    SEIDStrategy       \* "sequential" or "random" (session.seid_strategy)

SEIDModulus == 2 ^ SEIDBits
SEIDMax == SEIDModulus - 1
SEIDSpace == 1 .. SEIDMax          \* SEID 0 is reserved and never issued

Allocators == [next : 0 .. SEIDMax, used : SUBSET SEIDSpace]

(* NewSEIDAllocator: a start of 0 is replaced by 1.                        *)
NewSEIDAllocator(start) ==
    [next |-> IF start = 0 THEN 1 ELSE start, used |-> {}]

(* The value examined by iteration i of the sequential loop started at     *)
(* cursor n: the loop turns a cursor of 0 into 1 and then increments, so   *)
(* it visits n, n+1, ..., SEIDMax, 1, 2, ... and never 0.                   *)
SeqCandidate(n, i) == (((IF n = 0 THEN 1 ELSE n) - 1 + i) % SEIDMax) + 1

(* The iterations of the sequential loop that would find a free SEID.      *)
FreeAttempts(a) ==
    {i \in 0 .. MaxSEIDAttempts - 1 : SeqCandidate(a.next, i) \notin a.used}

(* The outcome of Allocate: a record [err, seid, alloc] with the SEID      *)
(* returned (0 on error) and the allocator after the call.  The sequential *)
(* strategy returns the first free candidate and leaves the cursor one     *)
(* past it; after MaxSEIDAttempts collisions it fails with the cursor      *)
(* advanced past every value it examined.  The random strategy draws with  *)
(* rand.Uint64 and gives up after a bounded number of draws: any free      *)
(* non-zero SEID may come out, and a failure is always possible.  It does  *)
(* not move the cursor.                                                    *)
(* The iteration at which the loop returns: the least one of them (empty  *)
(* exactly when no iteration finds a free SEID).                          *)
FirstFreeAttempt(a) ==
    {i \in FreeAttempts(a) : \A j \in FreeAttempts(a) : i <= j}

SequentialOutcome(a) ==
    IF FirstFreeAttempt(a) = {}
    THEN [err |-> TRUE, seid |-> 0,
          alloc |-> [a EXCEPT !.next =
                       (SeqCandidate(a.next, MaxSEIDAttempts - 1) + 1) % SEIDModulus]]
    ELSE LET k == CHOOSE i \in FirstFreeAttempt(a) : TRUE
             s == SeqCandidate(a.next, k)
         IN  [err |-> FALSE, seid |-> s,
              alloc |-> [next |-> (s + 1) % SEIDModulus, used |-> a.used \cup {s}]]

(* Mutant: the random draw is kept without the usedSEIDs collision check. *)
AllocateOutcomesUnchecked(a) ==
    IF SEIDStrategy = "sequential"
    THEN {SequentialOutcome(a)}
    ELSE {[err |-> FALSE, seid |-> s, alloc |-> [a EXCEPT !.used = @ \cup {s}]] :
              s \in SEIDSpace}
         \cup {[err |-> TRUE, seid |-> 0, alloc |-> a]}

AllocateOutcomes(a) ==
    IF SEIDStrategy = "sequential"
    THEN {SequentialOutcome(a)}
    ELSE {[err |-> FALSE, seid |-> s, alloc |-> [a EXCEPT !.used = @ \cup {s}]] :
              s \in SEIDSpace \ a.used}
         \cup {[err |-> TRUE, seid |-> 0, alloc |-> a]}

(* Release: delete(usedSEIDs, seid); releasing a free SEID is a no-op.     *)
Release(a, seid) == [a EXCEPT !.used = @ \ {seid}]

==============================================================================
