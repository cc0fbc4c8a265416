------------------------------- MODULE UEIPPool -------------------------------
(***************************************************************************)
(* The UE IP pool of src/unnamed/part_004 (session/ip_pool.go).  An        *)
(* address is its offset from the CIDR block's network address, so the    *)
(* block is 0 .. BlockSize-1 and an offset of BlockSize or more lies       *)
(* outside it.  A pool is a record [next, allocated]: the cursor nextIP and *)
(* the set of allocated addresses.  Every call runs under the pool's mutex, *)
(* so it is one atomic transformation of the record.                       *)
(***************************************************************************)
EXTENDS Naturals

CONSTANT PoolHostBits     \* bits - ones of the CIDR mask (8 for a /24)

BlockSize == 2 ^ PoolHostBits
Addresses == 0 .. BlockSize        \* the block, and the first offset past it
InBlock(ip) == ip < BlockSize      \* cidr.Contains

Pools == [next : Addresses, allocated : SUBSET Addresses]

(* NewUEIPPool: the cursor starts at the network address plus one.         *)
NewUEIPPool == [next |-> 1, allocated |-> {}]

(* incrementIP followed by the wrap check: a cursor that leaves the block  *)
(* is reset to the network address plus one (itself outside a /32).       *)
Advance(ip) == IF InBlock(ip + 1) THEN ip + 1 ELSE 1

(* The scan of Allocate starts at the cursor (reset if outside the block)  *)
(* and examines ScanLength addresses, Advance-ing after each; it stops     *)
(* when checked >= totalIPs-1 or the cursor is back at the start, which    *)
(* for a block of two or more addresses happens after BlockSize-1 steps,   *)
(* and for a /32 after one.  ScanAddress(s, k) is the k-th one examined.   *)
ScanStart(p) == IF InBlock(p.next) THEN p.next ELSE 1
ScanLength == IF BlockSize = 1 THEN 1 ELSE BlockSize - 1
ScanAddress(s, k) == IF BlockSize = 1 THEN 1 ELSE ((s - 1 + k) % (BlockSize - 1)) + 1

(* Mutant: the scan takes the address under the cursor without checking  *)
(* whether it is already allocated.                                       *)
FreeStepsUnchecked(p) == 0 .. ScanLength - 1

FreeSteps(p) ==
    {k \in 0 .. ScanLength - 1 : ScanAddress(ScanStart(p), k) \notin p.allocated}

(* The step at which the scan stops on a free address: the least one.   *)
FirstFreeStep(p) == {k \in FreeSteps(p) : \A j \in FreeSteps(p) : k <= j}

(* The outcome of Allocate: [err, ip, pool].  The first free address       *)
(* examined is marked allocated and the cursor is left one past it; when   *)
(* none is free the call fails and the cursor is back where it started.    *)
Allocate(p) ==
    IF FirstFreeStep(p) = {}
    THEN [err |-> TRUE, ip |-> 0, pool |-> [p EXCEPT !.next = ScanStart(p)]]
    ELSE LET k  == CHOOSE i \in FirstFreeStep(p) : TRUE
             ip == ScanAddress(ScanStart(p), k)
         IN  [err |-> FALSE, ip |-> ip,
              pool |-> [next |-> Advance(ip), allocated |-> p.allocated \cup {ip}]]

(* Release: delete(allocated, ip); releasing a free address is a no-op.    *)
Release(p, ip) == [p EXCEPT !.allocated = @ \ {ip}]

==============================================================================
