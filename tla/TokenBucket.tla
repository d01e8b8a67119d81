----------------------------- MODULE TokenBucket -----------------------------
(***************************************************************************)
(* What a rate limit promises: every key has a bucket of Capacity that     *)
(* fills by one with every tick of the clock, and a request is granted for *)
(* Cost.  A request that is turned away costs nothing, no key spends what  *)
(* belongs to another, and no bucket is ever forgotten.                    *)
(***************************************************************************)
EXTENDS Integers

CONSTANTS Keys, Cost, Capacity

VARIABLE level   \* level[k]: what is in the bucket of the key k

Filled(n) == IF n > Capacity THEN Capacity ELSE n

BucketInit == level = [k \in Keys |-> Capacity]

Tick == level' = [k \in Keys |-> Filled(level[k] + 1)]

Grant(k) ==
  /\ level[k] >= Cost
  /\ level' = [level EXCEPT ![k] = @ - Cost]

BucketNext == Tick \/ \E k \in Keys : Grant(k)

BucketSpec == BucketInit /\ [][BucketNext]_level
=============================================================================
