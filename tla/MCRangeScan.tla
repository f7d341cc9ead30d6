---------------------------- MODULE MCRangeScan ----------------------------
(* Constant values for the runs of RangeScan.                              *)
EXTENDS RangeScan, TLC

CONSTANTS t1, t2, k0, k1, k2, k3, k4

C(kind, k) == [kind |-> kind, key |-> k]

Bins124 == (0 :> 1 @@ 1 :> 2 @@ 2 :> 4)
Links39 == (0 :> 3 @@ 1 :> 9 @@ 2 :> 18)

HashOf == (k0 :> 0 @@ k1 :> 1 @@ k2 :> 2 @@ k3 :> 4 @@ k4 :> 3)
Hashes == [k \in Key |-> HashOf[k]]
Before0234 == <<k0, k2, k3, k4>>

TwiceT2 == [t \in Thread |-> IF t = t2 THEN 2 ELSE 1]
Linked == (t1 :> {C("Insert", k1)}
           @@ t2 :> {C("Insert", k3), C("Put", k2), C("Delete", k3)})
=============================================================================
