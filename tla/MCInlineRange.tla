--------------------------- MODULE MCInlineRange ---------------------------
(* Constant values for the runs of InlineRange.                            *)
EXTENDS InlineRange, TLC

CONSTANTS t1, t2

C(kind, k) == [kind |-> kind, key |-> k]

Bins248 == (0 :> 2 @@ 1 :> 4 @@ 2 :> 8)
Links14 == (0 :> 1 @@ 1 :> 4 @@ 2 :> 8)

\* 9 and 8 are the sentinels of even and of odd bins
HashOf == (0 :> 0 @@ 2 :> 2 @@ 4 :> 4 @@ 6 :> 8 @@ 8 :> 6 @@ 9 :> 3)
Hashes == [k \in Key |-> HashOf[k]]
Before029 == <<0, 2, 9>>

NoReuse == [k \in {"Insert", "Put"} |-> {}]
TwiceT2 == [t \in Thread |-> IF t = t2 THEN 2 ELSE 1]
Linked == (t1 :> {C("Insert", 8)}
           @@ t2 :> {C("Insert", 2), C("Put", 2), C("Delete", 2)})
=============================================================================
