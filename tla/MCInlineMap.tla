---------------------------- MODULE MCInlineMap ----------------------------
(* Constant values for the runs of InlineMap.                              *)
EXTENDS InlineMap, TLC

CONSTANTS t1, t2, t3

C(kind, k) == [kind |-> kind, key |-> k]

Bins1 == (0 :> 1)
Links0 == (0 :> 0)
Bins248 == (0 :> 2 @@ 1 :> 4 @@ 2 :> 8)
Links36 == (0 :> 3 @@ 1 :> 6 @@ 2 :> 10)

\* 9 and 8 are the sentinels of even and of odd bins: the largest keys with
\* odd and with even hashes
HashOf == (0 :> 0 @@ 1 :> 1 @@ 2 :> 2 @@ 4 :> 4 @@ 6 :> 8 @@ 8 :> 6 @@ 9 :> 3)
Hashes == [k \in Key |-> HashOf[k]]
Before0 == <<0>>
Before029 == <<0, 2, 9>>

NoReuse == [k \in {"Insert", "Put"} |-> IF k = "Put" THEN {InitVal} ELSE {}]
InsertReuse == [k \in {"Insert", "Put"} |-> IF k = "Put" THEN {} ELSE {InitVal}]

OneEach == [t \in Thread |-> 1]
TwiceT2 == [t \in Thread |-> IF t = t2 THEN 2 ELSE 1]
Thrice == [t \in Thread |-> IF t = t1 THEN 3 ELSE 2]
Recycle == (t1 :> {C("Put", 0), C("Delete", 0)}
            @@ t2 :> {C("Insert", 0), C("Delete", 0)}
            @@ t3 :> {C("Get", 0), C("Insert", 0)})
Grow == (t1 :> {C("Insert", 4)}
         @@ t2 :> {C("Insert", 1), C("Delete", 2)}
         @@ t3 :> {C("Get", 4), C("Put", 2), C("Delete", 9)})
Stale == (t1 :> {C("Put", 0), C("Get", 0)} @@ t2 :> {C("Delete", 0), C("Insert", 0)})
=============================================================================
