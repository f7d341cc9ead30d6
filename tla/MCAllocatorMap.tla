--------------------------- MODULE MCAllocatorMap ---------------------------
(* Constant values for the runs of AllocatorMap.                           *)
EXTENDS AllocatorMap, TLC

CONSTANTS t1, t2, t3, k0, k1, k2, k3, k4, k5

C(kind, k) == [kind |-> kind, key |-> k]

\* len(bins) and len(links) by generation
Bins1 == (0 :> 1)
Links0 == (0 :> 0)
Bins124 == (0 :> 1 @@ 1 :> 2 @@ 2 :> 4)
Bins248 == (0 :> 2 @@ 1 :> 4 @@ 2 :> 8)
Links013 == (0 :> 0 @@ 1 :> 1 @@ 2 :> 3)
Links37 == (0 :> 3 @@ 1 :> 7 @@ 2 :> 11)

HashOf == (k0 :> 0 @@ k1 :> 1 @@ k2 :> 2 @@ k3 :> 4 @@ k4 :> 3 @@ k5 :> 8)
Hashes == [k \in Key |-> HashOf[k]]
Before0 == <<k0>>
Before01 == <<k0, k1>>
Before012 == <<k0, k1, k2>>

\* Who calls what, and how often
OneEach == [t \in Thread |-> 1]
TwiceEach == [t \in Thread |-> 2]
TwiceT2 == [t \in Thread |-> IF t = t2 THEN 2 ELSE 1]
Recycle == (t1 :> {C("Get", k0), C("Put", k0), C("Delete", k0)}
            @@ t2 :> {C("Insert", k0), C("Delete", k0)}
            @@ t3 :> {C("Insert", k0)})
Grow == (t1 :> {C("Insert", k2)}
         @@ t2 :> {C("Insert", k0), C("Insert", k2), C("Insert", k4), C("Put", k0), C("Delete", k0),
                   C("Delete", k2)}
         @@ t3 :> [kind : {"Get", "Put", "Delete"}, key : {k0, k2}])
Chain == (t1 :> {C("Insert", k3), C("Get", k5), C("Put", k2), C("Delete", k3)}
          @@ t2 :> {C("Insert", k4), C("Insert", k5)})
Pair == (t1 :> {C("Insert", k1)}
         @@ t2 :> {C("Insert", k0), C("Insert", k1), C("Get", k0), C("Put", k0), C("Delete", k0)})

\* "no thread holds a lock that could block others" (src/design.md): if one
\* goroutine may stop at any point while the others keep running, the calls of
\* the others return.
StalledSpec == Spec /\ \A t \in Thread \ {t1} : WF_vars(Step(t))
OthersReturn == \A t \in Thread \ {t1} : pc[t] # "idle" ~> pc[t] = "idle"
=============================================================================
