----------------------------- MODULE AtomicMap -----------------------------
(***************************************************************************)
(* What the map promises its callers: Get, Insert, Put and Delete take     *)
(* effect atomically at some moment between their call and their return    *)
(* (src/README.md, "lock-free and linearizable").  The state is the        *)
(* abstract map and, for every thread, its last call and the answer.       *)
(*                                                                         *)
(* An operation that changes the map is answered in the step that changes  *)
(* it.  One that changes nothing may be answered from any value its key    *)
(* had since the call was made: seen[t] collects these values, so that     *)
(* such an operation needs no linearization point fixed in advance.        *)
(***************************************************************************)
EXTENDS Naturals

CONSTANTS Thread, Key, Value,
          Absent,       \* "no entry"
          Pending,      \* the answer of a call that is still running
          NoCall,       \* a thread that has made no call yet
          InitMap       \* what the map holds at the start: [Key -> Value \cup {Absent}]

VARIABLES map,          \* [Key -> Value \cup {Absent}]
          call,         \* the last call of every thread
          res,          \* its answer, or Pending
          seen          \* the values its key had while it was running

vars == <<map, call, res, seen>>

Kind == {"Get", "Insert", "Put", "Delete"}
Call == [kind : Kind, key : Key, val : Value]
Failed == [val |-> Absent, ok |-> FALSE]

Init ==
  /\ map = InitMap
  /\ call = [t \in Thread |-> NoCall]
  /\ res = [t \in Thread |-> Failed]
  /\ seen = [t \in Thread |-> {}]

Invoke(t) ==
  /\ res[t] # Pending
  /\ res' = [res EXCEPT ![t] = Pending]
  /\ \E c \in Call : /\ call' = [call EXCEPT ![t] = c]
                     /\ seen' = [seen EXCEPT ![t] = {map[c.key]}]
  /\ UNCHANGED map

Answered(t) == res[t] = Pending /\ res'[t] # Pending

\* The map after the call c took effect; Insert only on an absent key, Put
\* and Delete only on a present one.
Effective(c) == \/ c.kind = "Insert" /\ map[c.key] = Absent
                \/ c.kind \in {"Put", "Delete"} /\ map[c.key] # Absent

After(c) == [map EXCEPT ![c.key] = IF c.kind = "Delete" THEN Absent ELSE c.val]

Update(t) ==
  LET c == call[t] IN
  /\ Answered(t)
  /\ Effective(c)
  /\ map' = After(c)
  /\ res' = [res EXCEPT ![t] = [val |-> map[c.key], ok |-> TRUE]]
  /\ seen' = [u \in Thread |-> IF res'[u] # Pending THEN {}
                               ELSE seen[u] \cup {map'[call[u].key]}]
  /\ UNCHANGED call

\* The answers of a call that leaves the map alone, given a value v that its
\* key had: Get always has one, Insert fails on a present key, Put and Delete
\* on an absent one.
Unchanging(c, v) ==
  CASE c.kind = "Get" -> {[val |-> v, ok |-> v # Absent]}
    [] c.kind = "Insert" -> IF v = Absent THEN {} ELSE {[val |-> v, ok |-> FALSE]}
    [] OTHER -> IF v = Absent THEN {Failed} ELSE {}

Observe(t) ==
  /\ Answered(t)
  /\ \E v \in seen[t] : \E r \in Unchanging(call[t], v) : res' = [res EXCEPT ![t] = r]
  /\ seen' = [seen EXCEPT ![t] = {}]
  /\ UNCHANGED <<map, call>>

Next == \E t \in Thread : Invoke(t) \/ Update(t) \/ Observe(t)

Spec == Init /\ [][Next]_vars
=============================================================================
