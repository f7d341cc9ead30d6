---------------------------- MODULE InlineProofs ----------------------------
(***************************************************************************)
(* Theorems about InlineMap, the variant with integer keys and values: the *)
(* types, the transfer's headers, and that the promises of the resize hold *)
(* for its calls too.  Its actions are those of AllocatorMap, for which    *)
(* the lemmas of AllocatorMapProofs and ResizeProofs are cited, and its    *)
(* own, which keep the same invariants IInv and RInv.                      *)
(***************************************************************************)
EXTENDS InlineMap, ResizeProofs

-----------------------------------------------------------------------------
(* The words of the slots.                                                 *)

\* A slot holds a key and a value, also when it is empty: the word 0 is both
ValueType == /\ slotKey \in [Loc -> Key] /\ slotVal \in [Loc -> Value]
             /\ \A t \in Thread : scan[t].ent \in Value \cup {Nil} /\ xfer[t].key \in Key

\* Keys are hashed, and the words are contents of slots.
LEMMA Words ==
  /\ Key \subseteq Nat /\ 0 \in Key /\ Nil \notin Value /\ InitVal \in Value
  /\ Value \cup {Nil} \subseteq Content
  /\ \A k \in Key : Hash[k] \in Nat
BY InlineAssumption, SizeAssumption DEF Content, Value

\* The largest key of one parity, which findSentinels returns.
LEMMA SentinelKey ==
  ASSUME NEW p, \E k \in Key : Hash[k] % 2 = p
  PROVE  sentinel(p) \in Key
<1> DEFINE with == {k \in Key : Hash[k] % 2 = p}
<1>1. PICK n \in Key : n \in Nat /\ Key \subseteq 0..n
  BY InlineAssumption
<1> DEFINE S == {n - k : k \in with}
<1>2. S \subseteq Nat /\ S # {}
  BY <1>1
<1>3. PICK x \in S : \A y \in S : x <= y
  <2> HIDE DEF S
  <2> QED BY <1>2, HasLeast
<1>4. PICK k \in with : x = n - k
  OBVIOUS
<1>5. \A l \in with : l <= k
  <2>1. SUFFICES ASSUME NEW l \in with PROVE l <= k
    OBVIOUS
  <2>2. n - k <= n - l
    BY <1>3, <1>4
  <2>3. l \in 0..n /\ k \in 0..n /\ n \in Nat
    BY <1>1
  <2> QED BY <2>2, <2>3
<1> QED BY <1>4, <1>5 DEF sentinel

\* A sentinel is a key that callers may use, too.
LEMMA SentinelType ==
  ASSUME NEW b
  PROVE  TransferSentinel(b) \in Key
BY InlineAssumption, SentinelKey DEF TransferSentinel, SentinelForEvenBins, SentinelForOddBins

\* A step that keeps the words and takes none but its own.
LEMMA SameWords ==
  ASSUME ValueType, KeepsEnt, UNCHANGED <<slotKey, slotVal>>, \A t \in Thread : xfer'[t].key \in Key
  PROVE  ValueType'
BY DEF ValueType, KeepsEnt
-----------------------------------------------------------------------------
(* The invariant IInv and the steps that are not those of AllocatorMap.    *)

\* A call starts.
LEMMA InlineInvokeInv ==
  ASSUME IInv, NEW t \in Thread, InlineInvoke(t)
  PROVE  IInv' /\ OthersSame(t)
<1>1. PICK c \in Calls[t] :
      \E v \in {<<t, calls[t] + 1>>} \cup (IF c.kind \in DOMAIN Reused THEN Reused[c.kind] ELSE {}) :
        call' = [call EXCEPT ![t] = [kind |-> c.kind, key |-> c.key, val |-> v]]
  BY DEF InlineInvoke
<1>2. PICK v \in {<<t, calls[t] + 1>>} \cup (IF c.kind \in DOMAIN Reused THEN Reused[c.kind] ELSE {}) :
        call' = [call EXCEPT ![t] = [kind |-> c.kind, key |-> c.key, val |-> v]]
  BY <1>1
<1> DEFINE d == [kind |-> c.kind, key |-> c.key, val |-> v]
<1>3. /\ pc[t] = "idle" /\ calls[t] < MaxCalls[t]
      /\ calls' = [calls EXCEPT ![t] = @ + 1]
      /\ res' = [res EXCEPT ![t] = Pending] /\ Goto(t, "active")
      /\ UNCHANGED <<memory, arena, roots, map, seen, scan, ins, xfer>>
  BY DEF InlineInvoke
<1>4. ApiType /\ BaseLocal
  BY DEF IInv, BaseType
<1>5. d \in CallRec
  <2>1. c \in [kind : Kind, key : Key]
    BY CallsAssumption
  <2>2. calls[t] + 1 \in 1..MaxCalls[t]
    BY <1>3, <1>4, SizeAssumption DEF ApiType
  <2>3. <<t, calls[t] + 1>> \in Value
    BY <2>2 DEF Value
  <2>4. c.kind \in DOMAIN Reused => Reused[c.kind] \subseteq Value
    BY InlineAssumption
  <2>5. v \in Value
    BY <1>2, <2>3, <2>4
  <2> QED BY <2>1, <2>5 DEF CallRec
<1>6. call' = [call EXCEPT ![t] = d]
  BY <1>2
<1> HIDE DEF d
<1>7. call'[t] \in CallRec /\ (\A u \in Thread \ {t} : call'[u] = call[u])
      /\ call' \in [Thread -> CallRec \cup {NoCall}]
  BY <1>4, <1>5, <1>6 DEF ApiType
<1>8. /\ \A u \in Thread \ {t} : res'[u] = res[u]
      /\ res' \in [Thread -> Answer \cup {Pending}]
  BY <1>3, <1>4 DEF ApiType
<1>9. ApiType'
  <2>1. calls' \in [Thread -> Nat]
    BY <1>3, <1>4 DEF ApiType
  <2> QED BY <1>3, <1>4, <1>7, <1>8, <2>1 DEF ApiType
<1>10. BaseLocal' /\ OthersSame(t)
  BY <1>3, <1>4 DEF BaseLocal, Goto, PC, OthersSame
<1>11. BaseType' /\ SharedInv'
  BY <1>3, <1>9, <1>10 DEF IInv, BaseType, BaseMemory, RootType, SharedInv, BinInv, ArenaInv, Published,
     memory, arena, roots
<1>12. ASSUME NEW u \in Thread PROVE ThreadInv(u)'
  <2>1. ThreadInv(u) /\ (u # t => pc'[u] = pc[u]) /\ scan'[u] = scan[u] /\ ins'[u] = ins[u] /\ xfer'[u] = xfer[u]
    BY <1>3, <1>10 DEF IInv, OthersSame
  <2>2. CASE u # t
    <3>1. call'[u] = call[u] /\ res'[u] = res[u] /\ pc'[u] = pc[u]
      BY <1>7, <1>8, <2>1, <2>2
    <3>2. UNCHANGED <<linkMeta, indexNext>>
      BY <1>3 DEF memory, roots
    <3>3. Bin(u)' = Bin(u) /\ OldBin(u)' = OldBin(u)
      BY <2>1, <3>1 DEF Bin, hash, OldBin
    <3> QED BY <2>1, <3>1, <3>2, <3>3 DEF ThreadInv, ScanInv, InsInv, XferInv, NeedsSlot, Published
  <2>3. CASE u = t
    <3>1. /\ pc'[t] = "active" /\ scan[t] = FreshScan(scan[t].idx) /\ ins[t].cont = "idle"
          /\ scan[t].idx \in Gen
      BY <1>3, <1>4, <2>1, <2>3 DEF BaseLocal, Goto, ThreadInv
    <3> QED BY <1>7, <2>1, <2>3, <3>1, FreshThread DEF PlainPC
  <2> QED BY <2>2, <2>3
<1> QED BY <1>10, <1>11, <1>12 DEF IInv

\* The keys of one bucket are compared: the first slot that has the key is taken.
LEMMA MatchKeyInv ==
  ASSUME IInv, NEW t \in Thread, MatchKey(t) PROVE IInv'
<1> DEFINE match == {i \in validMask(scan[t].h, scan[t].grp) : slotKey[SlotLoc(Bin(t), i)] = call[t].key}
           rest == IF match = {} THEN {} ELSE {Lowest(match)}
<1>1. scan[t] \in BaseScan
  BY Locals
<1>2. validMask(scan[t].h, scan[t].grp) \subseteq SlotIdx
  BY <1>1, HeaderOps DEF BaseScan
<1>3. match # {} => Lowest(match) \in match
  <2>1. match \subseteq Nat
    BY <1>2, SlotIdxNat
  <2> HIDE DEF match
  <2> QED BY <2>1, LowestIn
<1>4. rest \subseteq SlotIdx /\ \A i \in rest : scan[t].h.ss[i] = SlotValid
  <2>1. \A i \in match : i \in SlotIdx /\ scan[t].h.ss[i] = SlotValid
    BY <1>2 DEF validMask
  <2> HIDE DEF match
  <2> QED BY <1>3, <2>1
<1>5. pc[t] = "match" /\ ScanOn(t, rest, scan[t].lm) /\ UNCHANGED <<memory, arena, roots, api, ins, xfer>>
  BY DEF MatchKey
<1> HIDE DEF rest
<1> QED BY <1>1, <1>4, <1>5, ScanOnInv DEF BaseScan

\* The slot at which a lookup loads the value.
LEMMA AtProbe ==
  ASSUME IInv, NEW t \in Thread, pc[t] = "probe"
  PROVE  LET i == Lowest(scan[t].bm) IN
         /\ scan[t] \in BaseScan /\ ScanInv(t)
         /\ i \in SlotIdx /\ i # NoSlot /\ i \in scan[t].bm /\ scan[t].h.ss[i] = SlotValid
         /\ HasSlot(linkMeta[Bin(t)], i) /\ SlotLoc(Bin(t), i) \in Loc
<1> DEFINE i == Lowest(scan[t].bm)
<1>1. scan[t] \in BaseScan /\ ScanInv(t)
  BY Locals
<1>2. i \in scan[t].bm /\ i \in SlotIdx /\ scan[t].h.ss[i] = SlotValid
  BY <1>1, LowestIn, SlotIdxNat DEF BaseScan, ScanInv
<1>3. HasSlot(linkMeta[Bin(t)], i)
  BY <1>1, <1>2 DEF ScanInv, Backed, SlotValid, SlotInvalid
<1>4. i # NoSlot
  BY <1>2, SlotIdxNat DEF NoSlot
<1>5. SlotLoc(Bin(t), i) \in Loc
  BY <1>2, <1>3, BinType, LocType DEF SlotLoc
<1> QED BY <1>1, <1>2, <1>3, <1>4, <1>5

\* The value is loaded from a slot that has a bucket.
LEMMA LoadValInv ==
  ASSUME IInv, NEW t \in Thread, LoadVal(t) PROVE IInv'
<1> DEFINE i == Lowest(scan[t].bm)
           e == slotVal[SlotLoc(Bin(t), i)]
           s == Found(t, i, e)
<1>1. pc[t] = "probe"
  BY DEF LoadVal
<1>2. /\ scan[t] \in BaseScan /\ ScanInv(t) /\ i \in SlotIdx /\ i # NoSlot
      /\ HasSlot(linkMeta[Bin(t)], i) /\ SlotLoc(Bin(t), i) \in Loc
  BY <1>1, AtProbe
<1>3. e \in Content
  BY <1>2 DEF IInv, BaseType, BaseMemory
<1>4. NoLinks \in LinkMeta
  BY DEF NoLinks, LinkMeta, NO_LINK
<1>5. s \in BaseScan
  <2>1. scan[t].slot \in SlotIdx \cup {NoSlot}
    BY <1>2 DEF BaseScan
  <2>2. (IF call[t].kind \in {"Put", "Delete"} THEN i ELSE scan[t].slot) \in SlotIdx \cup {NoSlot}
    BY <1>2, <2>1
  <2> HIDE DEF i, e
  <2> QED BY <1>2, <1>3, <1>4, <2>2, ScanSet, Zenon DEF Found
<1>6. scan' = [scan EXCEPT ![t] = s] /\ Goto(t, "check") /\ UNCHANGED <<memory, arena, roots, api, ins, xfer>>
  BY DEF LoadVal
<1>7. /\ s.idx = scan[t].idx /\ s.h = scan[t].h /\ s.bm = {}
      /\ s.slot \in {scan[t].slot, i}
      /\ call[t].kind \in {"Put", "Delete"} => s.slot = i
  BY <1>2 DEF BaseScan, Found
<1>8. s.slot # NoSlot => HasSlot(linkMeta[Bin(t)], s.slot)
  BY <1>2, <1>7 DEF ScanInv
<1> HIDE DEF s, i
<1> QED BY <1>1, <1>2, <1>5, <1>6, <1>7, <1>8, ScanMove

\* The answer of a call.
LEMMA InlineAnswerType ==
  ASSUME IInv, NEW t \in Thread, UNCHANGED <<call, calls, seen>>,
         NEW v \in Value \cup {Absent}, NEW ok \in BOOLEAN, Reply(t, v, ok),
         map' \in [Key -> Value \cup {Absent}]
  PROVE  /\ ApiType'
         /\ \A u \in Thread \ {t} : res'[u] = Pending => res[u] = Pending
<1>1. [val |-> v, ok |-> ok] \in Answer
  BY DEF Answer
<1>2. ApiType
  BY DEF IInv, BaseType
<1>3. res' \in [Thread -> Answer \cup {Pending}] /\ \A u \in Thread \ {t} : res'[u] = res[u]
  BY <1>1, <1>2 DEF ApiType, Reply
<1> QED BY <1>2, <1>3 DEF ApiType

\* A call returns with an effect on its key.
LEMMA EffectType ==
  ASSUME IInv, NEW t \in Thread, pc[t] # "idle", NEW v \in Value \cup {Absent}, Effect(t, v)
  PROVE  map' \in [Key -> Value \cup {Absent}]
BY BinType DEF Effect, IInv, BaseType, ApiType, CallRec

\* The validation holds and the call is answered, with the value found or none.
LEMMA AnswerCheckInv ==
  ASSUME IInv, ValueType, NEW t \in Thread, AnswerCheck(t) PROVE IInv'
<1> DEFINE v == IF scan[t].ent = Nil THEN Absent ELSE scan[t].ent
           ok == call[t].kind = "Get" /\ scan[t].ent # Nil
<1> USE DEF AnswerCheck
<1>1. /\ ins[t].cont = "idle" /\ call[t] \in CallRec /\ scan[t].idx \in Gen
      /\ scan[t] \in BaseScan /\ pc[t] # "idle"
  BY Locals, BinType DEF InsInv, UnresPC
<1>2. v \in Value \cup {Absent} /\ ok \in BOOLEAN
  BY DEF ValueType
<1>3. Reply(t, v, ok) /\ UNCHANGED <<call, calls, seen>> /\ map' = map
  OBVIOUS
<1>4. map' \in [Key -> Value \cup {Absent}]
  BY <1>3 DEF IInv, BaseType, ApiType
<1>5. ApiType' /\ \A u \in Thread \ {t} : res'[u] = Pending => res[u] = Pending
  <2> HIDE DEF v, ok, AnswerCheck
  <2> QED BY <1>2, <1>3, <1>4, InlineAnswerType
<1>6. BaseLocal' /\ OthersSame(t) /\ ThreadInv(t)'
  <2>1. CASE Reserved(t)
    <3>1. /\ BaseLocal' /\ OthersSame(t)
          /\ pc'[t] = "unres" /\ scan'[t] = Kept(t) /\ ins'[t] = ins[t]
      BY <2>1, KeptType, MovedScan DEF KeepSlot, PC, InsertPC, OwnPC
    <3> QED BY <1>1, <2>1, <3>1, KeptThread DEF Reserved, memory
  <2>2. CASE ~Reserved(t)
    <3> QED BY <1>1, <2>2, ReturnMove
  <2> QED BY <2>1, <2>2
<1>7. BaseMemory' /\ UNCHANGED <<header, linkMeta, indexNext, arena, roots, call>>
  BY DEF IInv, BaseType, BaseMemory, memory, roots
<1> QED BY <1>5, <1>6, <1>7, SameBins, MemoryStep

\* The validation holds and Put or Delete goes on to its slot.
LEMMA TargetCheckInv ==
  ASSUME IInv, NEW t \in Thread, TargetCheck(t) PROVE IInv'
<1>1. NeedsSlot(t) /\ pc[t] = "check" /\ scan[t].ent # Nil
      /\ UNCHANGED <<memory, arena, roots, api, scan, ins, xfer>>
  BY DEF NeedsSlot, TargetCheck
<1>2. PICK p \in {"dwcas", "mark"} : Goto(t, p)
  BY DEF TargetCheck
<1> QED BY <1>1, <1>2, AtSlot, SlotMove DEF SlotPC, UnresPC

\* A CAS on the state of the slot at hand ends the call.
LEMMA CASReturn ==
  ASSUME IInv, NEW t \in Thread, NeedsSlot(t), pc[t] \notin UnresPC, Validated(t), NEW st \in SlotState,
         header' = [header EXCEPT ![Bin(t)] = setSlotStateAndVersion(scan[t].h, scan[t].slot, st)],
         NEW v \in Value \cup {Absent}, Effect(t, v), Reply(t, Absent, TRUE), Goto(t, "idle"),
         scan' = [scan EXCEPT ![t] = FreshScan(0)],
         UNCHANGED <<linkMeta, slotKey, slotVal, arena, roots, call, calls, seen, ins, xfer>>
  PROVE  IInv'
<1> DEFINE h == setSlotStateAndVersion(scan[t].h, scan[t].slot, st)
<1>1. /\ scan[t].slot \in SlotIdx /\ HasSlot(linkMeta[Bin(t)], scan[t].slot) /\ scan[t].h \in Header
      /\ scan[t].slot # NoSlot /\ Backed(linkMeta[Bin(t)], scan[t].h) /\ ins[t].cont = "idle"
      /\ pc[t] # "idle"
  <2>1. scan[t] \in BaseScan
    BY AtSlot
  <2>2. pc[t] # "idle" /\ pc[t] # "probe"
    BY DEF NeedsSlot, SlotPC, OwnPC
  <2> QED BY <2>1, <2>2, AtSlot DEF BaseScan
<1>2. h \in Header /\ Backed(linkMeta[Bin(t)], h) /\ h.bs = header[Bin(t)].bs
  BY <1>1, SetSlot DEF Validated
<1> HIDE DEF h
<1>3. header' = [header EXCEPT ![Bin(t)] = h]
  BY DEF h
<1>4. header' \in [BinId -> Header] /\ \A b \in BinId : BinInv(b)'
  BY <1>1, <1>2, <1>3, BinType, HeaderChange DEF roots
<1>5. map' \in [Key -> Value \cup {Absent}]
  BY <1>1, EffectType
<1>6. ApiType' /\ \A u \in Thread \ {t} : res'[u] = Pending => res[u] = Pending
  BY <1>5, InlineAnswerType
<1>7. BaseMemory'
  BY <1>4 DEF IInv, BaseType, BaseMemory
<1>8. BaseLocal' /\ OthersSame(t) /\ ThreadInv(t)'
  BY <1>1, ReturnMove
<1> QED BY <1>4, <1>6, <1>7, <1>8, MemoryStep

\* The CAS of Delete, and its retry.
LEMMA DeleteCASInv ==
  ASSUME IInv, NEW t \in Thread, DeleteCAS(t) PROVE IInv'
<1>1. NeedsSlot(t) /\ pc[t] = "mark" /\ pc[t] \notin UnresPC
  BY DEF NeedsSlot, DeleteCAS, SlotPC, UnresPC
<1>2. CASE Validated(t)
  <2>1. SlotInvalid \in SlotState /\ Absent \in Value \cup {Absent}
    BY DEF SlotInvalid, SlotState
  <2> QED BY <1>1, <1>2, <2>1, CASReturn DEF DeleteCAS
<1>3. CASE ~Validated(t)
  <2>1. Retry(t) /\ UNCHANGED <<memory, arena, roots, api, ins, xfer>>
    BY <1>3 DEF DeleteCAS
  <2> QED BY <1>1, <2>1, AtSlot, RetryInv DEF UnresPC
<1> QED BY <1>2, <1>3

\* The DWCAS of Put succeeds: the slot it writes has an address.
LEMMA PutHitInv ==
  ASSUME IInv, ValueType, NEW t \in Thread, PutHit(t) PROVE IInv'
<1>1. /\ NeedsSlot(t) /\ pc[t] = "dwcas" /\ pc[t] # "idle" /\ pc[t] \notin UnresPC
      /\ slotVal' = [slotVal EXCEPT ![OpLoc(t)] = call[t].val]
      /\ Reply(t, scan[t].ent, TRUE) /\ Goto(t, "idle") /\ scan' = [scan EXCEPT ![t] = FreshScan(0)]
      /\ UNCHANGED <<header, linkMeta, slotKey, arena, roots, call, calls, seen, ins, xfer>>
  BY DEF NeedsSlot, PutHit, SlotPC, UnresPC
<1>2. call[t].val \in Value /\ scan[t].ent \in Value /\ ins[t].cont = "idle"
  BY <1>1, Locals, AtSlot, BinType DEF ScanInv, ValueType, CallRec
<1>3. BaseMemory'
  BY <1>1, <1>2 DEF IInv, BaseType, BaseMemory, Content
<1>4. map' \in [Key -> Value \cup {Absent}]
  <2>1. CASE Live(t)
    BY <1>1, <1>2, <2>1, EffectType DEF PutHit
  <2>2. CASE ~Live(t)
    BY <2>2 DEF PutHit, IInv, BaseType, ApiType
  <2> QED BY <2>1, <2>2
<1>5. ApiType' /\ \A u \in Thread \ {t} : res'[u] = Pending => res[u] = Pending
  BY <1>1, <1>2, <1>4, InlineAnswerType
<1>6. BaseLocal' /\ OthersSame(t) /\ ThreadInv(t)'
  BY <1>1, <1>2, ReturnMove
<1>7. \A b \in BinId : BinInv(b)'
  BY <1>1, SameBins DEF roots
<1> QED BY <1>1, <1>3, <1>5, <1>6, <1>7, MemoryStep

\* The DWCAS of Put fails and the slot is looked at again.
LEMMA PutMissInv ==
  ASSUME IInv, NEW t \in Thread, PutMiss(t) PROVE IInv'
<1>1. NeedsSlot(t)
  BY DEF NeedsSlot, PutMiss, SlotPC
<1> QED BY <1>1, AtSlot, KeptInv DEF PutMiss, UnresPC

\* The key load of Put's loop.
LEMMA PutLoopKeyInv ==
  ASSUME IInv, NEW t \in Thread, PutLoopKey(t) PROVE IInv'
<1>1. NeedsSlot(t) /\ pc[t] = "loopKey" /\ UNCHANGED <<memory, arena, roots, api, ins, xfer>>
  BY DEF NeedsSlot, PutLoopKey, SlotPC
<1>2. CASE slotKey[OpLoc(t)] = call[t].key
  <2>1. Goto(t, "loopVal") /\ UNCHANGED scan
    BY <1>2 DEF PutLoopKey
  <2> QED BY <1>1, <2>1, AtSlot, SlotMove DEF SlotPC, UnresPC
<1>3. CASE slotKey[OpLoc(t)] # call[t].key
  <2>1. Retry(t)
    BY <1>3 DEF PutLoopKey
  <2> QED BY <1>1, <2>1, AtSlot, RetryInv DEF UnresPC
<1> QED BY <1>2, <1>3

\* The value load of Put's loop: there is always a value.
LEMMA PutLoopValInv ==
  ASSUME IInv, ValueType, NEW t \in Thread, PutLoopVal(t) PROVE IInv'
<1> DEFINE e == slotVal[OpLoc(t)]
           s == [scan[t] EXCEPT !.ent = e]
<1>1. NeedsSlot(t) /\ pc[t] = "loopVal" /\ UNCHANGED <<memory, arena, roots, api, ins, xfer>>
  BY DEF NeedsSlot, PutLoopVal, SlotPC
<1>2. scan' = [scan EXCEPT ![t] = s] /\ Goto(t, "loopCheck")
  BY DEF PutLoopVal
<1>3. /\ s \in BaseScan /\ s.idx = scan[t].idx /\ s.slot = scan[t].slot /\ s.bm = scan[t].bm
      /\ s.h = scan[t].h /\ s.ent = e
  BY <1>1, AtSlot DEF BaseScan
<1>4. e # Nil
  BY <1>1, AtSlot, Words DEF ValueType
<1> HIDE DEF e, s
<1> QED BY <1>1, <1>2, <1>3, <1>4, AtSlot, SlotMove DEF SlotPC, UnresPC

\* The key is written into the reserved slot.
LEMMA StoreKeyInv ==
  ASSUME IInv, NEW t \in Thread, StoreKey(t) PROVE IInv' /\ slotKey' = [slotKey EXCEPT ![OpLoc(t)] = call[t].key]
<1>1. /\ NeedsSlot(t) /\ pc[t] = "fillKey" /\ pc[t] # "idle"
      /\ UNCHANGED <<header, linkMeta, slotVal, arena, roots, api, scan, xfer>>
  BY DEF NeedsSlot, StoreKey, OwnPC
<1>2. slotKey' = [slotKey EXCEPT ![OpLoc(t)] = call[t].key] /\ Goto(t, "fillVal") /\ UNCHANGED ins
  BY <1>1, AtSlot DEF StoreKey
<1>3. UNCHANGED <<linkMeta, indexNext, call, xfer>> /\ res' = res
  BY <1>1 DEF roots, api
<1>4. /\ ins[t] \in InsRec /\ ins' = [ins EXCEPT ![t] = ins[t]] /\ ins[t].cont = "idle"
      /\ scan' = [scan EXCEPT ![t] = scan[t]]
  BY <1>1, <1>2, AtSlot, Locals DEF IInv, BaseType, BaseLocal, UnresPC
<1>5. BaseLocal' /\ OthersSame(t) /\ ThreadInv(t)'
  BY <1>1, <1>2, <1>3, <1>4, AtSlot, OwnMove DEF OwnPC, UnresPC
<1>6. BaseMemory' /\ ApiType'
  <2>1. call[t].key \in Nat
    BY <1>1, BinType, Words DEF CallRec
  <2> QED BY <1>1, <1>2, <2>1 DEF IInv, BaseType, BaseMemory, ApiType, api
<1>7. \A b \in BinId : BinInv(b)'
  BY <1>1, <1>3, SameBins
<1> QED BY <1>1, <1>2, <1>3, <1>5, <1>6, <1>7, MemoryStep

\* The value is written into the reserved slot.
LEMMA StoreValInv ==
  ASSUME IInv, NEW t \in Thread, StoreVal(t) PROVE IInv'
<1>1. /\ NeedsSlot(t) /\ pc[t] = "fillVal" /\ pc[t] # "idle"
      /\ UNCHANGED <<header, linkMeta, slotKey, arena, roots, api, scan, ins, xfer>>
      /\ slotVal' = [slotVal EXCEPT ![OpLoc(t)] = call[t].val] /\ Goto(t, "finalize")
  BY DEF NeedsSlot, StoreVal, OwnPC
<1>2. UNCHANGED <<linkMeta, indexNext, call, xfer>> /\ res' = res
  BY <1>1 DEF roots, api
<1>3. /\ ins[t] \in InsRec /\ ins' = [ins EXCEPT ![t] = ins[t]] /\ ins[t].cont = "idle"
      /\ scan' = [scan EXCEPT ![t] = scan[t]]
  BY <1>1, AtSlot, Locals DEF IInv, BaseType, BaseLocal, UnresPC
<1>4. BaseLocal' /\ OthersSame(t) /\ ThreadInv(t)'
  BY <1>1, <1>2, <1>3, AtSlot, OwnMove DEF OwnPC, UnresPC
<1>5. call[t].val \in Value
  BY <1>1, BinType DEF CallRec
<1>6. BaseMemory' /\ ApiType'
  BY <1>1, <1>5 DEF IInv, BaseType, BaseMemory, ApiType, api, Content
<1>7. \A b \in BinId : BinInv(b)'
  BY <1>1, <1>2, SameBins
<1> QED BY <1>1, <1>2, <1>4, <1>6, <1>7, MemoryStep

\* The CAS to Valid, or the failure that keeps the slot for a new lookup.
LEMMA PublishSlotInv ==
  ASSUME IInv, NEW t \in Thread, PublishSlot(t) PROVE IInv'
<1>1. NeedsSlot(t) /\ pc[t] = "finalize" /\ pc[t] \notin UnresPC
  BY DEF NeedsSlot, PublishSlot, OwnPC, UnresPC
<1>2. CASE Validated(t)
  <2>1. SlotValid \in SlotState /\ call[t].val \in Value \cup {Absent}
    BY <1>1, AtSlot, BinType DEF SlotValid, SlotState, CallRec
  <2> QED BY <1>1, <1>2, <2>1, CASReturn DEF PublishSlot
<1>3. CASE ~Validated(t)
  <2>1. Goto(t, "load2") /\ KeepSlot(t) /\ UNCHANGED <<memory, arena, roots, api, ins, xfer>>
    BY <1>3 DEF PublishSlot
  <2> QED BY <1>1, <2>1, AtSlot, KeptInv
<1> QED BY <1>2, <1>3

\* unreserveSlot clears both words.
LEMMA ClearSlotInv ==
  ASSUME IInv, NEW t \in Thread, ClearSlot(t)
  PROVE  /\ IInv'
         /\ slotKey' = [slotKey EXCEPT ![OpLoc(t)] = 0]
         /\ slotVal' = [slotVal EXCEPT ![OpLoc(t)] = InitVal]
<1>1. /\ NeedsSlot(t) /\ pc[t] = "unresClear" /\ pc[t] # "idle"
      /\ UNCHANGED <<header, linkMeta, arena, roots, api, scan, ins, xfer>>
      /\ Goto(t, "unresCAS")
  BY DEF NeedsSlot, ClearSlot, OwnPC
<1>2. /\ slotKey' = [slotKey EXCEPT ![OpLoc(t)] = 0]
      /\ slotVal' = [slotVal EXCEPT ![OpLoc(t)] = InitVal]
  BY <1>1, AtSlot DEF ClearSlot
<1>3. UNCHANGED <<linkMeta, indexNext, call, xfer>> /\ res' = res
  BY <1>1 DEF roots, api
<1>4. /\ ins[t] \in InsRec /\ ins' = [ins EXCEPT ![t] = ins[t]] /\ InsInv(t)
      /\ scan' = [scan EXCEPT ![t] = scan[t]]
  BY <1>1, AtSlot, Locals DEF IInv, BaseType, BaseLocal
<1>5. BaseLocal' /\ OthersSame(t) /\ ThreadInv(t)'
  <2>1. /\ Backed(linkMeta[Bin(t)], ins[t].h)
        /\ ins[t].cont = "follow" => Published(scan[t].idx)
    BY <1>1, <1>4 DEF InsInv
  <2> QED BY <1>1, <1>3, <1>4, <2>1, AtSlot, OwnMove DEF OwnPC, UnresPC
<1>6. BaseMemory' /\ ApiType'
  <2>1. InitVal \in Content
    BY Words
  <2> QED BY <1>1, <1>2, <2>1 DEF IInv, BaseType, BaseMemory, ApiType, api
<1>7. \A b \in BinId : BinInv(b)'
  BY <1>1, <1>3, SameBins
<1> QED BY <1>1, <1>2, <1>3, <1>5, <1>6, <1>7, MemoryStep

\* Where a transfer goes after slot i.
LEMMA AfterSlot ==
  ASSUME NEW rest, NEW i
  PROVE  /\ afterSlot(rest, i) \in {"sentinel", "xlinks", "xdone"}
         /\ afterSlot(rest, i) = "sentinel" => rest # {}
BY DEF afterSlot

\* The key of a slot is swapped for the sentinel, or was it already.
LEMMA SwapSentinelInv ==
  ASSUME IInv, ValueType, NEW t \in Thread, SwapSentinel(t) PROVE IInv'
<1> DEFINE i == Lowest(xfer[t].todo)
           loc == SlotLoc(OldBin(t), i)
           rest == xfer[t].todo \ {i}
           p == IF slotKey[loc] = TransferSentinel(xfer[t].bin) THEN afterSlot(rest, i) ELSE "move"
           x == IF slotKey[loc] = TransferSentinel(xfer[t].bin)
                THEN [xfer[t] EXCEPT !.todo = rest] ELSE [xfer[t] EXCEPT !.key = slotKey[loc]]
<1>1. /\ pc[t] = "sentinel" /\ pc[t] \in TransferPC /\ pc[t] \in ContextPC
      /\ xfer' = [xfer EXCEPT ![t] = x] /\ Goto(t, p)
      /\ slotKey' \in {slotKey, [slotKey EXCEPT ![loc] = TransferSentinel(xfer[t].bin)]}
      /\ UNCHANGED <<header, linkMeta, slotVal, arena, roots, api, scan, ins>>
  BY DEF SwapSentinel, ContextPC, TransferPC
<1>2. /\ loc \in Loc /\ xfer[t].todo # {} /\ xfer[t].todo \subseteq SlotIdx /\ xfer[t].bin < NumBins[xfer[t].gen]
      /\ \A j \in xfer[t].todo : HasSlot(linkMeta[OldBin(t)], j)
      /\ Backed(linkMeta[OldBin(t)], xfer[t].h)
  BY <1>1, AtMove
<1>3. xfer[t] \in XferRec /\ slotKey[loc] \in Nat
  BY <1>2, Locals DEF IInv, BaseType, BaseMemory
<1>4. /\ x \in XferRec /\ x.gen = xfer[t].gen /\ x.bin = xfer[t].bin /\ x.h = xfer[t].h
      /\ x.todo \subseteq xfer[t].todo /\ (p \in {"sentinel", "move"} => x.todo # {})
  <2>1. CASE slotKey[loc] = TransferSentinel(xfer[t].bin)
    <3>1. p \in {"sentinel", "xlinks", "xdone"} /\ (p = "sentinel" => rest # {})
      BY <2>1, AfterSlot
    <3> QED BY <1>2, <1>3, <2>1, <3>1 DEF XferRec
  <2>2. CASE slotKey[loc] # TransferSentinel(xfer[t].bin)
    BY <1>2, <1>3, <2>2 DEF XferRec
  <2> QED BY <2>1, <2>2
<1>5. UNCHANGED <<indexNext, call>> /\ res' = res
  BY <1>1 DEF roots, api
<1>6. BaseMemory' /\ ApiType'
  <2>1. TransferSentinel(xfer[t].bin) \in Nat
    BY SentinelType, Words
  <2> QED BY <1>1, <2>1 DEF IInv, BaseType, BaseMemory, ApiType, api
<1>7. p \in ResizePC /\ p \in TransferPC \ {"or"}
  <2>1. p \in {"sentinel", "xlinks", "xdone", "move"}
    BY AfterSlot
  <2> HIDE DEF p
  <2> QED BY <2>1 DEF ResizePC, ContextPC, TransferPC
<1> HIDE DEF x, loc, p
<1>8. /\ \A j \in x.todo : HasSlot(linkMeta[<<x.gen, x.bin>>], j)
      /\ Backed(linkMeta[<<x.gen, x.bin>>], x.h) /\ x.bin < NumBins[x.gen]
  BY <1>2, <1>4 DEF OldBin
<1>9. BaseLocal' /\ OthersSame(t) /\ ThreadInv(t)'
  BY <1>1, <1>4, <1>5, <1>7, <1>8, ContextMove
<1> QED BY <1>1, <1>5, <1>6, <1>9, SameBins, MemoryStep

\* A key and its value move to the new bin of the key.
LEMMA insertIntoNewIndexInv ==
  ASSUME IInv, ValueType, NEW t \in Thread, insertIntoNewIndex(t) PROVE IInv'
<1> DEFINE i == Lowest(xfer[t].todo)
           rest == xfer[t].todo \ {i}
           e == slotVal[SlotLoc(OldBin(t), i)]
           k == xfer[t].key
           hsh == Hash[k]
           p == afterSlot(rest, i)
<1>1. pc[t] = "move" /\ UNCHANGED <<arena, active, indexNext, resizeCtx, api, scan, ins>> /\ Goto(t, p)
  BY DEF insertIntoNewIndex
<1>2. e \in Content
  BY <1>1, AtMove DEF IInv, BaseType, BaseMemory
<1>3. k \in Nat /\ hsh \in Nat
  BY Words DEF ValueType
<1>4. p \in {"sentinel", "xlinks", "xdone"} /\ (p = "sentinel" => rest # {})
  BY AfterSlot
<1>5. LET g == xfer[t].gen
          new == getBin(g + 1, hsh)
          free == findFreeSlotOrChain(g, new)
          loc == LocVia(free.lm, new, free.slot)
      IN  /\ xfer' = [xfer EXCEPT ![t].todo = rest, ![t].key = 0]
          /\ free.slot # NoSlot
          /\ slotKey' = [slotKey EXCEPT ![loc] = k]
          /\ slotVal' = [slotVal EXCEPT ![loc] = e]
          /\ header' = [header EXCEPT ![new] = setSlotStateAndVersion(@, free.slot, SlotValid)]
          /\ linkMeta' = [linkMeta EXCEPT ![new] = free.lm]
          /\ ctx' = [ctx EXCEPT ![g].linkNextResize = free.next]
  BY DEF insertIntoNewIndex, freeInNewBin
<1> HIDE DEF e, k, hsh, p
<1> QED BY <1>1, <1>2, <1>3, <1>4, <1>5, MoveInv

-----------------------------------------------------------------------------
(* The words stay keys and values.                                         *)

\* A lookup takes the value of a slot.
LEMMA LookupWords ==
  ASSUME IInv, ValueType, NEW t \in Thread, lookup(t) \/ AnswerCheck(t) \/ TargetCheck(t)
  PROVE  ValueType'
<1>1. UNCHANGED <<slotKey, slotVal, xfer>>
  BY DEF lookup, LoadActive, LoadHeader, Follow, MatchKey, LoadVal, scanLinksForKey, LoadLinks,
     CheckStale, AnswerCheck, TargetCheck, memory
<1>2. KeepsEnt => ValueType'
  BY <1>1, SameWords DEF ValueType
<1>3. CASE LoadActive(t) \/ LoadHeader(t) \/ Follow(t) \/ LoadLinks(t) \/ CheckStale(t)
  BY <1>2, <1>3, LookupEnt
<1>4. CASE MatchKey(t)
  BY <1>2, <1>4, ScanOnEnt DEF MatchKey
<1>5. CASE LoadVal(t)
  <2> DEFINE i == Lowest(scan[t].bm)
             e == slotVal[SlotLoc(Bin(t), i)]
  <2>1. pc[t] = "probe" /\ scan' = [scan EXCEPT ![t] = Found(t, i, e)]
    BY <1>5 DEF LoadVal
  <2>2. SlotLoc(Bin(t), i) \in Loc /\ scan[t] \in BaseScan
    BY <2>1, AtProbe
  <2>3. e \in Value /\ Found(t, i, e).ent = e
    BY <2>2 DEF ValueType, Found, BaseScan
  <2>4. \A u \in Thread : scan'[u].ent \in {scan[u].ent, e}
    <3> HIDE DEF e, i
    <3> QED BY <2>1, <2>3 DEF IInv, BaseType, BaseLocal
  <2> HIDE DEF e, i
  <2> QED BY <1>1, <2>3, <2>4 DEF ValueType
<1>6. CASE AnswerCheck(t) \/ TargetCheck(t)
  BY <1>2, <1>6, EntForms DEF AnswerCheck, TargetCheck, KeepSlot
<1> QED BY <1>3, <1>4, <1>5, <1>6 DEF lookup, scanLinksForKey

\* Put stores the value of its call, Delete leaves the words alone.
LEMMA SlotWords ==
  ASSUME IInv, ValueType, NEW t \in Thread, DeleteCAS(t) \/ PutHit(t) \/ PutMiss(t) \/ putLoop(t)
  PROVE  ValueType'
<1>1. UNCHANGED <<slotKey, xfer>>
  BY DEF DeleteCAS, PutHit, PutMiss, putLoop, LoopHeader, PutLoopKey, PutLoopVal, LoopCheck, LoopTTAS, memory
<1>2. KeepsEnt /\ slotVal' = slotVal => ValueType'
  BY <1>1, SameWords DEF ValueType
<1>3. CASE LoopHeader(t) \/ LoopCheck(t) \/ LoopTTAS(t)
  BY <1>2, <1>3, LoopEnt
<1>4. CASE DeleteCAS(t) \/ PutMiss(t) \/ PutLoopKey(t)
  <2>1. slotVal' = slotVal
    BY <1>4 DEF DeleteCAS, PutMiss, PutLoopKey, memory
  <2>2. KeepsEnt
    BY <1>4, EntForms DEF DeleteCAS, PutMiss, PutLoopKey, KeepSlot, Retry
  <2> QED BY <1>2, <2>1, <2>2
<1>5. CASE PutHit(t)
  <2>1. call[t].val \in Value
    BY <1>5, BinType DEF PutHit, CallRec
  <2>2. slotVal' \in [Loc -> Value]
    BY <1>5, <2>1 DEF PutHit, ValueType
  <2>3. KeepsEnt
    BY <1>5, EntForms DEF PutHit
  <2> QED BY <1>1, <2>2, <2>3 DEF ValueType, KeepsEnt
<1>6. CASE PutLoopVal(t)
  <2> DEFINE e == slotVal[OpLoc(t)]
  <2>1. slotVal' = slotVal /\ scan' = [scan EXCEPT ![t].ent = e]
    BY <1>6 DEF PutLoopVal, memory
  <2>2. NeedsSlot(t)
    BY <1>6 DEF PutLoopVal, NeedsSlot, SlotPC
  <2>3. e \in Value
    BY <2>2, AtSlot DEF ValueType
  <2>4. [scan[t] EXCEPT !.ent = e].ent = e
    BY EntForms DEF BaseScan
  <2>5. \A u \in Thread : scan'[u].ent \in {scan[u].ent, e}
    <3> HIDE DEF e
    <3> QED BY <2>1, <2>4 DEF IInv, BaseType, BaseLocal
  <2> HIDE DEF e
  <2> QED BY <1>1, <2>1, <2>3, <2>5 DEF ValueType
<1> QED BY <1>3, <1>4, <1>5, <1>6 DEF putLoop

\* Insert stores the key and the value of its call, or zeros.
LEMMA InsertWords ==
  ASSUME IInv, ValueType, NEW t \in Thread,
         \/ chooseInsertSlot(t) \/ reserveSlot(t) \/ StoreKey(t) \/ StoreVal(t)
         \/ PublishSlot(t) \/ LoadHeader2(t) \/ unreserveSlot(t)
  PROVE  ValueType'
<1>1. xfer' = xfer
  BY DEF chooseInsertSlot, attachNewSingle, attachNewPair, ChooseHeader, ChooseLinks, allocateLink,
     allocateLinkPair, Allocate, attachSingle, attachPair, reserveSlot, StoreKey, StoreVal, PublishSlot,
     LoadHeader2, unreserveSlot, UnreserveLoad, ClearSlot, UnreserveCAS
<1>2. KeepsEnt /\ UNCHANGED <<slotKey, slotVal>> => ValueType'
  BY <1>1, SameWords DEF ValueType
<1>3. CASE \/ ChooseHeader(t) \/ ChooseLinks(t) \/ allocateLink(t) \/ allocateLinkPair(t)
           \/ attachSingle(t) \/ attachPair(t) \/ reserveSlot(t) \/ LoadHeader2(t)
           \/ UnreserveLoad(t) \/ UnreserveCAS(t)
  <2>1. slotKey' = slotKey
    BY <1>3 DEF ChooseHeader, ChooseLinks, allocateLink, allocateLinkPair, Allocate, attachSingle,
       attachPair, reserveSlot, LoadHeader2, UnreserveLoad, UnreserveCAS, memory
  <2> QED BY <1>2, <1>3, <2>1, InsertEnt
<1>4. CASE PublishSlot(t)
  BY <1>2, <1>4, EntForms DEF PublishSlot, KeepSlot, memory
<1>5. CASE StoreKey(t)
  <2>1. call[t].key \in Key
    BY <1>5, BinType DEF StoreKey, CallRec
  <2>2. slotKey' \in [Loc -> Key] /\ slotVal' = slotVal /\ KeepsEnt
    BY <1>5, <2>1, StoreKeyInv, EntForms DEF StoreKey, ValueType
  <2> QED BY <1>1, <2>2 DEF ValueType, KeepsEnt
<1>6. CASE StoreVal(t)
  <2>1. call[t].val \in Value
    BY <1>6, BinType DEF StoreVal, CallRec
  <2>2. slotVal' \in [Loc -> Value] /\ slotKey' = slotKey /\ KeepsEnt
    BY <1>6, <2>1, EntForms DEF StoreVal, ValueType
  <2> QED BY <1>1, <2>2 DEF ValueType, KeepsEnt
<1>7. CASE ClearSlot(t)
  <2>1. slotKey' \in [Loc -> Key] /\ slotVal' \in [Loc -> Value]
    BY <1>7, ClearSlotInv, Words DEF ValueType
  <2>2. KeepsEnt
    BY <1>7, EntForms DEF ClearSlot
  <2> QED BY <1>1, <2>1, <2>2 DEF ValueType, KeepsEnt
<1> QED BY <1>3, <1>4, <1>5, <1>6, <1>7
        DEF chooseInsertSlot, attachNewSingle, attachNewPair, unreserveSlot

\* The steps of the resize that leave the slots alone.
SharedResize(t) == \/ TriggerResize(t) \/ PublishNext(t) \/ SetResizeContext(t)
                   \/ HelpResize(t) \/ HelpActive(t) \/ ClaimChunk(t)
                   \/ TransferBin(t) \/ TransferLinks(t) \/ FinishBin(t) \/ ChunkDone(t)
                   \/ FinishCapacity(t) \/ FinishActive(t) \/ FinishInactive(t) \/ FinishCtx(t)

\* The transfer stores sentinels, and the keys and values that it finds.
LEMMA TransferWords ==
  ASSUME IInv, ValueType, NEW t \in Thread, SharedResize(t) \/ transferValidSlots(t)
  PROVE  ValueType'
<1>1. scan' = scan
  BY DEF SharedResize, TriggerResize, PublishNext, SetResizeContext, HelpResize, HelpActive, ClaimChunk,
     TransferBin, TransferLinks, FinishBin, ChunkDone, FinishCapacity, FinishActive, FinishInactive,
     FinishCtx, transferValidSlots, SwapSentinel, insertIntoNewIndex
<1>2. xfer \in [Thread -> XferRec] /\ 0 \in Key
  BY Words DEF IInv, BaseType, BaseLocal
<1>3. CASE SharedResize(t)
  <2>1. UNCHANGED <<slotKey, slotVal>>
    BY <1>3 DEF SharedResize, TriggerResize, PublishNext, SetResizeContext, HelpResize, HelpActive, ClaimChunk,
       TransferBin, TransferLinks, FinishBin, ChunkDone, FinishCapacity, FinishActive, FinishInactive,
       FinishCtx, memory
  <2>2. SUFFICES ASSUME NEW u \in Thread PROVE xfer'[u].key \in {xfer[u].key, 0}
    <3>1. KeepsEnt
      BY <1>1 DEF KeepsEnt
    <3> QED BY <1>2, <2>1, <3>1, SameWords DEF ValueType
  <2>3. CASE TriggerResize(t) \/ SetResizeContext(t) \/ ChunkDone(t) \/ FinishCapacity(t) \/ FinishActive(t)
             \/ FinishInactive(t)
    BY <2>3 DEF TriggerResize, SetResizeContext, ChunkDone, FinishCapacity, FinishActive, FinishInactive
  <2>4. CASE PublishNext(t) \/ HelpResize(t)
    <3>1. PICK g : xfer' \in {xfer, [xfer EXCEPT ![t].gen = g]}
      BY <2>4 DEF PublishNext, HelpResize
    <3> QED BY <1>2, <3>1 DEF XferRec
  <2>5. CASE HelpActive(t) \/ FinishCtx(t)
    <3>1. xfer' \in {xfer, [xfer EXCEPT ![t] = FreshXfer]}
      BY <2>5 DEF HelpActive, FinishCtx
    <3> QED BY <1>2, <3>1 DEF FreshXfer
  <2>6. CASE ClaimChunk(t)
    <3>1. PICK b : xfer' \in {[xfer EXCEPT ![t].bin = b], [xfer EXCEPT ![t] = FreshXfer]}
      BY <2>6 DEF ClaimChunk
    <3> QED BY <1>2, <3>1 DEF XferRec, FreshXfer
  <2>7. CASE TransferBin(t)
    <3> DEFINE h == header[OldBin(t)]
               todo == validMask(h, 0)
    <3>1. xfer' = [xfer EXCEPT ![t].h = h, ![t].todo = todo]
      BY <2>7 DEF TransferBin
    <3> HIDE DEF h, todo
    <3> QED BY <1>2, <3>1 DEF XferRec
  <2>8. CASE TransferLinks(t)
    <3> DEFINE todo == linkSlots(xfer[t].h, linkMeta[OldBin(t)])
    <3>1. xfer' = [xfer EXCEPT ![t].todo = todo]
      BY <2>8 DEF TransferLinks
    <3> HIDE DEF todo
    <3> QED BY <1>2, <3>1 DEF XferRec
  <2>9. CASE FinishBin(t)
    <3>1. PICK g, b : xfer' = [xfer EXCEPT ![t] = [FreshXfer EXCEPT !.gen = g, !.bin = b]]
      BY <2>9 DEF FinishBin
    <3>2. [FreshXfer EXCEPT !.gen = g, !.bin = b].key = 0
      BY DEF FreshXfer
    <3> QED BY <1>2, <3>1, <3>2
  <2> QED BY <1>3, <2>3, <2>4, <2>5, <2>6, <2>7, <2>8, <2>9 DEF SharedResize
<1>4. CASE SwapSentinel(t)
  <2> DEFINE loc == SlotLoc(OldBin(t), Lowest(xfer[t].todo))
             sen == TransferSentinel(xfer[t].bin)
  <2>1. slotVal' = slotVal /\ slotKey' \in {slotKey, [slotKey EXCEPT ![loc] = sen]}
        /\ pc[t] = "sentinel"
    BY <1>4 DEF SwapSentinel
  <2>2. loc \in Loc /\ sen \in Key
    BY <2>1, AtMove, SentinelType
  <2>3. \A u \in Thread : xfer'[u].key \in {xfer[u].key, slotKey[loc]}
    <3> DEFINE rest == xfer[t].todo \ {Lowest(xfer[t].todo)}
    <3>1. xfer' \in {[xfer EXCEPT ![t].todo = rest], [xfer EXCEPT ![t].key = slotKey[loc]]}
      BY <1>4 DEF SwapSentinel
    <3> HIDE DEF rest, loc
    <3> QED BY <1>2, <3>1 DEF XferRec
  <2> HIDE DEF loc, sen
  <2> QED BY <1>1, <2>1, <2>2, <2>3 DEF ValueType
<1>5. CASE insertIntoNewIndex(t)
  <2> DEFINE e == slotVal[SlotLoc(OldBin(t), Lowest(xfer[t].todo))]
  <2>1. pc[t] = "move"
    BY <1>5 DEF insertIntoNewIndex
  <2>2. e \in Value /\ xfer[t].key \in Key
    BY <2>1, AtMove DEF ValueType
  <2>3. PICK loc, rest : /\ slotKey' = [slotKey EXCEPT ![loc] = xfer[t].key]
                         /\ slotVal' = [slotVal EXCEPT ![loc] = e]
                         /\ xfer' = [xfer EXCEPT ![t] = [xfer[t] EXCEPT !.todo = rest, !.key = 0]]
    BY <1>5 DEF insertIntoNewIndex
  <2>4. [xfer[t] EXCEPT !.todo = rest, !.key = 0].key = 0
    BY <1>2 DEF XferRec
  <2> HIDE DEF e
  <2> QED BY <1>1, <1>2, <2>2, <2>3, <2>4 DEF ValueType
<1> QED BY <1>3, <1>4, <1>5 DEF transferValidSlots

-----------------------------------------------------------------------------
(* The resize: the steps that are not those of AllocatorMap.               *)

\* The steps of calls that this variant has of its own
OwnCall(t) == \/ MatchKey(t) \/ LoadVal(t) \/ AnswerCheck(t) \/ TargetCheck(t)
              \/ DeleteCAS(t) \/ PutHit(t) \/ PutMiss(t) \/ PutLoopKey(t) \/ PutLoopVal(t)
              \/ StoreKey(t) \/ StoreVal(t) \/ PublishSlot(t) \/ ClearSlot(t)

\* A header that a call got from its bin before any transfer of it is in its hands.
HeldPC == {"match", "probe", "links", "check", "mark", "fillKey", "fillVal", "finalize"} \cup ChoicePC

\* Where t goes: it stays in its bin, and keeps the header in its hands or needs none.
StaysWith(t) ==
  /\ \A u \in Thread \ {t} : pc'[u] = pc[u] /\ scan'[u] = scan[u]
  /\ pc'[t] \in CallPC \ {"follow", "active", "trigger"}
  /\ pc'[t] \in UsesPC => scan'[t].idx = scan[t].idx
  /\ pc'[t] \in HeldPC => pc[t] \in HeldPC /\ scan'[t].h = scan[t].h
  /\ pc'[t] \in {"unresClear", "unresCAS"} => pc[t] \in {"unresClear", "unresCAS"}

\* The kinds of program counters.
LEMMA PCKinds ==
  /\ HeldPC \subseteq UsesPC /\ UsesPC \subseteq CallPC /\ "idle" \in CallPC /\ "idle" \notin UsesPC
  /\ {"loop", "loopVal", "loopCheck", "loopTTAS", "loopKey", "dwcas", "load", "load2", "unres", "unresCAS", "unresClear"} \subseteq UsesPC \ HeldPC
  /\ {"follow", "active", "trigger"} \cap HeldPC = {}
  /\ {"match", "probe", "links", "check", "mark", "fillKey", "fillVal", "finalize", "reserve", "choose"} \subseteq HeldPC
BY DEF HeldPC, ChoicePC, CallPC, UsesPC, ScanPC, SlotPC, InsertPC, OwnPC

\* The three ways a call goes on: to the next bucket, to the start, to its slot.
LEMMA GoForms ==
  ASSUME IInv, NEW t \in Thread
  PROVE  /\ \A rest, lm : pc[t] \in {"match", "probe", "links"} /\ ScanOn(t, rest, lm) => StaysWith(t)
         /\ Retry(t) => StaysWith(t)
         /\ \A p \in {"loop", "load2", "unres"} : Goto(t, p) /\ KeepSlot(t) => StaysWith(t)
         /\ Goto(t, "idle") /\ scan' = [scan EXCEPT ![t] = FreshScan(0)] => StaysWith(t)
<1>1. /\ pc \in [Thread -> PC] /\ scan \in [Thread -> BaseScan] /\ scan[t] \in BaseScan
  BY DEF IInv, BaseType, BaseLocal
<1>2. ASSUME NEW rest, NEW lm, pc[t] \in {"match", "probe", "links"}, ScanOn(t, rest, lm) PROVE StaysWith(t)
  <2>1. /\ \A u \in Thread \ {t} : pc'[u] = pc[u] /\ scan'[u] = scan[u]
        /\ scan'[t].idx = scan[t].idx /\ scan'[t].h = scan[t].h
    BY <1>1, <1>2 DEF ScanOn, Goto, BaseScan
  <2>2. pc'[t] \in {"probe", "links", "match", "check", "finalize", "reserve", "choose"}
    <3>1. NotFound(t) \in {"check", "finalize", "reserve", "choose"}
      BY DEF NotFound
    <3> HIDE DEF NotFound
    <3> QED BY <1>1, <1>2, <3>1 DEF ScanOn, Goto
  <2>3. pc[t] \in HeldPC /\ pc'[t] \in HeldPC /\ pc'[t] \in CallPC
    BY <1>2, <2>2, PCKinds
  <2> QED BY <2>1, <2>2, <2>3 DEF StaysWith
<1>3. ASSUME Retry(t) PROVE StaysWith(t)
  <2>1. /\ \A u \in Thread \ {t} : pc'[u] = pc[u] /\ scan'[u] = scan[u]
        /\ scan'[t].idx = scan[t].idx /\ pc'[t] = "load"
    BY <1>1, <1>3 DEF Retry, Goto, FreshScan
  <2> QED BY <2>1, PCKinds DEF StaysWith
<1>4. ASSUME NEW p \in {"loop", "load2", "unres"}, Goto(t, p), KeepSlot(t) PROVE StaysWith(t)
  <2>1. /\ \A u \in Thread \ {t} : pc'[u] = pc[u] /\ scan'[u] = scan[u]
        /\ scan'[t].idx = scan[t].idx /\ pc'[t] = p
    BY <1>1, <1>4 DEF KeepSlot, Kept, Goto, FreshScan
  <2> QED BY <2>1, PCKinds DEF StaysWith
<1>5. ASSUME Goto(t, "idle"), scan' = [scan EXCEPT ![t] = FreshScan(0)] PROVE StaysWith(t)
  <2>1. /\ \A u \in Thread \ {t} : pc'[u] = pc[u] /\ scan'[u] = scan[u]
        /\ pc'[t] = "idle"
    BY <1>1, <1>5 DEF Goto
  <2> QED BY <2>1, PCKinds DEF StaysWith
<1> QED BY <1>2, <1>3, <1>4, <1>5

\* The steps of calls stay in their bin and write a header only over the one in hand.
LEMMA OwnFrame ==
  ASSUME IInv, NEW t \in Thread, OwnCall(t)
  PROVE  /\ StaysWith(t) /\ UNCHANGED <<call, xfer, active, resizeCtx, ctx>>
         /\ pc[t] \in UsesPC
         /\ \A u \in Thread \ {t} : ins'[u] = ins[u]
         /\ ins' = ins \/ (pc'[t] = "unres" /\ ins'[t].cont = "load")
         /\ pc[t] \in UnresPC => pc[t] = "unresClear" /\ ins' = ins /\ scan' = scan
         /\ \/ header' = header
            \/ /\ pc[t] \in HeldPC /\ Validated(t)
               /\ \E st : header' = [header EXCEPT ![Bin(t)] = setSlotStateAndVersion(scan[t].h, scan[t].slot, st)]
<1>1. /\ pc \in [Thread -> PC] /\ scan \in [Thread -> BaseScan] /\ scan[t] \in BaseScan
      /\ ins \in [Thread -> InsRec]
  BY DEF IInv, BaseType, BaseLocal
<1>2. UNCHANGED <<call, xfer, active, resizeCtx, ctx>>
  BY DEF OwnCall, MatchKey, LoadVal, AnswerCheck, TargetCheck, DeleteCAS, PutHit, PutMiss, PutLoopKey,
     PutLoopVal, StoreKey, StoreVal, PublishSlot, ClearSlot, arena, roots, api
<1>3. /\ pc[t] \in UsesPC
      /\ pc[t] \in UnresPC => pc[t] = "unresClear" /\ ins' = ins /\ scan' = scan
  BY PCKinds DEF OwnCall, MatchKey, LoadVal, AnswerCheck, TargetCheck, DeleteCAS, PutHit, PutMiss, PutLoopKey,
     PutLoopVal, StoreKey, StoreVal, PublishSlot, ClearSlot, UnresPC
<1>4. /\ \A u \in Thread \ {t} : ins'[u] = ins[u]
      /\ ins' = ins \/ (pc'[t] = "unres" /\ ins'[t].cont = "load")
  <2>1. CASE StoreKey(t)
    BY <1>1, <2>1 DEF StoreKey, Goto, InsRec
  <2>2. CASE ~StoreKey(t)
    <3>1. ins' = ins
      BY <2>2 DEF OwnCall, MatchKey, LoadVal, AnswerCheck, TargetCheck, DeleteCAS, PutHit, PutMiss, PutLoopKey,
         PutLoopVal, StoreVal, PublishSlot, ClearSlot
    <3> QED BY <3>1
  <2> QED BY <2>1, <2>2
<1>5. \/ header' = header
      \/ /\ pc[t] \in HeldPC /\ Validated(t)
         /\ \E st : header' = [header EXCEPT ![Bin(t)] = setSlotStateAndVersion(scan[t].h, scan[t].slot, st)]
  <2>1. CASE DeleteCAS(t)
    BY <2>1, PCKinds DEF DeleteCAS, memory
  <2>2. CASE PublishSlot(t)
    BY <2>2, PCKinds DEF PublishSlot, memory
  <2>3. CASE ~DeleteCAS(t) /\ ~PublishSlot(t)
    BY <2>3 DEF OwnCall, MatchKey, LoadVal, AnswerCheck, TargetCheck, PutHit, PutMiss, PutLoopKey,
         PutLoopVal, StoreKey, StoreVal, ClearSlot, memory
  <2> QED BY <2>1, <2>2, <2>3
<1>6. ASSUME NEW p, Goto(t, p),
             scan' = scan \/ (scan'[t].idx = scan[t].idx /\ scan'[t].h = scan[t].h
                              /\ \A u \in Thread \ {t} : scan'[u] = scan[u]),
             \/ pc[t] \in HeldPC /\ p \in HeldPC
             \/ p \in {"dwcas", "loop", "loopVal", "loopCheck", "unres"}
             \/ p = "unresCAS" /\ pc[t] = "unresClear"
      PROVE  StaysWith(t)
  BY <1>1, <1>6, PCKinds DEF Goto, StaysWith
<1> SUFFICES StaysWith(t)
  BY <1>2, <1>3, <1>4, <1>5
<1>7. CASE MatchKey(t)
  BY <1>7, GoForms DEF MatchKey
<1>8. CASE LoadVal(t)
  <2> DEFINE i == Lowest(scan[t].bm)
             e == slotVal[SlotLoc(Bin(t), i)]
  <2>1. pc[t] = "probe" /\ scan' = [scan EXCEPT ![t] = Found(t, i, e)] /\ Goto(t, "check")
    BY <1>8 DEF LoadVal
  <2>2. Found(t, i, e).idx = scan[t].idx /\ Found(t, i, e).h = scan[t].h
    BY <1>1 DEF Found, BaseScan
  <2> HIDE DEF i, e
  <2>3. /\ scan'[t].idx = scan[t].idx /\ scan'[t].h = scan[t].h
        /\ \A u \in Thread \ {t} : scan'[u] = scan[u]
    BY <1>1, <2>1, <2>2
  <2> QED BY <1>6, <2>1, <2>3, PCKinds
<1>9. CASE AnswerCheck(t)
  BY <1>9, GoForms DEF AnswerCheck
<1>10. CASE TargetCheck(t)
  BY <1>6, <1>10, PCKinds DEF TargetCheck
<1>11. CASE DeleteCAS(t)
  BY <1>11, GoForms DEF DeleteCAS
<1>12. CASE PutHit(t) \/ PutMiss(t)
  BY <1>12, GoForms DEF PutHit, PutMiss
<1>13. CASE PutLoopKey(t)
  BY <1>6, <1>13, GoForms DEF PutLoopKey
<1>14. CASE PutLoopVal(t)
  <2>1. /\ scan'[t].idx = scan[t].idx /\ scan'[t].h = scan[t].h /\ Goto(t, "loopCheck")
        /\ \A u \in Thread \ {t} : scan'[u] = scan[u]
    BY <1>1, <1>14 DEF PutLoopVal, BaseScan
  <2> QED BY <1>6, <2>1
<1>15. CASE StoreKey(t) \/ StoreVal(t)
  BY <1>6, <1>15, PCKinds DEF StoreKey, StoreVal
<1>16. CASE PublishSlot(t)
  BY <1>16, GoForms DEF PublishSlot
<1>17. CASE ClearSlot(t)
  BY <1>6, <1>17 DEF ClearSlot
<1> QED BY <1>7, <1>8, <1>9, <1>10, <1>11, <1>12, <1>13, <1>14, <1>15, <1>16, <1>17 DEF OwnCall

\* The calls' own steps leave the resize alone.
LEMMA OwnCallR ==
  ASSUME IInv, RInv, NEW t \in Thread, OwnCall(t) PROVE RInv'
<1>1. pc[t] # "idle" /\ pc[t] \in CallPC /\ pc'[t] # "follow" /\ StaysWith(t)
  BY OwnFrame, PCKinds DEF StaysWith
<1>2. \A bin \in BinId : header'[bin].bs = header[bin].bs
  <2>1. CASE header' = header
    BY <2>1
  <2>2. CASE header' # header
    <3>1. PICK st : /\ Validated(t)
                    /\ header' = [header EXCEPT ![Bin(t)] = setSlotStateAndVersion(scan[t].h, scan[t].slot, st)]
      BY <2>2, OwnFrame
    <3>2. setSlotStateAndVersion(scan[t].h, scan[t].slot, st).bs = scan[t].h.bs
      BY DEF setSlotStateAndVersion
    <3> QED BY <1>1, <3>1, <3>2, SameBinState DEF Validated
  <2> QED BY <2>1, <2>2
<1>3. Quiet(t)
  BY <1>1, <1>2, OwnFrame DEF Quiet, OthersSame, StaysWith
<1>4. ins'[t].cont = "follow" => scan'[t].idx = scan[t].idx /\ header[Bin(t)].bs = BinDoneTransfer
  <2>1. SUFFICES ASSUME ins'[t].cont = "follow"
                 PROVE  ins[t].cont = "follow" /\ scan'[t].idx = scan[t].idx
    BY DEF RInv, PrivateInv
  <2>2. ins' = ins
    BY <2>1, OwnFrame
  <2>3. pc[t] \in UnresPC
    BY <1>1, <2>1, <2>2, Locals DEF InsInv
  <2> QED BY <2>1, <2>2, <2>3, OwnFrame
<1> QED BY <1>1, <1>3, <1>4, OwnFrame, StaysInBin DEF StaysWith

\* A new call looks at no bin yet.
LEMMA InlineInvokeR ==
  ASSUME IInv, RInv, NEW t \in Thread, InlineInvoke(t) PROVE RInv'
<1>1. /\ pc \in [Thread -> PC] /\ call \in [Thread -> CallRec \cup {NoCall}]
  BY DEF IInv, BaseType, BaseLocal, ApiType
<1>2. /\ pc[t] = "idle" /\ pc'[t] = "active" /\ \A u \in Thread \ {t} : pc'[u] = pc[u] /\ call'[u] = call[u]
  BY <1>1 DEF InlineInvoke, Goto
<1>3. UNCHANGED <<active, resizeCtx, ctx, xfer, scan, ins, header>>
  BY DEF InlineInvoke, memory, roots
<1>4. Quiet(t)
  BY <1>2, <1>3 DEF Quiet, OthersSame, CallPC
<1>5. ins[t].cont = "idle"
  BY <1>2, Locals DEF ThreadInv
<1>6. PrivateInv(t)'
  BY <1>2, <1>3, <1>5 DEF PrivateInv, UsesPC, ScanPC, SlotPC, InsertPC, OwnPC
<1> QED BY <1>4, <1>6, QuietStep

\* Moving a slot changes the words of the mover's bin, or the new bin of the key.
LEMMA TransferFrame ==
  ASSUME IInv, ValueType, NEW t \in Thread, transferValidSlots(t)
  PROVE  /\ OthersSame(t) /\ UNCHANGED <<active, resizeCtx, call, scan, ins>>
         /\ pc[t] \in {"sentinel", "move"} /\ pc'[t] \in TransferPC \ {"or"}
         /\ xfer'[t].gen = xfer[t].gen /\ xfer'[t].bin = xfer[t].bin /\ xfer'[t].h = xfer[t].h
         /\ \A g \in Gen : /\ ctx'[g].chunkClaimed = ctx[g].chunkClaimed
                           /\ ctx'[g].chunksDone = ctx[g].chunksDone
         /\ \/ header' = header
            \/ \E new \in BinId : \E i :
                 /\ new[1] = xfer[t].gen + 1
                 /\ header' = [header EXCEPT ![new] = setSlotStateAndVersion(@, i, SlotValid)]
<1>1. /\ pc \in [Thread -> PC] /\ xfer \in [Thread -> XferRec] /\ xfer[t] \in XferRec /\ ctx \in [Gen -> CtxRec]
  BY DEF IInv, BaseType, BaseLocal, RootType
<1>2. /\ UNCHANGED <<active, resizeCtx, call, scan, ins>> /\ pc[t] \in {"sentinel", "move"}
  BY DEF transferValidSlots, SwapSentinel, insertIntoNewIndex, roots, api
<1>3. /\ \A u \in Thread \ {t} : pc'[u] = pc[u]
      /\ pc'[t] \in TransferPC \ {"or"}
  <2>1. PICK p \in {"sentinel", "xlinks", "xdone", "move"} : Goto(t, p)
    BY AfterSlot DEF transferValidSlots, SwapSentinel, insertIntoNewIndex
  <2> QED BY <1>1, <2>1 DEF Goto, TransferPC
<1>4. /\ \A u \in Thread \ {t} : xfer'[u] = xfer[u]
      /\ xfer'[t].gen = xfer[t].gen /\ xfer'[t].bin = xfer[t].bin /\ xfer'[t].h = xfer[t].h
  <2>1. PICK a, b : xfer' \in {[xfer EXCEPT ![t].todo = a], [xfer EXCEPT ![t].key = b],
                               [xfer EXCEPT ![t].todo = a, ![t].key = b]}
    BY DEF transferValidSlots, SwapSentinel, insertIntoNewIndex
  <2> QED BY <1>1, <2>1 DEF XferRec
<1>5. CASE SwapSentinel(t)
  <2>1. header' = header /\ ctx' = ctx
    BY <1>5 DEF SwapSentinel, roots
  <2> QED BY <1>2, <1>3, <1>4, <2>1 DEF OthersSame
<1>6. CASE insertIntoNewIndex(t)
  <2> DEFINE g == xfer[t].gen
             new == getBin(g + 1, Hash[xfer[t].key])
             free == freeInNewBin(g, xfer[t].key)
             i == free.slot
             n == free.next
  <2>1. /\ header' = [header EXCEPT ![new] = setSlotStateAndVersion(@, i, SlotValid)]
        /\ ctx' = [ctx EXCEPT ![g].linkNextResize = n]
    BY <1>6 DEF insertIntoNewIndex
  <2>2. new \in BinId /\ new[1] = g + 1
    <3>1. pc[t] \in ContextPC
      BY <1>6 DEF insertIntoNewIndex, ContextPC, TransferPC
    <3>2. g + 1 \in Gen
      BY <3>1, AtContext
    <3>3. Hash[xfer[t].key] \in Nat
      BY Words DEF ValueType
    <3> QED BY <3>2, <3>3, GetBinType
  <2> HIDE DEF new, i, n
  <2>3. \A f \in Gen : /\ ctx'[f].chunkClaimed = ctx[f].chunkClaimed
                       /\ ctx'[f].chunksDone = ctx[f].chunksDone
    BY <1>1, <2>1 DEF CtxRec
  <2> QED BY <1>2, <1>3, <1>4, <2>1, <2>2, <2>3 DEF OthersSame
<1> QED BY <1>5, <1>6 DEF transferValidSlots

\* Moving a slot leaves the resize where it was.
LEMMA TransferR ==
  ASSUME IInv, ValueType, RInv, NEW t \in Thread, transferValidSlots(t) PROVE RInv'
<1>1. /\ OthersSame(t) /\ UNCHANGED <<active, resizeCtx, call, scan, ins>>
      /\ pc[t] \in TransferPC \ {"or"} /\ pc'[t] \in TransferPC \ {"or"}
      /\ xfer'[t].gen = xfer[t].gen /\ xfer'[t].bin = xfer[t].bin
      /\ \A g \in Gen : /\ ctx'[g].chunkClaimed = ctx[g].chunkClaimed
                        /\ ctx'[g].chunksDone = ctx[g].chunksDone
  BY TransferFrame DEF TransferPC
<1>2. \A bin \in BinId : header'[bin].bs = header[bin].bs
  <2>1. CASE header' = header
    BY <2>1
  <2>2. CASE header' # header
    <3>0. PICK new \in BinId : \E i : header' = [header EXCEPT ![new] = setSlotStateAndVersion(@, i, SlotValid)]
      BY <2>2, TransferFrame
    <3>1. PICK i : header' = [header EXCEPT ![new] = setSlotStateAndVersion(@, i, SlotValid)]
      BY <3>0
    <3>2. \A h : setSlotStateAndVersion(h, i, SlotValid).bs = h.bs
      BY DEF setSlotStateAndVersion
    <3> QED BY <3>1, <3>2 DEF IInv, BaseType, BaseMemory
  <2> QED BY <2>1, <2>2
<1>3. pc[t] \in ContextPC /\ pc[t] # "setCtx" /\ pc[t] \notin UnresPC /\ pc[t] # "idle"
  BY <1>1 DEF ContextPC, TransferPC, UnresPC
<1>4. RolesInv'
  <2>1. pc'[t] \notin InstallPC \cup FinishPC
    BY <1>1 DEF TransferPC, InstallPC, FinishPC
  <2>2. Started(xfer'[t].gen)
    BY <1>1, <1>3, AtResize
  <2> QED BY <1>1, <2>1, <2>2, SameRoles DEF RInv
<1>5. MoversInv'
  <2>1. SameMoves(t)
    BY <1>1 DEF SameMoves
  <2>2. \A g \in Gen : Started(g)' <=> Started(g)
    BY <1>1 DEF Started
  <2>3. \A g \in 0..(MaxGen - 1) : g \in Gen
    BY CtxType
  <2> QED BY <1>1, <1>2, <2>1, <2>2, <2>3, SameMovers DEF RInv
<1>6. \A u \in Thread : PrivateInv(u)'
  <2>1. ins[t].cont = "idle"
    BY <1>3, Locals DEF InsInv
  <2>2. pc'[t] \notin UsesPC /\ pc'[t] # "follow"
    BY <1>1 DEF TransferPC, UsesPC, ScanPC, SlotPC, InsertPC, OwnPC
  <2>3. PrivateInv(t)'
    BY <1>1, <2>1, <2>2 DEF PrivateInv
  <2>4. DoneStays
    BY <1>2 DEF DoneStays
  <2> QED BY <1>1, <2>3, <2>4, SamePrivate DEF RInv
<1> QED BY <1>4, <1>5, <1>6 DEF RInv

-----------------------------------------------------------------------------
(* The transfer freezes the header of its bin.  A call may hold a header    *)
(* for long, but only one that it loaded before any transfer, and it writes *)
(* it back only if the header is still the same; a mover keeps the header   *)
(* of its bin because nobody else writes it any more.                       *)

CallFreeze(t) ==
  /\ pc[t] \in HeldPC => scan[t].h.bs = BinNoTransfer
  /\ pc[t] \in {"unresClear", "unresCAS"} => ins[t].h.bs = BinNoTransfer
MoveFreeze(t) ==
  pc[t] \in TransferPC \ {"or"} => /\ header[OldBin(t)].ss = xfer[t].h.ss
                                   /\ header[OldBin(t)].ver = xfer[t].h.ver
FreezeInv == \A t \in Thread : CallFreeze(t) /\ MoveFreeze(t)

\* What TransferFreezes says of a step
Frozen == \A bin \in BinId : header[bin].bs # BinNoTransfer =>
            header'[bin].ss = header[bin].ss /\ header'[bin].ver = header[bin].ver

\* A header may change freely before its bin is in transfer.
LEMMA FrozenBin ==
  ASSUME IInv, NEW bin \in BinId, header[bin].bs = BinNoTransfer,
         NEW h, header' = [header EXCEPT ![bin] = h]
  PROVE  Frozen
BY DEF Frozen, IInv, BaseType, BaseMemory

\* A step that freezes headers disturbs no other call and no other mover.
LEMMA FreezeStep ==
  ASSUME IInv, RInv, FreezeInv, NEW t \in Thread, OthersSame(t), Frozen, CallFreeze(t)', MoveFreeze(t)'
  PROVE  FreezeInv'
<1>1. SUFFICES ASSUME NEW u \in Thread, u # t PROVE CallFreeze(u)' /\ MoveFreeze(u)'
  BY DEF FreezeInv
<1>2. /\ pc'[u] = pc[u] /\ scan'[u] = scan[u] /\ ins'[u] = ins[u] /\ xfer'[u] = xfer[u]
      /\ CallFreeze(u) /\ MoveFreeze(u)
  BY <1>1 DEF OthersSame, FreezeInv
<1>3. CallFreeze(u)'
  BY <1>2 DEF CallFreeze
<1>4. ASSUME pc[u] \in TransferPC \ {"or"}
      PROVE  header'[OldBin(u)].ss = header[OldBin(u)].ss /\ header'[OldBin(u)].ver = header[OldBin(u)].ver
  <2>1. /\ OldBin(u) \in BinId
        /\ header[OldBin(u)].bs = MoverState(u, OldBin(u)[2])
    BY <1>4, AtTransfer DEF OldBin
  <2>2. xfer[u].bin \in Nat /\ OldBin(u)[2] = xfer[u].bin
    BY <1>4, AtTransfer DEF OldBin
  <2>3. header[OldBin(u)].bs # BinNoTransfer
    BY <1>4, <2>1, <2>2 DEF MoverState, BinInTransfer, BinNoTransfer
  <2> QED BY <2>1, <2>3 DEF Frozen
<1>5. MoveFreeze(u)'
  <2>1. OldBin(u)' = OldBin(u)
    BY <1>2 DEF OldBin
  <2> QED BY <1>2, <1>4, <2>1 DEF MoveFreeze
<1> QED BY <1>3, <1>5

\* A call that stays with its header.
LEMMA StaysFreeze ==
  ASSUME NEW t \in Thread, CallFreeze(t), StaysWith(t),
         ins' = ins \/ pc'[t] \notin {"unresClear", "unresCAS"}
  PROVE  CallFreeze(t)'
BY DEF CallFreeze, StaysWith

\* A thread in a call moves nothing.
LEMMA CallMoves ==
  ASSUME NEW t \in Thread, pc'[t] \in CallPC
  PROVE  MoveFreeze(t)'
BY DEF MoveFreeze, CallPC, UsesPC, ScanPC, SlotPC, InsertPC, OwnPC, TransferPC

\* The steps of calls that this variant has of its own: a CAS writes over the header
\* in hand.
LEMMA OwnFreeze ==
  ASSUME IInv, RInv, FreezeInv, NEW t \in Thread, OwnCall(t)
  PROVE  FreezeInv' /\ Frozen
<1>1. CallFreeze(t) /\ pc[t] # "idle"
  BY OwnFrame, PCKinds DEF FreezeInv
<1>2. CallFreeze(t)'
  BY <1>1, OwnFrame, StaysFreeze
<1>3. OthersSame(t) /\ MoveFreeze(t)'
  BY OwnFrame, CallMoves DEF StaysWith, OthersSame
<1>4. Frozen
  <2>1. CASE header' = header
    BY <2>1 DEF Frozen
  <2>2. CASE header' # header
    <3>1. PICK st : /\ pc[t] \in HeldPC /\ Validated(t)
                    /\ header' = [header EXCEPT ![Bin(t)] = setSlotStateAndVersion(scan[t].h, scan[t].slot, st)]
      BY <2>2, OwnFrame
    <3>2. header[Bin(t)].bs = BinNoTransfer
      BY <1>1, <3>1 DEF Validated, CallFreeze
    <3> QED BY <1>1, <3>1, <3>2, BinType, FrozenBin
  <2> QED BY <2>1, <2>2
<1> QED BY <1>2, <1>3, <1>4, FreezeStep

\* The steps of a lookup that both variants share write no header.
LEMMA LookupFreeze ==
  ASSUME IInv, RInv, FreezeInv, NEW t \in Thread,
         LoadActive(t) \/ LoadHeader(t) \/ Follow(t) \/ LoadLinks(t) \/ CheckStale(t)
  PROVE  FreezeInv' /\ Frozen
<1>1. ScanStep(t)
  BY DEF ScanStep
<1>2. Quiet(t) /\ UNCHANGED <<header, ins>>
  BY <1>1, ScanFrame
<1>3. pc \in [Thread -> PC] /\ scan \in [Thread -> BaseScan] /\ CallFreeze(t)
  BY DEF IInv, BaseType, BaseLocal, FreezeInv
<1>4. CallFreeze(t)'
  <2>1. CASE LoadActive(t) \/ Follow(t)
    <3>1. pc'[t] = "load"
      BY <1>3, <2>1 DEF LoadActive, Follow, Goto
    <3> QED BY <3>1, PCKinds DEF CallFreeze
  <2>2. CASE LoadHeader(t)
    <3>1. \/ pc'[t] = "match" /\ scan'[t].h.bs = BinNoTransfer
          \/ pc'[t] \in {"follow", "active"}
      BY <1>3, <2>2 DEF LoadHeader, Goto, BaseScan
    <3> QED BY <3>1, PCKinds DEF CallFreeze
  <2>3. CASE LoadLinks(t) \/ CheckStale(t)
    <3>1. StaysWith(t)
      BY <2>3, GoForms DEF LoadLinks, CheckStale
    <3> QED BY <1>2, <1>3, <3>1, StaysFreeze
  <2> QED BY <2>1, <2>2, <2>3
<1>5. Frozen
  BY <1>2 DEF Frozen
<1> QED BY <1>2, <1>4, <1>5, CallMoves, FreezeStep DEF Quiet

\* The loop of Put writes no header.
LEMMA LoopFreeze ==
  ASSUME IInv, RInv, FreezeInv, NEW t \in Thread, LoopHeader(t) \/ LoopCheck(t) \/ LoopTTAS(t)
  PROVE  FreezeInv' /\ Frozen
<1>1. pc \in [Thread -> PC] /\ scan \in [Thread -> BaseScan] /\ CallFreeze(t)
  BY DEF IInv, BaseType, BaseLocal, FreezeInv
<1>2. UNCHANGED <<header, ins, xfer>>
  BY DEF LoopHeader, LoopCheck, LoopTTAS, memory
<1>3. StaysWith(t)
  <2>1. CASE LoopHeader(t)
    <3>1. \/ Retry(t)
          \/ /\ pc'[t] = "loopKey" /\ scan'[t].idx = scan[t].idx
             /\ \A u \in Thread \ {t} : pc'[u] = pc[u] /\ scan'[u] = scan[u]
      BY <1>1, <2>1 DEF LoopHeader, Goto, BaseScan
    <3> QED BY <3>1, GoForms, PCKinds DEF StaysWith
  <2>2. CASE LoopCheck(t) \/ LoopTTAS(t)
    <3>1. \/ Goto(t, "loop") /\ KeepSlot(t)
          \/ /\ pc'[t] \in {"loopTTAS", "dwcas"} /\ scan' = scan
             /\ \A u \in Thread \ {t} : pc'[u] = pc[u]
      BY <1>1, <2>2 DEF LoopCheck, LoopTTAS, Goto
    <3> QED BY <3>1, GoForms, PCKinds DEF StaysWith
  <2> QED BY <2>1, <2>2
<1>4. CallFreeze(t)'
  BY <1>1, <1>2, <1>3, StaysFreeze
<1>5. Frozen
  BY <1>2 DEF Frozen
<1>6. OthersSame(t) /\ MoveFreeze(t)'
  BY <1>2, <1>3, CallMoves DEF StaysWith, OthersSame
<1> QED BY <1>4, <1>5, <1>6, FreezeStep

\* Insert reserves a slot, and gives it up, only while its bin is in no transfer.
LEMMA InsertFreeze ==
  ASSUME IInv, RInv, FreezeInv, NEW t \in Thread,
         \/ ChooseHeader(t) \/ ChooseLinks(t) \/ allocateLink(t) \/ allocateLinkPair(t)
         \/ attachSingle(t) \/ attachPair(t) \/ reserveSlot(t) \/ LoadHeader2(t)
         \/ UnreserveLoad(t) \/ UnreserveCAS(t)
  PROVE  FreezeInv' /\ Frozen
<1>1. InsertStep(t)
  BY DEF InsertStep
<1>2. /\ OthersSame(t) /\ pc'[t] \in CallPC /\ pc[t] # "idle"
  BY <1>1, InsertFrame DEF OthersSame, InsertPC, OwnPC
<1>3. /\ pc \in [Thread -> PC] /\ scan \in [Thread -> BaseScan] /\ ins \in [Thread -> InsRec]
      /\ CallFreeze(t)
  BY DEF IInv, BaseType, BaseLocal, FreezeInv
<1>4. ASSUME NEW h, NEW i, NEW st PROVE setSlotStateAndVersion(h, i, st).bs = h.bs
  BY DEF setSlotStateAndVersion
<1>5. Bin(t) \in BinId
  BY <1>2, BinType
<1>6. ASSUME Unreserved(t) PROVE CallFreeze(t)'
  <2>1. pc'[t] \in {"idle", "load", "follow", "active"}
    BY <1>3, <1>6 DEF Unreserved, Goto, InsRec
  <2> QED BY <2>1, PCKinds DEF CallFreeze
<1>7. CASE \/ ChooseHeader(t) \/ ChooseLinks(t) \/ allocateLink(t) \/ allocateLinkPair(t)
           \/ attachSingle(t) \/ attachPair(t)
  <2>1. pc[t] \in HeldPC /\ header' = header
    BY <1>7 DEF ChooseHeader, ChooseLinks, allocateLink, allocateLinkPair, Allocate, attachSingle,
       attachPair, memory, HeldPC, ChoicePC
  <2>2. pc'[t] = "trigger" \/ (pc'[t] \in ChoicePC /\ scan' = scan)
    BY <1>3, <1>7 DEF ChooseHeader, ChooseLinks, allocateLink, allocateLinkPair, Allocate, attachSingle,
       attachPair, NoRoom, Goto, ChoicePC
  <2>3. CallFreeze(t)'
    BY <1>3, <2>1, <2>2, PCKinds DEF CallFreeze, ChoicePC
  <2>4. Frozen
    BY <2>1 DEF Frozen
  <2> QED BY <1>2, <2>3, <2>4, CallMoves, FreezeStep
<1>8. CASE reserveSlot(t)
  <2> DEFINE h0 == scan[t].h
             i == IF invalidMask(h0, 0) # {} THEN Lowest(invalidMask(h0, 0)) ELSE ins[t].pick
             h1 == setSlotStateAndVersion(h0, i, SlotTrying)
  <2>1. h0.bs = BinNoTransfer
    BY <1>3, <1>8 DEF reserveSlot, CallFreeze, HeldPC, ChoicePC
  <2>2. h1.bs = BinNoTransfer
    BY <1>4, <2>1
  <2>3. \/ /\ Validated(t) /\ header' = [header EXCEPT ![Bin(t)] = h1]
           /\ scan' = [scan EXCEPT ![t].h = h1, ![t].slot = i]
           /\ Goto(t, "fillKey")
        \/ Retry(t) /\ UNCHANGED header
    BY <1>8 DEF reserveSlot
  <2> HIDE DEF h1, i
  <2>4. Frozen
    <3>1. CASE header' = header
      BY <3>1 DEF Frozen
    <3>2. CASE header' # header
      <4>1. header[Bin(t)].bs = BinNoTransfer /\ header' = [header EXCEPT ![Bin(t)] = h1]
        BY <2>1, <2>3, <3>2 DEF Validated
      <4> QED BY <1>5, <4>1, FrozenBin
    <3> QED BY <3>1, <3>2
  <2>5. CallFreeze(t)'
    <3>1. pc'[t] = "load" \/ (pc'[t] = "fillKey" /\ scan'[t].h = h1)
      BY <1>3, <2>3 DEF Retry, Goto, BaseScan
    <3> QED BY <2>2, <3>1, PCKinds DEF CallFreeze
  <2> QED BY <1>2, <2>4, <2>5, CallMoves, FreezeStep
<1>9. CASE LoadHeader2(t)
  <2>1. header' = header
    BY <1>9 DEF LoadHeader2, memory
  <2>2. pc'[t] = "unres" \/ (pc'[t] = "match" /\ scan'[t].h.bs = BinNoTransfer)
    BY <1>3, <1>9 DEF LoadHeader2, Goto, BaseScan
  <2>3. CallFreeze(t)'
    BY <2>2, PCKinds DEF CallFreeze
  <2>4. Frozen
    BY <2>1 DEF Frozen
  <2> QED BY <1>2, <2>3, <2>4, CallMoves, FreezeStep
<1>10. CASE UnreserveLoad(t)
  <2>1. header' = header
    BY <1>10 DEF UnreserveLoad, memory
  <2>2. Unreserved(t) \/ (pc'[t] = "unresClear" /\ ins'[t].h.bs = BinNoTransfer)
    BY <1>3, <1>10 DEF UnreserveLoad, Goto, InsRec
  <2>3. CallFreeze(t)'
    BY <1>6, <2>2, PCKinds DEF CallFreeze
  <2>4. Frozen
    BY <2>1 DEF Frozen
  <2> QED BY <1>2, <2>3, <2>4, CallMoves, FreezeStep
<1>11. CASE UnreserveCAS(t)
  <2> DEFINE h == setSlotStateAndVersion(ins[t].h, scan[t].slot, SlotInvalid)
  <2>1. ins[t].h.bs = BinNoTransfer
    BY <1>3, <1>11 DEF UnreserveCAS, CallFreeze
  <2>2. \/ /\ header[Bin(t)] = ins[t].h /\ header' = [header EXCEPT ![Bin(t)] = h]
           /\ Unreserved(t)
        \/ header' = header /\ pc'[t] = "unres"
    BY <1>3, <1>11 DEF UnreserveCAS, Goto
  <2> HIDE DEF h
  <2>3. Frozen
    <3>1. CASE header' = header
      BY <3>1 DEF Frozen
    <3>2. CASE header' # header
      BY <1>5, <2>1, <2>2, <3>2, FrozenBin
    <3> QED BY <3>1, <3>2
  <2>4. CallFreeze(t)'
    BY <1>6, <2>2, PCKinds DEF CallFreeze
  <2> QED BY <1>2, <2>3, <2>4, CallMoves, FreezeStep
<1> QED BY <1>7, <1>8, <1>9, <1>10, <1>11

\* The index that a mover fills is in no transfer: its generation is not active yet.
LEMMA NewBinFree ==
  ASSUME IInv, RInv, NEW t \in Thread, pc[t] \in TransferPC \ {"or"},
         NEW new \in BinId, new[1] = xfer[t].gen + 1
  PROVE  header[new].bs = BinNoTransfer
<1> DEFINE g == xfer[t].gen
<1>1. /\ g \in 0..(MaxGen - 1) /\ g \in Gen /\ Started(g) /\ OldBin(t) \in BinId
      /\ OldBin(t)[1] = g /\ OldBin(t)[2] = xfer[t].bin /\ xfer[t].bin \in Nat
      /\ header[OldBin(t)].bs = MoverState(t, xfer[t].bin)
  BY AtTransfer DEF OldBin
<1>2. header[OldBin(t)].bs # BinDoneTransfer
  BY <1>1 DEF MoverState, BinInTransfer, BinDoneTransfer
<1> HIDE DEF g
<1>3. ~(g < active)
  BY <1>1, <1>2, ActiveDone
<1>4. resizeCtx = g /\ active \in {g, g + 1} /\ g \in Nat /\ active \in Nat
  BY <1>1, <1>3, ResizeWords DEF Started, RInv, RolesInv
<1>5. ~Started(g + 1)
  BY <1>3, <1>4 DEF Started
<1>6. ProgressInv(new)
  BY DEF RInv, MoversInv
<1> QED BY <1>5, <1>6 DEF ProgressInv, g

\* A thread in a resize holds no header for a call.
LEMMA ResizeCalls ==
  ASSUME NEW t \in Thread, pc'[t] \in ResizePC \cup {"active"}
  PROVE  CallFreeze(t)'
<1>1. pc'[t] \notin UsesPC \/ pc'[t] \notin HeldPC
  BY DEF ResizePC, ContextPC, TransferPC, UsesPC, ScanPC, SlotPC, InsertPC, OwnPC
<1>2. pc'[t] \notin {"unresClear", "unresCAS"}
  BY DEF ResizePC, ContextPC, TransferPC
<1> QED BY <1>1, <1>2, PCKinds DEF CallFreeze

\* The OR keeps the slots and the version, and the store of DoneTransfer writes back
\* those that the bin still has.
LEMMA ResizeFreeze ==
  ASSUME IInv, RInv, FreezeInv, NEW t \in Thread, SharedResize(t)
  PROVE  FreezeInv' /\ Frozen
<1>1. ResizeStep(t)
  BY DEF SharedResize, ResizeStep
<1>2. OthersSame(t) /\ CallFreeze(t)'
  BY <1>1, ResizeFrame, ResizeCalls
<1>3. /\ pc \in [Thread -> PC] /\ xfer \in [Thread -> XferRec] /\ header \in [BinId -> Header]
      /\ xfer[t] \in XferRec /\ MoveFreeze(t)
  BY DEF IInv, BaseType, BaseLocal, BaseMemory, FreezeInv
<1>4. CASE TransferBin(t)
  <2> DEFINE h == header[OldBin(t)]
             todo == validMask(h, 0)
  <2>1. pc[t] = "or" /\ pc[t] \in TransferPC
    BY <1>4 DEF TransferBin, TransferPC
  <2>2. OldBin(t) \in BinId
    BY <2>1, OldBinType
  <2>3. /\ header' = [header EXCEPT ![OldBin(t)] = orInTransfer(h)]
        /\ xfer' = [xfer EXCEPT ![t].h = h, ![t].todo = todo]
    BY <1>4 DEF TransferBin
  <2>4. orInTransfer(h).ss = h.ss /\ orInTransfer(h).ver = h.ver
    <3>1. h \in Header
      BY <1>3, <2>2
    <3> HIDE DEF h
    <3> QED BY <3>1 DEF orInTransfer, setBinState, Header
  <2> HIDE DEF todo
  <2>5. /\ \A bin \in BinId : header'[bin].ss = header[bin].ss /\ header'[bin].ver = header[bin].ver
        /\ xfer'[t].h = h /\ xfer'[t].gen = xfer[t].gen /\ xfer'[t].bin = xfer[t].bin
    <3> HIDE DEF h
    <3>1. \A bin \in BinId : header'[bin] = IF bin = OldBin(t) THEN orInTransfer(h) ELSE header[bin]
      BY <1>3, <2>3
    <3>2. xfer'[t].h = h /\ xfer'[t].gen = xfer[t].gen /\ xfer'[t].bin = xfer[t].bin
      BY <1>3, <2>3 DEF XferRec
    <3> QED BY <2>4, <3>1, <3>2 DEF h
  <2>6. OldBin(t)' = OldBin(t)
    BY <2>5 DEF OldBin
  <2>7. MoveFreeze(t)'
    BY <2>2, <2>5, <2>6 DEF MoveFreeze
  <2>8. Frozen
    BY <2>5 DEF Frozen
  <2> QED BY <1>2, <2>7, <2>8, FreezeStep
<1>5. CASE FinishBin(t)
  <2>1. pc[t] = "xdone" /\ pc[t] \in TransferPC \ {"or"} /\ pc'[t] \in {"chunkDone", "or"}
        /\ header' = [header EXCEPT ![OldBin(t)] = setBinState(xfer[t].h, BinDoneTransfer)]
    BY <1>3, <1>5 DEF FinishBin, Goto, TransferPC
  <2>2. setBinState(xfer[t].h, BinDoneTransfer).ss = xfer[t].h.ss
        /\ setBinState(xfer[t].h, BinDoneTransfer).ver = xfer[t].h.ver
    BY <1>3 DEF setBinState, XferRec, Header
  <2>3. Frozen
    BY <1>3, <2>1, <2>2 DEF Frozen, MoveFreeze
  <2>4. MoveFreeze(t)'
    BY <2>1 DEF MoveFreeze, TransferPC
  <2> QED BY <1>2, <2>3, <2>4, FreezeStep
<1>6. CASE TransferLinks(t)
  <2> DEFINE todo == linkSlots(xfer[t].h, linkMeta[OldBin(t)])
  <2>1. pc[t] = "xlinks" /\ header' = header /\ xfer' = [xfer EXCEPT ![t].todo = todo]
    BY <1>6 DEF TransferLinks, memory
  <2> HIDE DEF todo
  <2>2. xfer'[t].h = xfer[t].h /\ OldBin(t)' = OldBin(t) /\ pc[t] \in TransferPC \ {"or"}
    BY <1>3, <2>1 DEF XferRec, OldBin, TransferPC
  <2>3. MoveFreeze(t)' /\ Frozen
    BY <1>3, <2>1, <2>2 DEF MoveFreeze, Frozen
  <2> QED BY <1>2, <2>3, FreezeStep
<1>7. CASE ~TransferBin(t) /\ ~FinishBin(t) /\ ~TransferLinks(t)
  <2>1. header' = header
    BY <1>7 DEF SharedResize, TriggerResize, PublishNext, SetResizeContext, HelpResize, HelpActive,
       ClaimChunk, ChunkDone, FinishCapacity, FinishActive, FinishInactive, FinishCtx, memory
  <2>2. pc'[t] \in {"publish", "help", "setCtx", "claim", "active", "helpActive", "or", "finCapacity",
                    "finActive", "finInactive", "finCtx"}
    BY <1>3, <1>7 DEF SharedResize, TriggerResize, PublishNext, SetResizeContext, HelpResize, HelpActive,
       ClaimChunk, ChunkDone, FinishCapacity, FinishActive, FinishInactive, FinishCtx, Goto
  <2>3. MoveFreeze(t)' /\ Frozen
    BY <2>1, <2>2 DEF MoveFreeze, Frozen, TransferPC
  <2> QED BY <1>2, <2>3, FreezeStep
<1> QED BY <1>4, <1>5, <1>6, <1>7

\* The slots that are moved change the header of a bin that is in no transfer.
LEMMA TransferFreeze ==
  ASSUME IInv, ValueType, RInv, FreezeInv, NEW t \in Thread, transferValidSlots(t)
  PROVE  FreezeInv' /\ Frozen
<1>1. /\ OthersSame(t) /\ pc'[t] \in TransferPC \ {"or"} /\ pc[t] \in TransferPC \ {"or"}
      /\ xfer'[t].h = xfer[t].h /\ OldBin(t)' = OldBin(t)
  BY TransferFrame DEF OldBin, TransferPC
<1>2. CallFreeze(t)'
  BY <1>1, ResizeCalls DEF ResizePC, ContextPC
<1>3. Frozen
  <2>0. \/ header' = header
        \/ \E new \in BinId : \E i :
             /\ new[1] = xfer[t].gen + 1
             /\ header' = [header EXCEPT ![new] = setSlotStateAndVersion(@, i, SlotValid)]
    BY TransferFrame
  <2>1. CASE header' = header
    BY <2>1 DEF Frozen
  <2>2. CASE header' # header
    <3>0. PICK new \in BinId :
             /\ new[1] = xfer[t].gen + 1
             /\ \E i : header' = [header EXCEPT ![new] = setSlotStateAndVersion(@, i, SlotValid)]
      BY <2>0, <2>2
    <3>1. PICK i : header' = [header EXCEPT ![new] = setSlotStateAndVersion(@, i, SlotValid)]
      BY <3>0
    <3>2. header[new].bs = BinNoTransfer
      BY <1>1, <3>0, NewBinFree
    <3> QED BY <3>1, <3>2, FrozenBin
  <2> QED BY <2>1, <2>2
<1>4. MoveFreeze(t)'
  <2>1. /\ OldBin(t) \in BinId /\ header[OldBin(t)].bs = MoverState(t, xfer[t].bin)
        /\ xfer[t].bin \in Nat
    BY <1>1, AtTransfer DEF OldBin
  <2>2. header[OldBin(t)].bs # BinNoTransfer
    BY <1>1, <2>1 DEF MoverState, BinInTransfer, BinNoTransfer
  <2> QED BY <1>1, <1>3, <2>1, <2>2 DEF MoveFreeze, FreezeInv, Frozen
<1> QED BY <1>1, <1>2, <1>3, <1>4, FreezeStep

-----------------------------------------------------------------------------
(* The invariant of the variant, and what it says.                         *)

InlineInv == IInv /\ ValueType /\ RInv /\ FreezeInv

\* The steps that are those of AllocatorMap
SharedLookup(t) == LoadActive(t) \/ LoadHeader(t) \/ Follow(t) \/ LoadLinks(t) \/ CheckStale(t)
SharedLoop(t) == LoopHeader(t) \/ LoopCheck(t) \/ LoopTTAS(t)
SharedInsert(t) == \/ ChooseHeader(t) \/ ChooseLinks(t) \/ allocateLink(t) \/ allocateLinkPair(t)
                   \/ attachSingle(t) \/ attachPair(t) \/ reserveSlot(t) \/ LoadHeader2(t)
                   \/ UnreserveLoad(t) \/ UnreserveCAS(t)

\* The steps of the operations, by what they do.
LEMMA StepKinds ==
  ASSUME NEW t \in Thread, InlineStep(t)
  PROVE  \/ SharedLookup(t) \/ SharedLoop(t) \/ SharedInsert(t) \/ OwnCall(t)
         \/ SharedResize(t) \/ transferValidSlots(t)
<1>1. lookup(t) => SharedLookup(t) \/ OwnCall(t)
  BY DEF lookup, scanLinksForKey, SharedLookup, OwnCall
<1>2. putLoop(t) => SharedLoop(t) \/ OwnCall(t)
  BY DEF putLoop, SharedLoop, OwnCall
<1>3. chooseInsertSlot(t) \/ reserveSlot(t) \/ LoadHeader2(t) \/ unreserveSlot(t) =>
        SharedInsert(t) \/ OwnCall(t)
  BY DEF chooseInsertSlot, attachNewSingle, attachNewPair, unreserveSlot, SharedInsert, OwnCall
<1>4. triggerResize(t) \/ helpResize(t) => SharedResize(t)
  BY DEF triggerResize, helpResize, SharedResize
<1>5. helpWithChunks(t) => SharedResize(t) \/ transferValidSlots(t)
  BY DEF helpWithChunks, transferBin, completeResize, SharedResize
<1>6. ASSUME \/ AnswerCheck(t) \/ TargetCheck(t) \/ PutHit(t) \/ PutMiss(t) \/ DeleteCAS(t)
             \/ StoreKey(t) \/ StoreVal(t) \/ PublishSlot(t)
      PROVE  OwnCall(t)
  BY <1>6 DEF OwnCall
<1>7. \/ lookup(t) \/ AnswerCheck(t) \/ TargetCheck(t) \/ PutHit(t) \/ PutMiss(t) \/ putLoop(t)
      \/ DeleteCAS(t) \/ chooseInsertSlot(t) \/ reserveSlot(t) \/ StoreKey(t) \/ StoreVal(t)
      \/ PublishSlot(t) \/ LoadHeader2(t) \/ unreserveSlot(t)
      \/ triggerResize(t) \/ helpResize(t) \/ helpWithChunks(t)
  BY DEF InlineStep, Get, Put, Delete, Insert
<1> QED BY <1>1, <1>2, <1>3, <1>4, <1>5, <1>6, <1>7

\* The steps keep IInv, whether they are shared or not.
LEMMA InlineStepInv ==
  ASSUME IInv, ValueType, NEW t \in Thread, InlineStep(t)
  PROVE  IInv'
<1>1. CASE SharedLookup(t)
  BY <1>1, LoadActiveInv, LoadHeaderInv, FollowInv, LoadLinksInv, CheckStaleInv DEF SharedLookup
<1>2. CASE SharedLoop(t)
  BY <1>2, LoopHeaderInv, LoopCheckInv, LoopTTASInv DEF SharedLoop
<1>3. CASE SharedInsert(t)
  BY <1>3, ChooseHeaderInv, ChooseLinksInv, allocateInv, attachSingleInv, attachPairInv,
     reserveSlotInv, LoadHeader2Inv, UnreserveLoadInv, UnreserveCASInv DEF SharedInsert
<1>4. CASE OwnCall(t)
  BY <1>4, MatchKeyInv, LoadValInv, AnswerCheckInv, TargetCheckInv, DeleteCASInv, PutHitInv,
     PutMissInv, PutLoopKeyInv, PutLoopValInv, StoreKeyInv, StoreValInv, PublishSlotInv,
     ClearSlotInv DEF OwnCall
<1>5. CASE SharedResize(t)
  BY <1>5, TriggerResizeInv, PublishNextInv, SetResizeContextInv, HelpResizeInv, HelpActiveInv,
     ClaimChunkInv, TransferBinInv, TransferLinksInv, FinishBinInv, ChunkDoneInv,
     FinishCapacityInv, FinishActiveInv, FinishInactiveInv, FinishCtxInv DEF SharedResize
<1>6. CASE transferValidSlots(t)
  BY <1>6, SwapSentinelInv, insertIntoNewIndexInv DEF transferValidSlots
<1> QED BY <1>1, <1>2, <1>3, <1>4, <1>5, <1>6, StepKinds

\* The steps keep the words keys and values.
LEMMA InlineStepWords ==
  ASSUME IInv, ValueType, NEW t \in Thread, InlineStep(t)
  PROVE  ValueType'
<1>1. \/ lookup(t) \/ AnswerCheck(t) \/ TargetCheck(t)
      \/ PutHit(t) \/ PutMiss(t) \/ putLoop(t) \/ DeleteCAS(t)
      \/ chooseInsertSlot(t) \/ reserveSlot(t) \/ StoreKey(t) \/ StoreVal(t)
      \/ PublishSlot(t) \/ LoadHeader2(t) \/ unreserveSlot(t)
      \/ SharedResize(t) \/ transferValidSlots(t)
  BY DEF InlineStep, Get, Put, Delete, Insert, triggerResize, helpResize, helpWithChunks,
     transferBin, completeResize, SharedResize
<1>2. CASE lookup(t) \/ AnswerCheck(t) \/ TargetCheck(t)
  BY <1>2, LookupWords
<1>3. CASE DeleteCAS(t) \/ PutHit(t) \/ PutMiss(t) \/ putLoop(t)
  BY <1>3, SlotWords
<1>4. CASE \/ chooseInsertSlot(t) \/ reserveSlot(t) \/ StoreKey(t) \/ StoreVal(t)
           \/ PublishSlot(t) \/ LoadHeader2(t) \/ unreserveSlot(t)
  BY <1>4, InsertWords
<1>5. CASE SharedResize(t) \/ transferValidSlots(t)
  BY <1>5, TransferWords
<1> QED BY <1>1, <1>2, <1>3, <1>4, <1>5

\* The steps keep the invariant of the resize.
LEMMA InlineStepR ==
  ASSUME IInv, ValueType, RInv, NEW t \in Thread, InlineStep(t)
  PROVE  RInv'
<1>1. CASE SharedLookup(t)
  BY <1>1, ScanR DEF SharedLookup, ScanStep
<1>2. CASE SharedLoop(t)
  BY <1>2, SlotR DEF SharedLoop, SlotStep
<1>3. CASE SharedInsert(t)
  BY <1>3, InsertR DEF SharedInsert, InsertStep
<1>4. CASE OwnCall(t)
  BY <1>4, OwnCallR
<1>5. CASE SharedResize(t)
  BY <1>5, TriggerR, PublishR, SetContextR, HelpR, ClaimR, TransferBinR, MoveR, FinishBinR,
     ChunkDoneR, FinishR DEF SharedResize
<1>6. CASE transferValidSlots(t)
  BY <1>6, TransferR
<1> QED BY <1>1, <1>2, <1>3, <1>4, <1>5, <1>6, StepKinds

\* The steps change no slot and no version of a bin from the OR on.
LEMMA InlineStepFreeze ==
  ASSUME InlineInv, NEW t \in Thread, InlineStep(t)
  PROVE  FreezeInv' /\ Frozen
<1>1. IInv /\ ValueType /\ RInv /\ FreezeInv
  BY DEF InlineInv
<1>2. CASE SharedLookup(t)
  BY <1>1, <1>2, LookupFreeze DEF SharedLookup
<1>3. CASE SharedLoop(t)
  BY <1>1, <1>3, LoopFreeze DEF SharedLoop
<1>4. CASE SharedInsert(t)
  BY <1>1, <1>4, InsertFreeze DEF SharedInsert
<1>5. CASE OwnCall(t) \/ SharedResize(t) \/ transferValidSlots(t)
  BY <1>1, <1>5, OwnFreeze, ResizeFreeze, TransferFreeze
<1> QED BY <1>2, <1>3, <1>4, <1>5, StepKinds

\* A new call has no header, and changes no word of a slot.
LEMMA InlineInvokeFreeze ==
  ASSUME InlineInv, NEW t \in Thread, InlineInvoke(t)
  PROVE  FreezeInv' /\ Frozen /\ ValueType'
<1>1. /\ IInv /\ ValueType /\ RInv /\ FreezeInv /\ pc \in [Thread -> PC]
  BY DEF InlineInv, IInv, BaseType, BaseLocal
<1>2. UNCHANGED <<header, slotKey, slotVal, scan, xfer>> /\ pc'[t] = "active"
  BY <1>1 DEF InlineInvoke, Goto, memory
<1>3. CallFreeze(t)' /\ MoveFreeze(t)'
  BY <1>2, ResizeCalls, CallMoves DEF CallPC
<1>4. Frozen
  BY <1>2 DEF Frozen
<1>5. ValueType'
  BY <1>1, <1>2 DEF ValueType
<1> QED BY <1>1, <1>3, <1>4, <1>5, InlineInvokeInv, FreezeStep

\* The states in which the threads start, after the prefill: 0 is in every empty slot.
LEMMA InlineInitInv == InlineInit => InlineInv
<1> SUFFICES ASSUME InlineInit PROVE InlineInv
  OBVIOUS
<1>1. InitWords
  BY DEF InlineInit, InitWords
<1>2. ASSUME NEW loc \in Loc, PrefillAt(loc) # {}
      PROVE  Prefill[CHOOSE j \in PrefillAt(loc) : TRUE] \in Key
  <2>1. (CHOOSE j \in PrefillAt(loc) : TRUE) \in 1..Len(Prefill)
    BY <1>2 DEF PrefillAt
  <2> QED BY <2>1, CallsAssumption
<1>3. slotKey \in [Loc -> Key] /\ slotVal \in [Loc -> Value]
  BY <1>2, Words DEF InlineInit
<1>4. slotKey \in [Loc -> Nat] /\ slotVal \in [Loc -> Content]
  BY <1>3, Words
<1>5. IInv
  BY <1>1, <1>4, InitBase
<1>6. ValueType
  BY <1>3, Words DEF InlineInit, ValueType, FreshScan, FreshXfer
<1>7. FreezeInv
  <2>1. \A t \in Thread : pc[t] = "idle"
    BY <1>1 DEF InitWords
  <2>2. "idle" \notin TransferPC /\ "idle" \notin HeldPC
    BY PCKinds DEF TransferPC
  <2> QED BY <2>1, <2>2 DEF FreezeInv, CallFreeze, MoveFreeze
<1> QED BY <1>1, <1>5, <1>6, <1>7, InitR DEF InlineInv

\* Every step keeps the invariant and leaves the headers of bins in transfer alone.
LEMMA InlineNextInv == InlineInv /\ [InlineNext]_inlineVars => InlineInv' /\ Frozen
<1> SUFFICES ASSUME InlineInv, [InlineNext]_inlineVars PROVE InlineInv' /\ Frozen
  OBVIOUS
<1>1. IInv /\ ValueType /\ RInv /\ FreezeInv
  BY DEF InlineInv
<1>2. ASSUME NEW t \in Thread, InlineInvoke(t) PROVE InlineInv' /\ Frozen
  BY <1>1, <1>2, InlineInvokeInv, InlineInvokeR, InlineInvokeFreeze DEF InlineInv
<1>3. ASSUME NEW t \in Thread, InlineStep(t) PROVE InlineInv' /\ Frozen
  BY <1>1, <1>3, InlineStepInv, InlineStepWords, InlineStepR, InlineStepFreeze DEF InlineInv
<1>4. ASSUME UNCHANGED vars PROVE InlineInv' /\ Frozen
  <2>1. UNCHANGED <<header, slotKey, slotVal, pc, scan, ins, xfer>>
    BY <1>4 DEF vars
  <2>2. ValueType' /\ Frozen
    BY <1>1, <2>1 DEF ValueType, Frozen
  <2>3. \A t \in Thread : OldBin(t)' = OldBin(t)
    BY <2>1 DEF OldBin
  <2>4. FreezeInv'
    BY <1>1, <2>1, <2>3 DEF FreezeInv, CallFreeze, MoveFreeze
  <2> QED BY <1>1, <1>4, <2>2, <2>4, StutterInv, StutterR DEF InlineInv
<1> QED BY <1>2, <1>3, <1>4 DEF InlineNext, InlineFinished, Finished, inlineVars

\* The invariant holds in every state of the variant.
THEOREM InlineInductive == InlineSpec => []InlineInv
BY InlineInitInv, InlineNextInv, PTL DEF InlineSpec

\* From the OR on, no CAS of an operation changes the header of a bin, so the store of
\* DoneTransfer overwrites nothing: a header that a call holds was loaded before the
\* OR, and the bin does not have it any more.
THEOREM TransferAlwaysFreezes == InlineSpec => TransferFreezes
<1>1. InlineInv /\ [InlineNext]_inlineVars =>
        [\A bin \in BinId : header[bin].bs # BinNoTransfer =>
           header'[bin].ss = header[bin].ss /\ header'[bin].ver = header[bin].ver]_inlineVars
  BY InlineNextInv DEF Frozen
<1> QED BY <1>1, InlineInductive, PTL DEF InlineSpec, TransferFreezes

\* The resize keeps its promises in this variant, too: a bin has one mover, an index
\* that is active has nothing left to move behind it, and nobody looks at a new bin
\* before it is handed over.
THEOREM InlineTransferOwned == InlineSpec => [](TransferOwned /\ ActiveComplete /\ NewBinPrivate)
BY InlineInductive, OwnedR, CompleteR, PrivateR, PTL DEF InlineInv

\* No operation of this variant follows a nil index, and every slot in use has a bucket.
THEOREM InlineAlwaysBacked == InlineSpec => [](SuccessorPublished /\ SlotsBacked)
BY InlineInductive, PublishedInv, BackedInv, PTL DEF InlineInv

-----------------------------------------------------------------------------
(* The type of the history.                                                *)

\* A configuration of which the pending calls are calls
SoundConfig == {c \in Config : \A t \in Thread : c.ans[t] = Pending => call[t] \in CallRec}
SoundHist == \A k \in Key : hist[k] \subseteq SoundConfig

\* What one more round of Extensions finds
More(C) == C \cup UNION {Extended(c) : c \in C}

Rounds(g, N, C) == g = [n \in 0..N |-> IF n = 0 THEN C ELSE More(g[n - 1])]

\* The recursive function of Extensions exists, whatever the number of threads.
LEMMA MoreFcn ==
  ASSUME NEW N \in Nat, NEW C
  PROVE  \E g : Rounds(g, N, C)
<1> DEFINE Has(n) == \E g : Rounds(g, n, C)
           Bad == {n \in 0..N : ~Has(n)}
<1> SUFFICES ASSUME Bad # {} PROVE FALSE
  <2>1. N \notin Bad => Has(N)
    OBVIOUS
  <2> QED BY <2>1
<1>1. PICK m \in Bad : \A n \in Bad : m <= n
  <2>1. Bad \subseteq Nat
    OBVIOUS
  <2> HIDE DEF Bad
  <2> QED BY <2>1, HasLeast
<1>2. Has(0)
  <2> DEFINE g == [i \in 0..0 |-> C]
  <2>1. g = [i \in 0..0 |-> IF i = 0 THEN C ELSE More(g[i - 1])]
    OBVIOUS
  <2> HIDE DEF g
  <2> QED BY <2>1 DEF Rounds
<1>3. m \in Nat /\ m # 0 /\ m - 1 \in 0..N
  <2>1. m \in 0..N /\ ~Has(m)
    OBVIOUS
  <2> HIDE DEF Has
  <2>2. m # 0
    BY <1>2, <2>1
  <2> QED BY <2>1, <2>2
<1>4. Has(m - 1)
  BY <1>1, <1>3
<1>5. PICK g : Rounds(g, m - 1, C)
  BY <1>4
<1>6. g = [i \in 0..(m - 1) |-> IF i = 0 THEN C ELSE More(g[i - 1])]
  BY <1>5 DEF Rounds
<1> DEFINE h == [i \in 0..m |-> IF i = m THEN More(g[m - 1]) ELSE g[i]]
<1>7. ASSUME NEW i \in 0..m PROVE h[i] = IF i = 0 THEN C ELSE More(h[i - 1])
  <2>1. CASE i = m
    BY <1>3, <2>1
  <2>2. CASE i # m
    <3>1. i \in 0..(m - 1) /\ h[i] = g[i] /\ (i # 0 => h[i - 1] = g[i - 1])
      BY <1>3, <2>2
    <3>2. g[i] = IF i = 0 THEN C ELSE More(g[i - 1])
      BY <1>6, <3>1
    <3> QED BY <3>1, <3>2
  <2> QED BY <2>1, <2>2
<1>8. h = [i \in 0..m |-> IF i = 0 THEN C ELSE More(h[i - 1])]
  <2>1. h = [i \in 0..m |-> h[i]]
    OBVIOUS
  <2> HIDE DEF h
  <2> QED BY <1>7, <2>1
<1>9. Has(m)
  <2> HIDE DEF h
  <2> QED BY <1>8 DEF Rounds
<1> QED BY <1>1, <1>9

\* A call that takes effect leaves a configuration, and an answer.
LEMMA ExtendedSound ==
  ASSUME NEW C \in SUBSET SoundConfig
  PROVE  More(C) \subseteq SoundConfig
<1> SUFFICES ASSUME NEW c \in C, NEW d \in Extended(c) PROVE d \in SoundConfig
  BY DEF More
<1>1. c \in Config /\ \A t \in Thread : c.ans[t] = Pending => call[t] \in CallRec
  BY DEF SoundConfig
<1>2. PICK t \in Thread : /\ c.ans[t] = Pending
                          /\ d = [val |-> Atomic(call[t], c.val).val,
                                  ans |-> [c.ans EXCEPT ![t] = Atomic(call[t], c.val).ans]]
  BY DEF Extended
<1> DEFINE a == Atomic(call[t], c.val)
<1>3. call[t] \in CallRec /\ c.val \in Value \cup {Absent}
      /\ c.ans \in [Thread -> Answer \cup {Pending, NoCall}]
  BY <1>1, <1>2 DEF Config
<1>4. a.val \in Value \cup {Absent} /\ a.ans \in Answer
  <2>1. call[t].kind \in Kind /\ call[t].val \in Value
    BY <1>3 DEF CallRec
  <2>2. CASE call[t].kind = "Get"
    BY <1>3, <2>1, <2>2 DEF Atomic, Answer
  <2>3. CASE call[t].kind = "Insert"
    BY <1>3, <2>1, <2>3 DEF Atomic, Answer
  <2>4. CASE call[t].kind = "Put"
    BY <1>3, <2>1, <2>4 DEF Atomic, Answer
  <2>5. CASE call[t].kind = "Delete"
    BY <1>3, <2>1, <2>5 DEF Atomic, Answer
  <2> QED BY <2>1, <2>2, <2>3, <2>4, <2>5 DEF Kind
<1> HIDE DEF a
<1>5. d = [val |-> a.val, ans |-> [c.ans EXCEPT ![t] = a.ans]]
  BY <1>2 DEF a
<1>6. d \in Config
  BY <1>3, <1>4, <1>5 DEF Config
<1>7. a.ans # Pending
  BY <1>4, MarkerAssumption DEF Answer
<1>8. \A u \in Thread : d.ans[u] = Pending => c.ans[u] = Pending
  BY <1>3, <1>5, <1>7
<1> QED BY <1>1, <1>6, <1>8 DEF SoundConfig

\* Any number of calls take effect.
LEMMA ExtensionsSound ==
  ASSUME NEW C \in SUBSET SoundConfig
  PROVE  Extensions(C) \subseteq SoundConfig
<1> DEFINE N == Cardinality(Thread)
           f == CHOOSE g : Rounds(g, N, C)
           Bad == {n \in 0..N : ~(f[n] \subseteq SoundConfig)}
<1>1. N \in Nat
  BY InlineAssumption, FS_CardinalityType
<1>2. Extensions(C) = f[N]
  BY DEF Extensions, More, Rounds
<1> HIDE DEF N
<1>3. f = [n \in 0..N |-> IF n = 0 THEN C ELSE More(f[n - 1])]
  <2>1. Rounds(f, N, C)
    BY <1>1, MoreFcn
  <2> HIDE DEF f
  <2> QED BY <2>1 DEF Rounds
<1> HIDE DEF f
<1>4. ASSUME Bad # {} PROVE FALSE
  <2>1. PICK m \in Bad : \A n \in Bad : m <= n
    <3>1. Bad \subseteq Nat
      OBVIOUS
    <3> HIDE DEF Bad
    <3> QED BY <1>4, <3>1, HasLeast
  <2>2. f[0] = C
    BY <1>1, <1>3
  <2>3. m \in 0..N /\ m # 0
    BY <2>2
  <2>4. m - 1 \in 0..N /\ m - 1 \notin Bad
    <3>1. m - 1 \in 0..N /\ ~(m <= m - 1)
      BY <1>1, <2>3
    <3> HIDE DEF Bad
    <3> QED BY <2>1, <3>1
  <2>5. f[m] = More(f[m - 1])
    BY <1>3, <2>3
  <2>6. f[m - 1] \subseteq SoundConfig
    BY <2>4
  <2>7. ~(f[m] \subseteq SoundConfig)
    OBVIOUS
  <2> QED BY <2>5, <2>6, <2>7, ExtendedSound
<1> QED BY <1>1, <1>2, <1>4

\* Who makes a call: the thread that starts one.
LEMMA CallsFrame ==
  ASSUME InlineInv, NEW t \in Thread, InlineInvoke(t) \/ InlineStep(t)
  PROVE  \A u \in Thread : /\ call[u] \in CallRec => call'[u] \in CallRec
                           /\ calls'[u] # calls[u] => call'[u] \in CallRec
<1>1. IInv /\ ValueType /\ calls \in [Thread -> Nat]
  BY DEF InlineInv, IInv, BaseType, ApiType
<1>2. CASE InlineInvoke(t)
  <2>1. OthersSame(t) /\ IInv'
    BY <1>1, <1>2, InlineInvokeInv
  <2>2. pc'[t] = "active"
    BY <1>1, <1>2 DEF InlineInvoke, Goto, IInv, BaseType, BaseLocal
  <2>3. call'[t] \in CallRec
    BY <2>1, <2>2 DEF IInv, ThreadInv
  <2>4. \A u \in Thread \ {t} : call'[u] = call[u] /\ calls'[u] = calls[u]
    BY <1>1, <1>2 DEF InlineInvoke, IInv, BaseType, ApiType
  <2> QED BY <2>3, <2>4
<1>3. CASE InlineStep(t)
  <2>1. UNCHANGED <<call, calls>>
    <3>1. CASE SharedLookup(t) \/ SharedLoop(t)
      BY <3>1 DEF SharedLookup, SharedLoop, LoadActive, LoadHeader, Follow, LoadLinks, CheckStale,
         LoopHeader, LoopCheck, LoopTTAS, api
    <3>2. CASE SharedInsert(t)
      BY <3>2 DEF SharedInsert, ChooseHeader, ChooseLinks, allocateLink, allocateLinkPair, Allocate,
         attachSingle, attachPair, reserveSlot, LoadHeader2, UnreserveLoad, UnreserveCAS, api
    <3>3. CASE OwnCall(t)
      BY <3>3 DEF OwnCall, MatchKey, LoadVal, AnswerCheck, TargetCheck, DeleteCAS, PutHit, PutMiss,
         PutLoopKey, PutLoopVal, StoreKey, StoreVal, PublishSlot, ClearSlot, api
    <3>4. CASE SharedResize(t)
      BY <3>4 DEF SharedResize, TriggerResize, PublishNext, SetResizeContext, HelpResize, HelpActive,
         ClaimChunk, TransferBin, TransferLinks, FinishBin, ChunkDone, FinishCapacity, FinishActive,
         FinishInactive, FinishCtx, api
    <3>5. CASE transferValidSlots(t)
      BY <3>5 DEF transferValidSlots, SwapSentinel, insertIntoNewIndex, api
    <3> QED BY <1>3, <3>1, <3>2, <3>3, <3>4, <3>5, StepKinds
  <2> QED BY <2>1
<1> QED BY <1>2, <1>3

\* The configurations with the answers of some calls replaced
Marked(C, S, a) == {[c EXCEPT !.ans = [t \in Thread |-> IF t \in S THEN a ELSE @[t]]] : c \in C}

\* A set of configurations in which some calls are marked.
LEMMA MarkSound ==
  ASSUME NEW C \in SUBSET SoundConfig, NEW S \in SUBSET Thread, NEW a \in Answer \cup {Pending, NoCall},
         \A t \in Thread : call[t] \in CallRec => call'[t] \in CallRec,
         a = Pending => \A t \in S : call'[t] \in CallRec
  PROVE  Marked(C, S, a) \subseteq SoundConfig'
<1> SUFFICES ASSUME NEW c \in C
             PROVE  [c EXCEPT !.ans = [t \in Thread |-> IF t \in S THEN a ELSE @[t]]] \in SoundConfig'
  BY DEF Marked
<1>1. /\ c \in Config /\ c.val \in Value \cup {Absent} /\ c = [val |-> c.val, ans |-> c.ans]
      /\ c.ans \in [Thread -> Answer \cup {Pending, NoCall}]
      /\ \A t \in Thread : c.ans[t] = Pending => call[t] \in CallRec
  BY DEF SoundConfig, Config
<1> DEFINE m == [t \in Thread |-> IF t \in S THEN a ELSE c.ans[t]]
<1>2. [c EXCEPT !.ans = [t \in Thread |-> IF t \in S THEN a ELSE @[t]]] = [val |-> c.val, ans |-> m]
  BY <1>1
<1>3. m \in [Thread -> Answer \cup {Pending, NoCall}]
  BY <1>1
<1>4. \A t \in Thread : m[t] = Pending => call'[t] \in CallRec
  BY <1>1
<1> HIDE DEF m
<1>5. [val |-> c.val, ans |-> m] \in Config
  BY <1>1, <1>3 DEF Config
<1> QED BY <1>2, <1>4, <1>5 DEF SoundConfig

\* What Record keeps of a key's linearizations is of their type.
LEMMA RecordSound ==
  ASSUME InlineInv, SoundHist, NEW t \in Thread, InlineInvoke(t) \/ InlineStep(t), Record
  PROVE  SoundHist'
<1> SUFFICES ASSUME NEW k \in Key PROVE hist'[k] \subseteq SoundConfig'
  BY DEF SoundHist
<1> DEFINE asked == {u \in Thread : calls'[u] # calls[u] /\ call'[u].key = k}
           answered == {u \in Thread : res[u] = Pending /\ res'[u] # Pending /\ call[u].key = k}
           kept == {c \in Extensions(hist[k]) : \A u \in answered : c.ans[u] = res'[u]}
<1>1. hist'[k] = IF asked # {} THEN Marked(hist[k], asked, Pending)
                 ELSE IF answered # {} THEN Marked(kept, answered, NoCall) ELSE hist[k]
  BY DEF Record, Marked
<1>2. /\ \A u \in Thread : call[u] \in CallRec => call'[u] \in CallRec
      /\ \A u \in asked : call'[u] \in CallRec
  BY CallsFrame
<1>3. hist[k] \subseteq SoundConfig
  BY DEF SoundHist
<1>4. kept \subseteq SoundConfig
  BY <1>3, ExtensionsSound
<1>5. asked \subseteq Thread /\ answered \subseteq Thread
  OBVIOUS
<1> HIDE DEF asked, answered, kept
<1>6. Marked(hist[k], asked, Pending) \subseteq SoundConfig'
  BY <1>2, <1>3, <1>5, MarkSound
<1>7. Marked(kept, answered, NoCall) \subseteq SoundConfig'
  BY <1>2, <1>4, <1>5, InlineAssumption, MarkSound
<1>8. hist[k] \subseteq SoundConfig'
  BY <1>2, <1>3 DEF SoundConfig
<1> QED BY <1>1, <1>6, <1>7, <1>8

\* Type correctness of the variant, for every instance: keys and values in the slots,
\* also when a Delete left them there or a transfer put a sentinel over them, and
\* configurations in the history, whatever the number of overlapping calls.
THEOREM InlineTypeCorrect == InlineSpec => []InlineTypeOK
<1>1. InlineInit => SoundHist
  <2> SUFFICES ASSUME InlineInit PROVE SoundHist
    OBVIOUS
  <2>1. map \in [Key -> Value \cup {Absent}]
    BY InlineInitInv DEF InlineInv, IInv, BaseType, ApiType
  <2>2. \A k \in Key : hist[k] = {[val |-> map[k], ans |-> [t \in Thread |-> NoCall]]}
    BY DEF InlineInit
  <2> SUFFICES ASSUME NEW k \in Key
               PROVE  [val |-> map[k], ans |-> [t \in Thread |-> NoCall]] \in SoundConfig
    BY <2>2 DEF SoundHist
  <2> DEFINE none == [t \in Thread |-> NoCall]
  <2>3. none \in [Thread -> Answer \cup {Pending, NoCall}] /\ \A t \in Thread : none[t] # Pending
    BY InlineAssumption
  <2> HIDE DEF none
  <2>4. [val |-> map[k], ans |-> none] \in Config
    BY <2>1, <2>3 DEF Config
  <2>5. [val |-> map[k], ans |-> none].ans = none
    OBVIOUS
  <2>6. [val |-> map[k], ans |-> none] \in SoundConfig
    BY <2>3, <2>4, <2>5 DEF SoundConfig
  <2> QED BY <2>6 DEF none
<1>2. InlineInv /\ SoundHist /\ [InlineNext]_inlineVars => SoundHist'
  <2> SUFFICES ASSUME InlineInv, SoundHist, [InlineNext]_inlineVars PROVE SoundHist'
    OBVIOUS
  <2>1. ASSUME NEW t \in Thread, InlineInvoke(t) \/ InlineStep(t), Record PROVE SoundHist'
    BY <2>1, RecordSound
  <2>2. ASSUME UNCHANGED inlineVars PROVE SoundHist'
    BY <2>2 DEF inlineVars, vars, api, SoundHist, SoundConfig
  <2> QED BY <2>1, <2>2 DEF InlineNext, InlineFinished, Finished, inlineVars
<1>3. InlineInv /\ SoundHist => InlineTypeOK
  <2> SUFFICES ASSUME InlineInv, SoundHist PROVE InlineTypeOK
    OBVIOUS
  <2>1. /\ BaseMemory /\ RootType /\ ApiType /\ BaseLocal
        /\ slotKey \in [Loc -> Key] /\ slotVal \in [Loc -> Value]
    BY DEF InlineInv, IInv, BaseType, ValueType
  <2>2. \A t \in Thread : scan[t] \in [idx : Gen \cup {NoGen}, h : Header, grp : 0..3, lm : LinkMeta,
            bm : SUBSET SlotIdx, ent : Value \cup {Nil}, slot : SlotIdx \cup {NoSlot}]
    <3> SUFFICES ASSUME NEW t \in Thread
                 PROVE  scan[t] \in [idx : Gen \cup {NoGen}, h : Header, grp : 0..3, lm : LinkMeta,
                           bm : SUBSET SlotIdx, ent : Value \cup {Nil}, slot : SlotIdx \cup {NoSlot}]
      OBVIOUS
    <3>1. scan[t] \in BaseScan /\ scan[t].ent \in Value \cup {Nil}
      BY <2>1 DEF BaseLocal, InlineInv, ValueType
    <3> QED BY <3>1 DEF BaseScan
  <2>3. \A k \in Key : \A c \in hist[k] : c \in Config
    BY DEF SoundHist, SoundConfig
  <2> QED BY <2>1, <2>2, <2>3 DEF InlineTypeOK, BaseMemory, BaseLocal
<1> QED BY <1>1, <1>2, <1>3, InlineInductive, PTL DEF InlineSpec
=============================================================================
