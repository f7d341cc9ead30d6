----------------------------- MODULE InlineMap -----------------------------
(***************************************************************************)
(* The variant of the map in src/inline: a slot holds an integer key and   *)
(* an integer value instead of a hash and a pointer to an entry.  Bins,    *)
(* headers, links, reservation and the resize are those of AllocatorMap,   *)
(* whose actions are used here; what differs is in this module:            *)
(*   - slotKey is the key itself and slotVal the value, InitVal being the  *)
(*     word 0: it is what prefilled keys have and what an empty slot has;  *)
(*   - Delete is one CAS on the header and leaves the slot's words alone,  *)
(*     so a Put may still hit them after the Delete;                       *)
(*   - the sentinel of the transfer is a key that callers may use.         *)
(* Values are not unique to a call, so the linearization point of a Put    *)
(* cannot be read off its step: hist keeps every possible linearization.   *)
(***************************************************************************)
EXTENDS AllocatorMap

CONSTANT Reused             \* [{"Insert", "Put"} -> SUBSET Value]: the values that such a
                            \* call may carry apart from one that was never used before

VARIABLE hist               \* history: for every key the states an atomic map could be in

inlineVars == <<vars, hist>>

\* A key is a word, so there is a largest one, and 0 is one; a lookup tells a value
\* from none; findSentinels finds a sentinel of either parity; hist counts threads, and
\* tells a pending call from none
ASSUME InlineAssumption ==
  /\ IsFiniteSet(Thread) /\ Pending # NoCall
  /\ 0 \in Key /\ Nil \notin Value
  /\ \E n \in Key : n \in Nat /\ Key \subseteq 0..n
  /\ Reused \in [{"Insert", "Put"} -> SUBSET Value]
  /\ \E k, l \in Key : Hash[k] % 2 = 1 /\ Hash[l] % 2 = 0

-----------------------------------------------------------------------------
(* The linearizations of the calls on one key.  A configuration is a value *)
(* of the key and, for every running call, Pending or the answer that the  *)
(* call got when it was put into the sequence.                             *)

Config == [val : Value \cup {Absent}, ans : [Thread -> Answer \cup {Pending, NoCall}]]

\* What the atomic map does with call c on a key of value v
Atomic(c, v) ==
  LET there == v # Absent IN
  CASE c.kind = "Get"    -> [ans |-> [val |-> v, ok |-> there], val |-> v]
    [] c.kind = "Insert" -> [ans |-> [val |-> v, ok |-> ~there], val |-> IF there THEN v ELSE c.val]
    [] c.kind = "Put"    -> [ans |-> [val |-> v, ok |-> there], val |-> IF there THEN c.val ELSE v]
    [] c.kind = "Delete" -> [ans |-> [val |-> Absent, ok |-> there], val |-> Absent]

\* One more running call takes effect
Extended(c) ==
  {LET a == Atomic(call[t], c.val) IN [val |-> a.val, ans |-> [c.ans EXCEPT ![t] = a.ans]]
     : t \in {u \in Thread : c.ans[u] = Pending}}
\* Any number of them do, in any order
Extensions(C) ==
  LET f[n \in 0..Cardinality(Thread)] ==
        IF n = 0 THEN C ELSE f[n - 1] \cup UNION {Extended(c) : c \in f[n - 1]}
  IN  f[Cardinality(Thread)]

\* A call is pending from its step Invoke on; when it is answered, it must
\* have taken effect with that answer
Record ==
  hist' = [k \in Key |->
    LET asked == {t \in Thread : calls'[t] # calls[t] /\ call'[t].key = k}
        answered == {t \in Thread : res[t] = Pending /\ res'[t] # Pending /\ call[t].key = k}
        kept == {c \in Extensions(hist[k]) : \A t \in answered : c.ans[t] = res'[t]}
        mark(C, S, a) == {[c EXCEPT !.ans = [t \in Thread |-> IF t \in S THEN a ELSE @[t]]] : c \in C}
    IN  IF asked # {} THEN mark(hist[k], asked, Pending)
        ELSE IF answered # {} THEN mark(kept, answered, NoCall) ELSE hist[k]]

-----------------------------------------------------------------------------
(* Keys, hashes and sentinels.                                             *)

\* findSentinels counts down from the largest key
sentinel(parity) ==
  LET with == {k \in Key : Hash[k] % 2 = parity} IN CHOOSE k \in with : \A l \in with : l <= k
SentinelForEvenBins == sentinel(1)
SentinelForOddBins == sentinel(0)

TransferSentinelSame(b) == SentinelForEvenBins         \* mutant: one sentinel for all bins
TransferSentinel(b) == IF b % 2 = 0 THEN SentinelForEvenBins ELSE SentinelForOddBins

\* New, and the keys inserted before the threads start
InlineInit ==
  /\ header = [bin \in BinId |->
       [ver |-> (2 * Cardinality(PrefillIn(bin))) % VersionMod, bs |-> BinNoTransfer,
        ss |-> [i \in SlotIdx |-> IF i < Cardinality(PrefillIn(bin)) THEN SlotValid
                                                                     ELSE SlotInvalid]]]
  /\ linkMeta = [bin \in BinId |-> PrefillMeta(bin)]
  /\ slotKey = [loc \in Loc |-> IF PrefillAt(loc) = {} THEN 0
                                ELSE Prefill[CHOOSE j \in PrefillAt(loc) : TRUE]]
  /\ slotVal = [loc \in Loc |-> InitVal]
  /\ active = 0
  /\ indexNext = [g \in Gen |-> NoGen]
  /\ \E bin \in BinId : /\ \A other \in BinId : LinksUsed(other) <= LinksUsed(bin)
                        /\ linkNext = [g \in Gen |-> IF g = 0 THEN LinksUsed(bin) ELSE 0]
  /\ linkCapacity = [g \in Gen |-> NumLinks[g]]
  /\ resizeCtx = NoCtx
  /\ ctx = [g \in Gen |-> FreshCtx(g)]
  /\ pc = [t \in Thread |-> "idle"]
  /\ call = [t \in Thread |-> NoCall]
  /\ res = [t \in Thread |-> [val |-> Absent, ok |-> FALSE]]
  /\ calls = [t \in Thread |-> 0]
  /\ map = [k \in Key |-> IF \E j \in 1..Len(Prefill) : Prefill[j] = k THEN InitVal ELSE Absent]
  /\ seen = [t \in Thread |-> {}]
  /\ scan = [t \in Thread |-> FreshScan(0)]
  /\ ins = [t \in Thread |-> FreshIns]
  /\ xfer = [t \in Thread |-> FreshXfer]
  /\ hist = [k \in Key |-> {[val |-> map[k], ans |-> [t \in Thread |-> NoCall]]}]

InlineInvoke(t) ==
  /\ pc[t] = "idle"
  /\ calls[t] < MaxCalls[t]
  /\ \E c \in Calls[t] :
     \E v \in {<<t, calls[t] + 1>>} \cup (IF c.kind \in DOMAIN Reused THEN Reused[c.kind] ELSE {}) :
       call' = [call EXCEPT ![t] = [kind |-> c.kind, key |-> c.key, val |-> v]]
  /\ calls' = [calls EXCEPT ![t] = @ + 1]
  /\ res' = [res EXCEPT ![t] = Pending]
  /\ Goto(t, "active")
  /\ UNCHANGED <<memory, arena, roots, map, seen, scan, ins, xfer>>

-----------------------------------------------------------------------------
(* The lookup.  Keys are compared directly, and the first Valid slot of a  *)
(* bucket that has the key ends it: its value is loaded (Delete drops it). *)

MatchKey(t) ==
  LET match == {i \in validMask(scan[t].h, scan[t].grp) : slotKey[SlotLoc(Bin(t), i)] = call[t].key}
  IN  /\ pc[t] = "match"
      /\ ScanOn(t, IF match = {} THEN {} ELSE {Lowest(match)}, scan[t].lm)
      /\ UNCHANGED <<memory, arena, roots, api, ins, xfer>>

LoadVal(t) ==
  LET i == Lowest(scan[t].bm) IN
  /\ pc[t] = "probe"
  /\ scan' = [scan EXCEPT ![t] = Found(t, i, slotVal[SlotLoc(Bin(t), i)])]
  /\ Goto(t, "check")
  /\ UNCHANGED <<memory, arena, roots, api, ins, xfer>>

scanLinksForKey(t) == LoadLinks(t)
lookup(t) == \/ LoadActive(t) \/ LoadHeader(t) \/ Follow(t)
             \/ MatchKey(t) \/ LoadVal(t) \/ scanLinksForKey(t) \/ CheckStale(t)

\* The header is the one the lookup began with.  ent is Nil if no slot has the
\* key: the answer of Get, of an Insert that is too late, of a failing Put or Delete
AnswerUnchecked(t) ==                                  \* mutant: any header will do
  LET v == scan[t].ent IN
  /\ pc[t] = "check"
  /\ call[t].kind \in {"Get", "Insert"} \/ v = Nil
  /\ Reply(t, IF v = Nil THEN Absent ELSE v, call[t].kind = "Get" /\ v # Nil)
  /\ IF Reserved(t) THEN Goto(t, "unres") /\ KeepSlot(t)
     ELSE Goto(t, "idle") /\ scan' = [scan EXCEPT ![t] = FreshScan(0)]
  /\ UNCHANGED <<memory, arena, roots, call, calls, map, seen, ins, xfer>>
AnswerCheck(t) ==
  LET v == scan[t].ent IN
  /\ pc[t] = "check" /\ Validated(t)
  /\ call[t].kind \in {"Get", "Insert"} \/ v = Nil
  /\ Reply(t, IF v = Nil THEN Absent ELSE v, call[t].kind = "Get" /\ v # Nil)
  /\ IF Reserved(t) THEN Goto(t, "unres") /\ KeepSlot(t)
     ELSE Goto(t, "idle") /\ scan' = [scan EXCEPT ![t] = FreshScan(0)]
  /\ UNCHANGED <<memory, arena, roots, call, calls, map, seen, ins, xfer>>

TargetCheck(t) ==
  /\ pc[t] = "check" /\ Validated(t)
  /\ call[t].kind \in {"Put", "Delete"} /\ scan[t].ent # Nil
  /\ Goto(t, IF call[t].kind = "Put" THEN "dwcas" ELSE "mark")
  /\ UNCHANGED <<memory, arena, roots, api, scan, ins, xfer>>

-----------------------------------------------------------------------------
(* Delete and Put.                                                         *)

\* mutant: the slot is cleared in whatever the header is by now, as the other
\* variant's Delete does it
DeleteAnd(t) ==
  /\ pc[t] = "mark"
  /\ header' = [header EXCEPT ![Bin(t)].ss[scan[t].slot] = SlotInvalid]
  /\ Reply(t, Absent, TRUE)
  /\ Effect(t, Absent)
  /\ Goto(t, "idle")
  /\ scan' = [scan EXCEPT ![t] = FreshScan(0)]
  /\ UNCHANGED <<linkMeta, slotKey, slotVal, arena, roots, call, calls, seen, ins, xfer>>
\* mutant: a CAS that fails is tried again with the same header
DeleteStuck(t) ==
  /\ pc[t] = "mark"
  /\ \/ /\ Validated(t)
        /\ header' = [header EXCEPT ![Bin(t)] =
                        setSlotStateAndVersion(scan[t].h, scan[t].slot, SlotInvalid)]
        /\ Reply(t, Absent, TRUE)
        /\ Effect(t, Absent)
        /\ Goto(t, "idle")
        /\ scan' = [scan EXCEPT ![t] = FreshScan(0)]
        /\ UNCHANGED <<linkMeta, slotKey, slotVal, arena, roots, call, calls, seen, ins, xfer>>
     \/ ~Validated(t) /\ UNCHANGED vars
\* The CAS that makes the slot Invalid; key and value stay in it
DeleteCAS(t) ==
  /\ pc[t] = "mark"
  /\ \/ /\ Validated(t)
        /\ header' = [header EXCEPT ![Bin(t)] =
                        setSlotStateAndVersion(scan[t].h, scan[t].slot, SlotInvalid)]
        /\ Reply(t, Absent, TRUE)
        /\ Effect(t, Absent)
        /\ Goto(t, "idle")
        /\ scan' = [scan EXCEPT ![t] = FreshScan(0)]
        /\ UNCHANGED <<linkMeta, slotKey, slotVal, arena, roots, call, calls, seen, ins, xfer>>
     \/ /\ ~Validated(t) /\ Retry(t)
        /\ UNCHANGED <<memory, arena, roots, api, ins, xfer>>

\* The words that the DWCAS of Put compares
Hit(t) == slotKey[OpLoc(t)] = call[t].key /\ slotVal[OpLoc(t)] = scan[t].ent
Live(t) == header[Bin(t)].ss[scan[t].slot] = SlotValid

\* The map changes only if the slot still counts.  Otherwise a Delete that
\* overlaps the Put has made it Invalid, and Put takes effect before it
PutHit(t) ==
  /\ pc[t] = "dwcas" /\ Hit(t)
  /\ slotVal' = [slotVal EXCEPT ![OpLoc(t)] = call[t].val]
  /\ Reply(t, scan[t].ent, TRUE)
  /\ IF Live(t) THEN Effect(t, call[t].val) ELSE UNCHANGED map
  /\ Goto(t, "idle")
  /\ scan' = [scan EXCEPT ![t] = FreshScan(0)]
  /\ UNCHANGED <<header, linkMeta, slotKey, arena, roots, call, calls, seen, ins, xfer>>

PutMiss(t) ==
  /\ pc[t] = "dwcas" /\ ~Hit(t)
  /\ Goto(t, "loop") /\ KeepSlot(t)
  /\ UNCHANGED <<memory, arena, roots, api, ins, xfer>>

PutLoopKey(t) ==
  /\ pc[t] = "loopKey"
  /\ IF slotKey[OpLoc(t)] = call[t].key THEN Goto(t, "loopVal") /\ UNCHANGED scan ELSE Retry(t)
  /\ UNCHANGED <<memory, arena, roots, api, ins, xfer>>

PutLoopVal(t) ==
  /\ pc[t] = "loopVal"
  /\ Goto(t, "loopCheck") /\ scan' = [scan EXCEPT ![t].ent = slotVal[OpLoc(t)]]
  /\ UNCHANGED <<memory, arena, roots, api, ins, xfer>>

\* LoopHeader looks at the slot's state only, LoopCheck compares the header
\* with it, LoopTTAS the value
putLoop(t) == LoopHeader(t) \/ PutLoopKey(t) \/ PutLoopVal(t) \/ LoopCheck(t) \/ LoopTTAS(t)

-----------------------------------------------------------------------------
(* Insert.                                                                 *)

attachNewSingle(t) == allocateLink(t) \/ attachSingle(t)
attachNewPair(t) == allocateLinkPair(t) \/ attachPair(t)
chooseInsertSlot(t) == ChooseHeader(t) \/ ChooseLinks(t) \/ attachNewSingle(t) \/ attachNewPair(t)

StoreKey(t) ==
  /\ pc[t] = "fillKey"
  /\ IF HasSlot(linkMeta[Bin(t)], scan[t].slot)
     THEN /\ slotKey' = [slotKey EXCEPT ![OpLoc(t)] = call[t].key]
          /\ Goto(t, "fillVal") /\ UNCHANGED ins
     ELSE /\ ins' = [ins EXCEPT ![t].cont = "load"]
          /\ Goto(t, "unres") /\ UNCHANGED slotKey
  /\ UNCHANGED <<header, linkMeta, slotVal, arena, roots, api, scan, xfer>>

StoreVal(t) ==
  /\ pc[t] = "fillVal"
  /\ slotVal' = [slotVal EXCEPT ![OpLoc(t)] = call[t].val]
  /\ Goto(t, "finalize")
  /\ UNCHANGED <<header, linkMeta, slotKey, arena, roots, api, scan, ins, xfer>>

\* The CAS that makes the slot Valid, from the header the lookup used
PublishSlot(t) ==
  /\ pc[t] = "finalize"
  /\ \/ /\ Validated(t)
        /\ header' = [header EXCEPT ![Bin(t)] =
                        setSlotStateAndVersion(scan[t].h, scan[t].slot, SlotValid)]
        /\ Reply(t, Absent, TRUE)
        /\ Effect(t, call[t].val)
        /\ Goto(t, "idle")
        /\ scan' = [scan EXCEPT ![t] = FreshScan(0)]
        /\ UNCHANGED <<linkMeta, slotKey, slotVal, arena, roots, call, calls, seen, ins, xfer>>
     \/ /\ ~Validated(t)
        /\ Goto(t, "load2") /\ KeepSlot(t)
        /\ UNCHANGED <<memory, arena, roots, api, ins, xfer>>

\* unreserveSlot sets both words to 0
ClearSlot(t) ==
  /\ pc[t] = "unresClear"
  /\ IF HasSlot(linkMeta[Bin(t)], scan[t].slot)
     THEN /\ slotKey' = [slotKey EXCEPT ![OpLoc(t)] = 0]
          /\ slotVal' = [slotVal EXCEPT ![OpLoc(t)] = InitVal]
     ELSE UNCHANGED <<slotKey, slotVal>>
  /\ Goto(t, "unresCAS")
  /\ UNCHANGED <<header, linkMeta, arena, roots, api, scan, ins, xfer>>
unreserveSlot(t) == UnreserveLoad(t) \/ ClearSlot(t) \/ UnreserveCAS(t)

-----------------------------------------------------------------------------
(* The resize.                                                             *)

triggerResize(t) == TriggerResize(t) \/ PublishNext(t) \/ SetResizeContext(t)
helpResize(t) == HelpResize(t) \/ HelpActive(t)

\* After slot i of the old bin
afterSlot(rest, i) ==
  IF rest # {} THEN "sentinel" ELSE IF i < PRIMARY_SLOTS THEN "xlinks" ELSE "xdone"

\* mutant: no sentinel is stored over the key
LeaveKey(t) ==
  /\ pc[t] = "sentinel"
  /\ xfer' = [xfer EXCEPT ![t].key = slotKey[SlotLoc(OldBin(t), Lowest(xfer[t].todo))]]
  /\ Goto(t, "move")
  /\ UNCHANGED <<memory, arena, roots, api, scan, ins>>
\* transferValidSlots: a slot that has the sentinel already is passed over
SwapSentinel(t) ==
  LET i == Lowest(xfer[t].todo)
      loc == SlotLoc(OldBin(t), i)
      rest == xfer[t].todo \ {i}
  IN  /\ pc[t] = "sentinel"
      /\ IF slotKey[loc] = TransferSentinel(xfer[t].bin)
         THEN /\ xfer' = [xfer EXCEPT ![t].todo = rest]
              /\ Goto(t, afterSlot(rest, i)) /\ UNCHANGED slotKey
         ELSE /\ xfer' = [xfer EXCEPT ![t].key = slotKey[loc]]
              /\ slotKey' = [slotKey EXCEPT ![loc] = TransferSentinel(xfer[t].bin)]
              /\ Goto(t, "move")
      /\ UNCHANGED <<header, linkMeta, slotVal, arena, roots, api, scan, ins>>

freeInNewBin(g, k) == findFreeSlotOrChain(g, getBin(g + 1, Hash[k]))

\* The value is loaded after the sentinel is stored, and key and value go into
\* the new bin, which is still private
insertIntoNewIndex(t) ==
  LET i == Lowest(xfer[t].todo)
      rest == xfer[t].todo \ {i}
      g == xfer[t].gen
      new == getBin(g + 1, Hash[xfer[t].key])
      free == freeInNewBin(g, xfer[t].key)
      loc == LocVia(free.lm, new, free.slot)
  IN  /\ pc[t] = "move" /\ free.slot # NoSlot
      /\ slotKey' = [slotKey EXCEPT ![loc] = xfer[t].key]
      /\ slotVal' = [slotVal EXCEPT ![loc] = slotVal[SlotLoc(OldBin(t), i)]]
      /\ header' = [header EXCEPT ![new] = setSlotStateAndVersion(@, free.slot, SlotValid)]
      /\ linkMeta' = [linkMeta EXCEPT ![new] = free.lm]
      /\ ctx' = [ctx EXCEPT ![g].linkNextResize = free.next]
      /\ xfer' = [xfer EXCEPT ![t].todo = rest, ![t].key = 0]
      /\ Goto(t, afterSlot(rest, i))
      /\ UNCHANGED <<arena, active, indexNext, resizeCtx, api, scan, ins>>

transferValidSlots(t) == SwapSentinel(t) \/ insertIntoNewIndex(t)
transferBin(t) == TransferBin(t) \/ transferValidSlots(t) \/ TransferLinks(t) \/ FinishBin(t)
completeResize(t) == FinishCapacity(t) \/ FinishActive(t) \/ FinishInactive(t) \/ FinishCtx(t)
helpWithChunks(t) == ClaimChunk(t) \/ transferBin(t) \/ ChunkDone(t) \/ completeResize(t)

-----------------------------------------------------------------------------
(* The operations.                                                         *)

Get(t) == call[t].kind = "Get" /\ (lookup(t) \/ AnswerCheck(t))

Put(t) == /\ call[t].kind = "Put"
          /\ \/ lookup(t) \/ AnswerCheck(t) \/ TargetCheck(t)
             \/ PutHit(t) \/ PutMiss(t) \/ putLoop(t)

Delete(t) == /\ call[t].kind = "Delete"
             /\ lookup(t) \/ AnswerCheck(t) \/ TargetCheck(t) \/ DeleteCAS(t)

Insert(t) == /\ call[t].kind = "Insert"
             /\ \/ lookup(t) \/ AnswerCheck(t)
                \/ chooseInsertSlot(t) \/ reserveSlot(t) \/ StoreKey(t) \/ StoreVal(t)
                \/ PublishSlot(t) \/ LoadHeader2(t) \/ unreserveSlot(t)
                \/ triggerResize(t) \/ helpResize(t) \/ helpWithChunks(t)

InlineStep(t) == pc[t] # "idle" /\ (Get(t) \/ Put(t) \/ Delete(t) \/ Insert(t))

InlineFinished == Finished /\ UNCHANGED hist

InlineNext == \/ (\E t \in Thread : InlineInvoke(t) \/ InlineStep(t)) /\ Record
              \/ InlineFinished

InlineSpec == InlineInit /\ [][InlineNext]_inlineVars

InlineFairSpec == InlineSpec /\ \A t \in Thread : WF_inlineVars(InlineStep(t) /\ Record)

-----------------------------------------------------------------------------
(* Properties.                                                             *)

\* Every word and local variable has its type: values where the other variant
\* has entries, keys where it has hashes.
InlineTypeOK ==
  /\ header \in [BinId -> Header] /\ linkMeta \in [BinId -> LinkMeta]
  /\ slotKey \in [Loc -> Key] /\ slotVal \in [Loc -> Value]
  /\ RootType /\ ApiType
  /\ pc \in [Thread -> PC] /\ ins \in [Thread -> InsRec] /\ xfer \in [Thread -> XferRec]
  /\ scan \in [Thread -> [idx : Gen \cup {NoGen}, h : Header, grp : 0..3, lm : LinkMeta,
                          bm : SUBSET SlotIdx, ent : Value \cup {Nil}, slot : SlotIdx \cup {NoSlot}]]
  /\ \A k \in Key : \A c \in hist[k] : c \in Config

\* Linearizability, exactly: the answers given so far on each key are those of
\* some sequence of the calls in which every call takes effect while it runs.
LinearizableHistory == \A k \in Key : hist[k] # {}

\* The key that slot i of a bin holds; while it is moved the mover remembers it
KeyAt(bin, i) ==
  IF \E t \in Thread : pc[t] = "move" /\ OldBin(t) = bin /\ Lowest(xfer[t].todo) = i
  THEN (CHOOSE k \in Key : \E t \in Thread : pc[t] = "move" /\ OldBin(t) = bin /\ xfer[t].key = k)
  ELSE slotKey[SlotLoc(bin, i)]
Holding(bin, k) == {SlotLoc(bin, i) : i \in {j \in SlotIdx : /\ header[bin].ss[j] = SlotValid
                                                              /\ KeyAt(bin, j) = k}}
Places(k) ==
  LET bin == Authority(k) IN
  Holding(bin, k) \cup
  (IF header[bin].bs = BinInTransfer THEN Holding(getBin(bin[1] + 1, Hash[k]), k) ELSE {})

\* At every moment, also half-way through the transfer of its bin, a key that
\* is in the map is in exactly one Valid slot, with its value, and any other
\* key in none.
EntryInOnePlace ==
  \A k \in Key :
    LET P == Places(k) IN
    IF map[k] = Absent THEN P = {} ELSE Cardinality(P) = 1 /\ \A loc \in P : slotVal[loc] = map[k]

\* From the OR on, no CAS of an operation changes the header of a bin, so the
\* store of DoneTransfer, which writes back the snapshot taken by the OR,
\* overwrites nothing.
TransferFreezes ==
  [][\A bin \in BinId : header[bin].bs # BinNoTransfer =>
       header'[bin].ss = header[bin].ss /\ header'[bin].ver = header[bin].ver]_inlineVars
=============================================================================
