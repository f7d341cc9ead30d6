---------------------------- MODULE AllocatorMap ----------------------------
(***************************************************************************)
(* The concurrent hash map of src/allocator: every atomic step of Get,     *)
(* Insert, Put, Delete and of the cooperative resize, for any number of    *)
(* threads.  An action is one access to shared memory, with the local      *)
(* computation that follows it; the accesses that are taken together are   *)
(* those of private memory, of words written once, and the plain key loads *)
(* of one bucket (README, "Granularity").                                  *)
(*                                                                         *)
(* Index generations are numbered: 0 is the index New makes, g+1 the one   *)
(* that the resize of g fills.  A bin is <<g, b>>; a slot of it has an     *)
(* index 0..MaxSlots-1 and lives in the primary bucket or in a link bucket *)
(* found through the bin's LinkMeta.  Memory is sequentially consistent.   *)
(***************************************************************************)
EXTENDS Integers, FiniteSets, Sequences

CONSTANTS Thread, Key,
          Hash,             \* [Key -> Nat]: maphash.Comparable with the map's seed
          Prefill,          \* the keys inserted before the threads start, in order
          Calls,            \* [Thread -> SUBSET [kind, key]]: the calls a thread may make
          MaxCalls,         \* [Thread -> Nat], a bound: how many calls a thread makes
          MaxGen,           \* bound: the last index generation
          NumBins,          \* [0..MaxGen -> Nat]: len(bins) of every generation
          NumLinks,         \* [0..MaxGen -> Nat]: len(links), an eighth of len(bins)
          PRIMARY_SLOTS, LINK_SLOTS, CHUNK_SIZE,
          VersionMod,       \* 2^32: the header version wraps
          EvenTransferSentinel, OddTransferSentinel,
          Nil, Absent, Pending, InitVal, NoCall

Gen == 0..MaxGen
NoGen == -1                 \* the nil *index
NoSlot == -1
ReservedCtx == -1           \* the placeholder context, active = ResizeReserved
NoCtx == -2                 \* the nil *resizeContext
NO_LINK == 0

Kind == {"Get", "Insert", "Put", "Delete"}
Value == (UNION {{t} \X (1..MaxCalls[t]) : t \in Thread}) \cup {InitVal}

BinNoTransfer == 0
BinInTransfer == 1
BinDoneTransfer == 2
BinState == 0..3
SlotInvalid == 0
SlotTrying == 1
SlotValid == 2
SlotState == 0..2

MaxSlots == PRIMARY_SLOTS + 3 * LINK_SLOTS
SlotIdx == 0..(MaxSlots - 1)
NumChunks(g) == (NumBins[g] + CHUNK_SIZE - 1) \div CHUNK_SIZE

BinId == UNION {{g} \X (0..(NumBins[g] - 1)) : g \in Gen}
\* The addresses of slots: <<g, bucket, i>>, the bins' buckets first, then the
\* link buckets, link a (numbered from 1) at bucket NumBins[g] + a - 1.
Loc == (UNION {{g} \X (0..(NumBins[g] - 1)) \X (0..(PRIMARY_SLOTS - 1)) : g \in Gen})
       \cup
       (UNION {{g} \X (NumBins[g]..(NumBins[g] + NumLinks[g] - 1)) \X (0..(LINK_SLOTS - 1))
               : g \in Gen})

ASSUME SizeAssumption ==
  /\ MaxGen \in Nat /\ MaxCalls \in [Thread -> Nat] /\ VersionMod \in Nat \ {0}
  /\ PRIMARY_SLOTS \in Nat \ {0} /\ LINK_SLOTS \in Nat \ {0}
  /\ CHUNK_SIZE \in Nat \ {0}
  /\ NumBins \in [Gen -> Nat \ {0}] /\ NumLinks \in [Gen -> Nat]
  /\ Hash \in [Key -> Nat]
  /\ EvenTransferSentinel \in Nat /\ OddTransferSentinel \in Nat

\* The markers are no values, entries or answers
ASSUME MarkerAssumption ==
  /\ Absent \notin Value
  /\ Nil \notin [key : Key, val : Value]
  /\ Pending \notin [val : Value \cup {Absent}, ok : BOOLEAN]
  /\ \A t \in Thread : \A n \in 1..MaxCalls[t] : InitVal # <<t, n>>

\* What triggerResize relies on: an index grows by a whole factor, and the
\* new arena is large enough for the links reserved for the transfer.
ASSUME GrowthAssumption ==
  \A g \in 0..(MaxGen - 1) :
     /\ NumBins[g + 1] % NumBins[g] = 0
     /\ NumLinks[g + 1] >= (NumLinks[g] * 4) \div 3 + 1

\* What makes that reserve large enough: a link bucket holds at most one slot more
\* than a primary one (4 and 3), and an arena with links grows by more than it.
ASSUME LinkAssumption ==
  /\ LINK_SLOTS <= PRIMARY_SLOTS + 1
  /\ \A g \in 0..(MaxGen - 1) : NumLinks[g] > 0 => NumLinks[g + 1] > (NumLinks[g] * 4) \div 3 + 1

\* No key of a bin has the hash that marks its moved slots.  With an even number of bins
\* the parity of the bin tells them apart; with one bin nothing does (hash.go).
ASSUME SentinelAssumption ==
  \A k \in Key, g \in Gen :
     Hash[k] # IF (Hash[k] % NumBins[g]) % 2 = 0 THEN OddTransferSentinel ELSE EvenTransferSentinel

ASSUME CallsAssumption ==
  /\ Calls \in [Thread -> SUBSET [kind : Kind, key : Key]]
  /\ Prefill \in Seq(Key)

-----------------------------------------------------------------------------
(* Words of memory: headers and link metadata.                             *)

Header == [ver : 0..(VersionMod - 1), bs : BinState, ss : [SlotIdx -> SlotState]]
LinkMeta == [single : Nat, pair : Nat]
Entry == [key : Key, val : Value]

ZeroHeader == [ver |-> 0, bs |-> BinNoTransfer, ss |-> [i \in SlotIdx |-> SlotInvalid]]
NoLinks == [single |-> NO_LINK, pair |-> NO_LINK]

\* mutant: the version stays
setSlotStateOnly(h, i, st) == [ver |-> h.ver, bs |-> h.bs, ss |-> [h.ss EXCEPT ![i] = st]]
setSlotStateAndVersion(h, i, st) ==
  [ver |-> (h.ver + 1) % VersionMod, bs |-> h.bs, ss |-> [h.ss EXCEPT ![i] = st]]
setBinState(h, st) == [h EXCEPT !.bs = st]
orInTransferLost(h) == h                               \* mutant: the bin is not marked
\* atomic.OrUint64 with BinInTransfer: the low bit of the bin state is set
orInTransfer(h) == setBinState(h, IF h.bs % 2 = 0 THEN h.bs + 1 ELSE h.bs)

\* The slots of a bin by bucket: 0 primary, 1 single link, 2 and 3 the pair
Bucket(n) == IF n = 0 THEN 0..(PRIMARY_SLOTS - 1)
             ELSE (PRIMARY_SLOTS + (n - 1) * LINK_SLOTS)..(PRIMARY_SLOTS + n * LINK_SLOTS - 1)
validMask(h, n) == {i \in Bucket(n) : h.ss[i] = SlotValid}
invalidMask(h, n) == {i \in Bucket(n) : h.ss[i] = SlotInvalid}
Lowest(S) == CHOOSE i \in S : \A j \in S : i <= j      \* bits.TrailingZeros32

resolveLink(lm, n) ==
  CASE n = 1 -> lm.single
    [] n = 2 -> lm.pair
    [] OTHER -> IF lm.pair = NO_LINK THEN NO_LINK ELSE lm.pair + 1

attachedAny(lm) == 1..3                                \* mutant: links that are not there
\* The link buckets of a bin that has this LinkMeta
attached(lm) == {n \in 1..3 : resolveLink(lm, n) # NO_LINK}

firstPairSlotOff == PRIMARY_SLOTS + 3 * LINK_SLOTS                   \* mutant: past the bin
firstPairSlot == PRIMARY_SLOTS + LINK_SLOTS

getBin(g, hash) == <<g, hash % NumBins[g]>>
sentinelIsBin(b) == b                                                \* mutant: a real hash
GetTransferSentinel(b) == IF b % 2 = 0 THEN OddTransferSentinel ELSE EvenTransferSentinel

-----------------------------------------------------------------------------
VARIABLES
  header, linkMeta,         \* [BinId -> Header], [BinId -> LinkMeta]
  slotKey, slotVal,         \* [Loc -> Nat], [Loc -> Entry \cup {Nil}]
  active, indexNext,        \* Map.active; index.indexNext of every generation
  linkNext, linkCapacity,   \* the bottom-up link allocator of every index
  resizeCtx,                \* Map.resizeCtx: NoCtx, ReservedCtx or the generation resized
  ctx,                      \* the resizeContext of every generation resized
  pc, call, res, calls,     \* the threads: where, running which call, its answer
  map, seen,                \* history: the abstract map, changed where an operation takes
                            \* effect, and the values the key of a running call had
  scan, ins, xfer           \* locals: the lookup; Insert's own; the transfer's

memory == <<header, linkMeta, slotKey, slotVal>>
arena == <<linkNext, linkCapacity>>
roots == <<active, indexNext, resizeCtx, ctx>>
api == <<call, res, calls, map, seen>>
vars == <<header, linkMeta, slotKey, slotVal, active, indexNext, linkNext, linkCapacity,
          resizeCtx, ctx, pc, call, res, calls, map, seen, scan, ins, xfer>>

\* The address of a bin's slot, through its LinkMeta (getSlotByIndex)
LinkOf(lm, i) == resolveLink(lm, 1 + (i - PRIMARY_SLOTS) \div LINK_SLOTS)
LocVia(lm, bin, i) ==
  IF i < PRIMARY_SLOTS THEN <<bin[1], bin[2], i>>
  ELSE <<bin[1], NumBins[bin[1]] + LinkOf(lm, i) - 1, (i - PRIMARY_SLOTS) % LINK_SLOTS>>
SlotLoc(bin, i) == LocVia(linkMeta[bin], bin, i)
HasSlot(lm, i) == i < PRIMARY_SLOTS \/ LinkOf(lm, i) # NO_LINK

-----------------------------------------------------------------------------
(* What the memory holds: the entry of a key is in its bin of the first    *)
(* generation in which that bin is not yet transferred.                    *)

Authority(k) ==
  LET done == {g \in Gen : header[getBin(g, Hash[k])].bs = BinDoneTransfer}
  IN  getBin(CHOOSE g \in Gen \ done : 0..(g - 1) \subseteq done, Hash[k])

\* The addresses of the slots of a key's bin in which it is found
Copies(k) ==
  LET bin == Authority(k)
      lm == linkMeta[bin]
      ss == header[bin].ss
      valid == {LocVia(lm, bin, i) : i \in {j \in SlotIdx : ss[j] = SlotValid}}
  IN  {loc \in valid : slotVal[loc] # Nil /\ slotVal[loc].key = k}
Lookup(k) == LET at == Copies(k) IN
             IF at = {} THEN Absent ELSE slotVal[CHOOSE loc \in at : TRUE].val
Contents == [k \in Key |-> Lookup(k)]

-----------------------------------------------------------------------------
FreshScan(g) == [idx |-> g, h |-> ZeroHeader, grp |-> 0, lm |-> NoLinks, bm |-> {},
                 ent |-> Nil, slot |-> NoSlot]
FreshIns == [h |-> ZeroHeader, pick |-> NoSlot, link |-> NO_LINK, cont |-> "idle"]
FreshXfer == [gen |-> NoGen, bin |-> 0, h |-> ZeroHeader, todo |-> {}, key |-> 0]
FreshCtxOld(g) == [active |-> "active", chunkClaimed |-> 0, chunksDone |-> 0,
                   linkNextResize |-> NumLinks[g]]     \* mutant: the old arena's length
FreshCtx(g) == [active |-> "active", chunkClaimed |-> 0, chunksDone |-> 0,
                linkNextResize |-> IF g < MaxGen THEN NumLinks[g + 1] ELSE 0]

\* Prefill[j] went into the first free slot of its bin of index 0.  At most one
\* bin overflows, into links 1 and then 2 and 3.
PrefillIn(bin) == {j \in 1..Len(Prefill) : getBin(0, Hash[Prefill[j]]) = bin}
PrefillMeta(bin) ==
  [single |-> IF Cardinality(PrefillIn(bin)) > PRIMARY_SLOTS THEN 1 ELSE NO_LINK,
   pair |-> IF Cardinality(PrefillIn(bin)) > PRIMARY_SLOTS + LINK_SLOTS THEN 2 ELSE NO_LINK]
PrefillLoc(j) ==
  LET bin == getBin(0, Hash[Prefill[j]])
  IN  LocVia(PrefillMeta(bin), bin, Cardinality({i \in PrefillIn(bin) : i < j}))
PrefillAt(loc) == {j \in 1..Len(Prefill) : PrefillLoc(j) = loc}
LinksUsed(bin) == IF PrefillMeta(bin).pair # NO_LINK THEN 3 ELSE PrefillMeta(bin).single

ASSUME PrefillAssumption ==
  /\ \A i, j \in 1..Len(Prefill) : Prefill[i] = Prefill[j] => i = j
  /\ \A bin \in BinId : /\ Cardinality(PrefillIn(bin)) <= MaxSlots
                        /\ LinksUsed(bin) <= NumLinks[bin[1]]
  /\ \A bin, other \in BinId : LinksUsed(bin) # 0 /\ LinksUsed(other) # 0 => bin = other

Init ==
  /\ header = [bin \in BinId |->
       [ver |-> (2 * Cardinality(PrefillIn(bin))) % VersionMod, bs |-> BinNoTransfer,
        ss |-> [i \in SlotIdx |-> IF i < Cardinality(PrefillIn(bin)) THEN SlotValid
                                                                     ELSE SlotInvalid]]]
  /\ linkMeta = [bin \in BinId |-> PrefillMeta(bin)]
  /\ slotKey = [loc \in Loc |-> IF PrefillAt(loc) = {} THEN 0
                                ELSE Hash[Prefill[CHOOSE j \in PrefillAt(loc) : TRUE]]]
  /\ slotVal = [loc \in Loc |->
       IF PrefillAt(loc) = {} THEN Nil
       ELSE [key |-> Prefill[CHOOSE j \in PrefillAt(loc) : TRUE], val |-> InitVal]]
  /\ active = 0
  /\ indexNext = [g \in Gen |-> NoGen]
  /\ \E bin \in BinId : /\ \A other \in BinId : LinksUsed(other) <= LinksUsed(bin)
                        /\ linkNext = [g \in Gen |-> IF g = 0 THEN LinksUsed(bin) ELSE 0]
  /\ linkCapacity = [g \in Gen |-> NumLinks[g]]
  /\ resizeCtx = NoCtx
  /\ ctx = [g \in Gen |-> FreshCtx(g)]
  /\ pc = [t \in Thread |-> "idle"]
  /\ call = [t \in Thread |-> NoCall]
  /\ res = [t \in Thread |-> [val |-> Absent, ok |-> FALSE]]
  /\ calls = [t \in Thread |-> 0]
  /\ map = [k \in Key |-> IF \E j \in 1..Len(Prefill) : Prefill[j] = k THEN InitVal ELSE Absent]
  /\ seen = [t \in Thread |-> {}]
  /\ scan = [t \in Thread |-> FreshScan(0)]
  /\ ins = [t \in Thread |-> FreshIns]
  /\ xfer = [t \in Thread |-> FreshXfer]

-----------------------------------------------------------------------------
(* Calls and returns.                                                      *)

Goto(t, p) == pc' = [pc EXCEPT ![t] = p]
hash(t) == Hash[call[t].key]
Bin(t) == getBin(scan[t].idx, hash(t))
OpLoc(t) == SlotLoc(Bin(t), scan[t].slot)
NewEntry(t) == [key |-> call[t].key, val |-> call[t].val]
\* Insert holds a reserved slot (it is in retryWithSlot)
Reserved(t) == call[t].kind = "Insert" /\ scan[t].slot # NoSlot
Validated(t) == header[Bin(t)] = scan[t].h

\* goto retry: the same index, everything else forgotten
Retry(t) == /\ Goto(t, "load")
            /\ scan' = [scan EXCEPT ![t] = FreshScan(scan[t].idx)]

\* Only the reserved slot is remembered
Kept(t) == [FreshScan(scan[t].idx) EXCEPT !.slot = scan[t].slot]
KeepSlot(t) == scan' = [scan EXCEPT ![t] = Kept(t)]

\* The call of t is answered; v is the value its key has from now on.  Every
\* running call sees the new contents.
Reply(t, v, ok) == res' = [res EXCEPT ![t] = [val |-> v, ok |-> ok]]
Effect(t, v) == map' = [map EXCEPT ![call[t].key] = v]
Observe == seen' = [u \in Thread |->
                      IF res'[u] # Pending THEN {} ELSE seen[u] \cup {map'[call'[u].key]}]

Invoke(t) ==
  /\ pc[t] = "idle"
  /\ calls[t] < MaxCalls[t]
  /\ \E c \in Calls[t] :
       call' = [call EXCEPT ![t] = [kind |-> c.kind, key |-> c.key, val |-> <<t, calls[t] + 1>>]]
  /\ calls' = [calls EXCEPT ![t] = @ + 1]
  /\ res' = [res EXCEPT ![t] = Pending]
  /\ Goto(t, "active")
  /\ UNCHANGED <<memory, arena, roots, map, scan, ins, xfer>>
  /\ Observe

\* idx = m.getActiveIndex()
LoadActive(t) ==
  /\ pc[t] = "active"
  /\ scan' = [scan EXCEPT ![t] = FreshScan(active)]
  /\ Goto(t, "load")
  /\ UNCHANGED <<memory, arena, roots, api, ins, xfer>>

\* The header load at retry and the dispatch on the bin state
LoadHeader(t) ==
  LET h == header[Bin(t)] IN
  /\ pc[t] = "load"
  /\ \/ /\ h.bs = BinNoTransfer
        /\ scan' = [scan EXCEPT ![t].h = h]
        /\ Goto(t, "match")
     \/ /\ h.bs # BinNoTransfer
        /\ Goto(t, IF h.bs = BinDoneTransfer THEN "follow" ELSE "active")
        /\ UNCHANGED scan
  /\ UNCHANGED <<memory, arena, roots, api, ins, xfer>>

\* mutant: the newest index, any number of generations ahead
getNewestIndex(g) == CHOOSE n \in Gen : n > g /\ indexNext[n] = NoGen
getNextIndex(g) == indexNext[g]

\* idx = idx.getNextIndex()
Follow(t) ==
  /\ pc[t] = "follow"
  /\ scan' = [scan EXCEPT ![t] = FreshScan(getNextIndex(scan[t].idx))]
  /\ Goto(t, "load")
  /\ UNCHANGED <<memory, arena, roots, api, ins, xfer>>

-----------------------------------------------------------------------------
(* The lookup shared by the four operations, bucket by bucket: the keys of *)
(* a bucket are compared with the hash, then the entries that match are    *)
(* loaded one by one until one has the key.                                *)

\* mutant: the second bucket of the pair is not visited
LaterBucketsOff(t, n, lm) ==
  {m \in (n + 1)..2 : /\ lm.single # NO_LINK
                      /\ resolveLink(lm, m) # NO_LINK
                      /\ validMask(scan[t].h, m) # {}}
\* Buckets after n that scanLinksForKey visits, given the LinkMeta it loaded
LaterBuckets(t, n, lm) ==
  {m \in (n + 1)..3 : /\ lm.single # NO_LINK
                      /\ resolveLink(lm, m) # NO_LINK
                      /\ validMask(scan[t].h, m) # {}}

\* The key was found nowhere: Insert goes on to a slot, the others validate
NotFound(t) == IF call[t].kind # "Insert" THEN "check"
               ELSE IF Reserved(t) THEN "finalize"
               ELSE IF invalidMask(scan[t].h, 0) # {} THEN "reserve" ELSE "choose"

\* Go on with the candidates in rest, then with the next bucket
ScanOn(t, rest, lm) ==
  LET n == scan[t].grp
      later == LaterBuckets(t, n, lm)
  IN  \/ /\ rest # {}
         /\ scan' = [scan EXCEPT ![t].bm = rest, ![t].lm = lm]
         /\ Goto(t, "probe")
      \/ /\ rest = {} /\ n = 0 /\ pc[t] # "links"
         /\ scan' = [scan EXCEPT ![t].bm = {}]
         /\ Goto(t, "links")
      \/ /\ rest = {} /\ (n > 0 \/ pc[t] = "links") /\ later # {}
         /\ scan' = [scan EXCEPT ![t].bm = {}, ![t].lm = lm, ![t].grp = Lowest(later)]
         /\ Goto(t, "match")
      \/ /\ rest = {} /\ (n > 0 \/ pc[t] = "links") /\ later = {}
         /\ scan' = [scan EXCEPT ![t].bm = {}, ![t].lm = NoLinks, ![t].grp = 0]
         /\ Goto(t, NotFound(t))

MatchKeys(t) ==
  /\ pc[t] = "match"
  /\ ScanOn(t, {i \in validMask(scan[t].h, scan[t].grp) : slotKey[SlotLoc(Bin(t), i)] = hash(t)},
            scan[t].lm)
  /\ UNCHANGED <<memory, arena, roots, api, ins, xfer>>

\* The lookup ends at slot i with entry e; Put and Delete remember the slot
Found(t, i, e) ==
  [scan[t] EXCEPT !.bm = {}, !.grp = 0, !.lm = NoLinks, !.ent = e,
                  !.slot = IF call[t].kind \in {"Put", "Delete"} THEN i ELSE scan[t].slot]

Probe(t) ==
  LET i == Lowest(scan[t].bm)
      e == slotVal[SlotLoc(Bin(t), i)]
      found == e # Nil /\ e.key = call[t].key
  IN  /\ pc[t] = "probe"
      /\ \/ /\ found
            /\ scan' = [scan EXCEPT ![t] = Found(t, i, e)]
            /\ Goto(t, "check")
         \/ ~found /\ ScanOn(t, scan[t].bm \ {i}, scan[t].lm)
      /\ UNCHANGED <<memory, arena, roots, api, ins, xfer>>

LoadLinks(t) ==
  /\ pc[t] = "links"
  /\ ScanOn(t, {}, linkMeta[Bin(t)])
  /\ UNCHANGED <<memory, arena, roots, api, ins, xfer>>

\* The seqlock validation: the header is loaded again
CheckStale(t) ==
  /\ pc[t] = "check" /\ ~Validated(t)
  /\ IF Reserved(t)
     THEN KeepSlot(t) /\ Goto(t, "load2")
     ELSE Retry(t)
  /\ UNCHANGED <<memory, arena, roots, api, ins, xfer>>

\* Get's answer, and that of an Insert, Put or Delete that changes nothing
CheckAnswer(t) ==
  LET e == scan[t].ent IN
  /\ pc[t] = "check" /\ Validated(t)
  /\ call[t].kind \in {"Get", "Insert"} \/ e = Nil
  /\ Reply(t, IF e = Nil THEN Absent ELSE e.val, call[t].kind = "Get" /\ e # Nil)
  /\ IF Reserved(t) THEN Goto(t, "unres") /\ KeepSlot(t)
     ELSE Goto(t, "idle") /\ scan' = [scan EXCEPT ![t] = FreshScan(0)]
  /\ UNCHANGED <<memory, arena, roots, call, calls, map, ins, xfer>>
  /\ Observe

CheckTarget(t) ==
  /\ pc[t] = "check" /\ Validated(t)
  /\ call[t].kind \in {"Put", "Delete"} /\ scan[t].ent # Nil
  /\ Goto(t, "dwcas")
  /\ UNCHANGED <<memory, arena, roots, api, scan, ins, xfer>>

-----------------------------------------------------------------------------
(* Put and Delete change the slot they found with a double-word CAS on its *)
(* key and entry; if it fails they revalidate the slot in a loop.          *)

DWCASHit(t) ==
  /\ pc[t] = "dwcas"
  /\ slotKey[OpLoc(t)] = hash(t) /\ slotVal[OpLoc(t)] = scan[t].ent
  /\ slotVal' = [slotVal EXCEPT ![OpLoc(t)] = IF call[t].kind = "Put" THEN NewEntry(t) ELSE Nil]
  /\ Reply(t, scan[t].ent.val, TRUE)
  /\ Effect(t, IF call[t].kind = "Put" THEN call[t].val ELSE Absent)
  /\ IF call[t].kind = "Put"
     THEN Goto(t, "idle") /\ scan' = [scan EXCEPT ![t] = FreshScan(0)]
     ELSE Goto(t, "mark") /\ KeepSlot(t)
  /\ UNCHANGED <<header, linkMeta, slotKey, arena, roots, call, calls, ins, xfer>>
  /\ Observe

DWCASMiss(t) ==
  /\ pc[t] = "dwcas"
  /\ ~(slotKey[OpLoc(t)] = hash(t) /\ slotVal[OpLoc(t)] = scan[t].ent)
  /\ Goto(t, "loop")
  /\ KeepSlot(t)
  /\ UNCHANGED <<memory, arena, roots, api, ins, xfer>>

\* hLoop: Delete also looks at the bin state, Put does not
LoopHeader(t) ==
  LET h == header[Bin(t)] IN
  /\ pc[t] = "loop"
  /\ IF h.ss[scan[t].slot] = SlotValid /\ (call[t].kind = "Put" \/ h.bs = BinNoTransfer)
     THEN Goto(t, "loopKey") /\ scan' = [scan EXCEPT ![t].h = h]
     ELSE Retry(t)
  /\ UNCHANGED <<memory, arena, roots, api, ins, xfer>>

LoopKey(t) ==
  /\ pc[t] = "loopKey"
  /\ IF slotKey[OpLoc(t)] = hash(t) THEN Goto(t, "loopVal") /\ UNCHANGED scan ELSE Retry(t)
  /\ UNCHANGED <<memory, arena, roots, api, ins, xfer>>

LoopVal(t) ==
  LET e == slotVal[OpLoc(t)] IN
  /\ pc[t] = "loopVal"
  /\ IF e # Nil /\ e.key = call[t].key
     THEN Goto(t, "loopCheck") /\ scan' = [scan EXCEPT ![t].ent = e]
     ELSE Retry(t)
  /\ UNCHANGED <<memory, arena, roots, api, ins, xfer>>

\* mutant: the header is not compared with hLoop
LoopCheckSkipped(t) ==
  /\ pc[t] = "loopCheck"
  /\ Goto(t, "loopTTAS")
  /\ UNCHANGED <<memory, arena, roots, api, scan, ins, xfer>>
LoopCheck(t) ==
  /\ pc[t] = "loopCheck"
  /\ IF Validated(t) THEN Goto(t, "loopTTAS") /\ UNCHANGED scan ELSE Goto(t, "loop") /\ KeepSlot(t)
  /\ UNCHANGED <<memory, arena, roots, api, ins, xfer>>

LoopTTAS(t) ==
  /\ pc[t] = "loopTTAS"
  /\ IF slotVal[OpLoc(t)] = scan[t].ent THEN Goto(t, "dwcas") /\ UNCHANGED scan
     ELSE Goto(t, "loop") /\ KeepSlot(t)
  /\ UNCHANGED <<memory, arena, roots, api, ins, xfer>>

\* mutant: the slot stays Valid, without an entry
markSlotSkipped(t) ==
  /\ pc[t] = "mark"
  /\ Goto(t, "idle")
  /\ scan' = [scan EXCEPT ![t] = FreshScan(0)]
  /\ UNCHANGED <<memory, arena, roots, api, ins, xfer>>
\* The atomic AND of Delete: no version bump, no look at the bin state
markSlotInvalid(t) ==
  /\ pc[t] = "mark"
  /\ header' = [header EXCEPT ![Bin(t)].ss[scan[t].slot] = SlotInvalid]
  /\ Goto(t, "idle")
  /\ scan' = [scan EXCEPT ![t] = FreshScan(0)]
  /\ UNCHANGED <<linkMeta, slotKey, slotVal, arena, roots, api, ins, xfer>>

-----------------------------------------------------------------------------
(* Insert: a free slot of the header h0 that the lookup used, or one found *)
(* by chooseInsertSlot in a newer header and the links; no slot: resize.   *)

ChooseHeader(t) ==
  LET h == header[Bin(t)]
      free == invalidMask(h, 0)
  IN  /\ pc[t] = "choose"
      /\ \/ /\ free # {}
            /\ ins' = [ins EXCEPT ![t].pick = Lowest(free)]
            /\ Goto(t, "reserve")
         \/ /\ free = {}
            /\ ins' = [ins EXCEPT ![t].h = h]
            /\ Goto(t, "chooseLinks")
      /\ UNCHANGED <<memory, arena, roots, api, scan, xfer>>

\* No slot: the lookup is forgotten and a resize is triggered
NoRoom(t) == /\ Goto(t, "trigger")
             /\ scan' = [scan EXCEPT ![t] = FreshScan(0)]
             /\ ins' = [ins EXCEPT ![t] = FreshIns]

ChooseLinks(t) ==
  LET lm == linkMeta[Bin(t)]
      free == UNION {invalidMask(ins[t].h, n) : n \in attached(lm)}
  IN  /\ pc[t] = "chooseLinks"
      /\ \/ /\ free # {}
            /\ ins' = [ins EXCEPT ![t].pick = Lowest(free), ![t].h = ZeroHeader]
            /\ Goto(t, "reserve") /\ UNCHANGED scan
         \/ /\ free = {} /\ (lm.single = NO_LINK \/ lm.pair = NO_LINK)
            /\ ins' = [ins EXCEPT ![t].h = ZeroHeader]
            /\ Goto(t, IF lm.single = NO_LINK THEN "allocLink" ELSE "allocPair") /\ UNCHANGED scan
         \/ free = {} /\ lm.single # NO_LINK /\ lm.pair # NO_LINK /\ NoRoom(t)
      /\ UNCHANGED <<memory, arena, roots, api, xfer>>

\* n links from the bottom of the arena, by fetch-and-add; they are lost if
\* there is no room for them.  A thread may fail again and again; the counter
\* is held at NumLinks + 1, from where on its value makes no difference until it
\* wraps at 2^32.
Allocate(t, n, next) ==
  LET g == scan[t].idx
      start == linkNext[g] + 1
  IN  /\ linkNext' = [linkNext EXCEPT ![g] = IF @ + n <= NumLinks[g] THEN @ + n ELSE NumLinks[g] + 1]
      /\ IF start + n - 1 > linkCapacity[g] THEN NoRoom(t)
         ELSE Goto(t, next) /\ ins' = [ins EXCEPT ![t].link = start] /\ UNCHANGED scan
      /\ UNCHANGED <<memory, linkCapacity, roots, api, xfer>>

allocateLink(t) == pc[t] = "allocLink" /\ Allocate(t, 1, "attachSingle")
allocateHalfPair(t) == pc[t] = "allocPair" /\ Allocate(t, 1, "attachPair")    \* mutant: adds 1
allocateLinkPair(t) == pc[t] = "allocPair" /\ Allocate(t, 2, "attachPair")

\* The CAS loop on LinkMeta: a link that another thread attached is used
\* instead, and the allocated one is lost
attachSingle(t) ==
  /\ pc[t] = "attachSingle"
  /\ linkMeta' = [linkMeta EXCEPT ![Bin(t)].single = IF @ = NO_LINK THEN ins[t].link ELSE @]
  /\ ins' = [ins EXCEPT ![t] = [FreshIns EXCEPT !.pick = PRIMARY_SLOTS]]
  /\ Goto(t, "reserve")
  /\ UNCHANGED <<header, slotKey, slotVal, arena, roots, api, scan, xfer>>

attachPair(t) ==
  /\ pc[t] = "attachPair"
  /\ linkMeta' = [linkMeta EXCEPT ![Bin(t)].pair = IF @ = NO_LINK THEN ins[t].link ELSE @]
  /\ ins' = [ins EXCEPT ![t] = [FreshIns EXCEPT !.pick = firstPairSlot]]
  /\ Goto(t, "reserve")
  /\ UNCHANGED <<header, slotKey, slotVal, arena, roots, api, scan, xfer>>

\* The CAS from h0 to h0 with the slot Trying; it fails if h0 is out of date
reserveSlot(t) ==
  LET h0 == scan[t].h
      i == IF invalidMask(h0, 0) # {} THEN Lowest(invalidMask(h0, 0)) ELSE ins[t].pick
      h1 == setSlotStateAndVersion(h0, i, SlotTrying)
  IN  /\ pc[t] = "reserve"
      /\ \/ /\ Validated(t)
            /\ header' = [header EXCEPT ![Bin(t)] = h1]
            /\ scan' = [scan EXCEPT ![t].h = h1, ![t].slot = i]
            /\ Goto(t, "fillKey")
         \/ ~Validated(t) /\ Retry(t) /\ UNCHANGED header
      /\ ins' = [ins EXCEPT ![t] = FreshIns]
      /\ UNCHANGED <<linkMeta, slotKey, slotVal, arena, roots, api, xfer>>

FillKey(t) ==
  /\ pc[t] = "fillKey"
  /\ IF HasSlot(linkMeta[Bin(t)], scan[t].slot)
     THEN /\ slotKey' = [slotKey EXCEPT ![OpLoc(t)] = hash(t)]
          /\ Goto(t, "fillVal") /\ UNCHANGED ins
     ELSE /\ ins' = [ins EXCEPT ![t].cont = "load"]
          /\ Goto(t, "unres") /\ UNCHANGED slotKey
  /\ UNCHANGED <<header, linkMeta, slotVal, arena, roots, api, scan, xfer>>

FillVal(t) ==
  /\ pc[t] = "fillVal"
  /\ slotVal' = [slotVal EXCEPT ![OpLoc(t)] = NewEntry(t)]
  /\ Goto(t, "finalize")
  /\ UNCHANGED <<header, linkMeta, slotKey, arena, roots, api, scan, ins, xfer>>

\* The CAS that makes the slot Valid: Insert's effect.  If the header has
\* changed the slot is kept and the key looked up again.
finalizeSlot(t) ==
  /\ pc[t] = "finalize"
  /\ \/ /\ Validated(t)
        /\ header' = [header EXCEPT ![Bin(t)] =
                        setSlotStateAndVersion(scan[t].h, scan[t].slot, SlotValid)]
        /\ Reply(t, Absent, TRUE)
        /\ Effect(t, call[t].val)
        /\ Goto(t, "idle")
        /\ scan' = [scan EXCEPT ![t] = FreshScan(0)]
        /\ UNCHANGED <<linkMeta, slotKey, slotVal, arena, roots, call, calls, ins, xfer>>
        /\ Observe
     \/ /\ ~Validated(t)
        /\ Goto(t, "load2") /\ KeepSlot(t)
        /\ UNCHANGED <<memory, arena, roots, api, ins, xfer>>

\* mutant: the kept slot is finalized with the new header, without a lookup
LoadHeader2Blind(t) ==
  /\ pc[t] = "load2"
  /\ scan' = [scan EXCEPT ![t].h = header[Bin(t)]]
  /\ Goto(t, "finalize")
  /\ UNCHANGED <<memory, arena, roots, api, ins, xfer>>
\* retryWithSlot
LoadHeader2(t) ==
  LET h == header[Bin(t)] IN
  /\ pc[t] = "load2"
  /\ \/ /\ h.bs = BinNoTransfer
        /\ scan' = [scan EXCEPT ![t].h = h]
        /\ Goto(t, "match") /\ UNCHANGED ins
     \/ /\ h.bs # BinNoTransfer
        /\ ins' = [ins EXCEPT ![t].cont = IF h.bs = BinDoneTransfer THEN "follow" ELSE "active"]
        /\ Goto(t, "unres") /\ UNCHANGED scan
  /\ UNCHANGED <<memory, arena, roots, api, xfer>>

\* unreserveSlot returns; the operation goes on at ins[t].cont
Unreserved(t) ==
  /\ Goto(t, ins[t].cont)
  /\ scan' = [scan EXCEPT ![t] = FreshScan(IF ins[t].cont = "idle" THEN 0 ELSE scan[t].idx)]
  /\ ins' = [ins EXCEPT ![t] = FreshIns]

UnreserveLoad(t) ==
  LET h == header[Bin(t)] IN
  /\ pc[t] = "unres"
  /\ \/ /\ h.ss[scan[t].slot] = SlotTrying /\ h.bs = BinNoTransfer
        /\ ins' = [ins EXCEPT ![t].h = h]
        /\ Goto(t, "unresClear") /\ UNCHANGED scan
     \/ ~(h.ss[scan[t].slot] = SlotTrying /\ h.bs = BinNoTransfer) /\ Unreserved(t)
  /\ UNCHANGED <<memory, arena, roots, api, xfer>>

UnreserveClear(t) ==
  /\ pc[t] = "unresClear"
  /\ slotVal' = IF HasSlot(linkMeta[Bin(t)], scan[t].slot)
                THEN [slotVal EXCEPT ![OpLoc(t)] = Nil] ELSE slotVal
  /\ Goto(t, "unresCAS")
  /\ UNCHANGED <<header, linkMeta, slotKey, arena, roots, api, scan, ins, xfer>>

\* mutant: no second try when the CAS fails
UnreserveOnce(t) ==
  /\ pc[t] = "unresCAS"
  /\ header' = IF header[Bin(t)] # ins[t].h THEN header
               ELSE [header EXCEPT ![Bin(t)] =
                       setSlotStateAndVersion(ins[t].h, scan[t].slot, SlotInvalid)]
  /\ Unreserved(t)
  /\ UNCHANGED <<linkMeta, slotKey, slotVal, arena, roots, api, xfer>>
UnreserveCAS(t) ==
  /\ pc[t] = "unresCAS"
  /\ \/ /\ header[Bin(t)] = ins[t].h
        /\ header' = [header EXCEPT ![Bin(t)] =
                        setSlotStateAndVersion(ins[t].h, scan[t].slot, SlotInvalid)]
        /\ Unreserved(t)
     \/ /\ header[Bin(t)] # ins[t].h
        /\ ins' = [ins EXCEPT ![t].h = ZeroHeader]
        /\ Goto(t, "unres") /\ UNCHANGED <<header, scan>>
  /\ UNCHANGED <<linkMeta, slotKey, slotVal, arena, roots, api, xfer>>

-----------------------------------------------------------------------------
(* The resize.  The Insert that finds no room installs a placeholder       *)
(* context, makes the next index, publishes it in indexNext and replaces   *)
(* the placeholder by the context; every thread that finds a context helps.*)

TriggerResize(t) ==
  /\ pc[t] = "trigger"
  /\ \/ /\ resizeCtx = NoCtx
        /\ active < MaxGen                                    \* bound
        /\ resizeCtx' = ReservedCtx
        /\ Goto(t, "publish")
     \/ /\ resizeCtx # NoCtx
        /\ Goto(t, "help") /\ UNCHANGED resizeCtx
  /\ UNCHANGED <<memory, arena, active, indexNext, ctx, api, scan, ins, xfer>>

\* The links of the new index kept for the transfer: 4/3 of the old arena
resLinkBudget(g) == (NumLinks[g] * 4) \div 3 + 1

\* mutant: the new index is not linked to the old one
PublishNothing(t) ==
  /\ pc[t] = "publish"
  /\ active < MaxGen                                          \* bound
  /\ linkCapacity' = [linkCapacity EXCEPT ![active + 1] = NumLinks[active + 1] - resLinkBudget(active)]
  /\ xfer' = [xfer EXCEPT ![t].gen = active]
  /\ Goto(t, "setCtx")
  /\ UNCHANGED <<memory, linkNext, roots, api, scan, ins>>
PublishNext(t) ==
  /\ pc[t] = "publish"
  /\ active < MaxGen                                          \* bound
  /\ linkCapacity' = [linkCapacity EXCEPT ![active + 1] = NumLinks[active + 1] - resLinkBudget(active)]
  /\ indexNext' = [indexNext EXCEPT ![active] = active + 1]
  /\ xfer' = [xfer EXCEPT ![t].gen = active]
  /\ Goto(t, "setCtx")
  /\ UNCHANGED <<memory, linkNext, active, resizeCtx, ctx, api, scan, ins>>

SetResizeContext(t) ==
  /\ pc[t] = "setCtx"
  /\ resizeCtx' = xfer[t].gen
  /\ ctx' = [ctx EXCEPT ![xfer[t].gen] = FreshCtx(xfer[t].gen)]
  /\ Goto(t, "claim")
  /\ UNCHANGED <<memory, arena, active, indexNext, api, scan, ins, xfer>>

\* helpResize; with the placeholder installed it polls
HelpResize(t) ==
  /\ pc[t] = "help"
  /\ \/ resizeCtx = NoCtx /\ Goto(t, "active") /\ UNCHANGED xfer
     \/ resizeCtx = ReservedCtx /\ UNCHANGED <<pc, xfer>>
     \/ /\ resizeCtx \in Gen
        /\ xfer' = [xfer EXCEPT ![t].gen = resizeCtx]
        /\ Goto(t, "helpActive")
  /\ UNCHANGED <<memory, arena, roots, api, scan, ins>>

HelpActive(t) ==
  /\ pc[t] = "helpActive"
  /\ IF ctx[xfer[t].gen].active = "inactive"
     THEN Goto(t, "active") /\ xfer' = [xfer EXCEPT ![t] = FreshXfer]
     ELSE Goto(t, "claim") /\ UNCHANGED xfer
  /\ UNCHANGED <<memory, arena, roots, api, scan, ins>>

\* The next chunk of old bins, by fetch-and-add (the counter is held at
\* NumChunks, above which its value makes no difference)
ClaimChunk(t) ==
  LET g == xfer[t].gen
      chunk == ctx[g].chunkClaimed
  IN  /\ pc[t] = "claim"
      /\ \/ /\ chunk < NumChunks(g)
            /\ ctx' = [ctx EXCEPT ![g].chunkClaimed = chunk + 1]
            /\ xfer' = [xfer EXCEPT ![t].bin = chunk * CHUNK_SIZE]
            /\ Goto(t, "or")
         \/ /\ chunk >= NumChunks(g)
            /\ xfer' = [xfer EXCEPT ![t] = FreshXfer]
            /\ Goto(t, "help") /\ UNCHANGED ctx
      /\ UNCHANGED <<memory, arena, active, indexNext, resizeCtx, api, scan, ins>>

OldBin(t) == <<xfer[t].gen, xfer[t].bin>>

\* transferBin: set BinInTransfer and take the slots that were Valid then
TransferBin(t) ==
  LET h == header[OldBin(t)] IN
  /\ pc[t] = "or"
  /\ header' = [header EXCEPT ![OldBin(t)] = orInTransfer(h)]
  /\ xfer' = [xfer EXCEPT ![t].h = h, ![t].todo = validMask(h, 0)]
  /\ Goto(t, IF validMask(h, 0) = {} THEN "xlinks" ELSE "sentinel")
  /\ UNCHANGED <<linkMeta, slotKey, slotVal, arena, roots, api, scan, ins>>

\* mutant: the second bucket of the pair is forgotten
linkSlotsOdd(h, lm) == UNION {validMask(h, n) : n \in attached(lm) \ {3}}
\* The slots of a bin's links that were Valid
linkSlots(h, lm) == UNION {validMask(h, n) : n \in attached(lm)}

\* The plain load of LinkMeta, after the primary slots
TransferLinks(t) ==
  LET todo == linkSlots(xfer[t].h, linkMeta[OldBin(t)])
  IN  /\ pc[t] = "xlinks"
      /\ xfer' = [xfer EXCEPT ![t].todo = todo]
      /\ Goto(t, IF todo = {} THEN "xdone" ELSE "sentinel")
      /\ UNCHANGED <<memory, arena, roots, api, scan, ins>>

\* transferValidSlots: the sentinel replaces the slot's key ...
StoreSentinel(t) ==
  LET loc == SlotLoc(OldBin(t), Lowest(xfer[t].todo)) IN
  /\ pc[t] = "sentinel"
  /\ xfer' = [xfer EXCEPT ![t].key = slotKey[loc]]
  /\ slotKey' = [slotKey EXCEPT ![loc] = GetTransferSentinel(xfer[t].bin)]
  /\ Goto(t, "move")
  /\ UNCHANGED <<header, linkMeta, slotVal, arena, roots, api, scan, ins>>

\* A slot of the new bin, with the link it needs taken from the top of the
\* arena (findFreeSlotOrChain, attachSingleForResize, attachPairForResize)
findFreeSlotOrChain(g, bin) ==
  LET h == header[bin]
      lm == linkMeta[bin]
      n == ctx[g].linkNextResize
      in(m) == invalidMask(h, m)
      n1 == IF lm.single = NO_LINK THEN n - 1 ELSE n
      single == IF lm.single = NO_LINK THEN n - 1 ELSE lm.single
  IN  CASE in(0) # {} -> [slot |-> Lowest(in(0)), lm |-> lm, next |-> n]
        [] in(0) = {} /\ lm.single = NO_LINK /\ n - 1 # NO_LINK ->
             [slot |-> PRIMARY_SLOTS, lm |-> [lm EXCEPT !.single = n - 1], next |-> n - 1]
        [] in(0) = {} /\ lm.single # NO_LINK /\ in(1) # {} ->
             [slot |-> Lowest(in(1)), lm |-> lm, next |-> n]
        [] OTHER ->
             IF lm.pair = NO_LINK
             THEN IF n1 - 2 <= 1 THEN [slot |-> NoSlot, lm |-> lm, next |-> n1 - 2]
                  ELSE [slot |-> firstPairSlot,
                        lm |-> [single |-> single, pair |-> n1 - 2], next |-> n1 - 2]
             ELSE [slot |-> IF in(2) \cup in(3) = {} THEN NoSlot ELSE Lowest(in(2) \cup in(3)),
                   lm |-> lm, next |-> n1]

\* ... and then its entry, loaded only now, goes into the new index.  The
\* stores to the new bin are plain: nobody else looks at it yet.  Without a
\* free slot the code would write outside the bucket: the model has no such
\* step, TransferFits says that it is never needed.
MoveEntry(t) ==
  LET i == Lowest(xfer[t].todo)
      e == slotVal[SlotLoc(OldBin(t), i)]
      rest == xfer[t].todo \ {i}
      g == xfer[t].gen
      new == getBin(g + 1, xfer[t].key)
      free == findFreeSlotOrChain(g, new)
      loc == LocVia(free.lm, new, free.slot)
      next == IF rest # {} THEN "sentinel" ELSE IF i < PRIMARY_SLOTS THEN "xlinks" ELSE "xdone"
  IN  /\ pc[t] = "move"
      /\ xfer' = [xfer EXCEPT ![t].todo = rest, ![t].key = 0]
      /\ \/ /\ e = Nil
            /\ Goto(t, next)
            /\ UNCHANGED <<memory, ctx>>
         \/ /\ e # Nil /\ free.slot # NoSlot
            /\ slotKey' = [slotKey EXCEPT ![loc] = xfer[t].key]
            /\ slotVal' = [slotVal EXCEPT ![loc] = e]
            /\ header' = [header EXCEPT ![new] = setSlotStateAndVersion(@, free.slot, SlotValid)]
            /\ linkMeta' = [linkMeta EXCEPT ![new] = free.lm]
            /\ ctx' = [ctx EXCEPT ![g].linkNextResize = free.next]
            /\ Goto(t, next)
      /\ UNCHANGED <<arena, active, indexNext, resizeCtx, api, scan, ins>>

\* The last bin of a chunk
lastOfIndex(g, b) == b + 1 = NumBins[g]                \* mutant: runs into the next chunk
lastOfChunk(g, b) == (b + 1) % CHUNK_SIZE = 0 \/ b + 1 = NumBins[g]

\* The bin is done: the header as it was before the OR, with DoneTransfer
FinishBin(t) ==
  LET b == xfer[t].bin
      last == lastOfChunk(xfer[t].gen, b)
  IN  /\ pc[t] = "xdone"
      /\ header' = [header EXCEPT ![OldBin(t)] = setBinState(xfer[t].h, BinDoneTransfer)]
      /\ xfer' = [xfer EXCEPT ![t] = [FreshXfer EXCEPT !.gen = xfer[t].gen,
                                                       !.bin = IF last THEN 0 ELSE b + 1]]
      /\ Goto(t, IF last THEN "chunkDone" ELSE "or")
      /\ UNCHANGED <<linkMeta, slotKey, slotVal, arena, roots, api, scan, ins>>

\* The thread that completed the last chunk finishes the resize
lastChunkEarly(g, done) == done + 1 >= NumChunks(g)    \* mutant: one chunk is still moving
lastChunkNever(g, done) == done > NumChunks(g)         \* mutant: nobody finishes
lastChunk(g, done) == done = NumChunks(g)

ChunkDone(t) ==
  LET g == xfer[t].gen
      done == ctx[g].chunksDone + 1
  IN  /\ pc[t] = "chunkDone"
      /\ ctx' = [ctx EXCEPT ![g].chunksDone = done]
      /\ Goto(t, IF lastChunk(g, done) THEN "finCapacity" ELSE "claim")
      /\ UNCHANGED <<memory, arena, active, indexNext, resizeCtx, api, scan, ins, xfer>>

\* The thread that completed the last chunk makes the new index active, and
\* only then retires the context
FinishCapacity(t) ==
  /\ pc[t] = "finCapacity"
  /\ linkCapacity' = [linkCapacity EXCEPT ![xfer[t].gen + 1] = ctx[xfer[t].gen].linkNextResize - 1]
  /\ Goto(t, "finActive")
  /\ UNCHANGED <<memory, linkNext, roots, api, scan, ins, xfer>>

FinishActive(t) ==
  /\ pc[t] = "finActive"
  /\ active' = xfer[t].gen + 1
  /\ Goto(t, "finInactive")
  /\ UNCHANGED <<memory, arena, indexNext, resizeCtx, ctx, api, scan, ins, xfer>>

FinishInactive(t) ==
  /\ pc[t] = "finInactive"
  /\ ctx' = [ctx EXCEPT ![xfer[t].gen].active = "inactive"]
  /\ Goto(t, "finCtx")
  /\ UNCHANGED <<memory, arena, active, indexNext, resizeCtx, api, scan, ins, xfer>>

FinishCtx(t) ==
  /\ pc[t] = "finCtx"
  /\ resizeCtx' = NoCtx
  /\ xfer' = [xfer EXCEPT ![t] = FreshXfer]
  /\ Goto(t, "help")
  /\ UNCHANGED <<memory, arena, active, indexNext, ctx, api, scan, ins>>

-----------------------------------------------------------------------------
ScanStep(t) == \/ LoadActive(t) \/ LoadHeader(t) \/ Follow(t)
               \/ MatchKeys(t) \/ Probe(t) \/ LoadLinks(t)
               \/ CheckStale(t) \/ CheckAnswer(t) \/ CheckTarget(t)

SlotStep(t) == \/ DWCASHit(t) \/ DWCASMiss(t) \/ LoopHeader(t) \/ LoopKey(t) \/ LoopVal(t)
               \/ LoopCheck(t) \/ LoopTTAS(t) \/ markSlotInvalid(t)

InsertStep(t) == \/ ChooseHeader(t) \/ ChooseLinks(t) \/ allocateLink(t) \/ allocateLinkPair(t)
                 \/ attachSingle(t) \/ attachPair(t) \/ reserveSlot(t) \/ FillKey(t) \/ FillVal(t)
                 \/ finalizeSlot(t) \/ LoadHeader2(t)
                 \/ UnreserveLoad(t) \/ UnreserveClear(t) \/ UnreserveCAS(t)

ResizeStep(t) == \/ TriggerResize(t) \/ PublishNext(t) \/ SetResizeContext(t)
                 \/ HelpResize(t) \/ HelpActive(t) \/ ClaimChunk(t)
                 \/ TransferBin(t) \/ TransferLinks(t) \/ StoreSentinel(t) \/ MoveEntry(t)
                 \/ FinishBin(t) \/ ChunkDone(t)
                 \/ FinishCapacity(t) \/ FinishActive(t) \/ FinishInactive(t) \/ FinishCtx(t)

Step(t) == ScanStep(t) \/ SlotStep(t) \/ InsertStep(t) \/ ResizeStep(t)

\* All calls made and returned
Finished == /\ \A t \in Thread : pc[t] = "idle" /\ calls[t] = MaxCalls[t]
            /\ UNCHANGED vars

Next == (\E t \in Thread : Invoke(t) \/ Step(t)) \/ Finished

Spec == Init /\ [][Next]_vars

\* A goroutine that is in a call keeps running; making a call is not required
Fairness == \A t \in Thread : WF_vars(Step(t))
FairSpec == Spec /\ Fairness

-----------------------------------------------------------------------------
(* Properties.                                                             *)

ScanPC == {"load", "follow", "match", "probe", "links", "check"}
SlotPC == {"dwcas", "loop", "loopKey", "loopVal", "loopCheck", "loopTTAS", "mark"}
OwnPC == {"fillKey", "fillVal", "finalize", "load2", "unres", "unresClear", "unresCAS"}
InsertPC == {"choose", "chooseLinks", "allocLink", "allocPair", "attachSingle", "attachPair",
             "reserve"} \cup OwnPC
TransferPC == {"or", "xlinks", "sentinel", "move", "xdone"}
ContextPC == {"setCtx", "helpActive", "claim", "chunkDone", "finCapacity", "finActive",
              "finInactive", "finCtx"} \cup TransferPC
PC == {"idle", "active", "trigger", "publish", "help"}
      \cup ScanPC \cup SlotPC \cup InsertPC \cup ContextPC

CallRec == [kind : Kind, key : Key, val : Value]
Answer == [val : Value \cup {Absent}, ok : BOOLEAN]
ScanRec == [idx : Gen \cup {NoGen}, h : Header, grp : 0..3, lm : LinkMeta,
            bm : SUBSET SlotIdx, ent : Entry \cup {Nil}, slot : SlotIdx \cup {NoSlot}]
InsRec == [h : Header, pick : SlotIdx \cup {NoSlot}, link : Nat,
           cont : {"idle", "load", "follow", "active"}]
XferRec == [gen : Gen \cup {NoGen}, bin : Nat, h : Header, todo : SUBSET SlotIdx, key : Nat]
CtxRec == [active : {"active", "inactive"}, chunkClaimed : Nat, chunksDone : Nat,
           linkNextResize : Int]

MemoryType ==
  /\ header \in [BinId -> Header]
  /\ linkMeta \in [BinId -> LinkMeta]
  /\ slotKey \in [Loc -> Nat]
  /\ slotVal \in [Loc -> Entry \cup {Nil}]
RootType ==
  /\ linkNext \in [Gen -> Nat]
  /\ linkCapacity \in [Gen -> Int]
  /\ active \in Gen
  /\ indexNext \in [Gen -> Gen \cup {NoGen}]
  /\ resizeCtx \in Gen \cup {NoCtx, ReservedCtx}
  /\ ctx \in [Gen -> CtxRec]
ApiType ==
  /\ call \in [Thread -> CallRec \cup {NoCall}]
  /\ res \in [Thread -> Answer \cup {Pending}]
  /\ calls \in [Thread -> Nat]
  /\ map \in [Key -> Value \cup {Absent}]
  /\ seen \in [Thread -> SUBSET (Value \cup {Absent})]
LocalType ==
  /\ pc \in [Thread -> PC]
  /\ scan \in [Thread -> ScanRec]
  /\ ins \in [Thread -> InsRec]
  /\ xfer \in [Thread -> XferRec]

\* Every word of the map and every local variable has its type.
TypeOK == MemoryType /\ RootType /\ ApiType /\ LocalType

\* Linearizability: the calls, their answers and the abstract map are those of
\* the atomic map.  A Put or Delete whose DWCAS succeeds answers with the value
\* the map has then, an Insert makes its slot Valid only while the key is
\* absent, and what any other call answers with was true during the call.
A == INSTANCE AtomicMap WITH
       InitMap <- [k \in Key |-> IF \E j \in 1..Len(Prefill) : Prefill[j] = k THEN InitVal ELSE Absent]
Linearizable == A!Spec

\* What the memory holds is the abstract map, at every moment of a transfer
\* too: marking a bin done hands its entries over to the new bins at once.
MemoryHoldsMap == Contents = map

\* A key is in at most one slot of its bin: of two Inserts that both looked
\* and found nothing, only one makes its slot Valid.
NoDuplicateKeys ==
  \A k \in Key : \A loc, other \in Copies(k) : loc = other

\* A bin that is in transfer or done has a successor index to go on to, so no
\* operation follows a nil indexNext (triggerResize publishes it first).
SuccessorPublished ==
  /\ \A bin \in BinId : header[bin].bs # BinNoTransfer => indexNext[bin[1]] = bin[1] + 1
  /\ \A t \in Thread : scan[t].idx # NoGen

\* An operation looks at its bin of generation g only when the bins of its key
\* in all earlier generations are done: a new bin is private to the transfer
\* that fills it with plain stores, and no generation is skipped.
NewBinPrivate ==
  \A t \in Thread : pc[t] \in ScanPC \cup SlotPC \cup InsertPC =>
     \A f \in 0..(scan[t].idx - 1) : header[getBin(f, hash(t))].bs = BinDoneTransfer

Owns(t, bin, i) == /\ \/ pc[t] \in OwnPC
                      \/ pc[t] \in ScanPC /\ Reserved(t)
                   /\ Bin(t) = bin /\ scan[t].slot = i

\* A slot that is Trying belongs to exactly one Insert while its bin is not in
\* transfer: no two Inserts fill the same slot, and no reservation is leaked.
ReservationOwned ==
  \A bin \in BinId, i \in SlotIdx :
     header[bin].bs = BinNoTransfer =>
       LET owners == {t \in Thread : Owns(t, bin, i)} IN
       IF header[bin].ss[i] = SlotTrying THEN Cardinality(owners) = 1 ELSE owners = {}

\* A bin is transferred by one thread, which is there for as long as the bin
\* is marked InTransfer.
TransferOwned ==
  \A bin \in BinId :
     LET movers == {t \in Thread : pc[t] \in TransferPC /\ OldBin(t) = bin} IN
     /\ Cardinality(movers) <= 1
     /\ header[bin].bs = BinInTransfer <=> \E t \in movers : pc[t] # "or"
     /\ header[bin].bs = BinDoneTransfer => movers = {}

\* The active index has taken over completely: every bin of every earlier
\* generation is done when a thread makes the index active.
ActiveComplete ==
  \A bin \in BinId : bin[1] < active => header[bin].bs = BinDoneTransfer

LinksOf(bin) == {resolveLink(linkMeta[bin], n) : n \in 1..3} \ {NO_LINK}

\* No link bucket belongs to two bins, whether it came from the bottom of the
\* arena or, in a transfer, from the top.
LinksDisjoint ==
  \A bin \in BinId :
     /\ LinksOf(bin) \subseteq 1..NumLinks[bin[1]]
     /\ \A other \in BinId : bin # other /\ bin[1] = other[1] => LinksOf(bin) \cap LinksOf(other) = {}

\* A slot that is Trying or Valid has a bucket: Get, Put, Delete and the
\* transfer go through LinkMeta to it without a test for a missing link.
SlotsBacked ==
  \A bin \in BinId, i \in SlotIdx :
     header[bin].ss[i] # SlotInvalid => HasSlot(linkMeta[bin], i) /\ SlotLoc(bin, i) \in Loc

\* The transfer finds a slot for every entry in the new bin (the code has no
\* way out if it does not).
TransferFits ==
  \A t \in Thread :
     pc[t] = "move" /\ slotVal[SlotLoc(OldBin(t), Lowest(xfer[t].todo))] # Nil =>
       findFreeSlotOrChain(xfer[t].gen, getBin(xfer[t].gen + 1, xfer[t].key)).slot # NoSlot

Valids(h) == {i \in SlotIdx : h.ss[i] = SlotValid}

\* No header comes back, short of 2^32 changes of the version: a comparison of
\* headers cannot be fooled by changes in between.  Most changes count the
\* version up; the AND of Delete, the OR and the store of DoneTransfer do not,
\* but they only drop a Valid slot or advance the bin state.
HeaderNeverRepeats ==
  [][\A bin \in BinId : header'[bin] # header[bin] =>
       LET old == header[bin]
           new == header'[bin]
       IN  \/ new.ver > old.ver
           \/ new.ver = old.ver /\ new.bs > old.bs
           \/ /\ new.ver = old.ver /\ new.bs = old.bs
              /\ Valids(new) \subseteq Valids(old) /\ Valids(new) # Valids(old)]_vars

\* Stats at one moment: the links that transfers took from the top, and Links
\* mutant: the fence at linkCapacity is counted too
transferLinksFence(g) ==
  IF linkCapacity[g] < NumLinks[g] THEN NumLinks[g] - linkCapacity[g] ELSE 0
transferLinks(g) ==
  IF linkCapacity[g] < NumLinks[g] THEN NumLinks[g] - linkCapacity[g] - 1 ELSE 0
StatsLinks == linkNext[active] + transferLinks(active)

\* Stats.Links ("link buckets allocated") counts every link bucket of the active
\* index.  Those that the transfer took from the other end of the arena are counted
\* once each: only the share of the Inserts, whose links may be lost, can be too high.
StatsCountLinks ==
  LET used  == UNION {LinksOf(bin) : bin \in {b \in BinId : b[1] = active}}
      taken == {link \in used : link > linkCapacity[active]}
  IN  /\ Cardinality(used) <= StatsLinks
      /\ Cardinality(taken) = transferLinks(active)

\* Every call returns, if every goroutine in a call keeps running.
CallsReturn == \A t \in Thread : pc[t] # "idle" ~> pc[t] = "idle"
=============================================================================
