------------------------- MODULE AllocatorMapProofs -------------------------
(***************************************************************************)
(* Theorems about AllocatorMap, for every number of threads, keys and      *)
(* index generations, every bucket geometry and every chunk size: the      *)
(* types, that a bin in transfer has a published successor, and that every *)
(* slot in use has a bucket behind it.  The three rest on one inductive    *)
(* invariant, IInv, because none of them is inductive alone: a header that *)
(* a thread loaded long ago is written back by a CAS, an Insert follows an *)
(* index link after it gave its slot up, a slot is reached through a       *)
(* LinkMeta word that may have changed since the slot was chosen.          *)
(***************************************************************************)
EXTENDS AllocatorMap, TLAPS, WellFoundedInduction, FiniteSetTheorems

-----------------------------------------------------------------------------
(* The inductive invariant.                                                *)

\* The types, except that a slot's second word and the local copy of one may be
\* an entry, as here, or a value, as in the other variant of the map: no lemma
\* that both variants use depends on which
Content == Entry \cup Value \cup {Nil}
BaseScan == [idx : Gen \cup {NoGen}, h : Header, grp : 0..3, lm : LinkMeta,
             bm : SUBSET SlotIdx, ent : Content, slot : SlotIdx \cup {NoSlot}]
BaseMemory ==
  /\ header \in [BinId -> Header] /\ linkMeta \in [BinId -> LinkMeta]
  /\ slotKey \in [Loc -> Nat] /\ slotVal \in [Loc -> Content]
BaseLocal == /\ pc \in [Thread -> PC] /\ scan \in [Thread -> BaseScan]
             /\ ins \in [Thread -> InsRec] /\ xfer \in [Thread -> XferRec]
BaseType == BaseMemory /\ RootType /\ ApiType /\ BaseLocal

\* Here they are entries
EntryType == /\ slotVal \in [Loc -> Entry \cup {Nil}]
             /\ \A t \in Thread : scan[t].ent \in Entry \cup {Nil}

Published(g) == g \in 0..(MaxGen - 1) /\ indexNext[g] = g + 1

\* A LinkMeta word that names buckets of an arena of n links, the pair only
\* after the single link
LinkMetaOK(lm, n) ==
  /\ lm.single <= n
  /\ lm.pair # NO_LINK => lm.single # NO_LINK /\ lm.pair + 1 <= n

\* The slots in use by header h have a bucket under lm
Backed(lm, h) == \A i \in SlotIdx : h.ss[i] # SlotInvalid => HasSlot(lm, i)

\* lm2 keeps the links of lm
Keeps(lm, lm2) == /\ lm.single # NO_LINK => lm2.single = lm.single
                  /\ lm.pair # NO_LINK => lm2.pair = lm.pair

BinInv(bin) ==
  /\ header[bin].bs # BinNoTransfer => Published(bin[1])
  /\ Backed(linkMeta[bin], header[bin])
  /\ LinkMetaOK(linkMeta[bin], NumLinks[bin[1]])
ArenaInv ==
  /\ resizeCtx \in Gen => Published(resizeCtx)
  /\ \A g \in Gen : linkCapacity[g] <= NumLinks[g]
  /\ \A g \in 0..(MaxGen - 1) : ctx[g].linkNextResize \in 1..NumLinks[g + 1]
SharedInv == (\A bin \in BinId : BinInv(bin)) /\ ArenaInv

UnresPC == {"unres", "unresClear", "unresCAS"}
NeedsSlot(t) == \/ pc[t] \in SlotPC \cup OwnPC
                \/ pc[t] = "check" /\ call[t].kind \in {"Put", "Delete"} /\ scan[t].ent # Nil
ScanInv(t) ==
  /\ Backed(linkMeta[Bin(t)], scan[t].h)
  /\ \A i \in scan[t].bm : scan[t].h.ss[i] = SlotValid
  /\ pc[t] = "probe" <=> scan[t].bm # {}
  /\ pc[t] \in {"load", "load2", "match", "probe", "links"} => scan[t].ent = Nil
  /\ NeedsSlot(t) => scan[t].slot # NoSlot
  /\ scan[t].slot # NoSlot => HasSlot(linkMeta[Bin(t)], scan[t].slot)
  /\ pc[t] \in {"dwcas", "loopCheck", "loopTTAS"} => scan[t].ent # Nil
  /\ pc[t] = "follow" => Published(scan[t].idx)
InsInv(t) ==
  /\ pc[t] \in {"unresClear", "unresCAS"} => Backed(linkMeta[Bin(t)], ins[t].h)
  /\ pc[t] \notin UnresPC => ins[t].cont = "idle"
  /\ ins[t].cont = "follow" => Published(scan[t].idx)
  /\ pc[t] = "reserve" /\ invalidMask(scan[t].h, 0) = {} =>
       ins[t].pick # NoSlot /\ HasSlot(linkMeta[Bin(t)], ins[t].pick)
  /\ pc[t] \in {"allocPair", "attachPair"} => linkMeta[Bin(t)].single # NO_LINK
  /\ pc[t] = "attachSingle" => ins[t].link \in 1..NumLinks[scan[t].idx]
  /\ pc[t] = "attachPair" => ins[t].link \in 1..(NumLinks[scan[t].idx] - 1)
XferInv(t) ==
  /\ pc[t] \in ContextPC => Published(xfer[t].gen)
  /\ pc[t] \in TransferPC => xfer[t].bin < NumBins[xfer[t].gen]
  /\ pc[t] \in TransferPC \ {"or"} => Backed(linkMeta[OldBin(t)], xfer[t].h)
  /\ pc[t] \in {"sentinel", "move"} => \A i \in xfer[t].todo : HasSlot(linkMeta[OldBin(t)], i)
  /\ pc[t] \in {"sentinel", "move"} => xfer[t].todo # {}
ThreadInv(t) ==
  /\ scan[t].idx \in Gen
  /\ pc[t] # "idle" \/ res[t] = Pending => call[t] \in CallRec
  /\ pc[t] # "idle" => ScanInv(t) /\ InsInv(t) /\ XferInv(t)
  /\ pc[t] = "idle" => scan[t] = FreshScan(scan[t].idx) /\ ins[t].cont = "idle"

IInv == BaseType /\ SharedInv /\ \A t \in Thread : ThreadInv(t)

-----------------------------------------------------------------------------
(* Slots, headers and LinkMeta words.                                      *)

Less == {ss \in Nat \X Nat : ss[1] < ss[2]}

\* A set of naturals that is not empty has a least element.
LEMMA HasLeast ==
  ASSUME NEW S, S \subseteq Nat, S # {}
  PROVE  \E x \in S : \A y \in S : x <= y
<1>2. IsWellFoundedOn(Less, Nat)
  BY NatLessThanWellFounded, Zenon DEF OpToRel, Less
<1>3. PICK x \in S : \A y \in S : ~ (<<y, x>> \in Less)
  BY <1>2, WFMin
<1>4. ASSUME NEW y \in S PROVE x <= y
  <2>1. x \in Nat /\ y \in Nat
    OBVIOUS
  <2>2. ~(y < x)
    <3>1. SUFFICES ASSUME y < x PROVE <<y, x>> \in Less
      BY <1>3
    <3> QED BY <2>1, <3>1, Zenon DEF Less
  <2> QED BY <2>1, <2>2
<1> QED BY <1>4

\* Lowest (bits.TrailingZeros32 of a mask that is not zero) is one of the
\* slots of the mask.
LEMMA LowestIn ==
  ASSUME NEW S, S \subseteq Nat, S # {}
  PROVE  Lowest(S) \in S
BY HasLeast DEF Lowest

\* Slot indices are naturals, so a mask of slots has a lowest bit.
LEMMA SlotIdxNat == SlotIdx \subseteq Nat
BY SizeAssumption DEF SlotIdx, MaxSlots

\* The bins of every key and generation exist.
LEMMA GetBinType ==
  ASSUME NEW g \in Gen, NEW n \in Nat
  PROVE  getBin(g, n) \in BinId /\ getBin(g, n)[1] = g
BY SizeAssumption DEF getBin, BinId

\* A bin is a generation and a bin number of that index.
LEMMA BinIdGen ==
  ASSUME NEW bin \in BinId
  PROVE  /\ bin[1] \in Gen /\ bin[2] \in 0..(NumBins[bin[1]] - 1) /\ bin = <<bin[1], bin[2]>>
BY SizeAssumption DEF BinId

\* What the header operations return.
LEMMA HeaderOps ==
  ASSUME NEW h \in Header
  PROVE  /\ ZeroHeader \in Header
         /\ \A i \in SlotIdx, st \in SlotState : setSlotStateAndVersion(h, i, st) \in Header
         /\ \A st \in BinState : setBinState(h, st) \in Header
         /\ orInTransfer(h) \in Header
         /\ \A n \in 0..3 : validMask(h, n) \subseteq SlotIdx /\ invalidMask(h, n) \subseteq SlotIdx
<1>1. ZeroHeader \in Header
  BY SizeAssumption DEF ZeroHeader, Header, BinState, SlotState, BinNoTransfer, SlotInvalid
<1>2. ASSUME NEW i \in SlotIdx, NEW st \in SlotState
      PROVE  setSlotStateAndVersion(h, i, st) \in Header
  BY SizeAssumption DEF setSlotStateAndVersion, Header
<1>3. ASSUME NEW st \in BinState PROVE setBinState(h, st) \in Header
  BY DEF setBinState, Header
<1>4. orInTransfer(h) \in Header
  BY <1>3 DEF orInTransfer, Header, BinState
<1>5. ASSUME NEW n \in 0..3
      PROVE  validMask(h, n) \subseteq SlotIdx /\ invalidMask(h, n) \subseteq SlotIdx
  <2>1. Bucket(n) \subseteq SlotIdx
    <3>1. CASE n = 0 BY <3>1, SizeAssumption DEF Bucket, SlotIdx, MaxSlots
    <3>2. CASE n = 1 BY <3>2, SizeAssumption DEF Bucket, SlotIdx, MaxSlots
    <3>3. CASE n = 2 BY <3>3, SizeAssumption DEF Bucket, SlotIdx, MaxSlots
    <3>4. CASE n = 3 BY <3>4, SizeAssumption DEF Bucket, SlotIdx, MaxSlots
    <3> QED BY <3>1, <3>2, <3>3, <3>4
  <2> QED BY <2>1 DEF validMask, invalidMask
<1> QED BY <1>1, <1>2, <1>3, <1>4, <1>5

\* Which header operations keep the slots in use backed.
LEMMA BackedOps ==
  ASSUME NEW h \in Header, NEW lm, Backed(lm, h)
  PROVE  /\ Backed(lm, ZeroHeader)
         /\ \A i \in SlotIdx, st \in SlotState :
              HasSlot(lm, i) => Backed(lm, setSlotStateAndVersion(h, i, st))
         /\ \A i \in SlotIdx : Backed(lm, setSlotStateAndVersion(h, i, SlotInvalid))
         /\ \A st \in BinState : Backed(lm, setBinState(h, st))
         /\ Backed(lm, orInTransfer(h))
BY DEF Backed, ZeroHeader, setSlotStateAndVersion, setBinState, orInTransfer, Header, BinState

\* The header that a CAS on the state of one slot writes.
LEMMA SetSlot ==
  ASSUME NEW h \in Header, NEW lm, Backed(lm, h), NEW i \in SlotIdx, NEW st \in SlotState,
         HasSlot(lm, i) \/ st = SlotInvalid
  PROVE  /\ setSlotStateAndVersion(h, i, st) \in Header
         /\ Backed(lm, setSlotStateAndVersion(h, i, st))
         /\ setSlotStateAndVersion(h, i, st).bs = h.bs
<1>1. setSlotStateAndVersion(h, i, st).bs = h.bs
  BY DEF setSlotStateAndVersion
<1> QED BY <1>1, HeaderOps, BackedOps

\* The empty header uses no slot.
LEMMA ZeroBacked == \A lm : Backed(lm, ZeroHeader)
BY DEF Backed, ZeroHeader

\* The slots of bucket n are those whose link is the n-th of the bin.
LEMMA BucketSlots ==
  ASSUME NEW lm \in LinkMeta, NEW i \in SlotIdx
  PROVE  /\ i \in Bucket(0) <=> i < PRIMARY_SLOTS
         /\ \A n \in 1..3 : i \in Bucket(n) => i >= PRIMARY_SLOTS /\ LinkOf(lm, i) = resolveLink(lm, n)
<1>1. i \in Bucket(0) <=> i < PRIMARY_SLOTS
  BY SizeAssumption DEF Bucket, SlotIdx, MaxSlots
<1>2. ASSUME NEW n \in 1..3, i \in Bucket(n)
      PROVE  i >= PRIMARY_SLOTS /\ (i - PRIMARY_SLOTS) \div LINK_SLOTS = n - 1
  <2>1. CASE n = 1 BY <1>2, <2>1, SizeAssumption DEF Bucket, SlotIdx, MaxSlots
  <2>2. CASE n = 2 BY <1>2, <2>2, SizeAssumption DEF Bucket, SlotIdx, MaxSlots
  <2>3. CASE n = 3 BY <1>2, <2>3, SizeAssumption DEF Bucket, SlotIdx, MaxSlots
  <2> QED BY <2>1, <2>2, <2>3
<1> QED BY <1>1, <1>2 DEF LinkOf

\* Links are never detached, so a slot that has a bucket keeps it.
LEMMA KeepsSlots ==
  ASSUME NEW lm \in LinkMeta, NEW lm2 \in LinkMeta, Keeps(lm, lm2)
  PROVE  /\ \A i \in SlotIdx : HasSlot(lm, i) => HasSlot(lm2, i)
         /\ \A h : Backed(lm, h) => Backed(lm2, h)
<1>1. ASSUME NEW i \in SlotIdx, HasSlot(lm, i) PROVE HasSlot(lm2, i)
  <2> DEFINE n == 1 + (i - PRIMARY_SLOTS) \div LINK_SLOTS
  <2>1. resolveLink(lm, n) # NO_LINK => resolveLink(lm2, n) # NO_LINK
    <3>1. CASE n = 1 BY <3>1 DEF resolveLink, Keeps
    <3>2. CASE n = 2 BY <3>2 DEF resolveLink, Keeps
    <3>3. CASE n # 1 /\ n # 2 BY <3>3 DEF resolveLink, Keeps, LinkMeta, NO_LINK
    <3> QED BY <3>1, <3>2, <3>3
  <2> QED BY <1>1, <2>1 DEF HasSlot, LinkOf
<1> QED BY <1>1 DEF Backed

\* A slot with a bucket has an address (getSlotByIndex, resolveLink).
LEMMA LocType ==
  ASSUME NEW bin \in BinId, NEW i \in SlotIdx, NEW lm \in LinkMeta,
         LinkMetaOK(lm, NumLinks[bin[1]]), HasSlot(lm, i)
  PROVE  LocVia(lm, bin, i) \in Loc
<1> DEFINE g == bin[1]
<1>1. /\ g \in Gen /\ bin[2] \in 0..(NumBins[g] - 1)
      /\ NumBins[g] \in Nat \ {0} /\ NumLinks[g] \in Nat
  BY BinIdGen, SizeAssumption
<1>2. CASE i < PRIMARY_SLOTS
  <2>1. i \in 0..(PRIMARY_SLOTS - 1)
    BY <1>2, SizeAssumption DEF SlotIdx, MaxSlots
  <2> QED BY <1>1, <1>2, <2>1 DEF LocVia, Loc
<1>3. CASE ~(i < PRIMARY_SLOTS)
  <2> DEFINE k == LinkOf(lm, i)
             j == (i - PRIMARY_SLOTS) % LINK_SLOTS
  <2>1. j \in 0..(LINK_SLOTS - 1)
    BY <1>3, SizeAssumption DEF SlotIdx
  <2>2. k \in 1..NumLinks[g]
    BY <1>1, <1>3 DEF HasSlot, LinkOf, resolveLink, LinkMetaOK, LinkMeta, NO_LINK
  <2>3. NumBins[g] + k - 1 \in NumBins[g]..(NumBins[g] + NumLinks[g] - 1)
    BY <1>1, <2>2
  <2> QED BY <1>1, <1>3, <2>1, <2>3 DEF LocVia, Loc
<1> QED BY <1>2, <1>3

-----------------------------------------------------------------------------
(* Frames: what a step of one thread leaves alone.                         *)

OthersSame(t) == \A u \in Thread \ {t} : /\ pc'[u] = pc[u] /\ scan'[u] = scan[u]
                                         /\ ins'[u] = ins[u] /\ xfer'[u] = xfer[u]

\* The bin of a running call and the bin being transferred exist.
LEMMA BinType ==
  ASSUME IInv, NEW t \in Thread, pc[t] # "idle"
  PROVE  /\ call[t] \in CallRec /\ hash(t) \in Nat
         /\ Bin(t) \in BinId /\ Bin(t)[1] = scan[t].idx
         /\ scan[t].idx \in Gen
         /\ header[Bin(t)] \in Header /\ linkMeta[Bin(t)] \in LinkMeta
         /\ LinkMetaOK(linkMeta[Bin(t)], NumLinks[scan[t].idx])
         /\ Backed(linkMeta[Bin(t)], header[Bin(t)])
         /\ header[Bin(t)].bs # BinNoTransfer => Published(scan[t].idx)
<1>1. call[t] \in CallRec /\ scan[t].idx \in Gen
  BY DEF IInv, ThreadInv
<1>2. hash(t) \in Nat
  BY <1>1, SizeAssumption DEF hash, CallRec
<1>3. Bin(t) \in BinId /\ Bin(t)[1] = scan[t].idx
  BY <1>1, <1>2, GetBinType DEF Bin
<1> QED BY <1>1, <1>2, <1>3 DEF IInv, BaseType, BaseMemory, SharedInv, BinInv

\* A bin in the hands of transferBin exists, is well formed, and its index has a
\* successor.
LEMMA OldBinType ==
  ASSUME IInv, NEW t \in Thread, pc[t] \in TransferPC
  PROVE  /\ Published(xfer[t].gen) /\ xfer[t].gen \in Gen
         /\ OldBin(t) \in BinId /\ OldBin(t)[1] = xfer[t].gen
         /\ header[OldBin(t)] \in Header /\ linkMeta[OldBin(t)] \in LinkMeta
         /\ LinkMetaOK(linkMeta[OldBin(t)], NumLinks[xfer[t].gen])
         /\ Backed(linkMeta[OldBin(t)], header[OldBin(t)])
<1>1. pc[t] # "idle" /\ pc[t] \in ContextPC
  BY DEF TransferPC, ContextPC
<1>2. Published(xfer[t].gen) /\ xfer[t].bin < NumBins[xfer[t].gen]
  BY <1>1 DEF IInv, ThreadInv, XferInv
<1>3. xfer[t].gen \in Gen /\ NumBins[xfer[t].gen] \in Nat
  BY <1>2, SizeAssumption DEF Published, Gen
<1>4. xfer[t].bin \in 0..(NumBins[xfer[t].gen] - 1)
  BY <1>2, <1>3 DEF IInv, BaseType, BaseLocal, XferRec
<1>5. OldBin(t) \in BinId /\ OldBin(t)[1] = xfer[t].gen
  BY <1>3, <1>4 DEF OldBin, BinId
<1> QED BY <1>2, <1>3, <1>5 DEF IInv, BaseType, BaseMemory, SharedInv, BinInv

\* A thread that does not move keeps its invariant if links and successors,
\* once set, stay.
LEMMA OtherThreads ==
  ASSUME IInv, NEW t \in Thread, OthersSame(t), call' = call,
         \A u \in Thread \ {t} : res'[u] = Pending => res[u] = Pending,
         linkMeta' \in [BinId -> LinkMeta],
         \A bin \in BinId : Keeps(linkMeta[bin], linkMeta'[bin]),
         \A g \in Gen : Published(g) => Published(g)',
         ThreadInv(t)'
  PROVE  \A u \in Thread : ThreadInv(u)'
<1>1. SUFFICES ASSUME NEW u \in Thread, u # t PROVE ThreadInv(u)'
  OBVIOUS
<1>2. /\ pc'[u] = pc[u] /\ scan'[u] = scan[u] /\ ins'[u] = ins[u] /\ xfer'[u] = xfer[u]
      /\ call'[u] = call[u] /\ res'[u] = Pending => res[u] = Pending
  BY <1>1 DEF OthersSame
<1>3. ThreadInv(u)
  BY DEF IInv
<1>4. ASSUME pc[u] # "idle" PROVE ScanInv(u)' /\ InsInv(u)' /\ XferInv(u)'
  <2>1. ScanInv(u) /\ InsInv(u) /\ XferInv(u)
    BY <1>3, <1>4 DEF ThreadInv
  <2>2. Bin(u) \in BinId /\ Bin(u)' = Bin(u) /\ linkMeta[Bin(u)] \in LinkMeta /\ scan[u].idx \in Gen
    BY <1>2, <1>4, BinType DEF Bin, hash
  <2>3. /\ \A i \in SlotIdx : HasSlot(linkMeta[Bin(u)], i) => HasSlot(linkMeta'[Bin(u)], i)
        /\ \A h : Backed(linkMeta[Bin(u)], h) => Backed(linkMeta'[Bin(u)], h)
    BY <2>2, KeepsSlots
  <2>4. scan[u] \in BaseScan /\ ins[u] \in InsRec /\ xfer[u] \in XferRec
    BY DEF IInv, BaseType, BaseLocal
  <2>5. ScanInv(u)'
    BY <1>2, <2>1, <2>2, <2>3, <2>4 DEF ScanInv, NeedsSlot, BaseScan
  <2>6. InsInv(u)'
    <3>1. linkMeta[Bin(u)].single # NO_LINK => linkMeta'[Bin(u)].single # NO_LINK
      BY <2>2 DEF Keeps
    <3> QED BY <1>2, <2>1, <2>2, <2>3, <2>4, <3>1 DEF InsInv, InsRec
  <2>7. XferInv(u)'
    <3>1. pc[u] \in ContextPC => Published(xfer[u].gen)'
      <4>1. SUFFICES ASSUME pc[u] \in ContextPC PROVE Published(xfer[u].gen)'
        OBVIOUS
      <4>2. Published(xfer[u].gen)
        BY <2>1, <4>1 DEF XferInv
      <4>3. xfer[u].gen \in Gen
        BY <4>2, SizeAssumption DEF Published, Gen
      <4> QED BY <1>2, <4>2, <4>3 DEF Published
    <3>2. ASSUME pc[u] \in TransferPC
          PROVE  /\ \A i \in SlotIdx : HasSlot(linkMeta[OldBin(u)], i) => HasSlot(linkMeta'[OldBin(u)], i)
                 /\ \A h : Backed(linkMeta[OldBin(u)], h) => Backed(linkMeta'[OldBin(u)], h)
      BY <3>2, OldBinType, KeepsSlots
    <3>3. OldBin(u)' = OldBin(u)
      BY <1>2 DEF OldBin
    <3>4. pc[u] \in {"sentinel", "move"} =>
            \A i \in xfer[u].todo : HasSlot(linkMeta'[OldBin(u)], i)
      BY <2>1, <2>4, <3>2 DEF XferInv, XferRec, TransferPC
    <3>5. pc[u] \in TransferPC \ {"or"} => Backed(linkMeta'[OldBin(u)], xfer[u].h)
      BY <2>1, <3>2 DEF XferInv
    <3> QED BY <1>2, <2>1, <3>1, <3>3, <3>4, <3>5 DEF XferInv
  <2> QED BY <2>5, <2>6, <2>7
<1> QED BY <1>2, <1>3, <1>4 DEF ThreadInv

\* A step that only changes local variables of t.
LEMMA LocalStep ==
  ASSUME IInv, NEW t \in Thread, UNCHANGED <<memory, arena, roots, api>>,
         BaseLocal', OthersSame(t), ThreadInv(t)'
  PROVE  IInv'
<1>1. BaseType'
  BY DEF IInv, BaseType, BaseMemory, RootType, ApiType, memory, arena, roots, api
<1>2. SharedInv'
  BY DEF IInv, SharedInv, BinInv, ArenaInv, Published, memory, arena, roots
<1>3. \A u \in Thread : ThreadInv(u)'
  <2>1. \A bin \in BinId : Keeps(linkMeta[bin], linkMeta'[bin])
    BY DEF Keeps, memory
  <2>2. \A g \in Gen : Published(g) => Published(g)'
    BY DEF Published, roots
  <2>3. linkMeta' \in [BinId -> LinkMeta] /\ call' = call /\ res' = res
    BY DEF IInv, BaseType, BaseMemory, memory, api
  <2> QED BY <2>1, <2>2, <2>3, OtherThreads
<1> QED BY <1>1, <1>2, <1>3 DEF IInv

\* The initial values of the local variables have their types.
LEMMA FreshTypes ==
  /\ \A g \in Gen : FreshScan(g) \in BaseScan
  /\ FreshIns \in InsRec
  /\ FreshXfer \in XferRec
<1>1. ZeroHeader \in Header
  BY SizeAssumption DEF ZeroHeader, Header, BinState, SlotState, BinNoTransfer, SlotInvalid
<1>2. NoLinks \in LinkMeta
  BY DEF NoLinks, LinkMeta, NO_LINK
<1> QED BY <1>1, <1>2 DEF FreshScan, FreshIns, FreshXfer, BaseScan, InsRec, XferRec, NO_LINK, Gen, Content

\* The end of a lookup keeps the type of its variables.
LEMMA ScanSet ==
  ASSUME NEW s \in BaseScan, NEW lm \in LinkMeta,
         NEW e \in Content, NEW i \in SlotIdx \cup {NoSlot}
  PROVE  /\ [s EXCEPT !.bm = {}, !.lm = lm, !.grp = 0] \in BaseScan
         /\ [s EXCEPT !.bm = {}, !.grp = 0, !.lm = lm, !.ent = e, !.slot = i] \in BaseScan
<1>1. ASSUME NEW n \in 0..3, NEW b \in SUBSET SlotIdx
      PROVE  /\ [s EXCEPT !.bm = b, !.lm = lm, !.grp = n] \in BaseScan
             /\ [s EXCEPT !.bm = b, !.grp = n, !.lm = lm, !.ent = e, !.slot = i] \in BaseScan
  BY DEF BaseScan
<1>2. 0 \in 0..3 /\ {} \in SUBSET SlotIdx
  OBVIOUS
<1> QED BY <1>1, <1>2, Zenon

\* Moves to p with these locals: the form every step has.
LEMMA Moved ==
  ASSUME IInv, NEW t \in Thread, NEW p \in PC, Goto(t, p),
         NEW s \in BaseScan, scan' = [scan EXCEPT ![t] = s],
         NEW n \in InsRec, ins' = [ins EXCEPT ![t] = n],
         NEW x \in XferRec, xfer' = [xfer EXCEPT ![t] = x]
  PROVE  /\ BaseLocal' /\ OthersSame(t)
         /\ pc'[t] = p /\ scan'[t] = s /\ ins'[t] = n /\ xfer'[t] = x
BY DEF IInv, BaseType, BaseLocal, Goto, OthersSame

\* A step that moves t to p and changes only its lookup.
LEMMA MovedScan ==
  ASSUME IInv, NEW t \in Thread, NEW p \in PC, Goto(t, p),
         NEW s \in BaseScan, scan' = [scan EXCEPT ![t] = s], UNCHANGED <<ins, xfer>>
  PROVE  /\ BaseLocal' /\ OthersSame(t)
         /\ pc'[t] = p /\ scan'[t] = s /\ ins'[t] = ins[t] /\ xfer'[t] = xfer[t]
BY DEF IInv, BaseType, BaseLocal, Goto, OthersSame

\* What is known of the locals of a thread.
LEMMA Locals ==
  ASSUME IInv, NEW t \in Thread
  PROVE  /\ pc[t] \in PC /\ scan[t] \in BaseScan /\ ins[t] \in InsRec /\ xfer[t] \in XferRec
         /\ ThreadInv(t)
         /\ pc[t] # "idle" => ScanInv(t) /\ InsInv(t) /\ XferInv(t)
BY DEF IInv, BaseType, BaseLocal, ThreadInv

PlainPC == {"idle", "active", "load", "follow", "trigger", "publish", "help"}

\* A thread that has forgotten its lookup, its slot and its transfer.
LEMMA FreshThread ==
  ASSUME NEW t \in Thread, NEW g \in Gen,
         scan'[t] = FreshScan(g), pc'[t] \in PlainPC, ins'[t].cont = "idle",
         pc'[t] = "follow" => Published(g)',
         pc'[t] # "idle" \/ res'[t] = Pending => call'[t] \in CallRec
  PROVE  ThreadInv(t)'
<1>1. scan'[t].idx = g /\ scan'[t].h = ZeroHeader /\ scan'[t].bm = {} /\ scan'[t].slot = NoSlot
  BY DEF FreshScan
<1>2. pc'[t] \notin SlotPC \cup OwnPC \cup ContextPC /\ pc'[t] # "check"
  BY DEF PlainPC, SlotPC, OwnPC, ContextPC, TransferPC
<1>3. ScanInv(t)'
  BY <1>1, <1>2, ZeroBacked DEF ScanInv, NeedsSlot, PlainPC, FreshScan, Published
<1>4. InsInv(t)'
  BY <1>1, <1>2 DEF InsInv, PlainPC, UnresPC
<1>5. XferInv(t)'
  BY <1>2 DEF XferInv, PlainPC, ContextPC, TransferPC
<1> QED BY <1>1, <1>3, <1>4, <1>5 DEF ThreadInv

-----------------------------------------------------------------------------
(* The lookup.                                                             *)

\* m.getActiveIndex: the lookup starts in an index that exists.
LEMMA LoadActiveInv ==
  ASSUME IInv, NEW t \in Thread, LoadActive(t) PROVE IInv'
<1>1. active \in Gen /\ FreshScan(active) \in BaseScan
  BY FreshTypes DEF IInv, BaseType, RootType
<1>2. "load" \in PC
  BY DEF PC, ScanPC
<1>3. /\ BaseLocal' /\ OthersSame(t)
      /\ pc'[t] = "load" /\ scan'[t] = FreshScan(active) /\ ins'[t] = ins[t]
  BY <1>1, <1>2, MovedScan DEF LoadActive
<1>4. ins[t].cont = "idle" /\ call[t] \in CallRec
  BY Locals, BinType DEF LoadActive, InsInv, UnresPC
<1>5. ThreadInv(t)'
  BY <1>1, <1>3, <1>4, FreshThread DEF LoadActive, PlainPC, api
<1> QED BY <1>3, <1>5, LocalStep DEF LoadActive

\* The header load at retry: a thread goes on to the next index only if the bin is
\* marked, and then the next index is published.
LEMMA LoadHeaderInv ==
  ASSUME IInv, NEW t \in Thread, LoadHeader(t) PROVE IInv'
<1> DEFINE h == header[Bin(t)]
<1> USE DEF LoadHeader
<1>1. /\ scan[t] \in BaseScan /\ ScanInv(t) /\ InsInv(t) /\ XferInv(t)
      /\ call[t] \in CallRec /\ pc[t] = "load"
  BY Locals, BinType
<1>2. CASE h.bs = BinNoTransfer
  <2> DEFINE s == [scan[t] EXCEPT !.h = h]
  <2>1. s \in BaseScan
    BY <1>1, BinType DEF BaseScan
  <2>2. scan' = [scan EXCEPT ![t] = s] /\ Goto(t, "match")
    BY <1>2
  <2>3. /\ BaseLocal' /\ OthersSame(t)
        /\ pc'[t] = "match" /\ scan'[t] = s /\ ins'[t] = ins[t] /\ xfer'[t] = xfer[t]
    BY <2>1, <2>2, MovedScan DEF PC, ScanPC
  <2>4. Bin(t)' = Bin(t) /\ linkMeta' = linkMeta /\ call' = call /\ s.idx = scan[t].idx
    BY <2>1, <2>3, <1>1 DEF Bin, hash, memory, api, BaseScan
  <2>5. ScanInv(t)'
    BY <1>1, <2>3, <2>4, BinType DEF ScanInv, NeedsSlot, SlotPC, OwnPC, BaseScan
  <2>6. InsInv(t)' /\ XferInv(t)'
    BY <1>1, <2>3, <2>4 DEF InsInv, XferInv, UnresPC, ContextPC, TransferPC
  <2>7. ThreadInv(t)'
    BY <1>1, <2>3, <2>4, <2>5, <2>6, BinType DEF ThreadInv
  <2> QED BY <2>3, <2>7, LocalStep
<1>3. CASE h.bs # BinNoTransfer
  <2> DEFINE p == IF h.bs = BinDoneTransfer THEN "follow" ELSE "active"
  <2>1. scan' = [scan EXCEPT ![t] = scan[t]] /\ Goto(t, p) /\ p \in PC
    BY <1>3 DEF IInv, BaseType, BaseLocal, PC, ScanPC
  <2>2. /\ BaseLocal' /\ OthersSame(t)
        /\ pc'[t] = p /\ scan'[t] = scan[t] /\ ins'[t] = ins[t] /\ xfer'[t] = xfer[t]
    BY <1>1, <2>1, MovedScan
  <2>3. Bin(t)' = Bin(t) /\ linkMeta' = linkMeta /\ call' = call /\ indexNext' = indexNext
    BY <2>2 DEF Bin, hash, memory, api, roots
  <2>4. ScanInv(t)'
    BY <1>1, <1>3, <2>2, <2>3, BinType DEF ScanInv, NeedsSlot, SlotPC, OwnPC, Published
  <2>5. InsInv(t)' /\ XferInv(t)'
    BY <1>1, <2>2, <2>3 DEF InsInv, XferInv, UnresPC, ContextPC, TransferPC, Published
  <2>6. ThreadInv(t)'
    BY <1>1, <2>2, <2>3, <2>4, <2>5, BinType DEF ThreadInv
  <2> QED BY <2>2, <2>6, LocalStep
<1> QED BY <1>2, <1>3

\* idx.getNextIndex: the link that is followed is not nil.
LEMMA FollowInv ==
  ASSUME IInv, NEW t \in Thread, Follow(t) PROVE IInv'
<1> DEFINE g == getNextIndex(scan[t].idx)
<1>1. Published(scan[t].idx) /\ ins[t].cont = "idle" /\ call[t] \in CallRec
  BY Locals, BinType DEF Follow, ScanInv, InsInv, UnresPC
<1>2. g \in Gen /\ FreshScan(g) \in BaseScan
  <2>1. scan[t].idx \in 0..(MaxGen - 1) /\ g = scan[t].idx + 1
    BY <1>1 DEF Published, getNextIndex
  <2>2. g \in Gen
    <3>1. MaxGen \in Nat
      BY SizeAssumption
    <3> HIDE DEF g
    <3> QED BY <2>1, <3>1 DEF Gen
  <2> QED BY <2>2, FreshTypes
<1>3. /\ BaseLocal' /\ OthersSame(t)
      /\ pc'[t] = "load" /\ scan'[t] = FreshScan(g) /\ ins'[t] = ins[t]
  BY <1>2, MovedScan DEF Follow, PC, ScanPC
<1>4. ThreadInv(t)'
  BY <1>1, <1>2, <1>3, FreshThread DEF Follow, PlainPC, api
<1> QED BY <1>3, <1>4, LocalStep DEF Follow

\* Going on with the lookup: only the scan of t changes, to s, and t stays in
\* the same bin with the same header.
LEMMA ScanMove ==
  ASSUME IInv, NEW t \in Thread, pc[t] \in {"match", "probe", "links"},
         UNCHANGED <<memory, arena, roots, api, ins, xfer>>,
         NEW s \in BaseScan, scan' = [scan EXCEPT ![t] = s],
         NEW p, Goto(t, p),
         p \in {"probe", "links", "match", "check", "finalize", "reserve", "choose"},
         s.idx = scan[t].idx, s.h = scan[t].h,
         p = "probe" <=> s.bm # {}, \A i \in s.bm : s.h.ss[i] = SlotValid,
         s.slot # NoSlot => HasSlot(linkMeta[Bin(t)], s.slot),
         p \in {"match", "probe", "links"} => s.ent = Nil,
         p = "check" /\ call[t].kind \in {"Put", "Delete"} /\ s.ent # Nil => s.slot # NoSlot,
         p = "finalize" => s.slot # NoSlot,
         p = "reserve" => invalidMask(s.h, 0) # {}
  PROVE  IInv'
<1>1. /\ ScanInv(t) /\ InsInv(t) /\ call[t] \in CallRec /\ scan[t].idx \in Gen
  BY Locals, BinType
<1>2. p \in PC
  BY DEF PC, ScanPC, InsertPC, OwnPC
<1>3. /\ BaseLocal' /\ OthersSame(t)
      /\ pc'[t] = p /\ scan'[t] = s /\ ins'[t] = ins[t] /\ xfer'[t] = xfer[t]
  BY <1>2, MovedScan
<1>4. Bin(t)' = Bin(t) /\ linkMeta' = linkMeta /\ call' = call
  BY <1>3 DEF Bin, hash, memory, api
<1>5. ScanInv(t)'
  BY <1>1, <1>3, <1>4 DEF ScanInv, NeedsSlot, SlotPC, OwnPC
<1>6. InsInv(t)' /\ XferInv(t)'
  BY <1>1, <1>3, <1>4 DEF InsInv, XferInv, UnresPC, ContextPC, TransferPC
<1>7. ThreadInv(t)'
  BY <1>1, <1>3, <1>4, <1>5, <1>6 DEF ThreadInv
<1> QED BY <1>3, <1>7, LocalStep

\* The lookup goes on to other candidates or the next bucket: the candidates are
\* slots that the header in hand calls Valid.
LEMMA ScanOnInv ==
  ASSUME IInv, NEW t \in Thread, pc[t] \in {"match", "probe", "links"},
         UNCHANGED <<memory, arena, roots, api, ins, xfer>>,
         NEW rest, rest \subseteq SlotIdx, \A i \in rest : scan[t].h.ss[i] = SlotValid,
         NEW lm \in LinkMeta, ScanOn(t, rest, lm)
  PROVE  IInv'
<1> DEFINE later == LaterBuckets(t, scan[t].grp, lm)
<1>1. scan[t] \in BaseScan /\ ScanInv(t)
  BY Locals
<1>2. scan[t].ent = Nil /\ (scan[t].slot # NoSlot => HasSlot(linkMeta[Bin(t)], scan[t].slot))
  BY <1>1 DEF ScanInv
<1>3. CASE rest # {} /\ scan' = [scan EXCEPT ![t].bm = rest, ![t].lm = lm] /\ Goto(t, "probe")
  <2> DEFINE s == [scan[t] EXCEPT !.bm = rest, !.lm = lm]
  <2>1. s \in BaseScan /\ scan' = [scan EXCEPT ![t] = s]
    BY <1>1, <1>3 DEF BaseScan
  <2>2. /\ s.idx = scan[t].idx /\ s.h = scan[t].h /\ s.bm = rest
        /\ s.slot = scan[t].slot /\ s.ent = scan[t].ent
    BY <1>1 DEF BaseScan
  <2>3. /\ Goto(t, "probe") /\ s.bm # {} /\ \A i \in s.bm : s.h.ss[i] = SlotValid
    BY <1>3, <2>2
  <2> HIDE DEF s
  <2> QED BY <1>2, <2>1, <2>2, <2>3, ScanMove
<1>4. CASE scan' = [scan EXCEPT ![t].bm = {}] /\ Goto(t, "links")
  <2> DEFINE s == [scan[t] EXCEPT !.bm = {}]
  <2>1. s \in BaseScan /\ scan' = [scan EXCEPT ![t] = s]
    BY <1>1, <1>4 DEF BaseScan
  <2>2. /\ s.idx = scan[t].idx /\ s.h = scan[t].h /\ s.bm = {}
        /\ s.slot = scan[t].slot /\ s.ent = scan[t].ent
    BY <1>1 DEF BaseScan
  <2> QED BY <1>2, <1>4, <2>1, <2>2, ScanMove
<1>5. CASE /\ later # {} /\ Goto(t, "match")
           /\ scan' = [scan EXCEPT ![t].bm = {}, ![t].lm = lm, ![t].grp = Lowest(later)]
  <2> DEFINE s == [scan[t] EXCEPT !.bm = {}, !.lm = lm, !.grp = Lowest(later)]
  <2>1. Lowest(later) \in 0..3
    <3>1. later \subseteq 0..3 /\ later \subseteq Nat
      BY <1>1 DEF LaterBuckets, BaseScan
    <3>2. Lowest(later) \in later
      <4> HIDE DEF later
      <4> QED BY <1>5, <3>1, LowestIn
    <3> QED BY <3>1, <3>2
  <2>2. s \in BaseScan /\ scan' = [scan EXCEPT ![t] = s]
    BY <1>1, <1>5, <2>1 DEF BaseScan
  <2>3. /\ s.idx = scan[t].idx /\ s.h = scan[t].h /\ s.bm = {}
        /\ s.slot = scan[t].slot /\ s.ent = scan[t].ent
    BY <1>1 DEF BaseScan
  <2> QED BY <1>2, <1>5, <2>2, <2>3, ScanMove
<1>6. CASE /\ scan' = [scan EXCEPT ![t].bm = {}, ![t].lm = NoLinks, ![t].grp = 0]
           /\ Goto(t, NotFound(t))
  <2> DEFINE s == [scan[t] EXCEPT !.bm = {}, !.lm = NoLinks, !.grp = 0]
             p == NotFound(t)
  <2>0. NoLinks \in LinkMeta
    BY DEF NoLinks, LinkMeta, NO_LINK
  <2>1. s \in BaseScan /\ scan' = [scan EXCEPT ![t] = s]
    <3>1. scan' = [scan EXCEPT ![t] = s]
      BY <1>6
    <3>2. Nil \in Content /\ NoSlot \in SlotIdx \cup {NoSlot}
      BY DEF Content
    <3>3. s \in BaseScan
      BY <1>1, <2>0, <3>2, ScanSet, Zenon
    <3> QED BY <3>1, <3>3
  <2>2. /\ s.idx = scan[t].idx /\ s.h = scan[t].h /\ s.bm = {}
        /\ s.slot = scan[t].slot /\ s.ent = scan[t].ent
    BY <1>1 DEF BaseScan
  <2>3. /\ p \in {"check", "finalize", "reserve", "choose"}
        /\ p = "finalize" => s.slot # NoSlot
        /\ p = "reserve" => invalidMask(s.h, 0) # {}
    BY <2>2 DEF NotFound, Reserved
  <2>4. Goto(t, p)
    BY <1>6
  <2> HIDE DEF p, s
  <2> QED BY <1>2, <2>1, <2>2, <2>3, <2>4, ScanMove
<1> QED BY <1>3, <1>4, <1>5, <1>6 DEF ScanOn

\* The keys of one bucket are compared with the hash.
LEMMA MatchKeysInv ==
  ASSUME IInv, NEW t \in Thread, MatchKeys(t) PROVE IInv'
<1>1. scan[t] \in BaseScan
  BY Locals
<1>2. validMask(scan[t].h, scan[t].grp) \subseteq SlotIdx
  BY <1>1, HeaderOps DEF BaseScan
<1> QED BY <1>1, <1>2, ScanOnInv DEF MatchKeys, validMask, BaseScan

\* scanLinksForKey loads the LinkMeta of the bin.
LEMMA LoadLinksInv ==
  ASSUME IInv, NEW t \in Thread, LoadLinks(t) PROVE IInv'
BY ScanOnInv, BinType DEF LoadLinks

\* The entry of a candidate slot is loaded: the slot has a bucket.
LEMMA ProbeInv ==
  ASSUME IInv, NEW t \in Thread, Probe(t) PROVE IInv'
<1> DEFINE i == Lowest(scan[t].bm)
           e == slotVal[SlotLoc(Bin(t), i)]
           found == e # Nil /\ e.key = call[t].key
<1>1. scan[t] \in BaseScan /\ ScanInv(t) /\ pc[t] = "probe"
  BY Locals DEF Probe
<1>2. i \in scan[t].bm /\ i \in SlotIdx /\ scan[t].h.ss[i] = SlotValid
  BY <1>1, LowestIn, SlotIdxNat DEF BaseScan, ScanInv
<1>3. HasSlot(linkMeta[Bin(t)], i)
  BY <1>1, <1>2 DEF ScanInv, Backed, SlotValid, SlotInvalid
<1>4. e \in Content
  BY <1>1, <1>2, <1>3, BinType, LocType DEF SlotLoc, IInv, BaseType, BaseMemory
<1>5. CASE found
  <2> DEFINE s == Found(t, i, e)
  <2>0. NoLinks \in LinkMeta
    BY DEF NoLinks, LinkMeta, NO_LINK
  <2>1. s \in BaseScan
    <3>1. scan[t].slot \in SlotIdx \cup {NoSlot}
      BY <1>1 DEF BaseScan
    <3>2. (IF call[t].kind \in {"Put", "Delete"} THEN i ELSE scan[t].slot) \in SlotIdx \cup {NoSlot}
      BY <1>2, <3>1
    <3> HIDE DEF i, e
    <3> QED BY <1>1, <1>4, <2>0, <3>2, ScanSet, Zenon DEF Found
  <2>2. scan' = [scan EXCEPT ![t] = s] /\ Goto(t, "check") /\ UNCHANGED <<memory, arena, roots, api, ins, xfer>>
    BY <1>5 DEF Probe, ScanOn
  <2>3. /\ s.idx = scan[t].idx /\ s.h = scan[t].h /\ s.bm = {}
        /\ s.slot \in {scan[t].slot, i}
        /\ call[t].kind \in {"Put", "Delete"} => s.slot = i
    BY <1>1 DEF BaseScan, Found
  <2>4. i # NoSlot
    BY <1>2, SlotIdxNat DEF NoSlot
  <2>5. s.slot # NoSlot => HasSlot(linkMeta[Bin(t)], s.slot)
    BY <1>1, <1>3, <2>3 DEF ScanInv
  <2> HIDE DEF s, i
  <2> QED BY <1>1, <2>1, <2>2, <2>3, <2>4, <2>5, ScanMove
<1>6. CASE ~found
  <2>1. ScanOn(t, scan[t].bm \ {i}, scan[t].lm) /\ UNCHANGED <<memory, arena, roots, api, ins, xfer>>
    BY <1>6 DEF Probe
  <2>2. scan[t].bm \ {i} \subseteq SlotIdx /\ scan[t].lm \in LinkMeta
        /\ \A j \in scan[t].bm \ {i} : scan[t].h.ss[j] = SlotValid
    BY <1>1 DEF BaseScan, ScanInv
  <2> QED BY <1>1, <2>1, <2>2, ScanOnInv
<1> QED BY <1>5, <1>6

-----------------------------------------------------------------------------
(* Answers and changes of slots.                                           *)

\* A step of t that keeps links and successors.
LEMMA AnyStep ==
  ASSUME IInv, NEW t \in Thread, BaseType', SharedInv', OthersSame(t), call' = call,
         \A u \in Thread \ {t} : res'[u] = Pending => res[u] = Pending,
         \A bin \in BinId : Keeps(linkMeta[bin], linkMeta'[bin]),
         \A g \in Gen : Published(g) => Published(g)',
         ThreadInv(t)'
  PROVE  IInv'
<1>1. linkMeta' \in [BinId -> LinkMeta]
  BY DEF BaseType, BaseMemory
<1>2. \A u \in Thread : ThreadInv(u)'
  BY <1>1, OtherThreads
<1> QED BY <1>2 DEF IInv

\* A step of t that leaves LinkMeta, the arena and the roots alone.
LEMMA MemoryStep ==
  ASSUME IInv, NEW t \in Thread, BaseMemory', ApiType', BaseLocal', OthersSame(t),
         UNCHANGED <<linkMeta, arena, roots, call>>,
         \A u \in Thread \ {t} : res'[u] = Pending => res[u] = Pending,
         \A bin \in BinId : BinInv(bin)', ThreadInv(t)'
  PROVE  IInv'
<1>1. BaseType'
  BY DEF IInv, BaseType, RootType, arena, roots
<1>2. SharedInv'
  BY DEF IInv, SharedInv, ArenaInv, Published, arena, roots
<1>3. \A bin \in BinId : Keeps(linkMeta[bin], linkMeta'[bin])
  BY DEF Keeps
<1>4. \A g \in Gen : Published(g) => Published(g)'
  BY DEF Published, roots
<1> QED BY <1>1, <1>2, <1>3, <1>4, AnyStep

\* A header changes: its bin keeps its invariant if the new header is backed
\* and moves the bin into no transfer without a successor.
LEMMA HeaderChange ==
  ASSUME IInv, UNCHANGED <<linkMeta, indexNext>>, NEW bin \in BinId, NEW h \in Header,
         header' = [header EXCEPT ![bin] = h],
         Backed(linkMeta[bin], h), h.bs # BinNoTransfer => Published(bin[1])
  PROVE  /\ header' \in [BinId -> Header]
         /\ \A b \in BinId : BinInv(b)'
<1>1. header \in [BinId -> Header] /\ \A b \in BinId : BinInv(b)
  BY DEF IInv, BaseType, BaseMemory, SharedInv
<1>2. header' \in [BinId -> Header]
  BY <1>1
<1>3. ASSUME NEW b \in BinId PROVE BinInv(b)'
  <2>1. header'[b] = IF b = bin THEN h ELSE header[b]
    BY <1>1
  <2> QED BY <1>1, <2>1 DEF BinInv, Published
<1> QED BY <1>2, <1>3

\* Bins that do not change keep their invariant.
LEMMA SameBins ==
  ASSUME IInv, UNCHANGED <<header, linkMeta, indexNext>>
  PROVE  \A b \in BinId : BinInv(b)'
BY DEF IInv, SharedInv, BinInv, Published

\* The answer of a call, and what the running calls see of it.
LEMMA AnswerType ==
  ASSUME IInv, NEW t \in Thread, pc[t] # "idle", UNCHANGED <<call, calls>>,
         NEW v \in Value \cup {Absent}, NEW ok \in BOOLEAN, Reply(t, v, ok),
         map' \in [Key -> Value \cup {Absent}], Observe
  PROVE  /\ ApiType'
         /\ \A u \in Thread \ {t} : res'[u] = Pending => res[u] = Pending
<1>1. /\ res' \in [Thread -> Answer \cup {Pending}]
      /\ \A u \in Thread \ {t} : res'[u] = res[u]
  BY DEF IInv, BaseType, ApiType, Reply, Answer
<1>2. ASSUME NEW u \in Thread, res'[u] = Pending PROVE call[u] \in CallRec
  BY <1>1, <1>2 DEF IInv, ThreadInv
<1>3. \A u \in Thread : res'[u] = Pending => map'[call[u].key] \in Value \cup {Absent}
  BY <1>2 DEF CallRec
<1>4. seen' \in [Thread -> SUBSET (Value \cup {Absent})]
  BY <1>3 DEF IInv, BaseType, ApiType, Observe
<1> QED BY <1>1, <1>4 DEF IInv, BaseType, ApiType

\* A lookup that remembers only its slot has its type.
LEMMA KeptType ==
  ASSUME IInv, NEW t \in Thread
  PROVE  Kept(t) \in BaseScan
<1>1. scan[t] \in BaseScan /\ scan[t].idx \in Gen
  BY Locals DEF ThreadInv
<1>2. FreshScan(scan[t].idx) \in BaseScan
  BY <1>1, FreshTypes
<1> QED BY <1>1, <1>2 DEF Kept, BaseScan

\* A thread that forgets everything but its slot.
LEMMA KeptThread ==
  ASSUME IInv, NEW t \in Thread, pc[t] # "idle", scan[t].slot # NoSlot,
         UNCHANGED <<linkMeta, call>>, scan'[t] = Kept(t),
         pc'[t] \in {"load2", "unres", "loop", "mark"}, ins'[t] = ins[t], ins[t].cont = "idle"
  PROVE  ThreadInv(t)'
<1>1. scan[t] \in BaseScan /\ ScanInv(t) /\ call[t] \in CallRec /\ scan[t].idx \in Gen
  BY Locals, BinType
<1>2. /\ scan'[t].idx = scan[t].idx /\ scan'[t].h = ZeroHeader /\ scan'[t].bm = {}
      /\ scan'[t].slot = scan[t].slot /\ scan'[t].ent = Nil
  BY <1>1 DEF Kept, FreshScan
<1>3. Bin(t)' = Bin(t)
  BY <1>2 DEF Bin, hash
<1>4. ScanInv(t)'
  BY <1>1, <1>2, <1>3, ZeroBacked DEF ScanInv
<1>5. InsInv(t)' /\ XferInv(t)'
  BY DEF InsInv, XferInv, UnresPC, ContextPC, TransferPC
<1> QED BY <1>1, <1>2, <1>4, <1>5 DEF ThreadInv

\* The validation fails: the lookup starts again, the reserved slot is kept.
LEMMA CheckStaleInv ==
  ASSUME IInv, NEW t \in Thread, CheckStale(t) PROVE IInv'
<1> USE DEF CheckStale
<1>1. ins[t].cont = "idle" /\ call[t] \in CallRec /\ scan[t].idx \in Gen
  BY Locals, BinType DEF InsInv, UnresPC
<1>2. CASE Reserved(t)
  <2>1. /\ BaseLocal' /\ OthersSame(t)
        /\ pc'[t] = "load2" /\ scan'[t] = Kept(t) /\ ins'[t] = ins[t]
    BY <1>2, KeptType, MovedScan DEF KeepSlot, PC, InsertPC, OwnPC
  <2>2. ThreadInv(t)'
    BY <1>1, <1>2, <2>1, KeptThread DEF Reserved, memory, api
  <2> QED BY <2>1, <2>2, LocalStep
<1>3. CASE ~Reserved(t)
  <2>1. FreshScan(scan[t].idx) \in BaseScan
    BY <1>1, FreshTypes
  <2>2. /\ BaseLocal' /\ OthersSame(t)
        /\ pc'[t] = "load" /\ scan'[t] = FreshScan(scan[t].idx) /\ ins'[t] = ins[t]
    BY <1>3, <2>1, MovedScan DEF Retry, PC, ScanPC
  <2>3. ThreadInv(t)'
    BY <1>1, <2>2, FreshThread DEF PlainPC, api
  <2> QED BY <2>2, <2>3, LocalStep
<1> QED BY <1>2, <1>3

\* The validation holds and the call is answered.
LEMMA CheckAnswerInv ==
  ASSUME IInv, EntryType, NEW t \in Thread, CheckAnswer(t) PROVE IInv'
<1> DEFINE e == scan[t].ent
           v == IF e = Nil THEN Absent ELSE e.val
           ok == call[t].kind = "Get" /\ e # Nil
<1> USE DEF CheckAnswer
<1>1. /\ ins[t].cont = "idle" /\ call[t] \in CallRec /\ scan[t].idx \in Gen
      /\ scan[t] \in BaseScan /\ pc[t] # "idle"
  BY Locals, BinType DEF InsInv, UnresPC
<1>2. v \in Value \cup {Absent} /\ ok \in BOOLEAN
  BY <1>1 DEF EntryType, Entry
<1>3. Reply(t, v, ok) /\ Observe /\ UNCHANGED <<call, calls>>
  OBVIOUS
<1>4. map' \in [Key -> Value \cup {Absent}]
  BY DEF IInv, BaseType, ApiType
<1>5. ApiType' /\ \A u \in Thread \ {t} : res'[u] = Pending => res[u] = Pending
  <2> HIDE DEF v, ok, CheckAnswer
  <2> QED BY <1>1, <1>2, <1>3, <1>4, AnswerType
<1>6. BaseLocal' /\ OthersSame(t) /\ ThreadInv(t)'
  <2>1. CASE Reserved(t)
    <3>1. /\ BaseLocal' /\ OthersSame(t)
          /\ pc'[t] = "unres" /\ scan'[t] = Kept(t) /\ ins'[t] = ins[t]
      BY <2>1, KeptType, MovedScan DEF KeepSlot, PC, InsertPC, OwnPC
    <3> QED BY <1>1, <2>1, <3>1, KeptThread DEF Reserved, memory
  <2>2. CASE ~Reserved(t)
    <3>1. 0 \in Gen /\ FreshScan(0) \in BaseScan
      BY SizeAssumption, FreshTypes DEF Gen
    <3>2. /\ BaseLocal' /\ OthersSame(t)
          /\ pc'[t] = "idle" /\ scan'[t] = FreshScan(0) /\ ins'[t] = ins[t]
      BY <2>2, <3>1, MovedScan DEF PC
    <3>3. ThreadInv(t)'
      BY <1>1, <3>1, <3>2, FreshThread DEF PlainPC
    <3> QED BY <3>2, <3>3
  <2> QED BY <2>1, <2>2
<1>7. BaseMemory' /\ UNCHANGED <<header, linkMeta, indexNext, arena, roots, call>>
  BY DEF IInv, BaseType, BaseMemory, memory, roots
<1> QED BY <1>5, <1>6, <1>7, SameBins, MemoryStep

\* goto retry
LEMMA RetryInv ==
  ASSUME IInv, NEW t \in Thread, pc[t] # "idle", ins[t].cont = "idle", Retry(t),
         UNCHANGED <<memory, arena, roots, api, ins, xfer>>
  PROVE  IInv'
<1>1. call[t] \in CallRec /\ scan[t].idx \in Gen /\ FreshScan(scan[t].idx) \in BaseScan
  BY BinType, FreshTypes
<1>2. /\ BaseLocal' /\ OthersSame(t)
      /\ pc'[t] = "load" /\ scan'[t] = FreshScan(scan[t].idx) /\ ins'[t] = ins[t]
  BY <1>1, MovedScan DEF Retry, PC, ScanPC
<1>3. ThreadInv(t)'
  BY <1>1, <1>2, FreshThread DEF PlainPC, api
<1> QED BY <1>2, <1>3, LocalStep

\* Back to the slot, everything else forgotten
LEMMA KeptInv ==
  ASSUME IInv, NEW t \in Thread, pc[t] # "idle", ins[t].cont = "idle", scan[t].slot # NoSlot,
         NEW p \in {"load2", "loop"}, Goto(t, p), KeepSlot(t),
         UNCHANGED <<memory, arena, roots, api, ins, xfer>>
  PROVE  IInv'
<1>1. p \in PC
  BY DEF PC, InsertPC, OwnPC, SlotPC
<1>2. /\ BaseLocal' /\ OthersSame(t)
      /\ pc'[t] = p /\ scan'[t] = Kept(t) /\ ins'[t] = ins[t]
  BY <1>1, KeptType, MovedScan DEF KeepSlot
<1>3. ThreadInv(t)'
  BY <1>2, KeptThread DEF memory, api
<1> QED BY <1>2, <1>3, LocalStep

\* Going on with the slot
LEMMA SlotMove ==
  ASSUME IInv, NEW t \in Thread, pc[t] # "idle", ins[t].cont = "idle", scan[t].slot # NoSlot,
         UNCHANGED <<memory, arena, roots, api, ins, xfer>>,
         NEW s \in BaseScan, scan' = [scan EXCEPT ![t] = s],
         NEW p \in SlotPC, Goto(t, p),
         s.idx = scan[t].idx, s.slot = scan[t].slot, s.bm = {},
         Backed(linkMeta[Bin(t)], s.h),
         p \in {"dwcas", "loopCheck", "loopTTAS"} => s.ent # Nil
  PROVE  IInv'
<1>1. ScanInv(t) /\ call[t] \in CallRec /\ scan[t].idx \in Gen
  BY Locals, BinType
<1>2. /\ BaseLocal' /\ OthersSame(t)
      /\ pc'[t] = p /\ scan'[t] = s /\ ins'[t] = ins[t] /\ xfer'[t] = xfer[t]
  BY MovedScan DEF PC
<1>3. Bin(t)' = Bin(t) /\ linkMeta' = linkMeta /\ call' = call
  BY <1>2 DEF Bin, hash, memory, api
<1>4. ScanInv(t)'
  BY <1>1, <1>2, <1>3 DEF ScanInv, SlotPC
<1>5. InsInv(t)' /\ XferInv(t)'
  BY <1>2, <1>3 DEF InsInv, XferInv, SlotPC, UnresPC, ContextPC, TransferPC
<1>6. ThreadInv(t)'
  BY <1>1, <1>2, <1>3, <1>4, <1>5 DEF ThreadInv, SlotPC
<1> QED BY <1>2, <1>6, LocalStep

\* What holds at the slot
LEMMA AtSlot ==
  ASSUME IInv, NEW t \in Thread, NeedsSlot(t)
  PROVE  /\ pc[t] # "idle" /\ pc[t] # "probe" /\ pc[t] \notin UnresPC => ins[t].cont = "idle"
         /\ scan[t] \in BaseScan /\ scan[t].bm = {}
         /\ scan[t].slot \in SlotIdx /\ scan[t].slot # NoSlot
         /\ HasSlot(linkMeta[Bin(t)], scan[t].slot)
         /\ Backed(linkMeta[Bin(t)], scan[t].h)
         /\ scan' = scan => scan' = [scan EXCEPT ![t] = scan[t]]
         /\ OpLoc(t) \in Loc /\ slotVal[OpLoc(t)] \in Content
<1>1. pc[t] # "idle" /\ pc[t] # "probe"
  BY DEF NeedsSlot, SlotPC, OwnPC
<1>2. ScanInv(t) /\ InsInv(t) /\ scan[t] \in BaseScan
  BY <1>1, Locals
<1>3. /\ scan[t].bm = {} /\ scan[t].slot \in SlotIdx /\ scan[t].slot # NoSlot
      /\ HasSlot(linkMeta[Bin(t)], scan[t].slot) /\ Backed(linkMeta[Bin(t)], scan[t].h)
  BY <1>1, <1>2 DEF ScanInv, BaseScan
<1>4. scan' = scan => scan' = [scan EXCEPT ![t] = scan[t]]
  BY DEF IInv, BaseType, BaseLocal
<1>5. OpLoc(t) \in Loc
  BY <1>1, <1>3, BinType, LocType DEF OpLoc, SlotLoc
<1>6. slotVal[OpLoc(t)] \in Content
  BY <1>5 DEF IInv, BaseType, BaseMemory
<1> QED BY <1>1, <1>2, <1>3, <1>4, <1>5, <1>6 DEF InsInv

\* The validation holds and Put or Delete goes on to its slot.
LEMMA CheckTargetInv ==
  ASSUME IInv, NEW t \in Thread, CheckTarget(t) PROVE IInv'
<1>1. NeedsSlot(t)
  BY DEF NeedsSlot, CheckTarget
<1> QED BY <1>1, AtSlot, SlotMove DEF CheckTarget, SlotPC, UnresPC

\* The DWCAS fails and the slot is looked at again.
LEMMA DWCASMissInv ==
  ASSUME IInv, NEW t \in Thread, DWCASMiss(t) PROVE IInv'
<1>1. NeedsSlot(t)
  BY DEF NeedsSlot, DWCASMiss, SlotPC
<1> QED BY <1>1, AtSlot, KeptInv DEF DWCASMiss, UnresPC

\* The header load of the DWCAS loop.
LEMMA LoopHeaderInv ==
  ASSUME IInv, NEW t \in Thread, LoopHeader(t) PROVE IInv'
<1> DEFINE h == header[Bin(t)]
           s == [scan[t] EXCEPT !.h = h]
           go == h.ss[scan[t].slot] = SlotValid /\ (call[t].kind = "Put" \/ h.bs = BinNoTransfer)
<1>1. NeedsSlot(t) /\ pc[t] = "loop" /\ UNCHANGED <<memory, arena, roots, api, ins, xfer>>
  BY DEF NeedsSlot, LoopHeader, SlotPC
<1>2. CASE go
  <2>1. scan' = [scan EXCEPT ![t] = s] /\ Goto(t, "loopKey")
    BY <1>2 DEF LoopHeader
  <2>2. h \in Header /\ Backed(linkMeta[Bin(t)], h)
    BY <1>1, BinType
  <2>3. /\ s \in BaseScan /\ s.idx = scan[t].idx /\ s.slot = scan[t].slot /\ s.bm = scan[t].bm
        /\ s.h = h
    BY <1>1, <2>2, AtSlot DEF BaseScan
  <2> HIDE DEF h, s
  <2> QED BY <1>1, <2>1, <2>2, <2>3, AtSlot, SlotMove DEF SlotPC, UnresPC
<1>3. CASE ~go
  <2>1. Retry(t)
    BY <1>3 DEF LoopHeader
  <2> QED BY <1>1, <2>1, AtSlot, RetryInv DEF UnresPC
<1> QED BY <1>2, <1>3

\* The key load of the DWCAS loop.
LEMMA LoopKeyInv ==
  ASSUME IInv, NEW t \in Thread, LoopKey(t) PROVE IInv'
<1>1. NeedsSlot(t) /\ pc[t] = "loopKey" /\ UNCHANGED <<memory, arena, roots, api, ins, xfer>>
  BY DEF NeedsSlot, LoopKey, SlotPC
<1>2. CASE slotKey[OpLoc(t)] = hash(t)
  <2>1. Goto(t, "loopVal") /\ UNCHANGED scan
    BY <1>2 DEF LoopKey
  <2> QED BY <1>1, <2>1, AtSlot, SlotMove DEF SlotPC, UnresPC
<1>3. CASE slotKey[OpLoc(t)] # hash(t)
  <2>1. Retry(t)
    BY <1>3 DEF LoopKey
  <2> QED BY <1>1, <2>1, AtSlot, RetryInv DEF UnresPC
<1> QED BY <1>2, <1>3

\* The entry load of the DWCAS loop.
LEMMA LoopValInv ==
  ASSUME IInv, NEW t \in Thread, LoopVal(t) PROVE IInv'
<1> DEFINE e == slotVal[OpLoc(t)]
           s == [scan[t] EXCEPT !.ent = e]
           go == e # Nil /\ e.key = call[t].key
<1>1. NeedsSlot(t) /\ pc[t] = "loopVal" /\ UNCHANGED <<memory, arena, roots, api, ins, xfer>>
  BY DEF NeedsSlot, LoopVal, SlotPC
<1>2. CASE go
  <2>1. scan' = [scan EXCEPT ![t] = s] /\ Goto(t, "loopCheck")
    BY <1>2 DEF LoopVal
  <2>2. /\ s \in BaseScan /\ s.idx = scan[t].idx /\ s.slot = scan[t].slot /\ s.bm = scan[t].bm
        /\ s.h = scan[t].h /\ s.ent = e
    BY <1>1, AtSlot DEF BaseScan
  <2>3. e # Nil
    BY <1>2
  <2> HIDE DEF e, s
  <2> QED BY <1>1, <2>1, <2>2, <2>3, AtSlot, SlotMove DEF SlotPC, UnresPC
<1>3. CASE ~go
  <2>1. Retry(t)
    BY <1>3 DEF LoopVal
  <2> QED BY <1>1, <2>1, AtSlot, RetryInv DEF UnresPC
<1> QED BY <1>2, <1>3

\* The header check of the DWCAS loop.
LEMMA LoopCheckInv ==
  ASSUME IInv, NEW t \in Thread, LoopCheck(t) PROVE IInv'
<1>1. NeedsSlot(t) /\ pc[t] = "loopCheck" /\ UNCHANGED <<memory, arena, roots, api, ins, xfer>>
  BY DEF NeedsSlot, LoopCheck, SlotPC
<1>2. scan[t].ent # Nil
  BY <1>1, Locals DEF ScanInv
<1>3. CASE Validated(t)
  <2>1. Goto(t, "loopTTAS") /\ UNCHANGED scan
    BY <1>3 DEF LoopCheck
  <2> QED BY <1>1, <1>2, <2>1, AtSlot, SlotMove DEF SlotPC, UnresPC
<1>4. CASE ~Validated(t)
  <2>1. Goto(t, "loop") /\ KeepSlot(t)
    BY <1>4 DEF LoopCheck
  <2> QED BY <1>1, <2>1, AtSlot, KeptInv DEF UnresPC
<1> QED BY <1>3, <1>4

\* The second entry load of the DWCAS loop.
LEMMA LoopTTASInv ==
  ASSUME IInv, NEW t \in Thread, LoopTTAS(t) PROVE IInv'
<1>1. NeedsSlot(t) /\ pc[t] = "loopTTAS" /\ UNCHANGED <<memory, arena, roots, api, ins, xfer>>
  BY DEF NeedsSlot, LoopTTAS, SlotPC
<1>2. scan[t].ent # Nil
  BY <1>1, Locals DEF ScanInv
<1>3. CASE slotVal[OpLoc(t)] = scan[t].ent
  <2>1. Goto(t, "dwcas") /\ UNCHANGED scan
    BY <1>3 DEF LoopTTAS
  <2> QED BY <1>1, <1>2, <2>1, AtSlot, SlotMove DEF SlotPC, UnresPC
<1>4. CASE slotVal[OpLoc(t)] # scan[t].ent
  <2>1. Goto(t, "loop") /\ KeepSlot(t)
    BY <1>4 DEF LoopTTAS
  <2> QED BY <1>1, <2>1, AtSlot, KeptInv DEF UnresPC
<1> QED BY <1>3, <1>4

\* The bin and the call of a thread that returns.
LEMMA ReturnMove ==
  ASSUME IInv, NEW t \in Thread, pc[t] # "idle", Goto(t, "idle"),
         scan' = [scan EXCEPT ![t] = FreshScan(0)], UNCHANGED <<ins, xfer, call>>,
         ins[t].cont = "idle"
  PROVE  BaseLocal' /\ OthersSame(t) /\ ThreadInv(t)'
<1>1. 0 \in Gen /\ FreshScan(0) \in BaseScan
  BY SizeAssumption, FreshTypes DEF Gen
<1>2. /\ BaseLocal' /\ OthersSame(t)
      /\ pc'[t] = "idle" /\ scan'[t] = FreshScan(0) /\ ins'[t] = ins[t]
  BY <1>1, MovedScan DEF PC
<1>3. ThreadInv(t)'
  BY <1>1, <1>2, BinType, FreshThread DEF PlainPC
<1> QED BY <1>2, <1>3

\* The DWCAS of Put or Delete succeeds: the slot it writes has an address.
LEMMA DWCASHitInv ==
  ASSUME IInv, EntryType, NEW t \in Thread, DWCASHit(t) PROVE IInv'
<1> DEFINE e == IF call[t].kind = "Put" THEN NewEntry(t) ELSE Nil
           v == IF call[t].kind = "Put" THEN call[t].val ELSE Absent
<1>1. /\ NeedsSlot(t) /\ pc[t] = "dwcas" /\ UNCHANGED <<header, linkMeta, slotKey, arena, roots, call, calls, ins, xfer>>
      /\ slotVal' = [slotVal EXCEPT ![OpLoc(t)] = e]
      /\ Reply(t, scan[t].ent.val, TRUE) /\ Effect(t, v) /\ Observe
  BY DEF NeedsSlot, DWCASHit, SlotPC
<1>2. call[t] \in CallRec /\ scan[t].ent \in Entry /\ ins[t].cont = "idle" /\ pc[t] # "idle"
  BY <1>1, Locals, BinType DEF ScanInv, EntryType, InsInv, UnresPC
<1>3. e \in Entry \cup {Nil} /\ v \in Value \cup {Absent} /\ scan[t].ent.val \in Value \cup {Absent}
  BY <1>2 DEF NewEntry, Entry, CallRec
<1>4. BaseMemory'
  <2> HIDE DEF e
  <2> QED BY <1>1, <1>3 DEF IInv, BaseType, BaseMemory, Content
<1>5. map' \in [Key -> Value \cup {Absent}]
  <2> HIDE DEF v
  <2> QED BY <1>1, <1>3 DEF Effect, IInv, BaseType, ApiType
<1>6. ApiType' /\ \A u \in Thread \ {t} : res'[u] = Pending => res[u] = Pending
  <2> HIDE DEF e, v
  <2> QED BY <1>1, <1>2, <1>3, <1>5, AnswerType
<1>7. BaseLocal' /\ OthersSame(t) /\ ThreadInv(t)'
  <2>1. CASE call[t].kind = "Put"
    <3>1. Goto(t, "idle") /\ scan' = [scan EXCEPT ![t] = FreshScan(0)]
      BY <2>1 DEF DWCASHit
    <3> QED BY <1>1, <1>2, <3>1, ReturnMove
  <2>2. CASE call[t].kind # "Put"
    <3>1. Goto(t, "mark") /\ KeepSlot(t)
      BY <2>2 DEF DWCASHit
    <3>2. /\ BaseLocal' /\ OthersSame(t)
          /\ pc'[t] = "mark" /\ scan'[t] = Kept(t) /\ ins'[t] = ins[t]
      BY <1>1, <3>1, KeptType, MovedScan DEF KeepSlot, PC, SlotPC
    <3>3. ThreadInv(t)'
      BY <1>1, <1>2, <3>2, AtSlot, KeptThread
    <3> QED BY <3>2, <3>3
  <2> QED BY <2>1, <2>2
<1>8. UNCHANGED <<header, linkMeta, indexNext>>
  BY <1>1 DEF roots
<1>9. \A b \in BinId : BinInv(b)'
  BY <1>8, SameBins
<1> QED BY <1>1, <1>4, <1>6, <1>7, <1>9, MemoryStep

\* The AND of Delete, whatever the state of the bin has become meanwhile.
LEMMA markSlotInvalidInv ==
  ASSUME IInv, NEW t \in Thread, markSlotInvalid(t) PROVE IInv'
<1> DEFINE h == [header[Bin(t)] EXCEPT !.ss[scan[t].slot] = SlotInvalid]
<1>1. /\ NeedsSlot(t) /\ pc[t] = "mark" /\ pc[t] # "idle"
      /\ UNCHANGED <<linkMeta, slotKey, slotVal, arena, roots, api, ins, xfer>>
      /\ header' = [header EXCEPT ![Bin(t)] = h]
      /\ Goto(t, "idle") /\ scan' = [scan EXCEPT ![t] = FreshScan(0)]
  BY DEF NeedsSlot, markSlotInvalid, SlotPC
<1>2. /\ Bin(t) \in BinId /\ header[Bin(t)] \in Header /\ Backed(linkMeta[Bin(t)], header[Bin(t)])
      /\ header[Bin(t)].bs # BinNoTransfer => Published(Bin(t)[1])
  BY <1>1, BinType
<1>3. h \in Header /\ h.bs = header[Bin(t)].bs
  BY <1>2 DEF Header, SlotInvalid, SlotState
<1>4. Backed(linkMeta[Bin(t)], h)
  BY <1>2 DEF Backed, Header
<1>5. header' \in [BinId -> Header] /\ \A b \in BinId : BinInv(b)'
  <2> HIDE DEF h
  <2> QED BY <1>1, <1>2, <1>3, <1>4, HeaderChange DEF roots
<1>6. BaseMemory' /\ ApiType' /\ res' = res /\ call' = call
  BY <1>1, <1>5 DEF IInv, BaseType, BaseMemory, ApiType, api
<1>7. BaseLocal' /\ OthersSame(t) /\ ThreadInv(t)'
  BY <1>1, <1>6, AtSlot, ReturnMove DEF UnresPC
<1> QED BY <1>1, <1>5, <1>6, <1>7, MemoryStep

-----------------------------------------------------------------------------
(* Insert.                                                                 *)

\* A step that moves t to p and changes only Insert's own variables.
LEMMA MovedIns ==
  ASSUME IInv, NEW t \in Thread, NEW p \in PC, Goto(t, p),
         NEW n \in InsRec, ins' = [ins EXCEPT ![t] = n], UNCHANGED <<scan, xfer>>
  PROVE  /\ BaseLocal' /\ OthersSame(t)
         /\ pc'[t] = p /\ scan'[t] = scan[t] /\ ins'[t] = n /\ xfer'[t] = xfer[t]
BY DEF IInv, BaseType, BaseLocal, Goto, OthersSame

ChoicePC == {"choose", "chooseLinks", "allocLink", "allocPair", "attachSingle", "attachPair", "reserve"}

\* What holds while Insert looks for a slot
LEMMA AtChoice ==
  ASSUME IInv, NEW t \in Thread, pc[t] \in ChoicePC
  PROVE  /\ pc[t] # "idle" /\ ScanInv(t) /\ InsInv(t) /\ ins[t].cont = "idle"
         /\ scan[t] \in BaseScan /\ ins[t] \in InsRec /\ scan[t].bm = {}
BY Locals DEF ChoicePC, InsInv, ScanInv, UnresPC

\* Insert goes on in the same bin, its own variables changed to n
LEMMA ChoiceMove ==
  ASSUME IInv, NEW t \in Thread, pc[t] \in ChoicePC, NEW n \in InsRec,
         ins' = [ins EXCEPT ![t] = n], NEW p \in ChoicePC, Goto(t, p),
         UNCHANGED <<scan, xfer, call>>, n.cont = "idle",
         linkMeta' \in [BinId -> LinkMeta],
         \A bin \in BinId : Keeps(linkMeta[bin], linkMeta'[bin]),
         p = "reserve" => n.pick # NoSlot /\ HasSlot(linkMeta'[Bin(t)], n.pick),
         p \in {"allocPair", "attachPair"} => linkMeta'[Bin(t)].single # NO_LINK,
         p = "attachSingle" => n.link \in 1..NumLinks[scan[t].idx],
         p = "attachPair" => n.link \in 1..(NumLinks[scan[t].idx] - 1)
  PROVE  BaseLocal' /\ OthersSame(t) /\ ThreadInv(t)'
<1>1. p \in PC
  BY DEF ChoicePC, PC, InsertPC
<1>2. /\ BaseLocal' /\ OthersSame(t)
      /\ pc'[t] = p /\ scan'[t] = scan[t] /\ ins'[t] = n /\ xfer'[t] = xfer[t]
  BY <1>1, MovedIns
<1>3. /\ pc[t] # "idle" /\ scan[t] \in BaseScan /\ scan[t].bm = {} /\ ScanInv(t)
      /\ call[t] \in CallRec /\ scan[t].idx \in Gen /\ Bin(t) \in BinId
      /\ linkMeta[Bin(t)] \in LinkMeta
  BY AtChoice, BinType
<1>4. Bin(t)' = Bin(t) /\ call' = call
  BY <1>2 DEF Bin, hash
<1>5. /\ \A i \in SlotIdx : HasSlot(linkMeta[Bin(t)], i) => HasSlot(linkMeta'[Bin(t)], i)
      /\ \A h : Backed(linkMeta[Bin(t)], h) => Backed(linkMeta'[Bin(t)], h)
  BY <1>3, KeepsSlots
<1>6. ScanInv(t)'
  BY <1>2, <1>3, <1>4, <1>5 DEF ScanInv, NeedsSlot, BaseScan, ChoicePC, SlotPC, OwnPC
<1>7. InsInv(t)' /\ XferInv(t)'
  BY <1>2, <1>4 DEF InsInv, XferInv, ChoicePC, UnresPC, ContextPC, TransferPC
<1>8. ThreadInv(t)'
  BY <1>2, <1>3, <1>4, <1>6, <1>7 DEF ThreadInv, ChoicePC
<1> QED BY <1>2, <1>8

\* The same, and shared memory is left alone
LEMMA ChoiceStep ==
  ASSUME IInv, NEW t \in Thread, pc[t] \in ChoicePC, NEW n \in InsRec,
         ins' = [ins EXCEPT ![t] = n], NEW p \in ChoicePC, Goto(t, p),
         UNCHANGED <<memory, arena, roots, api, scan, xfer>>, n.cont = "idle",
         p = "reserve" => n.pick # NoSlot /\ HasSlot(linkMeta[Bin(t)], n.pick),
         p = "allocPair" => linkMeta[Bin(t)].single # NO_LINK,
         p \notin {"attachSingle", "attachPair"}
  PROVE  IInv'
<1>1. linkMeta' = linkMeta /\ call' = call /\ linkMeta' \in [BinId -> LinkMeta]
  BY DEF memory, api, IInv, BaseType, BaseMemory
<1>2. \A bin \in BinId : Keeps(linkMeta[bin], linkMeta'[bin])
  BY <1>1 DEF Keeps
<1>3. BaseLocal' /\ OthersSame(t) /\ ThreadInv(t)'
  BY <1>1, <1>2, ChoiceMove
<1> QED BY <1>3, LocalStep

\* chooseInsertSlot loads the header again and looks for a primary slot.
LEMMA ChooseHeaderInv ==
  ASSUME IInv, NEW t \in Thread, ChooseHeader(t) PROVE IInv'
<1> DEFINE h == header[Bin(t)]
           free == invalidMask(h, 0)
<1>1. /\ pc[t] = "choose" /\ pc[t] \in ChoicePC
      /\ UNCHANGED <<memory, arena, roots, api, scan, xfer>>
  BY DEF ChooseHeader, ChoicePC
<1>2. ins[t] \in InsRec /\ ins[t].cont = "idle" /\ pc[t] # "idle"
  BY <1>1, AtChoice
<1>3. h \in Header
  BY <1>2, BinType
<1>4. CASE free # {}
  <2> DEFINE n == [ins[t] EXCEPT !.pick = Lowest(free)]
  <2>1. free \subseteq SlotIdx /\ Lowest(free) \in free
    <3>1. free \subseteq SlotIdx
      BY <1>3, HeaderOps
    <3>2. free \subseteq Nat
      BY <3>1, SlotIdxNat
    <3> HIDE DEF free
    <3> QED BY <1>4, <3>1, <3>2, LowestIn
  <2>2. n \in InsRec /\ n.cont = "idle" /\ n.pick = Lowest(free)
    BY <1>2, <2>1 DEF InsRec
  <2>3. Lowest(free) < PRIMARY_SLOTS /\ Lowest(free) # NoSlot
    BY <2>1, SizeAssumption, SlotIdxNat DEF invalidMask, Bucket, NoSlot
  <2>4. HasSlot(linkMeta[Bin(t)], n.pick)
    BY <2>2, <2>3 DEF HasSlot
  <2>5. ins' = [ins EXCEPT ![t] = n] /\ Goto(t, "reserve")
    BY <1>4 DEF ChooseHeader
  <2> HIDE DEF n, free
  <2> QED BY <1>1, <2>2, <2>3, <2>4, <2>5, ChoiceStep DEF ChoicePC
<1>5. CASE free = {}
  <2> DEFINE n == [ins[t] EXCEPT !.h = h]
  <2>1. n \in InsRec /\ n.cont = "idle"
    BY <1>2, <1>3 DEF InsRec
  <2>2. ins' = [ins EXCEPT ![t] = n] /\ Goto(t, "chooseLinks")
    BY <1>5 DEF ChooseHeader
  <2> HIDE DEF n
  <2> QED BY <1>1, <2>1, <2>2, ChoiceStep DEF ChoicePC
<1> QED BY <1>4, <1>5

\* No room: the thread goes on to trigger a resize
LEMMA NoRoomMove ==
  ASSUME IInv, NEW t \in Thread, pc[t] # "idle", NoRoom(t), UNCHANGED <<xfer, call>>
  PROVE  BaseLocal' /\ OthersSame(t) /\ ThreadInv(t)'
<1>1. 0 \in Gen /\ FreshScan(0) \in BaseScan /\ FreshIns \in InsRec /\ xfer[t] \in XferRec
  BY SizeAssumption, FreshTypes, Locals DEF Gen
<1>2. "trigger" \in PC /\ xfer' = [xfer EXCEPT ![t] = xfer[t]]
  BY DEF PC, IInv, BaseType, BaseLocal
<1>3. /\ BaseLocal' /\ OthersSame(t)
      /\ pc'[t] = "trigger" /\ scan'[t] = FreshScan(0) /\ ins'[t] = FreshIns
  BY <1>1, <1>2, Moved DEF NoRoom
<1>4. ThreadInv(t)'
  BY <1>1, <1>3, BinType, FreshThread DEF PlainPC, FreshIns
<1> QED BY <1>3, <1>4

\* A slot of an attached link has a bucket.
LEMMA AttachedSlot ==
  ASSUME NEW lm \in LinkMeta, NEW h \in Header, NEW n \in attached(lm), NEW i \in invalidMask(h, n)
  PROVE  i \in SlotIdx /\ HasSlot(lm, i)
<1>1. n \in 1..3 /\ resolveLink(lm, n) # NO_LINK
  BY DEF attached
<1>2. i \in SlotIdx /\ i \in Bucket(n)
  BY <1>1, HeaderOps DEF invalidMask
<1> QED BY <1>1, <1>2, BucketSlots DEF HasSlot

\* chooseInsertSlot looks at the links: a slot it picks is in an attached one.
LEMMA ChooseLinksInv ==
  ASSUME IInv, NEW t \in Thread, ChooseLinks(t) PROVE IInv'
<1> DEFINE lm == linkMeta[Bin(t)]
           free == UNION {invalidMask(ins[t].h, n) : n \in attached(lm)}
<1>1. /\ pc[t] = "chooseLinks" /\ pc[t] \in ChoicePC
      /\ UNCHANGED <<memory, arena, roots, api, xfer>>
  BY DEF ChooseLinks, ChoicePC
<1>2. ins[t] \in InsRec /\ ins[t].cont = "idle" /\ pc[t] # "idle" /\ ins[t].h \in Header
  BY <1>1, AtChoice DEF InsRec
<1>3. lm \in LinkMeta /\ ZeroHeader \in Header
  BY <1>2, BinType, HeaderOps
<1>4. CASE /\ free # {} /\ ins' = [ins EXCEPT ![t].pick = Lowest(free), ![t].h = ZeroHeader]
           /\ Goto(t, "reserve") /\ UNCHANGED scan
  <2> DEFINE n == [ins[t] EXCEPT !.pick = Lowest(free), !.h = ZeroHeader]
  <2>1. \A i \in free : i \in SlotIdx /\ HasSlot(lm, i)
    BY <1>2, <1>3, AttachedSlot
  <2>2. Lowest(free) \in free
    <3>1. free \subseteq Nat
      BY <2>1, SlotIdxNat
    <3> QED BY <1>4, <3>1, LowestIn
  <2>3. n \in InsRec /\ n.cont = "idle" /\ n.pick = Lowest(free)
    BY <1>2, <1>3, <2>1, <2>2 DEF InsRec
  <2>4. n.pick # NoSlot /\ HasSlot(linkMeta[Bin(t)], n.pick)
    BY <2>1, <2>2, <2>3, SlotIdxNat DEF NoSlot
  <2>5. ins' = [ins EXCEPT ![t] = n]
    BY <1>4
  <2> HIDE DEF n, free
  <2> QED BY <1>1, <1>4, <2>3, <2>4, <2>5, ChoiceStep DEF ChoicePC
<1>5. CASE /\ ins' = [ins EXCEPT ![t].h = ZeroHeader]
           /\ Goto(t, IF lm.single = NO_LINK THEN "allocLink" ELSE "allocPair") /\ UNCHANGED scan
  <2> DEFINE n == [ins[t] EXCEPT !.h = ZeroHeader]
             p == IF lm.single = NO_LINK THEN "allocLink" ELSE "allocPair"
  <2>1. n \in InsRec /\ n.cont = "idle"
    BY <1>2, <1>3 DEF InsRec
  <2>2. ins' = [ins EXCEPT ![t] = n] /\ Goto(t, p)
    BY <1>5
  <2>3. p \in {"allocLink", "allocPair"} /\ p = "allocPair" => linkMeta[Bin(t)].single # NO_LINK
    OBVIOUS
  <2> HIDE DEF n, p
  <2> QED BY <1>1, <1>5, <2>1, <2>2, <2>3, ChoiceStep DEF ChoicePC
<1>6. CASE NoRoom(t)
  <2>1. BaseLocal' /\ OthersSame(t) /\ ThreadInv(t)'
    BY <1>1, <1>2, <1>6, NoRoomMove DEF api
  <2> QED BY <1>1, <2>1, LocalStep
<1> QED BY <1>4, <1>5, <1>6 DEF ChooseLinks

\* The arena: a link handed out lies within the capacity.
LEMMA AllocateInv ==
  ASSUME IInv, NEW t \in Thread, NEW n \in {1, 2}, NEW next,
         \/ pc[t] = "allocLink" /\ n = 1 /\ next = "attachSingle"
         \/ pc[t] = "allocPair" /\ n = 2 /\ next = "attachPair",
         Allocate(t, n, next)
  PROVE  IInv'
<1> DEFINE g == scan[t].idx
           start == linkNext[g] + 1
<1>1. pc[t] \in ChoicePC /\ next \in ChoicePC /\ UNCHANGED <<memory, linkCapacity, roots, api, xfer>>
  BY DEF Allocate, ChoicePC
<1>2. /\ ins[t] \in InsRec /\ ins[t].cont = "idle" /\ pc[t] # "idle" /\ InsInv(t)
      /\ g \in Gen
  BY <1>1, AtChoice, BinType
<1>3. linkNext[g] \in Nat /\ linkCapacity[g] <= NumLinks[g] /\ NumLinks[g] \in Nat /\ linkCapacity[g] \in Int
  BY <1>2, SizeAssumption DEF IInv, BaseType, RootType, SharedInv, ArenaInv
<1>4. linkMeta' = linkMeta /\ call' = call /\ linkMeta' \in [BinId -> LinkMeta] /\ res' = res
  BY <1>1 DEF memory, api, IInv, BaseType, BaseMemory
<1>5. \A bin \in BinId : Keeps(linkMeta[bin], linkMeta'[bin])
  BY <1>4 DEF Keeps
<1>6. BaseLocal' /\ OthersSame(t) /\ ThreadInv(t)'
  <2>1. CASE start + n - 1 > linkCapacity[g]
    <3>1. NoRoom(t)
      BY <2>1 DEF Allocate
    <3> QED BY <1>1, <1>2, <1>4, <3>1, NoRoomMove
  <2>2. CASE ~(start + n - 1 > linkCapacity[g])
    <3> DEFINE m == [ins[t] EXCEPT !.link = start]
    <3>1. ins' = [ins EXCEPT ![t] = m] /\ Goto(t, next) /\ UNCHANGED scan
      BY <2>2 DEF Allocate
    <3>2. m \in InsRec /\ m.cont = "idle" /\ m.link = start
      BY <1>2, <1>3 DEF InsRec
    <3>3. start \in 1..(NumLinks[g] - n + 1)
      BY <1>3, <2>2
    <3>4. /\ next = "attachSingle" => m.link \in 1..NumLinks[g]
          /\ next = "attachPair" => /\ m.link \in 1..(NumLinks[g] - 1)
                                    /\ linkMeta'[Bin(t)].single # NO_LINK
      BY <1>2, <1>3, <1>4, <3>2, <3>3 DEF InsInv
    <3>5. next \in {"attachSingle", "attachPair"}
      OBVIOUS
    <3> HIDE DEF m
    <3> QED BY <1>1, <1>4, <1>5, <3>1, <3>2, <3>4, <3>5, ChoiceMove
  <2> QED BY <2>1, <2>2
<1>7. linkNext' \in [Gen -> Nat]
  <2> DEFINE v == IF linkNext[g] + n <= NumLinks[g] THEN linkNext[g] + n ELSE NumLinks[g] + 1
  <2>1. v \in Nat
    BY <1>3
  <2>2. linkNext' = [linkNext EXCEPT ![g] = v]
    BY DEF Allocate
  <2> HIDE DEF v
  <2> QED BY <2>1, <2>2 DEF IInv, BaseType, RootType
<1>8. BaseType'
  BY <1>1, <1>6, <1>7 DEF IInv, BaseType, BaseMemory, RootType, ApiType, memory, roots, api
<1>9. SharedInv'
  BY <1>1 DEF IInv, SharedInv, BinInv, ArenaInv, Published, memory, roots
<1>10. \A k \in Gen : Published(k) => Published(k)'
  BY <1>1 DEF Published, roots
<1> QED BY <1>4, <1>5, <1>6, <1>8, <1>9, <1>10, AnyStep

\* allocateLink and allocateLinkPair: a link handed out is of the arena.
LEMMA allocateInv ==
  ASSUME IInv, NEW t \in Thread, allocateLink(t) \/ allocateLinkPair(t) PROVE IInv'
<1>1. CASE allocateLink(t)
  BY <1>1, AllocateInv DEF allocateLink
<1>2. CASE allocateLinkPair(t)
  BY <1>2, AllocateInv DEF allocateLinkPair
<1> QED BY <1>1, <1>2

\* LinkMeta of one bin changes to lm, which keeps its links.
LEMMA LinkMetaChange ==
  ASSUME IInv, NEW bin \in BinId, NEW lm \in LinkMeta, linkMeta' = [linkMeta EXCEPT ![bin] = lm],
         Keeps(linkMeta[bin], lm), LinkMetaOK(lm, NumLinks[bin[1]]),
         UNCHANGED <<header, indexNext>>
  PROVE  /\ linkMeta' \in [BinId -> LinkMeta]
         /\ \A b \in BinId : Keeps(linkMeta[b], linkMeta'[b]) /\ BinInv(b)'
<1>1. linkMeta \in [BinId -> LinkMeta] /\ \A b \in BinId : BinInv(b)
  BY DEF IInv, BaseType, BaseMemory, SharedInv
<1>2. linkMeta' \in [BinId -> LinkMeta]
  BY <1>1
<1>3. ASSUME NEW b \in BinId PROVE Keeps(linkMeta[b], linkMeta'[b]) /\ BinInv(b)'
  <2>1. linkMeta'[b] = IF b = bin THEN lm ELSE linkMeta[b]
    BY <1>1
  <2>2. Keeps(linkMeta[b], linkMeta'[b])
    BY <2>1 DEF Keeps
  <2>3. Backed(linkMeta'[b], header[b])
    BY <1>1, <1>2, <2>2, KeepsSlots DEF BinInv
  <2>4. LinkMetaOK(linkMeta'[b], NumLinks[b[1]])
    BY <1>1, <2>1 DEF BinInv
  <2> QED BY <1>1, <2>2, <2>3, <2>4 DEF BinInv, Published
<1> QED BY <1>2, <1>3

\* attachSingle and attachPair: the new LinkMeta is lm, the slot chosen is i
LEMMA AttachInv ==
  ASSUME IInv, NEW t \in Thread, pc[t] \in {"attachSingle", "attachPair"},
         NEW lm \in LinkMeta, linkMeta' = [linkMeta EXCEPT ![Bin(t)] = lm],
         Keeps(linkMeta[Bin(t)], lm), LinkMetaOK(lm, NumLinks[scan[t].idx]),
         NEW i \in SlotIdx, HasSlot(lm, i),
         ins' = [ins EXCEPT ![t] = [FreshIns EXCEPT !.pick = i]], Goto(t, "reserve"),
         UNCHANGED <<header, slotKey, slotVal, arena, roots, api, scan, xfer>>
  PROVE  IInv'
<1> DEFINE n == [FreshIns EXCEPT !.pick = i]
<1>1. pc[t] \in ChoicePC /\ pc[t] # "idle"
  BY DEF ChoicePC
<1>2. Bin(t) \in BinId /\ Bin(t)[1] = scan[t].idx /\ linkMeta[Bin(t)] \in LinkMeta
  BY <1>1, BinType
<1>3. UNCHANGED <<header, indexNext, call>> /\ res' = res
  BY DEF roots, api
<1>4. /\ linkMeta' \in [BinId -> LinkMeta]
      /\ \A b \in BinId : Keeps(linkMeta[b], linkMeta'[b]) /\ BinInv(b)'
  BY <1>2, <1>3, LinkMetaChange
<1>5. n \in InsRec /\ n.cont = "idle" /\ n.pick = i /\ n.pick # NoSlot
  BY FreshTypes, SlotIdxNat DEF InsRec, FreshIns, NoSlot
<1>6. linkMeta'[Bin(t)] = lm
  BY <1>2 DEF IInv, BaseType, BaseMemory
<1>7. BaseLocal' /\ OthersSame(t) /\ ThreadInv(t)'
  <2>1. ins' = [ins EXCEPT ![t] = n] /\ UNCHANGED <<scan, xfer, call>>
    BY <1>3
  <2>2. HasSlot(linkMeta'[Bin(t)], n.pick)
    BY <1>5, <1>6
  <2> HIDE DEF n
  <2> QED BY <1>1, <1>4, <1>5, <2>1, <2>2, ChoiceMove DEF ChoicePC
<1>8. BaseType'
  BY <1>4, <1>7 DEF IInv, BaseType, BaseMemory, RootType, ApiType, arena, roots, api
<1>9. SharedInv'
  BY <1>4 DEF IInv, SharedInv, ArenaInv, Published, arena, roots
<1>10. \A k \in Gen : Published(k) => Published(k)'
  BY <1>3 DEF Published
<1> QED BY <1>3, <1>4, <1>7, <1>8, <1>9, <1>10, AnyStep

\* attachSingle never replaces a link.
LEMMA attachSingleInv ==
  ASSUME IInv, NEW t \in Thread, attachSingle(t) PROVE IInv'
<1> DEFINE old == linkMeta[Bin(t)]
           k == IF old.single = NO_LINK THEN ins[t].link ELSE old.single
           lm == [old EXCEPT !.single = k]
<1>1. /\ pc[t] = "attachSingle" /\ pc[t] \in ChoicePC /\ pc[t] # "idle"
      /\ UNCHANGED <<header, slotKey, slotVal, arena, roots, api, scan, xfer>>
      /\ ins' = [ins EXCEPT ![t] = [FreshIns EXCEPT !.pick = PRIMARY_SLOTS]] /\ Goto(t, "reserve")
  BY DEF attachSingle, ChoicePC
<1>2. linkMeta' = [linkMeta EXCEPT ![Bin(t)] = lm]
  BY DEF attachSingle
<1>3. /\ old \in LinkMeta /\ LinkMetaOK(old, NumLinks[scan[t].idx]) /\ scan[t].idx \in Gen
      /\ ins[t].link \in 1..NumLinks[scan[t].idx] /\ NumLinks[scan[t].idx] \in Nat
  BY <1>1, BinType, AtChoice, SizeAssumption DEF InsInv
<1>4. k \in Nat /\ k # NO_LINK /\ k <= NumLinks[scan[t].idx]
  BY <1>3 DEF LinkMeta, LinkMetaOK, NO_LINK
<1>5. lm \in LinkMeta /\ lm.single = k /\ lm.pair = old.pair
  BY <1>3, <1>4 DEF LinkMeta
<1>6. Keeps(old, lm) /\ LinkMetaOK(lm, NumLinks[scan[t].idx])
  BY <1>3, <1>4, <1>5 DEF Keeps, LinkMetaOK
<1>7. PRIMARY_SLOTS \in SlotIdx /\ PRIMARY_SLOTS \in Bucket(1)
  BY SizeAssumption DEF SlotIdx, MaxSlots, Bucket
<1>8. HasSlot(lm, PRIMARY_SLOTS)
  <2> HIDE DEF lm, k
  <2>1. LinkOf(lm, PRIMARY_SLOTS) = resolveLink(lm, 1)
    BY <1>5, <1>7, BucketSlots
  <2> QED BY <1>4, <1>5, <2>1 DEF HasSlot, resolveLink
<1> HIDE DEF lm
<1> QED BY <1>1, <1>2, <1>5, <1>6, <1>7, <1>8, AttachInv

\* attachPair never replaces a pair, and the single link came before it.
LEMMA attachPairInv ==
  ASSUME IInv, NEW t \in Thread, attachPair(t) PROVE IInv'
<1> DEFINE old == linkMeta[Bin(t)]
           k == IF old.pair = NO_LINK THEN ins[t].link ELSE old.pair
           lm == [old EXCEPT !.pair = k]
<1>1. /\ pc[t] = "attachPair" /\ pc[t] \in ChoicePC /\ pc[t] # "idle"
      /\ UNCHANGED <<header, slotKey, slotVal, arena, roots, api, scan, xfer>>
      /\ ins' = [ins EXCEPT ![t] = [FreshIns EXCEPT !.pick = firstPairSlot]] /\ Goto(t, "reserve")
  BY DEF attachPair, ChoicePC
<1>2. linkMeta' = [linkMeta EXCEPT ![Bin(t)] = lm]
  BY DEF attachPair
<1>3. /\ old \in LinkMeta /\ LinkMetaOK(old, NumLinks[scan[t].idx]) /\ scan[t].idx \in Gen
      /\ ins[t].link \in 1..(NumLinks[scan[t].idx] - 1) /\ NumLinks[scan[t].idx] \in Nat
      /\ old.single # NO_LINK
  BY <1>1, BinType, AtChoice, SizeAssumption DEF InsInv
<1>4. k \in Nat /\ k # NO_LINK /\ k + 1 <= NumLinks[scan[t].idx]
  BY <1>3 DEF LinkMeta, LinkMetaOK, NO_LINK
<1>5. lm \in LinkMeta /\ lm.single = old.single /\ lm.pair = k
  BY <1>3, <1>4 DEF LinkMeta
<1>6. Keeps(old, lm) /\ LinkMetaOK(lm, NumLinks[scan[t].idx])
  BY <1>3, <1>4, <1>5 DEF Keeps, LinkMetaOK
<1>7. firstPairSlot \in SlotIdx /\ firstPairSlot \in Bucket(2)
  BY SizeAssumption DEF SlotIdx, MaxSlots, Bucket, firstPairSlot
<1>8. HasSlot(lm, firstPairSlot)
  <2> HIDE DEF lm, k
  <2>1. LinkOf(lm, firstPairSlot) = resolveLink(lm, 2)
    BY <1>5, <1>7, BucketSlots
  <2> QED BY <1>4, <1>5, <2>1 DEF HasSlot, resolveLink
<1> HIDE DEF lm
<1> QED BY <1>1, <1>2, <1>5, <1>6, <1>7, <1>8, AttachInv

\* Insert goes on with its reserved slot.
LEMMA OwnMove ==
  ASSUME IInv, NEW t \in Thread, pc[t] # "idle", UNCHANGED <<linkMeta, indexNext, call, xfer>>,
         NEW s \in BaseScan, scan' = [scan EXCEPT ![t] = s],
         NEW n \in InsRec, ins' = [ins EXCEPT ![t] = n],
         NEW p \in OwnPC \cup {"match"}, Goto(t, p),
         s.idx = scan[t].idx, s.bm = {}, s.slot # NoSlot, HasSlot(linkMeta[Bin(t)], s.slot),
         Backed(linkMeta[Bin(t)], s.h), p \in {"load2", "match"} => s.ent = Nil,
         p \notin UnresPC => n.cont = "idle", n.cont = "follow" => Published(scan[t].idx),
         p \in {"unresClear", "unresCAS"} => Backed(linkMeta[Bin(t)], n.h)
  PROVE  BaseLocal' /\ OthersSame(t) /\ ThreadInv(t)'
<1>1. call[t] \in CallRec /\ scan[t].idx \in Gen /\ xfer[t] \in XferRec
  BY Locals, BinType
<1>2. p \in PC /\ xfer' = [xfer EXCEPT ![t] = xfer[t]]
  BY DEF PC, InsertPC, ScanPC, IInv, BaseType, BaseLocal
<1>3. /\ BaseLocal' /\ OthersSame(t)
      /\ pc'[t] = p /\ scan'[t] = s /\ ins'[t] = n /\ xfer'[t] = xfer[t]
  BY <1>1, <1>2, Moved
<1>4. Bin(t)' = Bin(t)
  BY <1>3 DEF Bin, hash
<1>5. ScanInv(t)'
  BY <1>3, <1>4 DEF ScanInv, OwnPC
<1>6. InsInv(t)' /\ XferInv(t)'
  BY <1>3, <1>4 DEF InsInv, XferInv, OwnPC, UnresPC, ContextPC, TransferPC, Published
<1>7. ThreadInv(t)'
  BY <1>1, <1>3, <1>5, <1>6 DEF ThreadInv, OwnPC
<1> QED BY <1>3, <1>7

\* The CAS to Trying: the slot taken has a bucket, whichever header it came from.
LEMMA reserveSlotInv ==
  ASSUME IInv, NEW t \in Thread, reserveSlot(t) PROVE IInv'
<1> DEFINE h0 == scan[t].h
           i == IF invalidMask(h0, 0) # {} THEN Lowest(invalidMask(h0, 0)) ELSE ins[t].pick
           h1 == setSlotStateAndVersion(h0, i, SlotTrying)
           s == [scan[t] EXCEPT !.h = h1, !.slot = i]
<1>1. /\ pc[t] = "reserve" /\ pc[t] \in ChoicePC /\ pc[t] # "idle"
      /\ UNCHANGED <<linkMeta, slotKey, slotVal, arena, roots, api, xfer>>
      /\ ins' = [ins EXCEPT ![t] = FreshIns]
  BY DEF reserveSlot, ChoicePC
<1>2. /\ ScanInv(t) /\ InsInv(t) /\ scan[t] \in BaseScan /\ ins[t] \in InsRec /\ scan[t].bm = {}
      /\ h0 \in Header /\ Backed(linkMeta[Bin(t)], h0) /\ scan[t].idx \in Gen
      /\ FreshIns \in InsRec /\ FreshIns.cont = "idle" /\ call[t] \in CallRec
  BY <1>1, AtChoice, BinType, FreshTypes DEF BaseScan, ScanInv, FreshIns
<1>3. i \in SlotIdx /\ HasSlot(linkMeta[Bin(t)], i) /\ i # NoSlot
  <2>1. CASE invalidMask(h0, 0) # {}
    <3>1. invalidMask(h0, 0) \subseteq SlotIdx
      BY <1>2, HeaderOps
    <3>2. i \in invalidMask(h0, 0)
      BY <2>1, <3>1, LowestIn, SlotIdxNat
    <3>3. i < PRIMARY_SLOTS
      BY <3>2, SizeAssumption DEF invalidMask, Bucket
    <3> QED BY <3>1, <3>2, <3>3, SlotIdxNat DEF HasSlot, NoSlot
  <2>2. CASE invalidMask(h0, 0) = {}
    BY <1>1, <1>2, <2>2 DEF InsInv, InsRec
  <2> QED BY <2>1, <2>2
<1>4. CASE Validated(t)
  <2> HIDE DEF i
  <2>1. /\ header' = [header EXCEPT ![Bin(t)] = h1] /\ Goto(t, "fillKey")
        /\ scan' = [scan EXCEPT ![t] = s]
    BY <1>4 DEF reserveSlot, i
  <2>2. h1 \in Header /\ Backed(linkMeta[Bin(t)], h1) /\ h1.bs = header[Bin(t)].bs
    BY <1>2, <1>3, <1>4, SetSlot DEF SlotTrying, SlotState, Validated
  <2> HIDE DEF h1
  <2>3. /\ s \in BaseScan /\ s.idx = scan[t].idx /\ s.slot = i /\ s.bm = {} /\ s.h = h1
    BY <1>2, <1>3, <2>2 DEF BaseScan
  <2> HIDE DEF s
  <2>4. UNCHANGED <<linkMeta, indexNext, call, xfer>> /\ res' = res
    BY <1>1 DEF roots, api
  <2>5. BaseLocal' /\ OthersSame(t) /\ ThreadInv(t)'
    BY <1>1, <1>2, <1>3, <2>1, <2>2, <2>3, <2>4, OwnMove DEF OwnPC, UnresPC
  <2>6. header' \in [BinId -> Header] /\ \A b \in BinId : BinInv(b)'
    BY <1>1, <2>1, <2>2, <2>4, BinType, HeaderChange
  <2>7. BaseMemory' /\ ApiType'
    BY <1>1, <2>6 DEF IInv, BaseType, BaseMemory, ApiType, api
  <2> QED BY <1>1, <2>4, <2>5, <2>6, <2>7, MemoryStep
<1>5. CASE ~Validated(t)
  <2> HIDE DEF i, h1, s
  <2>1. /\ Goto(t, "load") /\ scan' = [scan EXCEPT ![t] = FreshScan(scan[t].idx)]
        /\ UNCHANGED header
    BY <1>5 DEF reserveSlot, Retry
  <2>2. "load" \in PC /\ FreshScan(scan[t].idx) \in BaseScan /\ xfer[t] \in XferRec
        /\ xfer' = [xfer EXCEPT ![t] = xfer[t]]
    BY <1>1, <1>2, FreshTypes DEF PC, ScanPC, IInv, BaseType, BaseLocal
  <2>3. /\ BaseLocal' /\ OthersSame(t)
        /\ pc'[t] = "load" /\ scan'[t] = FreshScan(scan[t].idx) /\ ins'[t] = FreshIns
    <3>1. FreshIns \in InsRec /\ ins' = [ins EXCEPT ![t] = FreshIns]
      BY <1>1, <1>2
    <3> QED BY <2>1, <2>2, <3>1, Moved, Zenon
  <2>4. ThreadInv(t)'
    BY <1>1, <1>2, <2>3, FreshThread DEF PlainPC, api
  <2> QED BY <1>1, <2>1, <2>3, <2>4, LocalStep DEF memory
<1> QED BY <1>4, <1>5

\* The key is written into the reserved slot.
LEMMA FillKeyInv ==
  ASSUME IInv, NEW t \in Thread, FillKey(t) PROVE IInv'
<1>1. /\ NeedsSlot(t) /\ pc[t] = "fillKey" /\ pc[t] # "idle"
      /\ UNCHANGED <<header, linkMeta, slotVal, arena, roots, api, scan, xfer>>
  BY DEF NeedsSlot, FillKey, OwnPC
<1>2. slotKey' = [slotKey EXCEPT ![OpLoc(t)] = hash(t)] /\ Goto(t, "fillVal") /\ UNCHANGED ins
  BY <1>1, AtSlot DEF FillKey
<1>3. UNCHANGED <<linkMeta, indexNext, call, xfer>> /\ res' = res
  BY <1>1 DEF roots, api
<1>4. /\ ins[t] \in InsRec /\ ins' = [ins EXCEPT ![t] = ins[t]] /\ ins[t].cont = "idle"
      /\ scan' = [scan EXCEPT ![t] = scan[t]]
  BY <1>1, <1>2, AtSlot, Locals DEF IInv, BaseType, BaseLocal, UnresPC
<1>5. BaseLocal' /\ OthersSame(t) /\ ThreadInv(t)'
  BY <1>1, <1>2, <1>3, <1>4, AtSlot, OwnMove DEF OwnPC, UnresPC
<1>6. BaseMemory' /\ ApiType'
  BY <1>1, <1>2, BinType DEF IInv, BaseType, BaseMemory, ApiType, api
<1>7. \A b \in BinId : BinInv(b)'
  BY <1>1, <1>3, SameBins
<1> QED BY <1>1, <1>3, <1>5, <1>6, <1>7, MemoryStep

\* The entry is written into the reserved slot.
LEMMA FillValInv ==
  ASSUME IInv, NEW t \in Thread, FillVal(t) PROVE IInv'
<1>1. /\ NeedsSlot(t) /\ pc[t] = "fillVal" /\ pc[t] # "idle"
      /\ UNCHANGED <<header, linkMeta, slotKey, arena, roots, api, scan, ins, xfer>>
      /\ slotVal' = [slotVal EXCEPT ![OpLoc(t)] = NewEntry(t)] /\ Goto(t, "finalize")
  BY DEF NeedsSlot, FillVal, OwnPC
<1>2. UNCHANGED <<linkMeta, indexNext, call, xfer>> /\ res' = res
  BY <1>1 DEF roots, api
<1>3. /\ ins[t] \in InsRec /\ ins' = [ins EXCEPT ![t] = ins[t]] /\ ins[t].cont = "idle"
      /\ scan' = [scan EXCEPT ![t] = scan[t]]
  BY <1>1, AtSlot, Locals DEF IInv, BaseType, BaseLocal, UnresPC
<1>4. BaseLocal' /\ OthersSame(t) /\ ThreadInv(t)'
  BY <1>1, <1>2, <1>3, AtSlot, OwnMove DEF OwnPC, UnresPC
<1>5. NewEntry(t) \in Entry
  BY <1>1, BinType DEF NewEntry, Entry, CallRec
<1>6. BaseMemory' /\ ApiType'
  BY <1>1, <1>5 DEF IInv, BaseType, BaseMemory, ApiType, api, Content
<1>7. \A b \in BinId : BinInv(b)'
  BY <1>1, <1>2, SameBins
<1> QED BY <1>1, <1>2, <1>4, <1>6, <1>7, MemoryStep

\* The CAS to Valid, or the failure that keeps the slot for a new lookup.
LEMMA finalizeSlotInv ==
  ASSUME IInv, NEW t \in Thread, finalizeSlot(t) PROVE IInv'
<1> DEFINE h == setSlotStateAndVersion(scan[t].h, scan[t].slot, SlotValid)
<1>1. /\ NeedsSlot(t) /\ pc[t] = "finalize" /\ pc[t] # "idle"
  BY DEF NeedsSlot, finalizeSlot, OwnPC
<1>2. /\ scan[t].slot \in SlotIdx /\ HasSlot(linkMeta[Bin(t)], scan[t].slot) /\ scan[t].h \in Header
      /\ scan[t].slot # NoSlot /\ Backed(linkMeta[Bin(t)], scan[t].h) /\ ins[t].cont = "idle"
  BY <1>1, AtSlot DEF BaseScan, UnresPC
<1>3. CASE Validated(t)
  <2>1. /\ header' = [header EXCEPT ![Bin(t)] = h]
        /\ Reply(t, Absent, TRUE) /\ Effect(t, call[t].val) /\ Observe
        /\ Goto(t, "idle") /\ scan' = [scan EXCEPT ![t] = FreshScan(0)]
        /\ UNCHANGED <<linkMeta, slotKey, slotVal, arena, roots, call, calls, ins, xfer>>
    BY <1>3 DEF finalizeSlot
  <2>2. h \in Header /\ Backed(linkMeta[Bin(t)], h) /\ h.bs = header[Bin(t)].bs
    BY <1>2, <1>3, SetSlot DEF SlotValid, SlotState, Validated
  <2> HIDE DEF h
  <2>3. header' \in [BinId -> Header] /\ \A b \in BinId : BinInv(b)'
    BY <1>1, <2>1, <2>2, BinType, HeaderChange DEF roots
  <2>4. map' \in [Key -> Value \cup {Absent}]
    BY <1>1, <2>1, BinType DEF Effect, IInv, BaseType, ApiType, CallRec
  <2>5. ApiType' /\ \A u \in Thread \ {t} : res'[u] = Pending => res[u] = Pending
    BY <1>1, <2>1, <2>4, AnswerType
  <2>6. BaseMemory'
    BY <2>1, <2>3 DEF IInv, BaseType, BaseMemory
  <2>7. BaseLocal' /\ OthersSame(t) /\ ThreadInv(t)'
    BY <1>1, <1>2, <2>1, ReturnMove
  <2> QED BY <2>1, <2>3, <2>5, <2>6, <2>7, MemoryStep
<1>4. CASE ~Validated(t)
  <2>1. Goto(t, "load2") /\ KeepSlot(t) /\ UNCHANGED <<memory, arena, roots, api, ins, xfer>>
    BY <1>4 DEF finalizeSlot
  <2> QED BY <1>1, <1>2, <2>1, KeptInv
<1> QED BY <1>3, <1>4

\* retryWithSlot: when the bin is done, Insert will follow a published successor
\* once it has given its slot up.
LEMMA LoadHeader2Inv ==
  ASSUME IInv, NEW t \in Thread, LoadHeader2(t) PROVE IInv'
<1> DEFINE h == header[Bin(t)]
<1>1. /\ NeedsSlot(t) /\ pc[t] = "load2" /\ pc[t] # "idle"
      /\ UNCHANGED <<memory, arena, roots, api, xfer>>
  BY DEF NeedsSlot, LoadHeader2, OwnPC
<1>2. /\ scan[t].ent = Nil /\ ins[t] \in InsRec /\ ins[t].cont = "idle" /\ scan[t] \in BaseScan
      /\ h \in Header /\ Backed(linkMeta[Bin(t)], h)
      /\ h.bs # BinNoTransfer => Published(scan[t].idx)
  BY <1>1, Locals, AtSlot, BinType DEF ScanInv, UnresPC
<1>3. UNCHANGED <<linkMeta, indexNext, call, xfer>>
  BY <1>1 DEF memory, roots, api
<1>4. BaseLocal' /\ OthersSame(t) /\ ThreadInv(t)'
  <2>1. CASE h.bs = BinNoTransfer
    <3> DEFINE s == [scan[t] EXCEPT !.h = h]
    <3>1. scan' = [scan EXCEPT ![t] = s] /\ Goto(t, "match") /\ ins' = [ins EXCEPT ![t] = ins[t]]
      BY <2>1 DEF LoadHeader2, IInv, BaseType, BaseLocal
    <3>2. /\ s \in BaseScan /\ s.idx = scan[t].idx /\ s.slot = scan[t].slot /\ s.bm = scan[t].bm
          /\ s.h = h /\ s.ent = scan[t].ent
      BY <1>2 DEF BaseScan
    <3> HIDE DEF s, h
    <3> QED BY <1>1, <1>2, <1>3, <3>1, <3>2, AtSlot, OwnMove DEF OwnPC, UnresPC
  <2>2. CASE h.bs # BinNoTransfer
    <3> DEFINE c == IF h.bs = BinDoneTransfer THEN "follow" ELSE "active"
               n == [ins[t] EXCEPT !.cont = c]
    <3>1. scan' = [scan EXCEPT ![t] = scan[t]] /\ Goto(t, "unres") /\ ins' = [ins EXCEPT ![t] = n]
      BY <2>2 DEF LoadHeader2, IInv, BaseType, BaseLocal
    <3>2. n \in InsRec
      BY <1>2 DEF InsRec
    <3>3. Published(scan[t].idx)
      BY <1>2, <2>2
    <3> HIDE DEF n, h
    <3> QED BY <1>1, <1>3, <3>1, <3>2, <3>3, AtSlot, OwnMove DEF OwnPC, UnresPC
  <2> QED BY <2>1, <2>2
<1> QED BY <1>1, <1>4, LocalStep

\* unreserveSlot returns to where the Insert goes on.
LEMMA UnreservedMove ==
  ASSUME IInv, NEW t \in Thread, pc[t] \in UnresPC, Unreserved(t),
         UNCHANGED <<indexNext, call, xfer>>
  PROVE  BaseLocal' /\ OthersSame(t) /\ ThreadInv(t)'
<1> DEFINE g == IF ins[t].cont = "idle" THEN 0 ELSE scan[t].idx
           p == ins[t].cont
<1>1. /\ pc[t] # "idle" /\ call[t] \in CallRec /\ scan[t].idx \in Gen /\ InsInv(t)
      /\ ins[t] \in InsRec /\ xfer[t] \in XferRec
  BY Locals, BinType DEF UnresPC
<1>2. g \in Gen
  BY <1>1, SizeAssumption DEF Gen
<1>3. p \in PlainPC /\ p \in PC /\ (p = "follow" => Published(g))
  BY <1>1 DEF InsRec, PlainPC, PC, ScanPC, InsInv
<1>4. /\ Goto(t, p) /\ scan' = [scan EXCEPT ![t] = FreshScan(g)]
      /\ ins' = [ins EXCEPT ![t] = FreshIns] /\ xfer' = [xfer EXCEPT ![t] = xfer[t]]
  BY DEF Unreserved, IInv, BaseType, BaseLocal
<1> HIDE DEF g, p
<1>5. FreshScan(g) \in BaseScan /\ FreshIns \in InsRec /\ FreshIns.cont = "idle"
  BY <1>2, FreshTypes DEF FreshIns
<1>6. /\ BaseLocal' /\ OthersSame(t)
      /\ pc'[t] = p /\ scan'[t] = FreshScan(g) /\ ins'[t] = FreshIns
  BY <1>1, <1>3, <1>4, <1>5 DEF Goto, IInv, BaseType, BaseLocal, OthersSame
<1>7. ThreadInv(t)'
  <2>1. pc'[t] = "follow" => g \in 0..(MaxGen - 1) /\ indexNext'[g] = g + 1
    BY <1>3, <1>6 DEF Published
  <2> QED BY <1>1, <1>2, <1>3, <1>5, <1>6, <2>1, FreshThread DEF Published
<1> QED BY <1>6, <1>7

\* unreserveSlot loads the header and gives up if the slot is no longer its own.
LEMMA UnreserveLoadInv ==
  ASSUME IInv, NEW t \in Thread, UnreserveLoad(t) PROVE IInv'
<1> DEFINE h == header[Bin(t)]
           go == h.ss[scan[t].slot] = SlotTrying /\ h.bs = BinNoTransfer
<1>1. /\ NeedsSlot(t) /\ pc[t] = "unres" /\ pc[t] # "idle" /\ pc[t] \in UnresPC
      /\ UNCHANGED <<memory, arena, roots, api, xfer>>
  BY DEF NeedsSlot, UnreserveLoad, OwnPC, UnresPC
<1>2. UNCHANGED <<linkMeta, indexNext, call, xfer>>
  BY <1>1 DEF memory, roots, api
<1>3. CASE go
  <2> DEFINE n == [ins[t] EXCEPT !.h = h]
  <2>1. /\ scan' = [scan EXCEPT ![t] = scan[t]] /\ Goto(t, "unresClear")
        /\ ins' = [ins EXCEPT ![t] = n]
    BY <1>3 DEF UnreserveLoad, IInv, BaseType, BaseLocal
  <2>2. h \in Header /\ Backed(linkMeta[Bin(t)], h)
    BY <1>1, BinType
  <2>3. /\ n \in InsRec /\ n.h = h /\ n.cont = ins[t].cont
        /\ ins[t].cont = "follow" => Published(scan[t].idx)
    BY <1>1, <2>2, Locals DEF InsRec, InsInv
  <2> HIDE DEF n, h
  <2>4. BaseLocal' /\ OthersSame(t) /\ ThreadInv(t)'
    BY <1>1, <1>2, <2>1, <2>2, <2>3, AtSlot, OwnMove DEF OwnPC, UnresPC
  <2> QED BY <1>1, <2>4, LocalStep
<1>4. CASE ~go
  <2>1. Unreserved(t)
    BY <1>4 DEF UnreserveLoad
  <2>2. BaseLocal' /\ OthersSame(t) /\ ThreadInv(t)'
    BY <1>1, <1>2, <2>1, UnreservedMove
  <2> QED BY <1>1, <2>2, LocalStep
<1> QED BY <1>3, <1>4

\* unreserveSlot clears the entry.
LEMMA UnreserveClearInv ==
  ASSUME IInv, NEW t \in Thread, UnreserveClear(t) PROVE IInv'
<1>1. /\ NeedsSlot(t) /\ pc[t] = "unresClear" /\ pc[t] # "idle"
      /\ UNCHANGED <<header, linkMeta, slotKey, arena, roots, api, scan, ins, xfer>>
      /\ Goto(t, "unresCAS")
  BY DEF NeedsSlot, UnreserveClear, OwnPC
<1>2. slotVal' = [slotVal EXCEPT ![OpLoc(t)] = Nil]
  BY <1>1, AtSlot DEF UnreserveClear
<1>3. UNCHANGED <<linkMeta, indexNext, call, xfer>> /\ res' = res
  BY <1>1 DEF roots, api
<1>4. /\ ins[t] \in InsRec /\ ins' = [ins EXCEPT ![t] = ins[t]] /\ InsInv(t)
      /\ scan' = [scan EXCEPT ![t] = scan[t]]
  BY <1>1, AtSlot, Locals DEF IInv, BaseType, BaseLocal
<1>5. BaseLocal' /\ OthersSame(t) /\ ThreadInv(t)'
  <2>1. /\ Backed(linkMeta[Bin(t)], ins[t].h)
        /\ ins[t].cont = "follow" => Published(scan[t].idx)
    BY <1>1, <1>4 DEF InsInv
  <2> QED BY <1>1, <1>3, <1>4, <2>1, AtSlot, OwnMove DEF OwnPC, UnresPC
<1>6. BaseMemory' /\ ApiType'
  BY <1>1, <1>2 DEF IInv, BaseType, BaseMemory, ApiType, api, Content
<1>7. \A b \in BinId : BinInv(b)'
  BY <1>1, <1>3, SameBins
<1> QED BY <1>1, <1>3, <1>5, <1>6, <1>7, MemoryStep

\* The CAS of unreserveSlot, and its retry.
LEMMA UnreserveCASInv ==
  ASSUME IInv, NEW t \in Thread, UnreserveCAS(t) PROVE IInv'
<1> DEFINE h == setSlotStateAndVersion(ins[t].h, scan[t].slot, SlotInvalid)
<1>1. /\ NeedsSlot(t) /\ pc[t] = "unresCAS" /\ pc[t] # "idle" /\ pc[t] \in UnresPC
      /\ UNCHANGED <<linkMeta, slotKey, slotVal, arena, roots, api, xfer>>
  BY DEF NeedsSlot, UnreserveCAS, OwnPC, UnresPC
<1>2. /\ ins[t] \in InsRec /\ ins[t].h \in Header /\ Backed(linkMeta[Bin(t)], ins[t].h)
      /\ ins[t].cont = "follow" => Published(scan[t].idx)
  BY <1>1, Locals DEF InsRec, InsInv
<1>3. UNCHANGED <<linkMeta, indexNext, call, xfer>> /\ res' = res
  BY <1>1 DEF roots, api
<1>4. CASE header[Bin(t)] = ins[t].h
  <2>1. header' = [header EXCEPT ![Bin(t)] = h] /\ Unreserved(t)
    BY <1>4 DEF UnreserveCAS
  <2>2. h \in Header /\ Backed(linkMeta[Bin(t)], h) /\ h.bs = header[Bin(t)].bs
    BY <1>1, <1>2, <1>4, AtSlot, SetSlot DEF SlotInvalid, SlotState
  <2> HIDE DEF h
  <2>3. header' \in [BinId -> Header] /\ \A b \in BinId : BinInv(b)'
    BY <1>1, <1>3, <2>1, <2>2, BinType, HeaderChange
  <2>4. BaseMemory' /\ ApiType'
    BY <1>1, <2>3 DEF IInv, BaseType, BaseMemory, ApiType, api
  <2>5. BaseLocal' /\ OthersSame(t) /\ ThreadInv(t)'
    BY <1>1, <1>3, <2>1, UnreservedMove
  <2> QED BY <1>1, <1>3, <2>3, <2>4, <2>5, MemoryStep
<1>5. CASE header[Bin(t)] # ins[t].h
  <2> DEFINE n == [ins[t] EXCEPT !.h = ZeroHeader]
  <2>1. /\ ins' = [ins EXCEPT ![t] = n] /\ Goto(t, "unres") /\ UNCHANGED header
        /\ scan' = [scan EXCEPT ![t] = scan[t]]
    BY <1>5 DEF UnreserveCAS, IInv, BaseType, BaseLocal
  <2>2. n \in InsRec /\ n.cont = ins[t].cont
    BY <1>2, HeaderOps DEF InsRec
  <2> HIDE DEF n
  <2>3. BaseLocal' /\ OthersSame(t) /\ ThreadInv(t)'
    BY <1>1, <1>2, <1>3, <2>1, <2>2, AtSlot, OwnMove DEF OwnPC, UnresPC
  <2> QED BY <1>1, <2>1, <2>3, LocalStep DEF memory
<1> QED BY <1>4, <1>5

-----------------------------------------------------------------------------
(* The resize.                                                             *)

\* A step that moves t to p and changes only its transfer.
LEMMA MovedXfer ==
  ASSUME IInv, NEW t \in Thread, NEW p \in PC, Goto(t, p),
         NEW x \in XferRec, xfer' = [xfer EXCEPT ![t] = x], UNCHANGED <<scan, ins>>
  PROVE  /\ BaseLocal' /\ OthersSame(t)
         /\ pc'[t] = p /\ scan'[t] = scan[t] /\ ins'[t] = ins[t] /\ xfer'[t] = x
BY DEF IInv, BaseType, BaseLocal, Goto, OthersSame

ResizePC == {"trigger", "publish", "help"} \cup ContextPC

\* A thread that resizes has no lookup: its scan is that of a thread that
\* forgot everything, so only its transfer matters.
LEMMA ResizeMove ==
  ASSUME IInv, NEW t \in Thread, pc[t] \in ResizePC,
         NEW x \in XferRec, xfer' = [xfer EXCEPT ![t] = x], UNCHANGED <<scan, ins, call>>,
         NEW p \in ResizePC \cup {"active"}, Goto(t, p),
         linkMeta' \in [BinId -> LinkMeta],
         \A bin \in BinId : Keeps(linkMeta[bin], linkMeta'[bin]),
         p \in ContextPC => x.gen \in 0..(MaxGen - 1) /\ indexNext'[x.gen] = x.gen + 1,
         p \in TransferPC => x.bin < NumBins[x.gen],
         p \in TransferPC \ {"or"} => Backed(linkMeta'[<<x.gen, x.bin>>], x.h),
         p \in {"sentinel", "move"} => \A i \in x.todo : HasSlot(linkMeta'[<<x.gen, x.bin>>], i),
         p \in {"sentinel", "move"} => x.todo # {}
  PROVE  BaseLocal' /\ OthersSame(t) /\ ThreadInv(t)'
<1>1. p \in PC
  BY DEF PC, ResizePC
<1>2. /\ BaseLocal' /\ OthersSame(t)
      /\ pc'[t] = p /\ scan'[t] = scan[t] /\ ins'[t] = ins[t] /\ xfer'[t] = x
  BY <1>1, MovedXfer
<1>3. pc[t] # "idle" /\ p # "idle"
  BY DEF ResizePC, ContextPC, TransferPC
<1>4. /\ ScanInv(t) /\ InsInv(t) /\ call[t] \in CallRec /\ scan[t].idx \in Gen /\ scan[t] \in BaseScan
      /\ ins[t].cont = "idle" /\ Bin(t) \in BinId /\ linkMeta[Bin(t)] \in LinkMeta
  BY <1>3, Locals, BinType DEF InsInv, UnresPC, ResizePC, ContextPC, TransferPC
<1>5. Bin(t)' = Bin(t)
  BY <1>2 DEF Bin, hash
<1>6. /\ \A i \in SlotIdx : HasSlot(linkMeta[Bin(t)], i) => HasSlot(linkMeta'[Bin(t)], i)
      /\ \A h : Backed(linkMeta[Bin(t)], h) => Backed(linkMeta'[Bin(t)], h)
  BY <1>4, KeepsSlots
<1>7. pc[t] # "probe" /\ p \notin SlotPC \cup OwnPC \cup ChoicePC \cup ScanPC
  BY DEF ResizePC, ContextPC, TransferPC, SlotPC, OwnPC, ChoicePC, ScanPC
<1>8. ScanInv(t)'
  BY <1>2, <1>4, <1>5, <1>6, <1>7 DEF ScanInv, NeedsSlot, BaseScan, SlotPC, OwnPC, ScanPC
<1>9. InsInv(t)'
  BY <1>2, <1>4, <1>7 DEF InsInv, UnresPC, OwnPC, ChoicePC
<1>10. XferInv(t)'
  BY <1>2 DEF XferInv, OldBin, Published
<1> QED BY <1>2, <1>3, <1>4, <1>8, <1>9, <1>10 DEF ThreadInv

\* Links that do not change are kept.
LEMMA SameLinks ==
  ASSUME IInv, linkMeta' = linkMeta
  PROVE  /\ linkMeta' \in [BinId -> LinkMeta]
         /\ \A bin \in BinId : Keeps(linkMeta[bin], linkMeta'[bin])
BY DEF IInv, BaseType, BaseMemory, Keeps

\* A step of the resize that leaves the bins alone.
LEMMA RootStep ==
  ASSUME IInv, NEW t \in Thread, UNCHANGED <<memory, linkNext, api>>, RootType', ArenaInv',
         \A g \in Gen : Published(g) => Published(g)',
         BaseLocal', OthersSame(t), ThreadInv(t)'
  PROVE  IInv'
<1>1. BaseType'
  BY DEF IInv, BaseType, BaseMemory, ApiType, memory, api
<1>2. UNCHANGED <<header, linkMeta, call>> /\ res' = res
  BY DEF memory, api
<1>3. SharedInv'
  <2>1. ASSUME NEW bin \in BinId PROVE BinInv(bin)'
    <3>1. BinInv(bin) /\ bin[1] \in Gen
      BY BinIdGen DEF IInv, SharedInv
    <3>2. Published(bin[1]) => Published(bin[1])'
      BY <3>1
    <3> QED BY <1>2, <3>1, <3>2 DEF BinInv, Published
  <2> QED BY <2>1 DEF SharedInv
<1>4. \A bin \in BinId : Keeps(linkMeta[bin], linkMeta'[bin])
  BY <1>2, SameLinks
<1> QED BY <1>1, <1>2, <1>3, <1>4, AnyStep

\* The invariants of the roots and of the link arenas.
LEMMA Roots ==
  ASSUME IInv
  PROVE  RootType /\ ArenaInv /\ MaxGen \in Nat
BY SizeAssumption DEF IInv, BaseType, SharedInv

\* Successors that do not change are kept.
LEMMA SamePublished ==
  ASSUME indexNext' = indexNext
  PROVE  \A g \in Gen : Published(g) => Published(g)'
BY DEF Published

\* triggerResize installs the placeholder context or goes on to help.
LEMMA TriggerResizeInv ==
  ASSUME IInv, NEW t \in Thread, TriggerResize(t) PROVE IInv'
<1> DEFINE p == IF resizeCtx = NoCtx THEN "publish" ELSE "help"
<1>1. /\ pc[t] = "trigger" /\ pc[t] \in ResizePC
      /\ UNCHANGED <<memory, arena, active, indexNext, ctx, api, scan, ins, xfer>>
      /\ Goto(t, p) /\ resizeCtx' \in {ReservedCtx, resizeCtx}
  BY DEF TriggerResize, ResizePC
<1>2. UNCHANGED <<linkMeta, call, linkNext, linkCapacity>>
  BY <1>1 DEF memory, api, arena
<1>3. xfer[t] \in XferRec /\ xfer' = [xfer EXCEPT ![t] = xfer[t]]
  BY <1>1, Locals DEF IInv, BaseType, BaseLocal
<1>4. p \in {"publish", "help"}
  OBVIOUS
<1>5. BaseLocal' /\ OthersSame(t) /\ ThreadInv(t)'
  <2> HIDE DEF p
  <2>1. p \in ResizePC /\ p \notin ContextPC /\ p \notin TransferPC /\ p \notin {"sentinel", "move"}
    BY <1>4 DEF ResizePC, ContextPC, TransferPC
  <2> QED BY <1>1, <1>2, <1>3, <2>1, SameLinks, ResizeMove
<1>6. RootType' /\ ArenaInv'
  BY <1>1, <1>2, Roots DEF RootType, ArenaInv, Published, ReservedCtx, Gen
<1> QED BY <1>1, <1>2, <1>5, <1>6, SamePublished, RootStep

\* triggerResize publishes the new index in indexNext of the active one.
LEMMA PublishNextInv ==
  ASSUME IInv, NEW t \in Thread, PublishNext(t) PROVE IInv'
<1> DEFINE x == [xfer[t] EXCEPT !.gen = active]
           c == NumLinks[active + 1] - resLinkBudget(active)
<1>1. /\ pc[t] = "publish" /\ pc[t] \in ResizePC /\ active < MaxGen
      /\ UNCHANGED <<memory, linkNext, active, resizeCtx, ctx, api, scan, ins>>
      /\ linkCapacity' = [linkCapacity EXCEPT ![active + 1] = c]
      /\ indexNext' = [indexNext EXCEPT ![active] = active + 1]
      /\ xfer' = [xfer EXCEPT ![t] = x] /\ Goto(t, "setCtx")
  BY DEF PublishNext, ResizePC
<1>2. active \in 0..(MaxGen - 1) /\ active + 1 \in Gen /\ active \in Gen
  BY <1>1, Roots DEF RootType, Gen
<1>3. c \in Int /\ c <= NumLinks[active + 1]
  <2>1. NumLinks[active] \in Nat /\ NumLinks[active + 1] \in Nat
    BY <1>2, SizeAssumption
  <2> QED BY <2>1 DEF resLinkBudget
<1>4. x \in XferRec /\ x.gen = active
  BY <1>2, Locals DEF XferRec
<1>5. UNCHANGED <<linkMeta, call>>
  BY <1>1 DEF memory, api
<1> HIDE DEF x, c
<1>6. \A g \in Gen : Published(g) => Published(g)'
  BY <1>1, <1>2, Roots DEF Published, RootType
<1>7. indexNext'[active] = active + 1
  BY <1>1, <1>2, Roots DEF RootType
<1>8. BaseLocal' /\ OthersSame(t) /\ ThreadInv(t)'
  <2>1. "setCtx" \in ResizePC /\ "setCtx" \notin TransferPC
    BY DEF ResizePC, ContextPC, TransferPC
  <2> QED BY <1>1, <1>2, <1>4, <1>5, <1>7, <2>1, SameLinks, ResizeMove
<1>9. RootType'
  BY <1>1, <1>2, <1>3, Roots DEF RootType
<1>10. ArenaInv'
  <2>1. resizeCtx' \in Gen => Published(resizeCtx)'
    BY <1>1, <1>6, Roots DEF ArenaInv, Published
  <2>2. \A g \in Gen : linkCapacity'[g] <= NumLinks[g]
    BY <1>1, <1>2, <1>3, Roots DEF ArenaInv, RootType
  <2> QED BY <1>1, <2>1, <2>2, Roots DEF ArenaInv
<1> QED BY <1>1, <1>6, <1>8, <1>9, <1>10, RootStep

\* A thread that works on a context works on an index that has a successor.
LEMMA AtContext ==
  ASSUME IInv, NEW t \in Thread, pc[t] \in ContextPC
  PROVE  /\ pc[t] \in ResizePC /\ xfer[t] \in XferRec /\ Published(xfer[t].gen)
         /\ xfer[t].gen \in 0..(MaxGen - 1) /\ xfer[t].gen \in Gen /\ xfer[t].gen + 1 \in Gen
         /\ indexNext[xfer[t].gen] = xfer[t].gen + 1
         /\ ctx[xfer[t].gen] \in CtxRec
         /\ ctx[xfer[t].gen].linkNextResize \in 1..NumLinks[xfer[t].gen + 1]
<1>1. pc[t] # "idle" /\ pc[t] \in ResizePC
  BY DEF ContextPC, TransferPC, ResizePC
<1>2. Published(xfer[t].gen) /\ xfer[t] \in XferRec
  BY <1>1, Locals DEF XferInv
<1>3. /\ xfer[t].gen \in 0..(MaxGen - 1) /\ xfer[t].gen \in Gen /\ xfer[t].gen + 1 \in Gen
      /\ indexNext[xfer[t].gen] = xfer[t].gen + 1
  BY <1>2, SizeAssumption DEF Published, Gen
<1> QED BY <1>1, <1>2, <1>3, Roots DEF RootType, ArenaInv

\* A resize step with transfer x that leaves shared memory alone
LEMMA ResizeLocal ==
  ASSUME IInv, NEW t \in Thread, pc[t] \in ResizePC,
         NEW x \in XferRec, xfer' = [xfer EXCEPT ![t] = x],
         UNCHANGED <<memory, arena, roots, api, scan, ins>>,
         NEW p \in (ResizePC \cup {"active"}) \ TransferPC, Goto(t, p),
         p \in ContextPC => Published(x.gen)
  PROVE  IInv'
<1>1. UNCHANGED <<linkMeta, call, indexNext>>
  BY DEF memory, api, roots
<1>2. p \notin {"sentinel", "move"}
  BY DEF TransferPC
<1>3. BaseLocal' /\ OthersSame(t) /\ ThreadInv(t)'
  BY <1>1, <1>2, SameLinks, ResizeMove DEF Published
<1> QED BY <1>3, LocalStep

\* helpResize takes up a context only when its index has a successor.
LEMMA HelpResizeInv ==
  ASSUME IInv, NEW t \in Thread, HelpResize(t) PROVE IInv'
<1>1. /\ pc[t] = "help" /\ pc[t] \in ResizePC
      /\ UNCHANGED <<memory, arena, roots, api, scan, ins>>
  BY DEF HelpResize, ResizePC
<1>2. xfer[t] \in XferRec /\ (xfer' = xfer => xfer' = [xfer EXCEPT ![t] = xfer[t]])
  BY Locals DEF IInv, BaseType, BaseLocal
<1>3. CASE resizeCtx = NoCtx /\ Goto(t, "active") /\ UNCHANGED xfer
  BY <1>1, <1>2, <1>3, ResizeLocal DEF ContextPC, TransferPC
<1>4. CASE resizeCtx = ReservedCtx /\ UNCHANGED <<pc, xfer>>
  <2>1. Goto(t, "help")
    BY <1>1, <1>4 DEF Goto, IInv, BaseType, BaseLocal
  <2> QED BY <1>1, <1>2, <1>4, <2>1, ResizeLocal DEF ContextPC, TransferPC, ResizePC
<1>5. CASE /\ resizeCtx \in Gen /\ xfer' = [xfer EXCEPT ![t].gen = resizeCtx]
           /\ Goto(t, "helpActive")
  <2> DEFINE x == [xfer[t] EXCEPT !.gen = resizeCtx]
  <2>1. x \in XferRec /\ x.gen = resizeCtx /\ xfer' = [xfer EXCEPT ![t] = x]
    BY <1>2, <1>5 DEF XferRec
  <2>2. Published(x.gen)
    BY <1>5, <2>1, Roots DEF ArenaInv
  <2> HIDE DEF x
  <2> QED BY <1>1, <1>5, <2>1, <2>2, ResizeLocal DEF ContextPC, TransferPC, ResizePC
<1> QED BY <1>3, <1>4, <1>5 DEF HelpResize

\* helpResize looks whether the context is still active.
LEMMA HelpActiveInv ==
  ASSUME IInv, NEW t \in Thread, HelpActive(t) PROVE IInv'
<1>1. /\ pc[t] = "helpActive" /\ pc[t] \in ContextPC /\ pc[t] \in ResizePC
      /\ UNCHANGED <<memory, arena, roots, api, scan, ins>>
  BY DEF HelpActive, ResizePC, ContextPC
<1>2. CASE ctx[xfer[t].gen].active = "inactive"
  <2>1. Goto(t, "active") /\ xfer' = [xfer EXCEPT ![t] = FreshXfer]
    BY <1>2 DEF HelpActive
  <2> QED BY <1>1, <2>1, FreshTypes, ResizeLocal DEF ContextPC, TransferPC
<1>3. CASE ctx[xfer[t].gen].active # "inactive"
  <2>1. Goto(t, "claim") /\ xfer' = [xfer EXCEPT ![t] = xfer[t]]
    BY <1>3 DEF HelpActive, IInv, BaseType, BaseLocal
  <2> QED BY <1>1, <2>1, AtContext, ResizeLocal DEF ContextPC, TransferPC, ResizePC
<1> QED BY <1>2, <1>3

\* A resize step that changes at most the context of the generation resized
LEMMA ContextStep ==
  ASSUME IInv, NEW t \in Thread, pc[t] \in ContextPC,
         NEW c \in CtxRec, ctx' = [ctx EXCEPT ![xfer[t].gen] = c],
         c.linkNextResize \in 1..NumLinks[xfer[t].gen + 1],
         UNCHANGED <<memory, arena, indexNext, api>>,
         active' \in Gen, resizeCtx' \in {xfer[t].gen, resizeCtx, NoCtx},
         BaseLocal', OthersSame(t), ThreadInv(t)'
  PROVE  IInv'
<1> DEFINE g == xfer[t].gen
<1>1. g \in Gen /\ g \in 0..(MaxGen - 1) /\ Published(g)
  BY AtContext
<1>2. UNCHANGED <<linkNext, linkCapacity>>
  BY DEF arena
<1>3. RootType'
  BY <1>1, <1>2, Roots DEF RootType
<1>4. ArenaInv'
  <2>1. resizeCtx' \in Gen => Published(resizeCtx)'
    BY <1>1, Roots DEF ArenaInv, Published, NoCtx, Gen
  <2>2. \A k \in 0..(MaxGen - 1) : ctx'[k].linkNextResize \in 1..NumLinks[k + 1]
    <3>1. \A k \in 0..(MaxGen - 1) : k \in Gen
      BY SizeAssumption DEF Gen
    <3> QED BY <1>1, <3>1, Roots DEF ArenaInv, RootType
  <2> QED BY <1>2, <2>1, <2>2, Roots DEF ArenaInv
<1> QED BY <1>2, <1>3, <1>4, SamePublished, RootStep

\* triggerResize installs the context of an index that has a successor.
LEMMA SetResizeContextInv ==
  ASSUME IInv, NEW t \in Thread, SetResizeContext(t) PROVE IInv'
<1> DEFINE g == xfer[t].gen
<1>1. /\ pc[t] = "setCtx" /\ pc[t] \in ContextPC
      /\ resizeCtx' = g /\ ctx' = [ctx EXCEPT ![g] = FreshCtx(g)] /\ Goto(t, "claim")
      /\ UNCHANGED <<memory, arena, active, indexNext, api, scan, ins, xfer>>
  BY DEF SetResizeContext, ContextPC
<1>2. g \in 0..(MaxGen - 1) /\ g + 1 \in Gen /\ Published(g) /\ pc[t] \in ResizePC /\ xfer[t] \in XferRec
  BY <1>1, AtContext
<1>3. NumLinks[g] \in Nat /\ NumLinks[g + 1] \in Nat /\ NumLinks[g + 1] >= 1
  <2>1. NumLinks[g] \in Nat /\ NumLinks[g + 1] \in Nat
    BY <1>2, SizeAssumption DEF Gen
  <2> QED BY <1>2, <2>1, GrowthAssumption
<1>4. FreshCtx(g) \in CtxRec /\ FreshCtx(g).linkNextResize \in 1..NumLinks[g + 1]
  BY <1>2, <1>3, SizeAssumption DEF FreshCtx, CtxRec
<1>5. UNCHANGED <<linkMeta, call, indexNext>> /\ xfer' = [xfer EXCEPT ![t] = xfer[t]]
  BY <1>1 DEF memory, api, IInv, BaseType, BaseLocal
<1>6. BaseLocal' /\ OthersSame(t) /\ ThreadInv(t)'
  <2>1. "claim" \in ResizePC /\ "claim" \notin TransferPC /\ "claim" \in ContextPC
    BY DEF ResizePC, ContextPC, TransferPC
  <2> QED BY <1>1, <1>2, <1>5, <2>1, SameLinks, ResizeMove DEF Published
<1>7. active' \in Gen
  BY <1>1, Roots DEF RootType
<1> QED BY <1>1, <1>4, <1>6, <1>7, ContextStep

\* A resize step that leaves the links of the bins and the successors alone.
LEMMA ContextMove ==
  ASSUME IInv, NEW t \in Thread, pc[t] \in ContextPC,
         NEW x \in XferRec, xfer' = [xfer EXCEPT ![t] = x],
         UNCHANGED <<linkMeta, indexNext, call, scan, ins>>,
         NEW p \in ResizePC, Goto(t, p),
         p \in ContextPC => x.gen = xfer[t].gen,
         p \in TransferPC => x.bin < NumBins[x.gen],
         p \in TransferPC \ {"or"} => Backed(linkMeta[<<x.gen, x.bin>>], x.h),
         p \in {"sentinel", "move"} => \A i \in x.todo : HasSlot(linkMeta[<<x.gen, x.bin>>], i),
         p \in {"sentinel", "move"} => x.todo # {}
  PROVE  BaseLocal' /\ OthersSame(t) /\ ThreadInv(t)'
<1>1. pc[t] \in ResizePC /\ xfer[t].gen \in 0..(MaxGen - 1) /\ indexNext[xfer[t].gen] = xfer[t].gen + 1
  BY AtContext
<1>2. p \in ContextPC => x.gen \in 0..(MaxGen - 1) /\ indexNext'[x.gen] = x.gen + 1
  BY <1>1
<1> QED BY <1>1, <1>2, SameLinks, ResizeMove

\* A chunk that is claimed starts at a bin of the old index.
LEMMA ClaimChunkInv ==
  ASSUME IInv, NEW t \in Thread, ClaimChunk(t) PROVE IInv'
<1> DEFINE g == xfer[t].gen
           chunk == ctx[g].chunkClaimed
<1>1. /\ pc[t] = "claim" /\ pc[t] \in ContextPC
      /\ UNCHANGED <<memory, arena, active, indexNext, resizeCtx, api, scan, ins>>
  BY DEF ClaimChunk, ContextPC
<1>2. /\ g \in 0..(MaxGen - 1) /\ g \in Gen /\ Published(g) /\ pc[t] \in ResizePC /\ xfer[t] \in XferRec
      /\ ctx[g] \in CtxRec /\ ctx[g].linkNextResize \in 1..NumLinks[g + 1] /\ chunk \in Nat
  BY <1>1, AtContext DEF CtxRec
<1>3. UNCHANGED <<linkMeta, call, indexNext>> /\ active' \in Gen
  BY <1>1, Roots DEF memory, api, RootType
<1>4. CASE chunk < NumChunks(g)
  <2> DEFINE c == [ctx[g] EXCEPT !.chunkClaimed = chunk + 1]
             x == [xfer[t] EXCEPT !.bin = chunk * CHUNK_SIZE]
  <2>3. chunk * CHUNK_SIZE \in Nat /\ chunk * CHUNK_SIZE < NumBins[g]
    <3>1. CHUNK_SIZE \in Nat \ {0} /\ NumBins[g] \in Nat
      BY <1>2, SizeAssumption
    <3>2. chunk < (NumBins[g] + CHUNK_SIZE - 1) \div CHUNK_SIZE
      BY <1>4 DEF NumChunks
    <3> HIDE DEF chunk
    <3> QED BY <1>2, <3>1, <3>2
  <2>1. /\ ctx' = [ctx EXCEPT ![g].chunkClaimed = chunk + 1]
        /\ xfer' = [xfer EXCEPT ![t].bin = chunk * CHUNK_SIZE] /\ Goto(t, "or")
    <3>1. NumChunks(g) \in Int
      BY <1>2, SizeAssumption DEF NumChunks
    <3>2. ~(chunk >= NumChunks(g))
      BY <1>2, <1>4, <3>1
    <3> QED BY <3>2, Zenon DEF ClaimChunk
  <2>2. c \in CtxRec /\ c.linkNextResize = ctx[g].linkNextResize
    BY <1>2 DEF CtxRec
  <2>4. x \in XferRec /\ x.gen = g /\ x.bin = chunk * CHUNK_SIZE
    BY <1>2, <2>3 DEF XferRec
  <2>5. ctx' = [ctx EXCEPT ![g] = c] /\ xfer' = [xfer EXCEPT ![t] = x]
    BY <2>1
  <2> HIDE DEF c, x
  <2>6. BaseLocal' /\ OthersSame(t) /\ ThreadInv(t)'
    <3>1. "or" \in ResizePC /\ "or" \in ContextPC /\ "or" \notin {"sentinel", "move"}
      BY DEF ResizePC, ContextPC, TransferPC
    <3> QED BY <1>1, <1>3, <2>1, <2>3, <2>4, <2>5, <3>1, ContextMove
  <2> QED BY <1>1, <1>2, <1>3, <2>2, <2>5, <2>6, ContextStep
<1>5. CASE ~(chunk < NumChunks(g))
  <2>1. xfer' = [xfer EXCEPT ![t] = FreshXfer] /\ Goto(t, "help") /\ ctx' = ctx
    BY <1>5 DEF ClaimChunk
  <2>2. UNCHANGED roots
    BY <1>1, <2>1 DEF roots
  <2> QED BY <1>1, <1>2, <2>1, <2>2, FreshTypes, ResizeLocal DEF ContextPC, TransferPC, ResizePC
<1> QED BY <1>4, <1>5

\* transferBin marks a bin of an index that has a successor, and takes Valid slots
\* that have buckets.
LEMMA TransferBinInv ==
  ASSUME IInv, NEW t \in Thread, TransferBin(t) PROVE IInv'
<1> DEFINE h == header[OldBin(t)]
           x == [xfer[t] EXCEPT !.h = h, !.todo = validMask(h, 0)]
           p == IF validMask(h, 0) = {} THEN "xlinks" ELSE "sentinel"
<1>1. /\ pc[t] = "or" /\ pc[t] \in TransferPC /\ pc[t] \in ContextPC
      /\ header' = [header EXCEPT ![OldBin(t)] = orInTransfer(h)]
      /\ xfer' = [xfer EXCEPT ![t] = x] /\ Goto(t, p)
      /\ UNCHANGED <<linkMeta, slotKey, slotVal, arena, roots, api, scan, ins>>
  BY DEF TransferBin, ContextPC, TransferPC
<1>2. /\ OldBin(t) \in BinId /\ OldBin(t)[1] = xfer[t].gen /\ Published(xfer[t].gen)
      /\ h \in Header /\ Backed(linkMeta[OldBin(t)], h) /\ xfer[t] \in XferRec
      /\ linkMeta[OldBin(t)] \in LinkMeta
  BY <1>1, OldBinType, AtContext
<1>3. validMask(h, 0) \subseteq SlotIdx /\ orInTransfer(h) \in Header
      /\ Backed(linkMeta[OldBin(t)], orInTransfer(h))
  BY <1>2, HeaderOps, BackedOps
<1>4. \A i \in validMask(h, 0) : HasSlot(linkMeta[OldBin(t)], i)
  BY <1>2, <1>3 DEF validMask, Backed, SlotValid, SlotInvalid
<1>5. x \in XferRec /\ x.gen = xfer[t].gen /\ x.bin = xfer[t].bin /\ x.h = h /\ x.todo = validMask(h, 0)
  BY <1>2, <1>3 DEF XferRec
<1>6. UNCHANGED <<indexNext, call>> /\ res' = res
  BY <1>1 DEF roots, api
<1>7. xfer[t].bin < NumBins[xfer[t].gen]
  BY <1>1, Locals DEF XferInv, TransferPC
<1>8. /\ p \in ResizePC /\ p \in {"xlinks", "sentinel"}
      /\ p \in {"sentinel", "move"} => x.todo # {}
  BY <1>5 DEF ResizePC, ContextPC, TransferPC
<1> HIDE DEF x, p, h
<1>9. BaseLocal' /\ OthersSame(t) /\ ThreadInv(t)'
  BY <1>1, <1>2, <1>4, <1>5, <1>6, <1>7, <1>8, ContextMove DEF OldBin
<1>10. header' \in [BinId -> Header] /\ \A b \in BinId : BinInv(b)'
  BY <1>1, <1>2, <1>3, <1>6, HeaderChange
<1>11. BaseMemory' /\ ApiType'
  BY <1>1, <1>10 DEF IInv, BaseType, BaseMemory, ApiType, api
<1> QED BY <1>1, <1>6, <1>9, <1>10, <1>11, MemoryStep

\* transferBin goes on to the links it finds.
LEMMA TransferLinksInv ==
  ASSUME IInv, NEW t \in Thread, TransferLinks(t) PROVE IInv'
<1> DEFINE lm == linkMeta[OldBin(t)]
           todo == linkSlots(xfer[t].h, lm)
           x == [xfer[t] EXCEPT !.todo = todo]
           p == IF todo = {} THEN "xdone" ELSE "sentinel"
<1>1. /\ pc[t] = "xlinks" /\ pc[t] \in TransferPC /\ pc[t] \in ContextPC
      /\ xfer' = [xfer EXCEPT ![t] = x] /\ Goto(t, p)
      /\ UNCHANGED <<memory, arena, roots, api, scan, ins>>
  BY DEF TransferLinks, ContextPC, TransferPC
<1>2. /\ OldBin(t) \in BinId /\ xfer[t] \in XferRec /\ lm \in LinkMeta
      /\ xfer[t].h \in Header /\ Backed(lm, xfer[t].h)
      /\ xfer[t].bin < NumBins[xfer[t].gen]
  BY <1>1, OldBinType, AtContext, Locals DEF XferInv, TransferPC, XferRec
<1>3. todo \subseteq SlotIdx /\ \A i \in todo : xfer[t].h.ss[i] = SlotValid
  <2>1. \A n \in 0..3 : validMask(xfer[t].h, n) \subseteq SlotIdx
    BY <1>2, HeaderOps
  <2>2. \A n \in attached(lm) : n \in 0..3
    BY DEF attached
  <2> QED BY <2>1, <2>2 DEF linkSlots, validMask
<1>4. \A i \in todo : HasSlot(lm, i)
  BY <1>2, <1>3 DEF Backed, SlotValid, SlotInvalid
<1>5. x \in XferRec /\ x.gen = xfer[t].gen /\ x.bin = xfer[t].bin /\ x.h = xfer[t].h /\ x.todo = todo
  BY <1>2, <1>3 DEF XferRec
<1>6. UNCHANGED <<linkMeta, indexNext, call>>
  BY <1>1 DEF roots, api, memory
<1>8. /\ p \in ResizePC /\ p \in {"xdone", "sentinel"}
      /\ p \in {"sentinel", "move"} => x.todo # {}
  BY <1>5 DEF ResizePC, ContextPC, TransferPC
<1> HIDE DEF x, p, todo
<1>9. BaseLocal' /\ OthersSame(t) /\ ThreadInv(t)'
  BY <1>1, <1>2, <1>4, <1>5, <1>6, <1>8, ContextMove DEF OldBin
<1> QED BY <1>1, <1>9, LocalStep

\* The slot that the transfer is at exists.
LEMMA AtMove ==
  ASSUME IInv, NEW t \in Thread, pc[t] \in {"sentinel", "move"}
  PROVE  /\ Lowest(xfer[t].todo) \in xfer[t].todo /\ xfer[t].todo \subseteq SlotIdx
         /\ SlotLoc(OldBin(t), Lowest(xfer[t].todo)) \in Loc
         /\ \A i \in xfer[t].todo : HasSlot(linkMeta[OldBin(t)], i)
         /\ Backed(linkMeta[OldBin(t)], xfer[t].h)
         /\ xfer[t].bin < NumBins[xfer[t].gen]
<1>1. pc[t] \in TransferPC /\ pc[t] # "idle" /\ pc[t] # "or"
  BY DEF TransferPC
<1>2. /\ xfer[t].todo # {} /\ xfer[t].todo \subseteq SlotIdx
      /\ \A i \in xfer[t].todo : HasSlot(linkMeta[OldBin(t)], i)
      /\ Backed(linkMeta[OldBin(t)], xfer[t].h)
      /\ xfer[t].bin < NumBins[xfer[t].gen]
  BY <1>1, Locals DEF XferInv, XferRec
<1>3. Lowest(xfer[t].todo) \in xfer[t].todo
  BY <1>2, LowestIn, SlotIdxNat
<1>4. SlotLoc(OldBin(t), Lowest(xfer[t].todo)) \in Loc
  BY <1>1, <1>2, <1>3, OldBinType, LocType DEF SlotLoc
<1> QED BY <1>2, <1>3, <1>4

\* The transfer overwrites the key of a slot that has an address.
LEMMA StoreSentinelInv ==
  ASSUME IInv, NEW t \in Thread, StoreSentinel(t) PROVE IInv'
<1> DEFINE loc == SlotLoc(OldBin(t), Lowest(xfer[t].todo))
           x == [xfer[t] EXCEPT !.key = slotKey[loc]]
<1>1. /\ pc[t] = "sentinel" /\ pc[t] \in TransferPC /\ pc[t] \in ContextPC
      /\ xfer' = [xfer EXCEPT ![t] = x] /\ Goto(t, "move")
      /\ slotKey' = [slotKey EXCEPT ![loc] = GetTransferSentinel(xfer[t].bin)]
      /\ UNCHANGED <<header, linkMeta, slotVal, arena, roots, api, scan, ins>>
  BY DEF StoreSentinel, ContextPC, TransferPC
<1>2. /\ loc \in Loc /\ xfer[t].todo # {} /\ xfer[t].bin < NumBins[xfer[t].gen]
      /\ \A i \in xfer[t].todo : HasSlot(linkMeta[OldBin(t)], i)
      /\ Backed(linkMeta[OldBin(t)], xfer[t].h)
  BY <1>1, AtMove
<1>3. xfer[t] \in XferRec /\ slotKey[loc] \in Nat
  BY <1>2, Locals DEF IInv, BaseType, BaseMemory
<1>4. x \in XferRec /\ x.gen = xfer[t].gen /\ x.bin = xfer[t].bin /\ x.h = xfer[t].h /\ x.todo = xfer[t].todo
  BY <1>3 DEF XferRec
<1>5. UNCHANGED <<indexNext, call>> /\ res' = res
  BY <1>1 DEF roots, api
<1>6. BaseMemory' /\ ApiType'
  BY <1>1, SizeAssumption DEF IInv, BaseType, BaseMemory, ApiType, api, GetTransferSentinel
<1> HIDE DEF x, loc
<1>7. BaseLocal' /\ OthersSame(t) /\ ThreadInv(t)'
  <2>1. "move" \in ResizePC
    BY DEF ResizePC, ContextPC, TransferPC
  <2> QED BY <1>1, <1>2, <1>4, <1>5, <2>1, ContextMove DEF OldBin
<1> QED BY <1>1, <1>5, <1>6, <1>7, SameBins, MemoryStep

\* transferBin writes the header of before the OR back, marked done: its slots have
\* buckets still.
LEMMA FinishBinInv ==
  ASSUME IInv, NEW t \in Thread, FinishBin(t) PROVE IInv'
<1> DEFINE g == xfer[t].gen
           b == xfer[t].bin
           h == setBinState(xfer[t].h, BinDoneTransfer)
           last == lastOfChunk(g, b)
           nb == IF last THEN 0 ELSE b + 1
           x == [FreshXfer EXCEPT !.gen = g, !.bin = nb]
           p == IF last THEN "chunkDone" ELSE "or"
<1>1. /\ pc[t] = "xdone" /\ pc[t] \in TransferPC /\ pc[t] \in ContextPC
      /\ header' = [header EXCEPT ![OldBin(t)] = h]
      /\ xfer' = [xfer EXCEPT ![t] = x] /\ Goto(t, p)
      /\ UNCHANGED <<linkMeta, slotKey, slotVal, arena, roots, api, scan, ins>>
  BY DEF FinishBin, ContextPC, TransferPC
<1>2. /\ OldBin(t) \in BinId /\ OldBin(t)[1] = g /\ Published(g) /\ g \in Gen
      /\ xfer[t] \in XferRec /\ xfer[t].h \in Header /\ b \in Nat
      /\ Backed(linkMeta[OldBin(t)], xfer[t].h) /\ b < NumBins[g]
  BY <1>1, OldBinType, AtContext, Locals DEF XferInv, TransferPC, XferRec
<1>3. h \in Header /\ Backed(linkMeta[OldBin(t)], h)
  <2>1. BinDoneTransfer \in BinState
    BY DEF BinDoneTransfer, BinState
  <2> QED BY <1>2, <2>1, HeaderOps, BackedOps
<1>4. nb \in Nat /\ (~last => nb < NumBins[g])
  <2>1. NumBins[g] \in Nat
    BY <1>2, SizeAssumption
  <2> QED BY <1>2, <2>1 DEF lastOfChunk
<1>5. x \in XferRec /\ x.gen = g /\ x.bin = nb
  <2> HIDE DEF nb
  <2> QED BY <1>2, <1>4, FreshTypes DEF XferRec, FreshXfer
<1>6. UNCHANGED <<indexNext, call>> /\ res' = res
  BY <1>1 DEF roots, api
<1>7. p \in ResizePC /\ p \in {"chunkDone", "or"} /\ (p \in TransferPC => nb < NumBins[g])
  BY <1>4 DEF ResizePC, ContextPC, TransferPC
<1> HIDE DEF x, p, h, nb, last
<1>8. BaseLocal' /\ OthersSame(t) /\ ThreadInv(t)'
  <2>1. p \notin TransferPC \ {"or"} /\ p \notin {"sentinel", "move"}
    BY <1>7 DEF TransferPC
  <2> QED BY <1>1, <1>5, <1>6, <1>7, <2>1, ContextMove
<1>9. header' \in [BinId -> Header] /\ \A bin \in BinId : BinInv(bin)'
  BY <1>1, <1>2, <1>3, <1>6, HeaderChange
<1>10. BaseMemory' /\ ApiType'
  BY <1>1, <1>9 DEF IInv, BaseType, BaseMemory, ApiType, api
<1> QED BY <1>1, <1>6, <1>8, <1>9, <1>10, MemoryStep

\* A chunk is counted as done.
LEMMA ChunkDoneInv ==
  ASSUME IInv, NEW t \in Thread, ChunkDone(t) PROVE IInv'
<1> DEFINE g == xfer[t].gen
           done == ctx[g].chunksDone + 1
           c == [ctx[g] EXCEPT !.chunksDone = done]
           p == IF lastChunk(g, done) THEN "finCapacity" ELSE "claim"
<1>1. /\ pc[t] = "chunkDone" /\ pc[t] \in ContextPC
      /\ ctx' = [ctx EXCEPT ![g] = c] /\ Goto(t, p)
      /\ UNCHANGED <<memory, arena, active, indexNext, resizeCtx, api, scan, ins, xfer>>
  BY DEF ChunkDone, ContextPC
<1>2. /\ xfer[t] \in XferRec /\ g \in Gen
      /\ ctx[g] \in CtxRec /\ ctx[g].linkNextResize \in 1..NumLinks[g + 1]
  BY <1>1, AtContext
<1>3. c \in CtxRec /\ c.linkNextResize = ctx[g].linkNextResize
  BY <1>2 DEF CtxRec
<1>4. UNCHANGED <<linkMeta, call, indexNext>> /\ active' \in Gen
  BY <1>1, Roots DEF memory, api, RootType
<1>5. p \in ResizePC /\ p \notin TransferPC /\ p \notin {"sentinel", "move"}
  BY DEF ResizePC, ContextPC, TransferPC
<1>6. xfer' = [xfer EXCEPT ![t] = xfer[t]]
  BY <1>1 DEF IInv, BaseType, BaseLocal
<1> HIDE DEF c, p
<1>7. BaseLocal' /\ OthersSame(t) /\ ThreadInv(t)'
  BY <1>1, <1>2, <1>4, <1>5, <1>6, ContextMove
<1> QED BY <1>1, <1>2, <1>3, <1>4, <1>7, ContextStep

\* The links left over by the transfer become the capacity of the new arena.
LEMMA FinishCapacityInv ==
  ASSUME IInv, NEW t \in Thread, FinishCapacity(t) PROVE IInv'
<1> DEFINE g == xfer[t].gen
           c == ctx[g].linkNextResize - 1
<1>1. /\ pc[t] = "finCapacity" /\ pc[t] \in ContextPC
      /\ linkCapacity' = [linkCapacity EXCEPT ![g + 1] = c] /\ Goto(t, "finActive")
      /\ UNCHANGED <<memory, linkNext, roots, api, scan, ins, xfer>>
  BY DEF FinishCapacity, ContextPC
<1>2. /\ xfer[t] \in XferRec /\ g \in Gen /\ g + 1 \in Gen
      /\ ctx[g].linkNextResize \in 1..NumLinks[g + 1]
  BY <1>1, AtContext
<1>3. c \in Int /\ c <= NumLinks[g + 1]
  <2>1. NumLinks[g + 1] \in Nat
    BY <1>2, SizeAssumption
  <2> QED BY <1>2, <2>1
<1>4. UNCHANGED <<linkMeta, call, active, indexNext, resizeCtx, ctx>>
  BY <1>1 DEF memory, api, roots
<1>5. xfer' = [xfer EXCEPT ![t] = xfer[t]]
  BY <1>1 DEF IInv, BaseType, BaseLocal
<1> HIDE DEF c
<1>6. BaseLocal' /\ OthersSame(t) /\ ThreadInv(t)'
  <2>1. "finActive" \in ResizePC /\ "finActive" \notin TransferPC
    BY DEF ResizePC, ContextPC, TransferPC
  <2> QED BY <1>1, <1>2, <1>4, <1>5, <2>1, ContextMove
<1>7. RootType' /\ ArenaInv'
  <2>1. RootType'
    BY <1>1, <1>2, <1>3, <1>4, Roots DEF RootType
  <2>2. \A k \in Gen : linkCapacity'[k] <= NumLinks[k]
    BY <1>1, <1>2, <1>3, Roots DEF ArenaInv, RootType
  <2>3. resizeCtx' \in Gen => Published(resizeCtx)'
    BY <1>4, Roots DEF ArenaInv, Published
  <2> QED BY <1>4, <2>1, <2>2, <2>3, Roots DEF ArenaInv
<1> QED BY <1>1, <1>4, <1>6, <1>7, SamePublished, RootStep

\* The new index becomes active.
LEMMA FinishActiveInv ==
  ASSUME IInv, NEW t \in Thread, FinishActive(t) PROVE IInv'
<1> DEFINE g == xfer[t].gen
<1>1. /\ pc[t] = "finActive" /\ pc[t] \in ContextPC
      /\ active' = g + 1 /\ Goto(t, "finInactive")
      /\ UNCHANGED <<memory, arena, indexNext, resizeCtx, ctx, api, scan, ins, xfer>>
  BY DEF FinishActive, ContextPC
<1>2. /\ xfer[t] \in XferRec /\ g \in Gen /\ g + 1 \in Gen /\ ctx[g] \in CtxRec
      /\ ctx[g].linkNextResize \in 1..NumLinks[g + 1]
  BY <1>1, AtContext
<1>3. UNCHANGED <<linkMeta, call>> /\ active' \in Gen
  BY <1>1, <1>2 DEF memory, api
<1>4. xfer' = [xfer EXCEPT ![t] = xfer[t]] /\ ctx' = [ctx EXCEPT ![g] = ctx[g]]
  BY <1>1, Roots DEF IInv, BaseType, BaseLocal, RootType
<1>5. BaseLocal' /\ OthersSame(t) /\ ThreadInv(t)'
  <2>1. "finInactive" \in ResizePC /\ "finInactive" \notin TransferPC
    BY DEF ResizePC, ContextPC, TransferPC
  <2> QED BY <1>1, <1>2, <1>3, <1>4, <2>1, ContextMove
<1> QED BY <1>1, <1>2, <1>3, <1>4, <1>5, ContextStep

\* The context is marked inactive.
LEMMA FinishInactiveInv ==
  ASSUME IInv, NEW t \in Thread, FinishInactive(t) PROVE IInv'
<1> DEFINE g == xfer[t].gen
           c == [ctx[g] EXCEPT !.active = "inactive"]
<1>1. /\ pc[t] = "finInactive" /\ pc[t] \in ContextPC
      /\ ctx' = [ctx EXCEPT ![g] = c] /\ Goto(t, "finCtx")
      /\ UNCHANGED <<memory, arena, active, indexNext, resizeCtx, api, scan, ins, xfer>>
  BY DEF FinishInactive, ContextPC
<1>2. /\ xfer[t] \in XferRec /\ ctx[g] \in CtxRec
      /\ ctx[g].linkNextResize \in 1..NumLinks[g + 1]
  BY <1>1, AtContext
<1>3. UNCHANGED <<linkMeta, call>> /\ active' \in Gen
  BY <1>1, Roots DEF memory, api, RootType
<1>4. xfer' = [xfer EXCEPT ![t] = xfer[t]]
  BY <1>1 DEF IInv, BaseType, BaseLocal
<1>5. c \in CtxRec /\ c.linkNextResize = ctx[g].linkNextResize
  BY <1>2 DEF CtxRec
<1> HIDE DEF c
<1>6. BaseLocal' /\ OthersSame(t) /\ ThreadInv(t)'
  <2>1. "finCtx" \in ResizePC /\ "finCtx" \notin TransferPC
    BY DEF ResizePC, ContextPC, TransferPC
  <2> QED BY <1>1, <1>2, <1>3, <1>4, <2>1, ContextMove
<1> QED BY <1>1, <1>2, <1>3, <1>5, <1>6, ContextStep

\* The context is removed.
LEMMA FinishCtxInv ==
  ASSUME IInv, NEW t \in Thread, FinishCtx(t) PROVE IInv'
<1> DEFINE g == xfer[t].gen
<1>1. /\ pc[t] = "finCtx" /\ pc[t] \in ContextPC /\ resizeCtx' = NoCtx
      /\ xfer' = [xfer EXCEPT ![t] = FreshXfer] /\ Goto(t, "help")
      /\ UNCHANGED <<memory, arena, active, indexNext, ctx, api, scan, ins>>
  BY DEF FinishCtx, ContextPC
<1>2. /\ ctx[g] \in CtxRec /\ ctx[g].linkNextResize \in 1..NumLinks[g + 1] /\ FreshXfer \in XferRec
  BY <1>1, AtContext, FreshTypes
<1>3. UNCHANGED <<linkMeta, call>> /\ active' \in Gen /\ ctx' = [ctx EXCEPT ![g] = ctx[g]]
  BY <1>1, Roots DEF memory, api, RootType
<1>4. BaseLocal' /\ OthersSame(t) /\ ThreadInv(t)'
  <2>1. "help" \in ResizePC /\ "help" \notin TransferPC /\ "help" \notin ContextPC
    BY DEF ResizePC, ContextPC, TransferPC
  <2> QED BY <1>1, <1>2, <1>3, <2>1, ContextMove
<1> QED BY <1>1, <1>2, <1>3, <1>4, ContextStep

\* What findFreeSlotOrChain returns when it finds a slot: links of the bin are
\* kept, a link it takes is of the arena, the slot has a bucket, and the
\* counter of the links left stays above zero.
LEMMA FreeSlot ==
  ASSUME IInv, NEW g \in 0..(MaxGen - 1), NEW bin \in BinId, bin[1] = g + 1,
         findFreeSlotOrChain(g, bin).slot # NoSlot
  PROVE  LET free == findFreeSlotOrChain(g, bin) IN
         /\ free.slot \in SlotIdx /\ free.lm \in LinkMeta
         /\ LinkMetaOK(free.lm, NumLinks[g + 1]) /\ Keeps(linkMeta[bin], free.lm)
         /\ HasSlot(free.lm, free.slot) /\ free.next \in 1..NumLinks[g + 1]
<1> DEFINE free == findFreeSlotOrChain(g, bin)
           h == header[bin]
           lm == linkMeta[bin]
           n == ctx[g].linkNextResize
           N == NumLinks[g + 1]
           Good(r) == /\ r.slot \in SlotIdx /\ r.lm \in LinkMeta
                      /\ LinkMetaOK(r.lm, N) /\ Keeps(lm, r.lm)
                      /\ HasSlot(r.lm, r.slot) /\ r.next \in 1..N
<1>1. h \in Header /\ lm \in LinkMeta /\ LinkMetaOK(lm, N) /\ n \in 1..N /\ N \in Nat
  <2>1. g + 1 \in Gen
    BY SizeAssumption DEF Gen
  <2> QED BY <2>1, Roots, SizeAssumption DEF IInv, BaseType, BaseMemory, SharedInv, BinInv, ArenaInv
<1>2. Keeps(lm, lm)
  BY DEF Keeps
<1>in. \A m \in 0..3 : /\ invalidMask(h, m) \subseteq SlotIdx
                       /\ invalidMask(h, m) # {} => Lowest(invalidMask(h, m)) \in invalidMask(h, m)
  <2>1. \A m \in 0..3 : invalidMask(h, m) \subseteq SlotIdx
    <3> HIDE DEF h
    <3> QED BY <1>1, HeaderOps
  <2>2. \A m \in 0..3 : invalidMask(h, m) \subseteq Nat
    BY <2>1, SlotIdxNat
  <2> QED BY <2>1, <2>2, LowestIn
<1>3. ASSUME invalidMask(h, 0) # {} PROVE Good(free)
  <2>1. free = [slot |-> Lowest(invalidMask(h, 0)), lm |-> lm, next |-> n]
    BY <1>3 DEF findFreeSlotOrChain
  <2>2. Lowest(invalidMask(h, 0)) \in invalidMask(h, 0) /\ invalidMask(h, 0) \subseteq SlotIdx
    BY <1>3, <1>in
  <2>3. HasSlot(lm, Lowest(invalidMask(h, 0)))
    BY <1>1, <2>2, BucketSlots DEF HasSlot, invalidMask
  <2> QED BY <1>1, <1>2, <2>1, <2>2, <2>3
<1>4. ASSUME invalidMask(h, 0) = {}, lm.single = NO_LINK PROVE Good(free)
  <2>1. lm.pair = NO_LINK
    BY <1>1, <1>4 DEF LinkMetaOK
  <2>2. n - 1 # NO_LINK
    <3>1. SUFFICES ASSUME n - 1 = NO_LINK PROVE FALSE
      OBVIOUS
    <3>2. free.slot = NoSlot
      BY <1>1, <1>4, <2>1, <3>1 DEF findFreeSlotOrChain, NO_LINK
    <3> QED BY <3>2
  <2> DEFINE l2 == [lm EXCEPT !.single = n - 1]
  <2>3. free = [slot |-> PRIMARY_SLOTS, lm |-> l2, next |-> n - 1]
    BY <1>4, <2>2 DEF findFreeSlotOrChain
  <2>4. /\ l2 \in LinkMeta /\ l2.single = n - 1 /\ l2.pair = NO_LINK /\ n - 1 \in 1..N
    BY <1>1, <2>1, <2>2 DEF LinkMeta, NO_LINK
  <2> HIDE DEF l2
  <2>5. LinkMetaOK(l2, N) /\ Keeps(lm, l2)
    BY <1>1, <1>4, <2>1, <2>4 DEF LinkMetaOK, Keeps, NO_LINK
  <2>6. PRIMARY_SLOTS \in SlotIdx
    BY SizeAssumption DEF SlotIdx, MaxSlots
  <2>7. HasSlot(l2, PRIMARY_SLOTS)
    <3>1. 1 + (PRIMARY_SLOTS - PRIMARY_SLOTS) \div LINK_SLOTS = 1
      BY SizeAssumption
    <3> QED BY <2>2, <2>4, <3>1 DEF HasSlot, LinkOf, resolveLink
  <2> QED BY <2>3, <2>4, <2>5, <2>6, <2>7
<1>5. ASSUME invalidMask(h, 0) = {}, lm.single # NO_LINK, invalidMask(h, 1) # {} PROVE Good(free)
  <2>1. free = [slot |-> Lowest(invalidMask(h, 1)), lm |-> lm, next |-> n]
    BY <1>5 DEF findFreeSlotOrChain
  <2>2. Lowest(invalidMask(h, 1)) \in invalidMask(h, 1)
    BY <1>5, <1>in
  <2>3. 1 \in attached(lm)
    BY <1>5 DEF attached, resolveLink
  <2>4. Lowest(invalidMask(h, 1)) \in SlotIdx /\ HasSlot(lm, Lowest(invalidMask(h, 1)))
    BY <1>1, <2>2, <2>3, AttachedSlot
  <2> QED BY <1>1, <1>2, <2>1, <2>4
<1>6. ASSUME invalidMask(h, 0) = {}, lm.single # NO_LINK, invalidMask(h, 1) = {}, lm.pair = NO_LINK
      PROVE  Good(free)
  <2>1. ~(n - 2 <= 1)
    <3>1. SUFFICES ASSUME n - 2 <= 1 PROVE FALSE
      OBVIOUS
    <3>2. free.slot = NoSlot
      BY <1>6, <3>1 DEF findFreeSlotOrChain
    <3> QED BY <3>2
  <2> DEFINE l2 == [single |-> lm.single, pair |-> n - 2]
  <2>2. free = [slot |-> firstPairSlot, lm |-> l2, next |-> n - 2]
    BY <1>6, <2>1 DEF findFreeSlotOrChain
  <2>3. l2 \in LinkMeta /\ l2.single = lm.single /\ l2.pair = n - 2 /\ n - 2 \in 1..N /\ n - 2 # NO_LINK
    BY <1>1, <2>1 DEF LinkMeta, NO_LINK
  <2> HIDE DEF l2
  <2>4. LinkMetaOK(l2, N) /\ Keeps(lm, l2)
    BY <1>1, <1>6, <2>3 DEF LinkMetaOK, Keeps
  <2>5. firstPairSlot \in SlotIdx
    BY SizeAssumption DEF SlotIdx, MaxSlots, firstPairSlot
  <2>6. HasSlot(l2, firstPairSlot)
    <3>1. 1 + (firstPairSlot - PRIMARY_SLOTS) \div LINK_SLOTS = 2
      BY SizeAssumption DEF firstPairSlot
    <3> QED BY <2>3, <3>1 DEF HasSlot, LinkOf, resolveLink
  <2> QED BY <2>2, <2>3, <2>4, <2>5, <2>6
<1>7. ASSUME invalidMask(h, 0) = {}, lm.single # NO_LINK, invalidMask(h, 1) = {}, lm.pair # NO_LINK
      PROVE  Good(free)
  <2> DEFINE S == invalidMask(h, 2) \cup invalidMask(h, 3)
  <2>1. free = [slot |-> IF S = {} THEN NoSlot ELSE Lowest(S), lm |-> lm, next |-> n]
    BY <1>7 DEF findFreeSlotOrChain
  <2>2. S # {}
    BY <2>1
  <2>3. Lowest(S) \in S
    <3>1. S \subseteq Nat
      <4>1. invalidMask(h, 2) \subseteq SlotIdx /\ invalidMask(h, 3) \subseteq SlotIdx
        BY <1>in
      <4> QED BY <4>1, SlotIdxNat
    <3> HIDE DEF S
    <3> QED BY <2>2, <3>1, LowestIn
  <2>4. 2 \in attached(lm) /\ 3 \in attached(lm)
    BY <1>1, <1>7 DEF attached, resolveLink, LinkMeta, NO_LINK
  <2>5. Lowest(S) \in SlotIdx /\ HasSlot(lm, Lowest(S))
    BY <1>1, <2>3, <2>4, AttachedSlot
  <2> QED BY <1>1, <1>2, <2>1, <2>2, <2>5
<1> QED BY <1>3, <1>4, <1>5, <1>6, <1>7

\* The content e of the slot at hand moves to the new bin of a hash, with the key k;
\* the bin gets the link it needs.
LEMMA MoveInv ==
  ASSUME IInv, NEW t \in Thread, pc[t] = "move", NEW hsh \in Nat, NEW k \in Nat, NEW e \in Content,
         NEW p \in {"sentinel", "xlinks", "xdone"}, Goto(t, p),
         LET i == Lowest(xfer[t].todo)
             g == xfer[t].gen
             new == getBin(g + 1, hsh)
             free == findFreeSlotOrChain(g, new)
             loc == LocVia(free.lm, new, free.slot)
         IN  /\ xfer' = [xfer EXCEPT ![t].todo = xfer[t].todo \ {i}, ![t].key = 0]
             /\ p = "sentinel" => xfer[t].todo \ {i} # {}
             /\ free.slot # NoSlot
             /\ slotKey' = [slotKey EXCEPT ![loc] = k]
             /\ slotVal' = [slotVal EXCEPT ![loc] = e]
             /\ header' = [header EXCEPT ![new] = setSlotStateAndVersion(@, free.slot, SlotValid)]
             /\ linkMeta' = [linkMeta EXCEPT ![new] = free.lm]
             /\ ctx' = [ctx EXCEPT ![g].linkNextResize = free.next],
         UNCHANGED <<arena, active, indexNext, resizeCtx, api, scan, ins>>
  PROVE  IInv'
<1> DEFINE i == Lowest(xfer[t].todo)
           rest == xfer[t].todo \ {i}
           g == xfer[t].gen
           new == getBin(g + 1, hsh)
           free == findFreeSlotOrChain(g, new)
           loc == LocVia(free.lm, new, free.slot)
           x == [xfer[t] EXCEPT !.todo = rest, !.key = 0]
           h == setSlotStateAndVersion(header[new], free.slot, SlotValid)
           c == [ctx[g] EXCEPT !.linkNextResize = free.next]
<1>1. /\ pc[t] = "move" /\ pc[t] \in TransferPC /\ pc[t] \in ContextPC
      /\ xfer' = [xfer EXCEPT ![t] = x] /\ Goto(t, p)
      /\ UNCHANGED <<arena, active, indexNext, resizeCtx, api, scan, ins>>
  BY DEF ContextPC, TransferPC
<1>2. /\ i \in xfer[t].todo /\ xfer[t].todo \subseteq SlotIdx
      /\ \A j \in xfer[t].todo : HasSlot(linkMeta[OldBin(t)], j)
      /\ Backed(linkMeta[OldBin(t)], xfer[t].h)
      /\ xfer[t].bin < NumBins[g]
  BY <1>1, AtMove
<1>3. /\ xfer[t] \in XferRec /\ g \in 0..(MaxGen - 1) /\ g \in Gen /\ g + 1 \in Gen /\ Published(g)
      /\ indexNext[g] = g + 1 /\ pc[t] \in ResizePC /\ ctx[g] \in CtxRec
      /\ OldBin(t) \in BinId /\ linkMeta[OldBin(t)] \in LinkMeta
  BY <1>1, AtContext, OldBinType
<1>4. /\ x \in XferRec /\ x.gen = g /\ x.bin = xfer[t].bin /\ x.h = xfer[t].h /\ x.todo = rest
  BY <1>2, <1>3 DEF XferRec
<1>5. /\ p \in ResizePC /\ p \in TransferPC \ {"or"} /\ (p \in {"sentinel", "move"} => x.todo # {})
  <2> HIDE DEF x
  <2> QED BY <1>4 DEF ResizePC, ContextPC, TransferPC
<1>6. UNCHANGED call /\ res' = res
  BY <1>1 DEF api
<1>7. /\ free.slot # NoSlot
      /\ slotKey' = [slotKey EXCEPT ![loc] = k]
      /\ slotVal' = [slotVal EXCEPT ![loc] = e]
      /\ header' = [header EXCEPT ![new] = setSlotStateAndVersion(@, free.slot, SlotValid)]
      /\ linkMeta' = [linkMeta EXCEPT ![new] = free.lm]
      /\ ctx' = [ctx EXCEPT ![g].linkNextResize = free.next]
  OBVIOUS
<1>8. new \in BinId /\ new[1] = g + 1
  BY <1>3, GetBinType
<1>9. /\ free.slot \in SlotIdx /\ free.lm \in LinkMeta
      /\ LinkMetaOK(free.lm, NumLinks[g + 1]) /\ Keeps(linkMeta[new], free.lm)
      /\ HasSlot(free.lm, free.slot) /\ free.next \in 1..NumLinks[g + 1]
  <2> HIDE DEF new
  <2> QED BY <1>3, <1>7, <1>8, FreeSlot
<1>10. loc \in Loc
  <2> HIDE DEF new, free
  <2> QED BY <1>8, <1>9, LocType
<1>11. header[new] \in Header /\ linkMeta[new] \in LinkMeta /\ BinInv(new)
  BY <1>8 DEF IInv, BaseType, BaseMemory, SharedInv
<1>12. Backed(free.lm, header[new])
  <2> HIDE DEF new, free
  <2> QED BY <1>9, <1>11, KeepsSlots DEF BinInv
<1>13. h \in Header /\ Backed(free.lm, h) /\ h.bs = header[new].bs
  <2>1. SlotValid \in SlotState
    BY DEF SlotValid, SlotState
  <2> HIDE DEF new, free
  <2> QED BY <1>9, <1>11, <1>12, <2>1, SetSlot
<1>14. /\ header' = [header EXCEPT ![new] = h]
      /\ ctx' = [ctx EXCEPT ![g] = c]
  BY <1>7
<1>15. c \in CtxRec /\ c.linkNextResize = free.next
  <2>1. free.next \in Int
    <3>1. NumLinks[g + 1] \in Nat
      BY <1>3, SizeAssumption
    <3> HIDE DEF free
    <3> QED BY <1>9, <3>1
  <2> HIDE DEF free
  <2> QED BY <1>3, <2>1 DEF CtxRec
<1> HIDE DEF new, free, loc, x, h, c, i, rest
<1>16. BaseMemory'
  <2>1. BaseMemory
    BY DEF IInv, BaseType
  <2>2. header' \in [BinId -> Header]
    BY <1>13, <1>14, <2>1 DEF BaseMemory
  <2>3. linkMeta' \in [BinId -> LinkMeta]
    BY <1>7, <1>9, <2>1 DEF BaseMemory
  <2>4. slotKey' \in [Loc -> Nat]
    BY <1>7, <2>1 DEF BaseMemory
  <2>5. slotVal' \in [Loc -> Content]
    BY <1>7, <2>1 DEF BaseMemory
  <2> QED BY <2>2, <2>3, <2>4, <2>5 DEF BaseMemory
<1>17. \A b \in BinId : Keeps(linkMeta[b], linkMeta'[b]) /\ BinInv(b)'
  <2>1. SUFFICES ASSUME NEW b \in BinId PROVE Keeps(linkMeta[b], linkMeta'[b]) /\ BinInv(b)'
    OBVIOUS
  <2>2. CASE b = new
    <3>1. linkMeta'[b] = free.lm /\ header'[b] = h
      BY <1>7, <1>8, <1>14, <2>2 DEF IInv, BaseType, BaseMemory
    <3> QED BY <1>1, <1>8, <1>9, <1>11, <1>13, <2>2, <3>1 DEF BinInv, Published
  <2>3. CASE b # new
    <3>1. linkMeta'[b] = linkMeta[b] /\ header'[b] = header[b]
      BY <1>7, <1>14, <2>1, <2>3 DEF IInv, BaseType, BaseMemory
    <3>2. BinInv(b)
      BY DEF IInv, SharedInv
    <3> QED BY <1>1, <3>1, <3>2 DEF BinInv, Published, Keeps
  <2> QED BY <2>2, <2>3
<1>18. linkMeta' \in [BinId -> LinkMeta]
  BY <1>16 DEF BaseMemory
<1>19. BaseLocal' /\ OthersSame(t) /\ ThreadInv(t)'
  <2>1. /\ \A j \in SlotIdx : HasSlot(linkMeta[OldBin(t)], j) => HasSlot(linkMeta'[OldBin(t)], j)
        /\ \A w : Backed(linkMeta[OldBin(t)], w) => Backed(linkMeta'[OldBin(t)], w)
    BY <1>3, <1>17, <1>18, KeepsSlots
  <2>2. \A j \in x.todo : HasSlot(linkMeta'[<<x.gen, x.bin>>], j)
    BY <1>2, <1>4, <2>1 DEF OldBin, rest
  <2>3. Backed(linkMeta'[<<x.gen, x.bin>>], x.h)
    BY <1>2, <1>4, <2>1 DEF OldBin
  <2>4. x.gen \in 0..(MaxGen - 1) /\ indexNext'[x.gen] = x.gen + 1
    BY <1>1, <1>3, <1>4
  <2> QED BY <1>1, <1>2, <1>3, <1>4, <1>5, <1>6, <1>17, <1>18, <2>2, <2>3, <2>4, ResizeMove
<1>20. RootType' /\ ArenaInv'
  <2>1. UNCHANGED <<linkNext, linkCapacity>>
    BY <1>1 DEF arena
  <2>2. RootType'
    BY <1>1, <1>3, <1>14, <1>15, <2>1, Roots DEF RootType
  <2>3. resizeCtx' \in Gen => Published(resizeCtx)'
    BY <1>1, Roots DEF ArenaInv, Published
  <2>4. \A f \in 0..(MaxGen - 1) : ctx'[f].linkNextResize \in 1..NumLinks[f + 1]
    <3>1. \A f \in 0..(MaxGen - 1) : f \in Gen
      BY SizeAssumption DEF Gen
    <3> QED BY <1>3, <1>9, <1>14, <1>15, <3>1, Roots DEF ArenaInv, RootType
  <2> QED BY <2>1, <2>2, <2>3, <2>4, Roots DEF ArenaInv
<1>21. BaseType' /\ SharedInv'
  BY <1>1, <1>16, <1>17, <1>19, <1>20 DEF IInv, BaseType, ApiType, SharedInv, api
<1> QED BY <1>1, <1>6, <1>17, <1>19, <1>21, SamePublished, AnyStep

\* An entry moves to the new bin of its hash, which is the word of the key.
LEMMA MoveEntryInv ==
  ASSUME IInv, NEW t \in Thread, MoveEntry(t) PROVE IInv'
<1> DEFINE i == Lowest(xfer[t].todo)
           e == slotVal[SlotLoc(OldBin(t), i)]
           rest == xfer[t].todo \ {i}
           g == xfer[t].gen
           new == getBin(g + 1, xfer[t].key)
           free == findFreeSlotOrChain(g, new)
           loc == LocVia(free.lm, new, free.slot)
           p == IF rest # {} THEN "sentinel" ELSE IF i < PRIMARY_SLOTS THEN "xlinks" ELSE "xdone"
           x == [xfer[t] EXCEPT !.todo = rest, !.key = 0]
<1>1. /\ pc[t] = "move" /\ pc[t] \in TransferPC /\ pc[t] \in ContextPC
      /\ xfer' = [xfer EXCEPT ![t] = x] /\ Goto(t, p)
      /\ UNCHANGED <<arena, active, indexNext, resizeCtx, api, scan, ins>>
  BY DEF MoveEntry, ContextPC, TransferPC
<1>2. /\ i \in xfer[t].todo /\ xfer[t].todo \subseteq SlotIdx
      /\ SlotLoc(OldBin(t), i) \in Loc
      /\ \A j \in xfer[t].todo : HasSlot(linkMeta[OldBin(t)], j)
      /\ Backed(linkMeta[OldBin(t)], xfer[t].h)
      /\ xfer[t].bin < NumBins[g]
  BY <1>1, AtMove
<1>3. xfer[t] \in XferRec
  BY Locals
<1>4. /\ x \in XferRec /\ x.gen = g /\ x.bin = xfer[t].bin /\ x.h = xfer[t].h /\ x.todo = rest
  BY <1>2, <1>3 DEF XferRec
<1>5. p \in {"sentinel", "xlinks", "xdone"} /\ (p = "sentinel" => rest # {})
  OBVIOUS
<1>6. UNCHANGED call /\ res' = res
  BY <1>1 DEF api
<1>7. CASE e = Nil /\ UNCHANGED <<memory, ctx>>
  <2>1. UNCHANGED <<linkMeta, roots>>
    BY <1>1, <1>7 DEF memory, roots
  <2>2. \A j \in x.todo : HasSlot(linkMeta[<<x.gen, x.bin>>], j)
    BY <1>2, <1>4 DEF OldBin
  <2>3. Backed(linkMeta[<<x.gen, x.bin>>], x.h)
    BY <1>2, <1>4 DEF OldBin
  <2>4. /\ p \in ResizePC /\ p \in TransferPC \ {"or"} /\ (p \in {"sentinel", "move"} => x.todo # {})
    <3> HIDE DEF p, x, rest
    <3> QED BY <1>4, <1>5 DEF ResizePC, ContextPC, TransferPC
  <2> HIDE DEF x, p
  <2>5. BaseLocal' /\ OthersSame(t) /\ ThreadInv(t)'
    BY <1>1, <1>2, <1>4, <1>6, <2>1, <2>2, <2>3, <2>4, ContextMove
  <2> QED BY <1>1, <1>7, <2>1, <2>5, LocalStep
<1>8. CASE /\ e # Nil /\ free.slot # NoSlot
           /\ slotKey' = [slotKey EXCEPT ![loc] = xfer[t].key]
           /\ slotVal' = [slotVal EXCEPT ![loc] = e]
           /\ header' = [header EXCEPT ![new] = setSlotStateAndVersion(@, free.slot, SlotValid)]
           /\ linkMeta' = [linkMeta EXCEPT ![new] = free.lm]
           /\ ctx' = [ctx EXCEPT ![g].linkNextResize = free.next]
  <2>1. e \in Content
    BY <1>2 DEF IInv, BaseType, BaseMemory
  <2>2. xfer[t].key \in Nat
    BY <1>3 DEF XferRec
  <2>3. xfer' = [xfer EXCEPT ![t].todo = rest, ![t].key = 0]
    BY DEF MoveEntry
  <2> HIDE DEF e, p
  <2> QED BY <1>1, <1>5, <1>8, <2>1, <2>2, <2>3, MoveInv
<1> QED BY <1>7, <1>8 DEF MoveEntry

-----------------------------------------------------------------------------
(* The start of a call, the initial states, and the theorems.              *)

\* A call starts.
LEMMA InvokeInv ==
  ASSUME IInv, NEW t \in Thread, Invoke(t) PROVE IInv'
<1>1. PICK c \in Calls[t] :
        call' = [call EXCEPT ![t] = [kind |-> c.kind, key |-> c.key, val |-> <<t, calls[t] + 1>>]]
  BY DEF Invoke
<1> DEFINE d == [kind |-> c.kind, key |-> c.key, val |-> <<t, calls[t] + 1>>]
<1>2. /\ pc[t] = "idle" /\ calls[t] < MaxCalls[t]
      /\ calls' = [calls EXCEPT ![t] = @ + 1]
      /\ res' = [res EXCEPT ![t] = Pending] /\ Goto(t, "active") /\ Observe
      /\ UNCHANGED <<memory, arena, roots, map, scan, ins, xfer>>
  BY DEF Invoke
<1>3. ApiType /\ BaseLocal
  BY DEF IInv, BaseType
<1>4. d \in CallRec
  <2>1. c \in [kind : Kind, key : Key]
    BY CallsAssumption
  <2>2. calls[t] + 1 \in 1..MaxCalls[t]
    BY <1>2, <1>3, SizeAssumption DEF ApiType
  <2>3. <<t, calls[t] + 1>> \in Value
    BY <2>2 DEF Value
  <2> QED BY <2>1, <2>3 DEF CallRec
<1>5. call'[t] \in CallRec /\ \A u \in Thread \ {t} : call'[u] = call[u]
  BY <1>1, <1>3, <1>4 DEF ApiType
<1>6. /\ \A u \in Thread \ {t} : res'[u] = res[u]
      /\ res' \in [Thread -> Answer \cup {Pending}]
  BY <1>2, <1>3 DEF ApiType
<1>7. \A u \in Thread : res'[u] = Pending => call'[u] \in CallRec
  BY <1>5, <1>6 DEF IInv, ThreadInv
<1>8. ApiType'
  <2>1. call' \in [Thread -> CallRec \cup {NoCall}]
    <3> HIDE DEF d
    <3>1. call' = [call EXCEPT ![t] = d]
      BY <1>1 DEF d
    <3> QED BY <1>3, <1>4, <3>1 DEF ApiType
  <2>2. calls' \in [Thread -> Nat]
    BY <1>2, <1>3 DEF ApiType
  <2>3. map' \in [Key -> Value \cup {Absent}]
    BY <1>2, <1>3 DEF ApiType
  <2>4. \A u \in Thread : res'[u] = Pending => map'[call'[u].key] \in Value \cup {Absent}
    BY <1>7, <2>3 DEF CallRec
  <2>5. seen' \in [Thread -> SUBSET (Value \cup {Absent})]
    BY <1>2, <1>3, <2>4 DEF ApiType, Observe
  <2> QED BY <1>6, <2>1, <2>2, <2>3, <2>5 DEF ApiType
<1>9. BaseLocal'
  BY <1>2, <1>3 DEF BaseLocal, Goto, PC
<1>10. BaseType' /\ SharedInv'
  BY <1>2, <1>8, <1>9 DEF IInv, BaseType, BaseMemory, RootType, SharedInv, BinInv, ArenaInv, Published,
     memory, arena, roots
<1>11. ASSUME NEW u \in Thread PROVE ThreadInv(u)'
  <2>1. ThreadInv(u) /\ (u # t => pc'[u] = pc[u]) /\ scan'[u] = scan[u] /\ ins'[u] = ins[u] /\ xfer'[u] = xfer[u]
    BY <1>2, <1>3 DEF IInv, BaseLocal, Goto
  <2>2. CASE u # t
    <3>1. call'[u] = call[u] /\ res'[u] = res[u] /\ pc'[u] = pc[u]
      BY <1>5, <1>6, <2>1, <2>2
    <3>2. UNCHANGED <<linkMeta, indexNext>>
      BY <1>2 DEF memory, roots
    <3>3. Bin(u)' = Bin(u) /\ OldBin(u)' = OldBin(u)
      BY <2>1, <3>1 DEF Bin, hash, OldBin
    <3> QED BY <2>1, <3>1, <3>2, <3>3 DEF ThreadInv, ScanInv, InsInv, XferInv, NeedsSlot, Published
  <2>3. CASE u = t
    <3>1. /\ pc'[t] = "active" /\ scan[t] = FreshScan(scan[t].idx) /\ ins[t].cont = "idle"
          /\ scan[t].idx \in Gen
      BY <1>2, <1>3, <2>1, <2>3 DEF BaseLocal, Goto, ThreadInv
    <3> QED BY <1>5, <2>1, <2>3, <3>1, FreshThread DEF PlainPC
  <2> QED BY <2>2, <2>3
<1> QED BY <1>10, <1>11 DEF IInv

\* The prefill of index 0: how many keys a bin got, and the links they need.
LEMMA PrefillFacts ==
  ASSUME NEW bin \in BinId
  PROVE  /\ Cardinality(PrefillIn(bin)) \in Nat
         /\ PrefillMeta(bin) \in LinkMeta /\ LinkMetaOK(PrefillMeta(bin), NumLinks[bin[1]])
         /\ LinksUsed(bin) \in Nat
         /\ \A i \in SlotIdx : i < Cardinality(PrefillIn(bin)) => HasSlot(PrefillMeta(bin), i)
<1> DEFINE n == Cardinality(PrefillIn(bin))
           lm == PrefillMeta(bin)
<1>1. n \in Nat
  <2>1. Len(Prefill) \in Nat
    BY CallsAssumption
  <2>2. IsFiniteSet(1..Len(Prefill))
    BY <2>1, FS_Interval
  <2>3. IsFiniteSet(PrefillIn(bin))
    BY <2>2, FS_Subset DEF PrefillIn
  <2> QED BY <2>3, FS_CardinalityType
<1>2. n <= MaxSlots /\ LinksUsed(bin) <= NumLinks[bin[1]]
  BY PrefillAssumption
<1> HIDE DEF n
<1>3. /\ lm = [single |-> IF n > PRIMARY_SLOTS THEN 1 ELSE 0,
               pair |-> IF n > PRIMARY_SLOTS + LINK_SLOTS THEN 2 ELSE 0]
  BY DEF PrefillMeta, NO_LINK, n
<1>4. lm.single = (IF n > PRIMARY_SLOTS THEN 1 ELSE 0)
      /\ lm.pair = (IF n > PRIMARY_SLOTS + LINK_SLOTS THEN 2 ELSE 0)
  BY <1>3
<1>5. lm \in LinkMeta
  BY <1>3 DEF LinkMeta
<1>6. LinksUsed(bin) = IF lm.pair # 0 THEN 3 ELSE lm.single
  BY DEF LinksUsed, NO_LINK
<1> HIDE DEF lm
<1>7. NumLinks[bin[1]] \in Nat
  BY BinIdGen, SizeAssumption
<1>8. LinkMetaOK(lm, NumLinks[bin[1]])
  BY <1>1, <1>2, <1>4, <1>6, <1>7, SizeAssumption DEF LinkMetaOK, NO_LINK
<1>9. LinksUsed(bin) \in Nat
  BY <1>4, <1>6
<1>10. ASSUME NEW i \in SlotIdx, i < n PROVE HasSlot(lm, i)
  <2>1. i \in Nat
    BY SlotIdxNat
  <2>2. CASE i < PRIMARY_SLOTS
    BY <2>2 DEF HasSlot
  <2>3. CASE i >= PRIMARY_SLOTS /\ i < PRIMARY_SLOTS + LINK_SLOTS
    <3>1. 1 + (i - PRIMARY_SLOTS) \div LINK_SLOTS = 1
      BY <2>1, <2>3, SizeAssumption
    <3>2. lm.single = 1
      BY <1>1, <1>4, <1>10, <2>1, <2>3, SizeAssumption
    <3> QED BY <3>1, <3>2 DEF HasSlot, LinkOf, resolveLink, NO_LINK
  <2>4. CASE i >= PRIMARY_SLOTS + LINK_SLOTS
    <3>1. (i - PRIMARY_SLOTS) \div LINK_SLOTS >= 1
      BY <2>1, <2>4, SizeAssumption
    <3>2. lm.pair = 2
      BY <1>1, <1>4, <1>10, <2>1, <2>4, SizeAssumption
    <3>3. (i - PRIMARY_SLOTS) \div LINK_SLOTS \in Int
      BY <2>1, SizeAssumption
    <3>4. 1 + (i - PRIMARY_SLOTS) \div LINK_SLOTS # 1
      BY <3>1, <3>3
    <3> QED BY <3>2, <3>4 DEF HasSlot, LinkOf, resolveLink, NO_LINK
  <2> QED BY <2>1, <2>2, <2>3, <2>4, SizeAssumption
<1> QED BY <1>1, <1>5, <1>8, <1>9, <1>10 DEF n, lm

\* Everything the threads start with but the words of the slots, in which the two
\* variants differ
InitWords ==
  /\ header = [bin \in BinId |->
       [ver |-> (2 * Cardinality(PrefillIn(bin))) % VersionMod, bs |-> BinNoTransfer,
        ss |-> [i \in SlotIdx |-> IF i < Cardinality(PrefillIn(bin)) THEN SlotValid
                                                                     ELSE SlotInvalid]]]
  /\ linkMeta = [bin \in BinId |-> PrefillMeta(bin)]
  /\ active = 0
  /\ indexNext = [g \in Gen |-> NoGen]
  /\ \E bin \in BinId : /\ \A other \in BinId : LinksUsed(other) <= LinksUsed(bin)
                        /\ linkNext = [g \in Gen |-> IF g = 0 THEN LinksUsed(bin) ELSE 0]
  /\ linkCapacity = [g \in Gen |-> NumLinks[g]]
  /\ resizeCtx = NoCtx
  /\ ctx = [g \in Gen |-> FreshCtx(g)]
  /\ pc = [t \in Thread |-> "idle"]
  /\ call = [t \in Thread |-> NoCall]
  /\ res = [t \in Thread |-> [val |-> Absent, ok |-> FALSE]]
  /\ calls = [t \in Thread |-> 0]
  /\ map = [k \in Key |-> IF \E j \in 1..Len(Prefill) : Prefill[j] = k THEN InitVal ELSE Absent]
  /\ seen = [t \in Thread |-> {}]
  /\ scan = [t \in Thread |-> FreshScan(0)]
  /\ ins = [t \in Thread |-> FreshIns]
  /\ xfer = [t \in Thread |-> FreshXfer]

\* The states in which the threads start, after the prefill.
LEMMA InitBase ==
  ASSUME InitWords, slotKey \in [Loc -> Nat], slotVal \in [Loc -> Content]
  PROVE  IInv
<1>1. BaseMemory
  <2>1. header \in [BinId -> Header]
    <3>1. ASSUME NEW bin \in BinId
          PROVE  [ver |-> (2 * Cardinality(PrefillIn(bin))) % VersionMod, bs |-> BinNoTransfer,
                  ss |-> [i \in SlotIdx |-> IF i < Cardinality(PrefillIn(bin)) THEN SlotValid
                                                                     ELSE SlotInvalid]] \in Header
      <4>1. Cardinality(PrefillIn(bin)) \in Nat
        BY PrefillFacts
      <4>2. (2 * Cardinality(PrefillIn(bin))) % VersionMod \in 0..(VersionMod - 1)
        BY <4>1, SizeAssumption
      <4> QED BY <4>2 DEF Header, BinState, SlotState, BinNoTransfer, SlotValid, SlotInvalid
    <3> QED BY <3>1 DEF InitWords
  <2>2. linkMeta \in [BinId -> LinkMeta]
    BY PrefillFacts DEF InitWords
  <2> QED BY <2>1, <2>2 DEF BaseMemory
<1>2. \A g \in Gen : NumLinks[g] \in Nat
  BY SizeAssumption
<1>3. \A g \in 0..(MaxGen - 1) : g \in Gen /\ g + 1 \in Gen /\ NumLinks[g + 1] >= 1
  <2>1. \A g \in 0..(MaxGen - 1) : g \in Gen /\ g + 1 \in Gen
    BY SizeAssumption DEF Gen
  <2> QED BY <1>2, <2>1, GrowthAssumption
<1>4. \A g \in Gen : FreshCtx(g) \in CtxRec
  <2>1. ASSUME NEW g \in Gen
        PROVE  (IF g < MaxGen THEN NumLinks[g + 1] ELSE 0) \in Int
    <3>1. CASE g < MaxGen
      <4>1. g + 1 \in Gen
        BY <3>1, SizeAssumption DEF Gen
      <4> QED BY <1>2, <3>1, <4>1
    <3>2. CASE ~(g < MaxGen)
      BY <3>2
    <3> QED BY <3>1, <3>2
  <2> QED BY <2>1 DEF FreshCtx, CtxRec
<1>5. RootType
  <2>1. linkNext \in [Gen -> Nat]
    BY PrefillFacts DEF InitWords
  <2>2. 0 \in Gen
    BY SizeAssumption DEF Gen
  <2> QED BY <1>2, <1>4, <2>1, <2>2 DEF InitWords, RootType
<1>6. ApiType
  BY DEF InitWords, ApiType, Answer, Value
<1>7. BaseLocal
  <2>1. 0 \in Gen
    BY SizeAssumption DEF Gen
  <2> QED BY <2>1, FreshTypes DEF InitWords, BaseLocal, PC
<1>8. ASSUME NEW bin \in BinId PROVE BinInv(bin)
  <2>1. /\ header[bin].bs = BinNoTransfer /\ linkMeta[bin] = PrefillMeta(bin)
        /\ \A i \in SlotIdx : header[bin].ss[i] # SlotInvalid => i < Cardinality(PrefillIn(bin))
    BY DEF InitWords
  <2> QED BY <2>1, PrefillFacts DEF BinInv, Backed
<1>9. ArenaInv
  <2>1. resizeCtx \notin Gen
    BY DEF InitWords, Gen, NoCtx
  <2>2. \A g \in Gen : linkCapacity[g] <= NumLinks[g]
    BY <1>2 DEF InitWords
  <2>3. \A g \in 0..(MaxGen - 1) : ctx[g].linkNextResize \in 1..NumLinks[g + 1]
    <3>1. SUFFICES ASSUME NEW g \in 0..(MaxGen - 1)
                   PROVE  ctx[g].linkNextResize \in 1..NumLinks[g + 1]
      OBVIOUS
    <3>2. ctx[g].linkNextResize = NumLinks[g + 1]
      BY <1>3, SizeAssumption DEF InitWords, FreshCtx
    <3> QED BY <1>2, <1>3, <3>2
  <2> QED BY <2>1, <2>2, <2>3 DEF ArenaInv
<1>10. ASSUME NEW t \in Thread PROVE ThreadInv(t)
  <2>1. /\ pc[t] = "idle" /\ scan[t] = FreshScan(0) /\ ins[t] = FreshIns
        /\ res[t] = [val |-> Absent, ok |-> FALSE]
    BY DEF InitWords
  <2>2. res[t] # Pending
    <3>2. FALSE \in BOOLEAN /\ Absent \in Value \cup {Absent}
      OBVIOUS
    <3>3. res[t] \in [val : Value \cup {Absent}, ok : BOOLEAN]
      BY <2>1, <3>2
    <3> QED BY <3>3, MarkerAssumption, Zenon
  <2>3. scan[t].idx = 0 /\ 0 \in Gen /\ ins[t].cont = "idle"
    BY <2>1, SizeAssumption DEF FreshScan, FreshIns, Gen
  <2> QED BY <2>1, <2>2, <2>3 DEF ThreadInv
<1> QED BY <1>1, <1>5, <1>6, <1>7, <1>8, <1>9, <1>10 DEF IInv, BaseType, SharedInv

\* A step takes no new entry into its local copy.
KeepsEnt == \A u \in Thread : scan'[u].ent \in {scan[u].ent, Nil}

\* A lookup that starts anew has no entry, and one that stays has its own.
LEMMA EntForms ==
  ASSUME IInv, NEW t \in Thread
  PROVE  /\ \A g : FreshScan(g).ent = Nil
         /\ Kept(t).ent = Nil
         /\ \A s : scan' = [scan EXCEPT ![t] = s] /\ s.ent \in {scan[t].ent, Nil} => KeepsEnt
         /\ scan' = scan => KeepsEnt
         /\ scan[t] \in BaseScan
<1>1. /\ \A g : FreshScan(g).ent = Nil
      /\ Kept(t).ent = Nil
  BY DEF FreshScan, Kept
<1>2. \A u \in Thread : scan[u] \in BaseScan
  BY Locals
<1>3. \A s : scan' = [scan EXCEPT ![t] = s] /\ s.ent \in {scan[t].ent, Nil} => KeepsEnt
  BY DEF IInv, BaseType, BaseLocal, KeepsEnt
<1> QED BY <1>1, <1>2, <1>3 DEF KeepsEnt

\* The lookup goes on.
LEMMA ScanOnEnt ==
  ASSUME IInv, NEW t \in Thread, NEW rest, NEW lm, ScanOn(t, rest, lm)
  PROVE  KeepsEnt
<1>1. scan \in [Thread -> BaseScan]
  BY DEF IInv, BaseType, BaseLocal
<1>2. SUFFICES ASSUME NEW u \in Thread PROVE scan'[u].ent \in {scan[u].ent, Nil}
  BY DEF KeepsEnt
<1>3. \A n : scan' \in {[scan EXCEPT ![t].bm = rest, ![t].lm = lm],
                        [scan EXCEPT ![t].bm = {}],
                        [scan EXCEPT ![t].bm = {}, ![t].lm = lm, ![t].grp = n]} =>
               scan'[u].ent = scan[u].ent
  BY <1>1 DEF BaseScan
<1>4. scan' = [scan EXCEPT ![t].bm = {}, ![t].lm = NoLinks, ![t].grp = 0] => scan'[u].ent = scan[u].ent
  BY <1>1 DEF BaseScan
<1> QED BY <1>1, <1>3, <1>4 DEF ScanOn, BaseScan

\* The steps of a lookup that both variants share take no entry.
LEMMA LookupEnt ==
  ASSUME IInv, NEW t \in Thread,
         LoadActive(t) \/ LoadHeader(t) \/ Follow(t) \/ LoadLinks(t) \/ CheckStale(t)
  PROVE  KeepsEnt /\ slotVal' = slotVal
<1>1. slotVal' = slotVal
  BY DEF LoadActive, LoadHeader, Follow, LoadLinks, CheckStale, memory
<1>2. CASE LoadActive(t) \/ Follow(t)
  BY <1>1, <1>2, EntForms DEF LoadActive, Follow
<1>3. CASE LoadHeader(t)
  <2>1. scan' = scan \/ scan' = [scan EXCEPT ![t].h = header[Bin(t)]]
    BY <1>3 DEF LoadHeader
  <2> QED BY <1>1, <2>1 DEF IInv, BaseType, BaseLocal, BaseScan, KeepsEnt
<1>4. CASE LoadLinks(t)
  BY <1>1, <1>4, ScanOnEnt DEF LoadLinks
<1>5. CASE CheckStale(t)
  BY <1>1, <1>5, EntForms DEF CheckStale, KeepSlot, Retry
<1> QED BY <1>2, <1>3, <1>4, <1>5

\* The steps at a slot that both variants share take no entry.
LEMMA LoopEnt ==
  ASSUME IInv, NEW t \in Thread, LoopHeader(t) \/ LoopCheck(t) \/ LoopTTAS(t)
  PROVE  KeepsEnt /\ slotVal' = slotVal
<1>1. slotVal' = slotVal
  BY DEF LoopHeader, LoopCheck, LoopTTAS, memory
<1>2. CASE LoopHeader(t)
  <2>1. scan' = [scan EXCEPT ![t].h = header[Bin(t)]] \/ scan' = [scan EXCEPT ![t] = FreshScan(scan[t].idx)]
    BY <1>2 DEF LoopHeader, Retry
  <2>2. scan' = [scan EXCEPT ![t].h = header[Bin(t)]] => KeepsEnt
    BY DEF IInv, BaseType, BaseLocal, BaseScan, KeepsEnt
  <2> QED BY <1>1, <2>1, <2>2, EntForms
<1>3. CASE LoopCheck(t) \/ LoopTTAS(t)
  BY <1>1, <1>3, EntForms DEF LoopCheck, LoopTTAS, KeepSlot, Retry
<1> QED BY <1>2, <1>3

\* The steps of Insert that both variants share take no entry.
LEMMA InsertEnt ==
  ASSUME IInv, NEW t \in Thread,
         \/ ChooseHeader(t) \/ ChooseLinks(t) \/ allocateLink(t) \/ allocateLinkPair(t)
         \/ attachSingle(t) \/ attachPair(t) \/ reserveSlot(t) \/ LoadHeader2(t)
         \/ UnreserveLoad(t) \/ UnreserveCAS(t)
  PROVE  KeepsEnt /\ slotVal' = slotVal
<1>1. slotVal' = slotVal
  BY DEF ChooseHeader, ChooseLinks, allocateLink, allocateLinkPair, Allocate, attachSingle, attachPair,
     reserveSlot, LoadHeader2, UnreserveLoad, UnreserveCAS, memory
<1>2. CASE \/ ChooseHeader(t) \/ ChooseLinks(t) \/ allocateLink(t) \/ allocateLinkPair(t)
           \/ attachSingle(t) \/ attachPair(t)
  <2>1. scan' = scan \/ scan' = [scan EXCEPT ![t] = FreshScan(0)]
    BY <1>2 DEF ChooseHeader, ChooseLinks, allocateLink, allocateLinkPair, Allocate,
       attachSingle, attachPair, NoRoom
  <2> QED BY <1>1, <2>1, EntForms
<1>3. CASE reserveSlot(t) \/ LoadHeader2(t)
  <2>1. PICK h, i : \/ scan' = [scan EXCEPT ![t].h = h, ![t].slot = i]
                    \/ scan' = [scan EXCEPT ![t].h = h]
                    \/ scan' = scan
                    \/ scan' = [scan EXCEPT ![t] = FreshScan(scan[t].idx)]
    BY <1>3 DEF reserveSlot, LoadHeader2, Retry
  <2>2. scan' \in {[scan EXCEPT ![t].h = h, ![t].slot = i], [scan EXCEPT ![t].h = h]} => KeepsEnt
    BY DEF IInv, BaseType, BaseLocal, BaseScan, KeepsEnt
  <2> QED BY <1>1, <2>1, <2>2, EntForms
<1>4. CASE UnreserveLoad(t) \/ UnreserveCAS(t)
  <2>1. PICK g : scan' = scan \/ scan' = [scan EXCEPT ![t] = FreshScan(g)]
    BY <1>4 DEF UnreserveLoad, UnreserveCAS, Unreserved
  <2> QED BY <1>1, <2>1, EntForms
<1> QED BY <1>2, <1>3, <1>4

\* A step that takes no entry and changes no slot.
LEMMA SameEntries ==
  ASSUME EntryType, KeepsEnt, slotVal' = slotVal
  PROVE  EntryType'
BY DEF EntryType, KeepsEnt

\* The prefill stores the hashes of its keys and their entries.
LEMMA InitInv == Init => InitWords /\ IInv /\ EntryType
<1> SUFFICES ASSUME Init PROVE InitWords /\ IInv /\ EntryType
  OBVIOUS
<1>1. ASSUME NEW loc \in Loc, PrefillAt(loc) # {}
      PROVE  Prefill[CHOOSE j \in PrefillAt(loc) : TRUE] \in Key
  <2>1. (CHOOSE j \in PrefillAt(loc) : TRUE) \in 1..Len(Prefill)
    BY <1>1 DEF PrefillAt
  <2> QED BY <2>1, CallsAssumption
<1>2. slotVal \in [Loc -> Entry \cup {Nil}]
  BY <1>1 DEF Init, Entry, Value
<1>3. \A t \in Thread : scan[t].ent = Nil
  BY DEF Init, FreshScan
<1>4. slotKey \in [Loc -> Nat]
  BY <1>1, SizeAssumption DEF Init
<1>5. InitWords
  BY DEF Init, InitWords
<1>6. slotVal \in [Loc -> Content]
  BY <1>2 DEF Content
<1> QED BY <1>2, <1>3, <1>4, <1>5, <1>6, InitBase DEF EntryType

\* A lookup takes the entry of a slot.
LEMMA ScanEntry ==
  ASSUME IInv, EntryType, NEW t \in Thread, ScanStep(t) PROVE EntryType'
<1>1. CASE LoadActive(t) \/ LoadHeader(t) \/ Follow(t) \/ LoadLinks(t) \/ CheckStale(t)
  BY <1>1, LookupEnt, SameEntries
<1>2. CASE MatchKeys(t)
  BY <1>2, ScanOnEnt, SameEntries DEF MatchKeys, memory
<1>3. CASE Probe(t)
  <2> DEFINE i == Lowest(scan[t].bm)
             e == slotVal[SlotLoc(Bin(t), i)]
  <2>1. slotVal' = slotVal
    BY <1>3 DEF Probe, memory
  <2>2. CASE ScanOn(t, scan[t].bm \ {i}, scan[t].lm)
    BY <2>1, <2>2, ScanOnEnt, SameEntries
  <2>3. CASE scan' = [scan EXCEPT ![t] = Found(t, i, e)]
    <3>1. scan[t] \in BaseScan /\ ScanInv(t) /\ pc[t] = "probe"
      BY <1>3, Locals DEF Probe
    <3>2. i \in scan[t].bm /\ i \in SlotIdx /\ scan[t].h.ss[i] = SlotValid
      BY <3>1, LowestIn, SlotIdxNat DEF BaseScan, ScanInv
    <3>3. HasSlot(linkMeta[Bin(t)], i)
      BY <3>1, <3>2 DEF ScanInv, Backed, SlotValid, SlotInvalid
    <3>4. SlotLoc(Bin(t), i) \in Loc
      BY <3>1, <3>2, <3>3, BinType, LocType DEF SlotLoc
    <3>5. e \in Entry \cup {Nil}
      BY <3>4 DEF EntryType
    <3>6. Found(t, i, e).ent = e
      BY <3>1 DEF Found, BaseScan
    <3>7. \A u \in Thread : scan'[u].ent \in {scan[u].ent, e}
      <4> HIDE DEF e, i
      <4> QED BY <2>3, <3>6 DEF IInv, BaseType, BaseLocal
    <3> HIDE DEF e, i
    <3> QED BY <2>1, <3>5, <3>7 DEF EntryType
  <2> QED BY <1>3, <2>2, <2>3 DEF Probe
<1>4. CASE CheckAnswer(t) \/ CheckTarget(t)
  <2>1. slotVal' = slotVal
    BY <1>4 DEF CheckAnswer, CheckTarget, memory
  <2>2. KeepsEnt
    BY <1>4, EntForms DEF CheckAnswer, CheckTarget, KeepSlot
  <2> QED BY <2>1, <2>2, SameEntries
<1> QED BY <1>1, <1>2, <1>3, <1>4 DEF ScanStep

\* At its slot, an operation takes the entry of the slot and stores its own.
LEMMA SlotEntry ==
  ASSUME IInv, EntryType, NEW t \in Thread, SlotStep(t) PROVE EntryType'
<1>1. CASE LoopHeader(t) \/ LoopCheck(t) \/ LoopTTAS(t)
  BY <1>1, LoopEnt, SameEntries
<1>2. CASE DWCASHit(t)
  <2>1. call[t] \in CallRec
    BY <1>2, BinType DEF DWCASHit
  <2>2. NewEntry(t) \in Entry
    BY <2>1 DEF NewEntry, Entry, CallRec
  <2>3. slotVal' \in [Loc -> Entry \cup {Nil}]
    BY <1>2, <2>2 DEF DWCASHit, EntryType
  <2>4. KeepsEnt
    BY <1>2, EntForms DEF DWCASHit, KeepSlot
  <2> QED BY <2>3, <2>4 DEF EntryType, KeepsEnt
<1>3. CASE DWCASMiss(t) \/ LoopKey(t) \/ markSlotInvalid(t)
  <2>1. slotVal' = slotVal
    BY <1>3 DEF DWCASMiss, LoopKey, markSlotInvalid, memory
  <2>2. KeepsEnt
    BY <1>3, EntForms DEF DWCASMiss, LoopKey, markSlotInvalid, KeepSlot, Retry
  <2> QED BY <2>1, <2>2, SameEntries
<1>4. CASE LoopVal(t)
  <2> DEFINE e == slotVal[OpLoc(t)]
  <2>1. slotVal' = slotVal
    BY <1>4 DEF LoopVal, memory
  <2>2. NeedsSlot(t)
    BY <1>4 DEF LoopVal, NeedsSlot, SlotPC
  <2>3. e \in Entry \cup {Nil}
    BY <2>2, AtSlot DEF EntryType
  <2>4. CASE scan' = [scan EXCEPT ![t].ent = e]
    <3>1. [scan[t] EXCEPT !.ent = e].ent = e
      BY EntForms DEF BaseScan
    <3>2. \A u \in Thread : scan'[u].ent \in {scan[u].ent, e}
      <4> HIDE DEF e
      <4> QED BY <2>4, <3>1 DEF IInv, BaseType, BaseLocal
    <3> HIDE DEF e
    <3> QED BY <2>1, <2>3, <3>2 DEF EntryType
  <2>5. CASE Retry(t)
    BY <2>1, <2>5, EntForms, SameEntries DEF Retry
  <2> QED BY <1>4, <2>4, <2>5 DEF LoopVal
<1> QED BY <1>1, <1>2, <1>3, <1>4 DEF SlotStep

\* Insert stores its entry.
LEMMA InsertEntry ==
  ASSUME IInv, EntryType, NEW t \in Thread, InsertStep(t) PROVE EntryType'
<1>1. CASE \/ ChooseHeader(t) \/ ChooseLinks(t) \/ allocateLink(t) \/ allocateLinkPair(t)
           \/ attachSingle(t) \/ attachPair(t) \/ reserveSlot(t) \/ LoadHeader2(t)
           \/ UnreserveLoad(t) \/ UnreserveCAS(t)
  BY <1>1, InsertEnt, SameEntries
<1>2. CASE FillKey(t) \/ finalizeSlot(t)
  <2>1. slotVal' = slotVal
    BY <1>2 DEF FillKey, finalizeSlot, memory
  <2>2. KeepsEnt
    BY <1>2, EntForms DEF FillKey, finalizeSlot, KeepSlot
  <2> QED BY <2>1, <2>2, SameEntries
<1>3. CASE FillVal(t)
  <2>1. call[t] \in CallRec
    BY <1>3, BinType DEF FillVal
  <2>2. NewEntry(t) \in Entry
    BY <2>1 DEF NewEntry, Entry, CallRec
  <2> QED BY <1>3, <2>2 DEF FillVal, EntryType
<1>4. CASE UnreserveClear(t)
  BY <1>4 DEF UnreserveClear, EntryType
<1> QED BY <1>1, <1>2, <1>3, <1>4 DEF InsertStep

\* The transfer stores the entries that it finds.
LEMMA ResizeEntry ==
  ASSUME IInv, EntryType, NEW t \in Thread, ResizeStep(t) PROVE EntryType'
<1>1. scan' = scan
  BY DEF ResizeStep, TriggerResize, PublishNext, SetResizeContext, HelpResize, HelpActive, ClaimChunk,
     TransferBin, TransferLinks, StoreSentinel, MoveEntry, FinishBin, ChunkDone, FinishCapacity,
     FinishActive, FinishInactive, FinishCtx
<1>2. CASE MoveEntry(t)
  <2> DEFINE e == slotVal[SlotLoc(OldBin(t), Lowest(xfer[t].todo))]
  <2>1. pc[t] = "move"
    BY <1>2 DEF MoveEntry
  <2>2. e \in Entry \cup {Nil}
    BY <2>1, AtMove DEF EntryType
  <2>3. slotVal' \in [Loc -> Entry \cup {Nil}]
    <3> DEFINE new == getBin(xfer[t].gen + 1, xfer[t].key)
               free == findFreeSlotOrChain(xfer[t].gen, new)
               loc == LocVia(free.lm, new, free.slot)
    <3>1. slotVal' = slotVal \/ slotVal' = [slotVal EXCEPT ![loc] = e]
      BY <1>2 DEF MoveEntry, memory
    <3> HIDE DEF loc
    <3> HIDE DEF e
    <3> QED BY <2>2, <3>1 DEF EntryType
  <2> QED BY <1>1, <2>3 DEF EntryType
<1>3. CASE ~MoveEntry(t)
  <2>1. slotVal' = slotVal
    BY <1>3 DEF ResizeStep, TriggerResize, PublishNext, SetResizeContext, HelpResize, HelpActive,
       ClaimChunk, TransferBin, TransferLinks, StoreSentinel, FinishBin, ChunkDone, FinishCapacity,
       FinishActive, FinishInactive, FinishCtx, memory
  <2> QED BY <1>1, <2>1 DEF EntryType
<1> QED BY <1>2, <1>3

\* A step that changes nothing keeps the invariant.
LEMMA StutterInv ==
  ASSUME IInv, UNCHANGED vars PROVE IInv'
<1>1. UNCHANGED <<memory, arena, roots, api, pc, scan, ins, xfer>>
  BY DEF vars, memory, arena, roots, api
<1>2. BaseType' /\ SharedInv'
  BY <1>1 DEF IInv, BaseType, BaseMemory, RootType, ApiType, BaseLocal, SharedInv, BinInv, ArenaInv,
     Published, memory, arena, roots, api
<1>3. ASSUME NEW t \in Thread PROVE ThreadInv(t)'
  <2>1. ThreadInv(t) /\ Bin(t)' = Bin(t) /\ OldBin(t)' = OldBin(t)
    BY <1>1 DEF IInv, Bin, hash, OldBin, api
  <2> QED BY <1>1, <2>1 DEF ThreadInv, ScanInv, InsInv, XferInv, NeedsSlot, Published,
          memory, roots, api
<1> QED BY <1>2, <1>3 DEF IInv

\* Every step keeps the inductive invariant.
LEMMA NextInv == IInv /\ EntryType /\ [Next]_vars => IInv' /\ EntryType'
<1> SUFFICES ASSUME IInv, EntryType, [Next]_vars PROVE IInv' /\ EntryType'
  OBVIOUS
<1>1. ASSUME NEW t \in Thread, Invoke(t) PROVE IInv'
  BY <1>1, InvokeInv
<1>2. ASSUME NEW t \in Thread, ScanStep(t) PROVE IInv'
  BY <1>2, LoadActiveInv, LoadHeaderInv, FollowInv, MatchKeysInv, ProbeInv, LoadLinksInv,
     CheckStaleInv, CheckAnswerInv, CheckTargetInv DEF ScanStep
<1>3. ASSUME NEW t \in Thread, SlotStep(t) PROVE IInv'
  BY <1>3, DWCASHitInv, DWCASMissInv, LoopHeaderInv, LoopKeyInv, LoopValInv, LoopCheckInv,
     LoopTTASInv, markSlotInvalidInv DEF SlotStep
<1>4. ASSUME NEW t \in Thread, InsertStep(t) PROVE IInv'
  BY <1>4, ChooseHeaderInv, ChooseLinksInv, allocateInv, attachSingleInv, attachPairInv,
     reserveSlotInv, FillKeyInv, FillValInv, finalizeSlotInv, LoadHeader2Inv,
     UnreserveLoadInv, UnreserveClearInv, UnreserveCASInv DEF InsertStep
<1>5. ASSUME NEW t \in Thread, ResizeStep(t) PROVE IInv'
  BY <1>5, TriggerResizeInv, PublishNextInv, SetResizeContextInv, HelpResizeInv, HelpActiveInv,
     ClaimChunkInv, TransferBinInv, TransferLinksInv, StoreSentinelInv, MoveEntryInv,
     FinishBinInv, ChunkDoneInv, FinishCapacityInv, FinishActiveInv, FinishInactiveInv,
     FinishCtxInv DEF ResizeStep
<1>6. ASSUME UNCHANGED vars PROVE IInv'
  BY <1>6, StutterInv
<1>7. IInv'
  BY <1>1, <1>2, <1>3, <1>4, <1>5, <1>6 DEF Next, Step, Finished
<1>8. EntryType'
  <2>1. ASSUME NEW t \in Thread, Invoke(t) PROVE EntryType'
    BY <2>1 DEF Invoke, EntryType, memory
  <2>2. ASSUME UNCHANGED vars PROVE EntryType'
    BY <2>2 DEF vars, EntryType
  <2> QED BY <2>1, <2>2, ScanEntry, SlotEntry, InsertEntry, ResizeEntry DEF Next, Step, Finished
<1> QED BY <1>7, <1>8

\* IInv is an invariant of the map.
THEOREM Inductive == Spec => [](IInv /\ EntryType)
BY InitInv, NextInv, PTL DEF Spec

\* Type correctness, for every instance: no step leaves the bins, the link
\* buckets, the slots or the index generations that exist.
THEOREM TypeCorrect == Spec => []TypeOK
<1>1. IInv /\ EntryType => TypeOK
  <2> SUFFICES ASSUME IInv, EntryType PROVE TypeOK
    OBVIOUS
  <2>1. MemoryType /\ RootType /\ ApiType
    BY DEF IInv, BaseType, BaseMemory, MemoryType, EntryType
  <2>2. \A t \in Thread : scan[t] \in ScanRec
    <3>1. SUFFICES ASSUME NEW t \in Thread PROVE scan[t] \in ScanRec
      OBVIOUS
    <3>2. scan[t] \in BaseScan /\ scan[t].ent \in Entry \cup {Nil}
      BY Locals DEF EntryType
    <3> QED BY <3>2 DEF BaseScan, ScanRec
  <2>3. LocalType
    BY <2>2 DEF IInv, BaseType, BaseLocal, LocalType
  <2> QED BY <2>1, <2>3 DEF TypeOK
<1> QED BY <1>1, Inductive, PTL

\* The bins and the threads know of no unpublished successor.
LEMMA PublishedInv == IInv => SuccessorPublished
<1> SUFFICES ASSUME IInv PROVE SuccessorPublished
  OBVIOUS
<1>1. \A bin \in BinId : header[bin].bs # BinNoTransfer => indexNext[bin[1]] = bin[1] + 1
  BY DEF IInv, SharedInv, BinInv, Published
<1>2. \A t \in Thread : scan[t].idx # NoGen
  BY SizeAssumption DEF IInv, ThreadInv, Gen, NoGen
<1> QED BY <1>1, <1>2 DEF SuccessorPublished

\* A bin in transfer or done always has a published successor, and no
\* operation ever works on a nil index: triggerResize publishes indexNext
\* before any bin is marked, and indexNext is never cleared.
THEOREM SuccessorAlwaysPublished == Spec => []SuccessorPublished
BY PublishedInv, Inductive, PTL

\* The bins have a bucket for every slot in use.
LEMMA BackedInv == IInv => SlotsBacked
<1> SUFFICES ASSUME IInv, NEW bin \in BinId, NEW i \in SlotIdx, header[bin].ss[i] # SlotInvalid
             PROVE  HasSlot(linkMeta[bin], i) /\ SlotLoc(bin, i) \in Loc
  BY DEF SlotsBacked
<1>1. /\ HasSlot(linkMeta[bin], i) /\ LinkMetaOK(linkMeta[bin], NumLinks[bin[1]])
      /\ linkMeta[bin] \in LinkMeta
  BY DEF IInv, SharedInv, BinInv, Backed, BaseType, BaseMemory
<1> QED BY <1>1, LocType DEF SlotLoc

\* A slot that is Trying or Valid always has a bucket at an address of its
\* index, so getSlotByIndex without a nil check is safe.
THEOREM SlotsAlwaysBacked == Spec => []SlotsBacked
BY BackedInv, Inductive, PTL
=============================================================================
