----------------------------- MODULE LinkProofs -----------------------------
(***************************************************************************)
(* Theorems about the link arenas of AllocatorMap: no link bucket is given *)
(* to two bins, whichever end of the arena it came from, and the transfer  *)
(* never runs out of slots or of links.  The invariant LInv is inductive   *)
(* relative to IInv and RInv.                                              *)
(***************************************************************************)
EXTENDS ResizeProofs

-----------------------------------------------------------------------------
(* The inductive invariant of the arenas.                                  *)

LinkNo == 1..3
\* The bin of the index before whose entries go to nb, and the bins of the next
\* index to which those of bin go
OldOf(nb) == <<nb[1] - 1, nb[2] % NumBins[nb[1] - 1]>>
NewBins(bin) == {nb \in BinId : nb[1] = bin[1] + 1 /\ OldOf(nb) = bin}

\* A hash that belongs to the bin
InBin(bin, n) == n % NumBins[bin[1]] = bin[2]
KeyInBin(bin, i) == InBin(bin, slotKey[SlotLoc(bin, i)])

HeadPC == {"match", "probe", "links", "check", "choose", "chooseLinks", "allocLink", "allocPair",
           "attachSingle", "attachPair", "reserve", "fillKey", "fillVal", "finalize"}
FilledPC == {"fillVal", "finalize", "load2"}
\* The header that an operation works from was not marked, and a key that was
\* written belongs to its bin for as long as the bin is not marked
OwnerInv(t) ==
  /\ pc[t] \in HeadPC => scan[t].h.bs = BinNoTransfer
  /\ (pc[t] \in FilledPC \/ (pc[t] \in ScanPC /\ Reserved(t))) /\ header[Bin(t)].bs = BinNoTransfer =>
       KeyInBin(Bin(t), scan[t].slot)
KeysInv(bin) ==
  header[bin].bs = BinNoTransfer =>
     \A i \in SlotIdx : header[bin].ss[i] = SlotValid => KeyInBin(bin, i)

\* The mover is at the primary slots of its bin, or at those of the links
AtPrimary(t) == pc[t] = "xlinks" \/ \E i \in xfer[t].todo : i < PRIMARY_SLOTS
MovePC == TransferPC \ {"or"}
MoverInv(t) ==
  /\ xfer[t].todo \subseteq Valids(xfer[t].h)
  /\ pc[t] \in {"xlinks", "xdone"} => xfer[t].todo = {}
  /\ AtPrimary(t) => xfer[t].todo \subseteq Bucket(0)
  /\ \A i \in xfer[t].todo :
       (pc[t] = "move" /\ i = Lowest(xfer[t].todo)) \/ KeyInBin(OldBin(t), i)
  /\ pc[t] = "move" => InBin(OldBin(t), xfer[t].key)
  /\ AtPrimary(t) => \A i \in Valids(xfer[t].h) : i \in Bucket(0) \/ KeyInBin(OldBin(t), i)

\* The slots of the new bins that the mover has filled, and those it may fill
Filled(bin) == {p \in NewBins(bin) \X SlotIdx : header[p[1]].ss[p[2]] = SlotValid}
Capacity(lm) == PRIMARY_SLOTS + LINK_SLOTS * Cardinality(attached(lm))
CountInv(t) ==
  Cardinality(Filled(OldBin(t))) + Cardinality(xfer[t].todo)
    <= IF AtPrimary(t) THEN PRIMARY_SLOTS ELSE Capacity(linkMeta[OldBin(t)])

\* A new bin before and during the transfer of its old one: it gets a bucket only
\* when those before are full
EmptyBin(nb) == linkMeta[nb] = NoLinks /\ \A i \in SlotIdx : header[nb].ss[i] = SlotInvalid
PackedBin(nb) ==
  LET lm == linkMeta[nb]
      ss == header[nb].ss
  IN  /\ \A i \in SlotIdx : ss[i] # SlotTrying
      /\ lm.single # NO_LINK => \A i \in 0..PRIMARY_SLOTS : ss[i] = SlotValid
      /\ lm.pair # NO_LINK => \A i \in 0..firstPairSlot : ss[i] = SlotValid
      /\ \A a \in LinksOf(nb) : a >= ctx[nb[1] - 1].linkNextResize
NewBinInv(nb) ==
  nb[1] > 0 => /\ header[OldOf(nb)].bs = BinNoTransfer => EmptyBin(nb)
               /\ header[OldOf(nb)].bs = BinInTransfer => PackedBin(nb)

\* The links that the transfer of a bin has taken, at most four for three
TopOf(bin) == {a \in UNION {LinksOf(nb) : nb \in NewBins(bin)} : a >= ctx[bin[1]].linkNextResize}
TopMost(lm) == IF lm.single = NO_LINK THEN 0 ELSE IF lm.pair = NO_LINK THEN 1 ELSE 4
TopInv(bin) ==
  bin[1] < MaxGen /\ header[bin].bs = BinDoneTransfer =>
     Cardinality(TopOf(bin)) <= TopMost(linkMeta[bin])

\* The two ends of the arena that the resize of g fills
SetAside(g) == linkCapacity[g + 1] = NumLinks[g + 1] - resLinkBudget(g)
EndsInv(g) ==
  /\ ~Started(g) => linkNext[g + 1] = 0 /\ ctx[g].linkNextResize = NumLinks[g + 1]
  /\ Started(g) => linkCapacity[g + 1] < ctx[g].linkNextResize
  /\ Started(g) /\ ctx[g].chunksDone < NumChunks(g) => SetAside(g)
  /\ g < active => linkCapacity[g + 1] = ctx[g].linkNextResize - 1
  /\ \A a \in ctx[g].linkNextResize..(NumLinks[g + 1] - 1) :
       \E nb \in BinId : nb[1] = g + 1 /\ a \in LinksOf(nb)
FinInv(t) ==
  /\ pc[t] = "setCtx" => SetAside(xfer[t].gen)
  /\ pc[t] = "finActive" => linkCapacity[xfer[t].gen + 1] = ctx[xfer[t].gen].linkNextResize - 1

\* A link of generation g from the bottom, or from the top
Low(g, a) == a <= linkNext[g] /\ a <= linkCapacity[g]
High(g, a) == g > 0 /\ ctx[g - 1].linkNextResize <= a /\ a < NumLinks[g]
\* The links allocated and not attached
Held(t) == IF pc[t] = "attachSingle" THEN {ins[t].link}
           ELSE IF pc[t] = "attachPair" THEN {ins[t].link, ins[t].link + 1} ELSE {}
HeldInv(t) == \A a \in Held(t) : /\ Low(scan[t].idx, a)
                                 /\ \A bin \in BinId : bin[1] = scan[t].idx => a \notin LinksOf(bin)
OneOwner(bin, other) ==
  \A n, m \in LinkNo : resolveLink(linkMeta[bin], n) = resolveLink(linkMeta[other], m)
                       /\ resolveLink(linkMeta[bin], n) # NO_LINK => bin = other /\ n = m
LinksInv ==
  /\ \A bin \in BinId : \A a \in LinksOf(bin) : Low(bin[1], a) \/ High(bin[1], a)
  /\ \A bin, other \in BinId : bin[1] = other[1] => OneOwner(bin, other)
  /\ \A t \in Thread : HeldInv(t)
  /\ \A t, u \in Thread : t # u /\ scan[t].idx = scan[u].idx => Held(t) \cap Held(u) = {}

LInv == /\ \A t \in Thread : OwnerInv(t) /\ FinInv(t)
        /\ \A t \in Thread : pc[t] \in MovePC => MoverInv(t) /\ CountInv(t)
        /\ \A bin \in BinId : KeysInv(bin) /\ NewBinInv(bin) /\ TopInv(bin)
        /\ \A g \in 0..(MaxGen - 1) : EndsInv(g)
        /\ LinksInv

-----------------------------------------------------------------------------
(* Bins of successive indexes.                                             *)

\* A remainder by a multiple keeps the remainder by the number.
LEMMA ModDown ==
  ASSUME NEW h \in Nat, NEW k \in Nat \ {0}, NEW m \in Nat \ {0}, m % k = 0
  PROVE  (h % m) % k = h % k
<1>1. /\ m = k * (m \div k) /\ m \div k \in Nat
      /\ h = m * (h \div m) + (h % m) /\ h \div m \in Nat /\ h % m \in Nat
      /\ h = k * (h \div k) + (h % k) /\ h \div k \in Nat /\ h % k \in Nat
  OBVIOUS
<1>2. PICK q, a, r, d, u \in Nat : /\ m = k * q /\ r = h % m /\ h = m * a + r
                                  /\ d = h \div k /\ u = h % k /\ h = k * d + u
  BY <1>1
<1>3. PICK c, s \in Nat : c = r \div k /\ s = r % k /\ r = k * c + s /\ s < k
  <2>1. r \in Nat
    BY <1>2
  <2> QED BY <2>1, DivMod, Zenon
<1> DEFINE e == q * a + c
<1>5. e \in Nat /\ k * e = m * a + k * c
  <2>1. q * a \in Nat /\ k * (q * a) = (k * q) * a
    BY <1>2
  <2> DEFINE p == q * a
  <2>2. p \in Nat /\ k * (p + c) = k * p + k * c
    BY <1>3, <2>1
  <2>3. k * p = m * a
    BY <1>2, <2>1
  <2> HIDE DEF p
  <2> QED BY <1>3, <2>2, <2>3 DEF p
<1> HIDE DEF e
<1>6. h = k * e + s
  <2> DEFINE x == m * a
             y == k * c
             z == k * e
  <2>1. x \in Nat /\ y \in Nat /\ z \in Nat
    BY <1>2, <1>3, <1>5
  <2>2. h = x + r /\ r = y + s /\ z = x + y
    BY <1>2, <1>3, <1>5
  <2> HIDE DEF x, y, z
  <2>3. h = z + s
    BY <1>3, <2>1, <2>2
  <2> QED BY <2>3 DEF z
<1>7. k * e <= h /\ h < k * e + k
  <2>1. k * e \in Nat
    BY <1>5
  <2> QED BY <1>3, <1>6, <2>1
<1>8. d = e
  BY <1>2, <1>5, <1>7, DivUnique
<1>9. u = s
  <2>1. k * e \in Nat
    BY <1>5
  <2> QED BY <1>2, <1>3, <1>6, <1>8, <2>1
<1> QED BY <1>2, <1>3, <1>9

\* The bin of a hash in an index goes to the bin of the hash in the next.
LEMMA OldBins ==
  ASSUME NEW g \in Gen, g > 0, NEW n \in Nat
  PROVE  /\ g - 1 \in 0..(MaxGen - 1) /\ g - 1 \in Gen
         /\ OldOf(getBin(g, n)) = getBin(g - 1, n)
<1>1. g - 1 \in 0..(MaxGen - 1) /\ g - 1 \in Gen /\ g \in Nat
  BY SizeAssumption DEF Gen
<1>2. NumBins[g] \in Nat \ {0} /\ NumBins[g - 1] \in Nat \ {0}
  BY <1>1, SizeAssumption
<1>3. NumBins[g] % NumBins[g - 1] = 0
  <2>1. NumBins[(g - 1) + 1] % NumBins[g - 1] = 0
    BY <1>1, GrowthAssumption
  <2>2. (g - 1) + 1 = g
    BY <1>1
  <2> QED BY <2>1, <2>2
<1>4. (n % NumBins[g]) % NumBins[g - 1] = n % NumBins[g - 1]
  BY <1>2, <1>3, ModDown
<1> QED BY <1>1, <1>4 DEF OldOf, getBin

\* The old bin of a bin exists, and the bin is one of its new bins.
LEMMA OldOfType ==
  ASSUME NEW nb \in BinId, nb[1] > 0
  PROVE  /\ OldOf(nb) \in BinId /\ OldOf(nb)[1] = nb[1] - 1 /\ nb \in NewBins(OldOf(nb))
         /\ nb[1] - 1 \in 0..(MaxGen - 1) /\ nb[1] - 1 \in Gen /\ nb[1] \in Nat
<1>1. nb[1] \in Gen /\ nb[2] \in Nat
  BY BinIdGen, SizeAssumption
<1>2. nb[1] - 1 \in 0..(MaxGen - 1) /\ nb[1] - 1 \in Gen /\ nb[1] \in Nat
  <2>1. MaxGen \in Nat
    BY SizeAssumption
  <2>2. nb[1] \in 0..MaxGen
    BY <1>1 DEF Gen
  <2>3. nb[1] \in Nat /\ nb[1] <= MaxGen
    BY <2>1, <2>2
  <2>4. nb[1] - 1 \in 0..(MaxGen - 1) /\ nb[1] - 1 \in 0..MaxGen
    BY <2>1, <2>3
  <2> QED BY <2>3, <2>4 DEF Gen
<1>3. getBin(nb[1] - 1, nb[2]) \in BinId
  BY <1>1, <1>2, GetBinType
<1>4. OldOf(nb) = getBin(nb[1] - 1, nb[2]) /\ OldOf(nb)[1] = nb[1] - 1
  BY DEF OldOf, getBin
<1>5. nb[1] = OldOf(nb)[1] + 1
  BY <1>2, <1>4
<1> QED BY <1>2, <1>3, <1>4, <1>5 DEF NewBins

\* A hash of an old bin goes to one of its new bins.
LEMMA KeyGoes ==
  ASSUME NEW bin \in BinId, bin[1] \in 0..(MaxGen - 1), NEW n \in Nat, InBin(bin, n)
  PROVE  /\ getBin(bin[1] + 1, n) \in NewBins(bin) /\ bin[1] + 1 \in Gen
         /\ InBin(getBin(bin[1] + 1, n), n)
<1>1. bin[1] + 1 \in Gen /\ bin[1] + 1 > 0 /\ bin[1] + 1 - 1 = bin[1] /\ bin[1] \in Gen
  <2>1. PICK g : g = bin[1]
    OBVIOUS
  <2>2. g \in 0..(MaxGen - 1)
    BY <2>1
  <2>3. g + 1 \in 0..MaxGen /\ g + 1 > 0 /\ g + 1 - 1 = g /\ g \in 0..MaxGen
    BY <2>2, SizeAssumption
  <2> QED BY <2>1, <2>3 DEF Gen
<1>2. OldOf(getBin(bin[1] + 1, n)) = getBin(bin[1], n)
  BY <1>1, OldBins
<1>3. getBin(bin[1], n) = bin
  BY BinIdGen DEF getBin, InBin
<1>4. getBin(bin[1] + 1, n) \in BinId /\ getBin(bin[1] + 1, n)[1] = bin[1] + 1
  BY <1>1, GetBinType
<1> QED BY <1>1, <1>2, <1>3, <1>4 DEF NewBins, InBin, getBin

\* The number of the link bucket of a slot.
LEMMA LinkIndex ==
  ASSUME NEW i \in SlotIdx, ~(i < PRIMARY_SLOTS)
  PROVE  /\ 1 + (i - PRIMARY_SLOTS) \div LINK_SLOTS \in LinkNo
         /\ i \in Bucket(1 + (i - PRIMARY_SLOTS) \div LINK_SLOTS)
         /\ i = PRIMARY_SLOTS + LINK_SLOTS * ((i - PRIMARY_SLOTS) \div LINK_SLOTS)
                              + ((i - PRIMARY_SLOTS) % LINK_SLOTS)
<1> DEFINE P == PRIMARY_SLOTS
           L == LINK_SLOTS
<1>1. P \in Nat /\ L \in Nat \ {0} /\ i \in Nat /\ i < P + 3 * L /\ i - P \in Nat
  BY SizeAssumption DEF SlotIdx, MaxSlots
<1> HIDE DEF P, L
<1>2. PICK q, r \in Nat : q = (i - P) \div L /\ r = (i - P) % L /\ i - P = L * q + r /\ L * q <= i - P
                          /\ r < L /\ i - P < L * q + L
  BY <1>1, DivMod
<1>3. q \in 0..2
  <2> SUFFICES ASSUME q >= 3 PROVE FALSE
    BY <1>2
  <2>1. L * q >= L * 3
    BY <1>1, <1>2
  <2>2. L * 3 = 3 * L /\ L * q \in Nat
    BY <1>1, <1>2
  <2> QED BY <1>1, <1>2, <2>1, <2>2
<1>4. i \in Bucket(1 + q)
  <2>1. CASE q = 0 BY <1>1, <1>2, <2>1 DEF Bucket, P, L
  <2>2. CASE q = 1 BY <1>1, <1>2, <2>2 DEF Bucket, P, L
  <2>3. CASE q = 2 BY <1>1, <1>2, <2>3 DEF Bucket, P, L
  <2> QED BY <1>3, <2>1, <2>2, <2>3
<1>5. i = P + L * q + r
  <2>1. L * q \in Nat
    BY <1>1, <1>2
  <2> QED BY <1>1, <1>2, <2>1
<1> QED BY <1>2, <1>3, <1>4, <1>5 DEF P, L, LinkNo

\* Two slots at one address are the same slot, if no link belongs to two bins.
LEMMA LocApart ==
  ASSUME NEW bin \in BinId, NEW other \in BinId, NEW lm \in LinkMeta, NEW lm2 \in LinkMeta,
         NEW i \in SlotIdx, NEW j \in SlotIdx, HasSlot(lm, i), HasSlot(lm2, j),
         bin[1] = other[1] =>
           \A n, m \in LinkNo : resolveLink(lm, n) = resolveLink(lm2, m) /\ resolveLink(lm, n) # NO_LINK
                                => bin = other /\ n = m,
         LocVia(lm, bin, i) = LocVia(lm2, other, j)
  PROVE  bin = other /\ i = j
<1> DEFINE q(k) == (k - PRIMARY_SLOTS) \div LINK_SLOTS
           r(k) == (k - PRIMARY_SLOTS) % LINK_SLOTS
<1>1. /\ bin = <<bin[1], bin[2]>> /\ other = <<other[1], other[2]>>
      /\ NumBins[bin[1]] \in Nat /\ NumBins[other[1]] \in Nat
      /\ bin[2] \in Nat /\ bin[2] < NumBins[bin[1]]
      /\ other[2] \in Nat /\ other[2] < NumBins[other[1]]
  BY BinIdGen, SizeAssumption
<1>2. PRIMARY_SLOTS \in Nat /\ LINK_SLOTS \in Nat /\ i \in Nat /\ j \in Nat
  BY SizeAssumption, SlotIdxNat
<1>3. ASSUME NEW l \in LinkMeta, NEW k \in SlotIdx, ~(k < PRIMARY_SLOTS), HasSlot(l, k)
      PROVE  /\ LinkOf(l, k) \in Nat /\ LinkOf(l, k) # NO_LINK
             /\ 1 + q(k) \in LinkNo /\ LinkOf(l, k) = resolveLink(l, 1 + q(k))
             /\ k = PRIMARY_SLOTS + LINK_SLOTS * q(k) + r(k)
  <2>1. 1 + q(k) \in LinkNo /\ k = PRIMARY_SLOTS + LINK_SLOTS * q(k) + r(k)
    BY <1>3, LinkIndex
  <2>2. LinkOf(l, k) = resolveLink(l, 1 + q(k))
    BY DEF LinkOf
  <2>3. \A n \in LinkNo : resolveLink(l, n) \in Nat
    BY DEF resolveLink, LinkMeta, LinkNo, NO_LINK
  <2> QED BY <1>3, <2>1, <2>2, <2>3 DEF HasSlot
<1>4. bin[1] = other[1]
  BY <1>1 DEF LocVia
<1>5. CASE i < PRIMARY_SLOTS /\ j < PRIMARY_SLOTS
  <2>1. bin[2] = other[2] /\ i = j
    BY <1>5 DEF LocVia
  <2> QED BY <1>1, <1>4, <2>1
<1>6. CASE i < PRIMARY_SLOTS /\ ~(j < PRIMARY_SLOTS)
  <2>1. LinkOf(lm2, j) \in Nat /\ LinkOf(lm2, j) # NO_LINK
    BY <1>3, <1>6
  <2>2. bin[2] = NumBins[other[1]] + LinkOf(lm2, j) - 1
    BY <1>6 DEF LocVia
  <2> QED BY <1>1, <1>4, <2>1, <2>2 DEF NO_LINK
<1>7. CASE ~(i < PRIMARY_SLOTS) /\ j < PRIMARY_SLOTS
  <2>1. LinkOf(lm, i) \in Nat /\ LinkOf(lm, i) # NO_LINK
    BY <1>3, <1>7
  <2>2. NumBins[bin[1]] + LinkOf(lm, i) - 1 = other[2]
    BY <1>7 DEF LocVia
  <2> QED BY <1>1, <1>4, <2>1, <2>2 DEF NO_LINK
<1>8. CASE ~(i < PRIMARY_SLOTS) /\ ~(j < PRIMARY_SLOTS)
  <2>1. /\ LinkOf(lm, i) \in Nat /\ LinkOf(lm, i) # NO_LINK
        /\ 1 + q(i) \in LinkNo /\ LinkOf(lm, i) = resolveLink(lm, 1 + q(i))
        /\ i = PRIMARY_SLOTS + LINK_SLOTS * q(i) + r(i)
    BY <1>3, <1>8
  <2>2. /\ LinkOf(lm2, j) \in Nat /\ LinkOf(lm2, j) # NO_LINK
        /\ 1 + q(j) \in LinkNo /\ LinkOf(lm2, j) = resolveLink(lm2, 1 + q(j))
        /\ j = PRIMARY_SLOTS + LINK_SLOTS * q(j) + r(j)
    BY <1>3, <1>8
  <2>3. /\ NumBins[bin[1]] + LinkOf(lm, i) - 1 = NumBins[other[1]] + LinkOf(lm2, j) - 1
        /\ r(i) = r(j)
    BY <1>8 DEF LocVia
  <2> HIDE DEF q, r
  <2>4. LinkOf(lm, i) = LinkOf(lm2, j)
    BY <1>1, <1>4, <2>1, <2>2, <2>3
  <2>5. bin = other /\ 1 + q(i) = 1 + q(j)
    BY <1>4, <2>1, <2>2, <2>4
  <2>6. q(i) \in Int /\ q(j) \in Int
    BY <1>2, SizeAssumption DEF q
  <2>7. q(i) = q(j)
    BY <2>5, <2>6
  <2> QED BY <2>1, <2>2, <2>3, <2>5, <2>7
<1> QED BY <1>5, <1>6, <1>7, <1>8

-----------------------------------------------------------------------------
(* Frames: what a step leaves alone.                                       *)

\* Keys that belong to their bin still do
KeysKept(bin) == \A i \in SlotIdx : HasSlot(linkMeta[bin], i) /\ KeyInBin(bin, i) => KeyInBin(bin, i)'
Untouched(bin) == header'[bin].ss = header[bin].ss /\ linkMeta'[bin] = linkMeta[bin]
LinksKept == \A bin \in BinId : Keeps(linkMeta[bin], linkMeta'[bin])

\* Every word of a bin has its type.
LEMMA BinWords ==
  ASSUME IInv, NEW bin \in BinId
  PROVE  /\ header[bin] \in Header /\ header[bin].bs \in BinState
         /\ \A i \in SlotIdx : header[bin].ss[i] \in SlotState
         /\ linkMeta[bin] \in LinkMeta /\ LinkMetaOK(linkMeta[bin], NumLinks[bin[1]])
         /\ Backed(linkMeta[bin], header[bin])
         /\ bin[1] \in Gen /\ NumLinks[bin[1]] \in Nat
BY BinIdGen, SizeAssumption DEF IInv, BaseType, BaseMemory, SharedInv, BinInv, Header

\* A slot with a bucket keeps its address.
LEMMA SameLoc ==
  ASSUME NEW lm \in LinkMeta, NEW lm2 \in LinkMeta, Keeps(lm, lm2), NEW bin, NEW i \in SlotIdx,
         HasSlot(lm, i)
  PROVE  HasSlot(lm2, i) /\ LocVia(lm2, bin, i) = LocVia(lm, bin, i)
<1>1. CASE i < PRIMARY_SLOTS
  BY <1>1 DEF HasSlot, LocVia
<1>2. CASE ~(i < PRIMARY_SLOTS)
  <2> DEFINE n == 1 + (i - PRIMARY_SLOTS) \div LINK_SLOTS
  <2>1. n \in LinkNo
    BY <1>2, LinkIndex
  <2>2. resolveLink(lm, n) # NO_LINK
    BY <1>2 DEF HasSlot, LinkOf
  <2>3. resolveLink(lm2, n) = resolveLink(lm, n)
    BY <2>1, <2>2 DEF resolveLink, Keeps, LinkNo
  <2>4. LinkOf(lm2, i) = LinkOf(lm, i)
    BY <2>3 DEF LinkOf
  <2> QED BY <1>2, <2>2, <2>3, <2>4 DEF HasSlot, LocVia
<1> QED BY <1>1, <1>2

\* A step that writes no key keeps the keys.
LEMMA KeepKeys ==
  ASSUME IInv, IInv', UNCHANGED slotKey, NEW bin \in BinId, Keeps(linkMeta[bin], linkMeta'[bin])
  PROVE  KeysKept(bin)
<1>1. linkMeta[bin] \in LinkMeta /\ linkMeta'[bin] \in LinkMeta
  BY DEF IInv, BaseType, BaseMemory
<1>2. ASSUME NEW i \in SlotIdx, HasSlot(linkMeta[bin], i) PROVE SlotLoc(bin, i)' = SlotLoc(bin, i)
  BY <1>1, <1>2, SameLoc DEF SlotLoc
<1> QED BY <1>2 DEF KeysKept, KeyInBin, InBin

\* The slot of an Insert that has written its key has a bucket.
LEMMA FilledSlot ==
  ASSUME IInv, NEW t \in Thread, pc[t] \in FilledPC \/ (pc[t] \in ScanPC /\ Reserved(t))
  PROVE  /\ scan[t].slot \in SlotIdx /\ HasSlot(linkMeta[Bin(t)], scan[t].slot)
         /\ Bin(t) \in BinId /\ pc[t] # "idle"
<1>1. pc[t] # "idle"
  BY DEF FilledPC, ScanPC
<1>2. scan[t] \in BaseScan /\ ScanInv(t)
  BY <1>1, Locals
<1>3. scan[t].slot # NoSlot
  BY <1>2 DEF ScanInv, NeedsSlot, FilledPC, OwnPC, Reserved
<1> QED BY <1>1, <1>2, <1>3, BinType DEF ScanInv, BaseScan

\* The others' headers and keys.
LEMMA SameOwners ==
  ASSUME IInv, LInv, NEW t \in Thread, OthersSame(t), \A u \in Thread \ {t} : call'[u] = call[u],
         \A bin \in BinId : KeysKept(bin) \/ header'[bin].bs # BinNoTransfer,
         \A bin \in BinId : header'[bin].bs = BinNoTransfer => header[bin].bs = BinNoTransfer
  PROVE  \A u \in Thread \ {t} : OwnerInv(u)'
<1> SUFFICES ASSUME NEW u \in Thread \ {t} PROVE OwnerInv(u)'
  OBVIOUS
<1>1. pc'[u] = pc[u] /\ scan'[u] = scan[u] /\ call'[u] = call[u]
  BY DEF OthersSame
<1>2. Bin(u)' = Bin(u) /\ (Reserved(u)' <=> Reserved(u)) /\ OwnerInv(u)
  BY <1>1 DEF Bin, hash, Reserved, LInv
<1>3. ASSUME pc[u] \in FilledPC \/ (pc[u] \in ScanPC /\ Reserved(u)), header'[Bin(u)].bs = BinNoTransfer
      PROVE  KeyInBin(Bin(u), scan[u].slot)'
  <2>1. /\ Bin(u) \in BinId /\ scan[u].slot \in SlotIdx /\ HasSlot(linkMeta[Bin(u)], scan[u].slot)
    BY <1>3, FilledSlot
  <2>2. KeyInBin(Bin(u), scan[u].slot)
    BY <1>2, <1>3, <2>1 DEF OwnerInv
  <2>3. KeysKept(Bin(u))
    BY <1>3, <2>1
  <2>4. \A i \in SlotIdx : HasSlot(linkMeta[Bin(u)], i) /\ KeyInBin(Bin(u), i) => KeyInBin(Bin(u), i)'
    BY <1>2, <2>3 DEF KeysKept, KeyInBin, InBin, SlotLoc
  <2> QED BY <1>1, <1>2, <2>1, <2>2, <2>4 DEF KeyInBin, InBin, SlotLoc
<1> QED BY <1>1, <1>2, <1>3 DEF OwnerInv

\* The keys of the slots that are Valid in bins that are not marked.
LEMMA SameKeys ==
  ASSUME IInv, LInv, NEW bin \in BinId,
         header'[bin].bs = BinNoTransfer => header[bin].bs = BinNoTransfer /\ KeysKept(bin),
         \A i \in SlotIdx : header'[bin].bs = BinNoTransfer /\ header'[bin].ss[i] = SlotValid
                            => header[bin].ss[i] = SlotValid \/ KeyInBin(bin, i)'
  PROVE  KeysInv(bin)'
<1> SUFFICES ASSUME NEW i \in SlotIdx, header'[bin].bs = BinNoTransfer, header'[bin].ss[i] = SlotValid
             PROVE  KeyInBin(bin, i)'
  BY DEF KeysInv
<1>1. CASE header[bin].ss[i] = SlotValid
  <2>1. HasSlot(linkMeta[bin], i)
    BY <1>1, BinWords DEF Backed, SlotValid, SlotInvalid
  <2>2. KeyInBin(bin, i)
    BY <1>1 DEF LInv, KeysInv
  <2> QED BY <2>1, <2>2 DEF KeysKept
<1> QED BY <1>1

\* A transfer that does not move.
LEMMA SameMover ==
  ASSUME IInv, LInv, NEW u \in Thread, pc[u] \in MovePC, pc'[u] = pc[u], xfer'[u] = xfer[u],
         KeysKept(OldBin(u))
  PROVE  MoverInv(u)'
<1>1. MoverInv(u) /\ OldBin(u)' = OldBin(u)
  BY DEF LInv, OldBin
<1>2. xfer[u] \in XferRec /\ XferInv(u) /\ OldBin(u) \in BinId
  BY Locals, OldBinType DEF MovePC, TransferPC
<1>3. xfer[u].todo \subseteq SlotIdx /\ Valids(xfer[u].h) \subseteq SlotIdx
  BY <1>2 DEF XferRec, Valids
<1>4. \A i \in Valids(xfer[u].h) : HasSlot(linkMeta[OldBin(u)], i)
  BY <1>2, <1>3 DEF XferInv, MovePC, Backed, Valids, SlotValid, SlotInvalid
<1>5. ASSUME NEW i \in SlotIdx, HasSlot(linkMeta[OldBin(u)], i), KeyInBin(OldBin(u), i)
      PROVE  KeyInBin(OldBin(u), i)'
  BY <1>1, <1>5 DEF KeysKept
<1>6. xfer[u].todo \subseteq Valids(xfer[u].h)
  BY <1>1 DEF MoverInv
<1>7. /\ Valids(xfer[u].h)' = Valids(xfer[u].h) /\ (AtPrimary(u)' <=> AtPrimary(u))
      /\ (pc[u] = "move" => InBin(OldBin(u), xfer[u].key)')
  BY <1>1 DEF Valids, AtPrimary, InBin, MoverInv
<1>8. \A i \in xfer[u].todo : (pc[u] = "move" /\ i = Lowest(xfer[u].todo)) \/ KeyInBin(OldBin(u), i)'
  BY <1>1, <1>3, <1>4, <1>5, <1>6 DEF MoverInv
<1>9. AtPrimary(u) => \A i \in Valids(xfer[u].h) : i \in Bucket(0) \/ KeyInBin(OldBin(u), i)'
  BY <1>1, <1>3, <1>4, <1>5 DEF MoverInv
<1> QED BY <1>1, <1>7, <1>8, <1>9 DEF MoverInv

\* The new bins that the transfer has filled, when none of their slots changes.
LEMMA SameFilled ==
  ASSUME NEW bin, \A nb \in NewBins(bin) : header'[nb].ss = header[nb].ss
  PROVE  {p \in NewBins(bin) \X SlotIdx : header'[p[1]].ss[p[2]] = SlotValid} = Filled(bin)
BY DEF Filled

\* Three links.
LEMMA ThreeLinks == IsFiniteSet(LinkNo) /\ Cardinality(LinkNo) = 3
<1>1. ASSUME NEW b \in Int, b = 3 PROVE IsFiniteSet(1..b) /\ Cardinality(1..b) = 3
  <2>1. 1 \in Int
    OBVIOUS
  <2>2. IsFiniteSet(1..b) /\ Cardinality(1..b) = IF 1 > b THEN 0 ELSE b - 1 + 1
    BY <2>1, FS_Interval
  <2> QED BY <1>1, <2>2
<1> QED BY <1>1 DEF LinkNo

\* A bin has at most three links, and attached ones stay.
LEMMA AttachedCount ==
  ASSUME NEW lm
  PROVE  /\ IsFiniteSet(attached(lm)) /\ Cardinality(attached(lm)) \in 0..3
         /\ Capacity(lm) \in Nat
         /\ \A lm2 : Keeps(lm, lm2) => Capacity(lm) <= Capacity(lm2)
<1>1. IsFiniteSet(LinkNo) /\ Cardinality(LinkNo) = 3
  BY ThreeLinks
<1>2. \A l : attached(l) \subseteq LinkNo
  BY DEF attached, LinkNo
<1>3. \A l : IsFiniteSet(attached(l)) /\ Cardinality(attached(l)) \in 0..3
  <2> SUFFICES ASSUME NEW l PROVE IsFiniteSet(attached(l)) /\ Cardinality(attached(l)) \in 0..3
    OBVIOUS
  <2>1. IsFiniteSet(attached(l)) /\ Cardinality(attached(l)) <= 3
    BY <1>1, <1>2, FS_Subset
  <2> QED BY <2>1, FS_CardinalityType
<1>4. ASSUME NEW l PROVE LINK_SLOTS * Cardinality(attached(l)) \in Nat
  BY <1>3, SizeAssumption
<1>5. ASSUME NEW lm2, Keeps(lm, lm2) PROVE Capacity(lm) <= Capacity(lm2)
  <2>1. attached(lm) \subseteq attached(lm2)
    BY <1>5 DEF attached, resolveLink, Keeps
  <2>2. Cardinality(attached(lm)) <= Cardinality(attached(lm2))
    BY <1>3, <2>1, FS_Subset
  <2> DEFINE a == Cardinality(attached(lm))
             b == Cardinality(attached(lm2))
  <2>3. a \in Nat /\ b \in Nat /\ a <= b
    BY <1>3, <2>2
  <2> HIDE DEF a, b
  <2>4. LINK_SLOTS * a <= LINK_SLOTS * b
    BY <2>3, SizeAssumption
  <2> QED BY <1>4, <2>4, SizeAssumption DEF Capacity, a, b
<1> QED BY <1>3, <1>4, <1>5, SizeAssumption DEF Capacity

\* A bin's new bins and their slots are finitely many.
LEMMA FiniteFill ==
  ASSUME NEW bin \in BinId
  PROVE  /\ IsFiniteSet(NewBins(bin)) /\ IsFiniteSet(SlotIdx) /\ IsFiniteSet(NewBins(bin) \X SlotIdx)
         /\ IsFiniteSet(Filled(bin)) /\ Cardinality(Filled(bin)) \in Nat
<1>1. IsFiniteSet(SlotIdx)
  BY FS_Interval, SizeAssumption DEF SlotIdx, MaxSlots
<1>2. IsFiniteSet(NewBins(bin))
  <2>1. CASE bin[1] + 1 \in Gen
    <3> DEFINE g == bin[1] + 1
    <3>1. IsFiniteSet({g} \X (0..(NumBins[g] - 1)))
      <4>1. 0 \in Int /\ NumBins[g] - 1 \in Int
        BY <2>1, SizeAssumption
      <4>2. IsFiniteSet(0..(NumBins[g] - 1))
        BY <4>1, FS_Interval
      <4>3. IsFiniteSet({g})
        BY FS_Singleton
      <4> QED BY <4>2, <4>3, FS_Product
    <3>2. NewBins(bin) \subseteq {g} \X (0..(NumBins[g] - 1))
      BY BinIdGen DEF NewBins
    <3> QED BY <3>1, <3>2, FS_Subset
  <2>2. CASE bin[1] + 1 \notin Gen
    <3>1. NewBins(bin) = {}
      BY <2>2, BinIdGen DEF NewBins
    <3> QED BY <3>1, FS_EmptySet
  <2> QED BY <2>1, <2>2
<1>3. IsFiniteSet(NewBins(bin) \X SlotIdx)
  BY <1>1, <1>2, FS_Product
<1>4. Filled(bin) \subseteq NewBins(bin) \X SlotIdx
  BY DEF Filled
<1> QED BY <1>1, <1>2, <1>3, <1>4, FS_Subset, FS_CardinalityType

\* The count of a transfer that does not move.
LEMMA SameCount ==
  ASSUME IInv, LInv, NEW u \in Thread, pc[u] \in MovePC, pc'[u] = pc[u], xfer'[u] = xfer[u],
         \A nb \in NewBins(OldBin(u)) : header'[nb].ss = header[nb].ss,
         Keeps(linkMeta[OldBin(u)], linkMeta'[OldBin(u)])
  PROVE  CountInv(u)'
<1>1. CountInv(u) /\ OldBin(u)' = OldBin(u) /\ (AtPrimary(u)' <=> AtPrimary(u))
  BY DEF LInv, OldBin, AtPrimary
<1>2. Filled(OldBin(u))' = Filled(OldBin(u))
  BY <1>1, SameFilled DEF Filled, NewBins, OldOf
<1>3. Capacity(linkMeta[OldBin(u)]) <= Capacity(linkMeta'[OldBin(u)])
  BY AttachedCount
<1> DEFINE a == Capacity(linkMeta[OldBin(u)])
           b == Capacity(linkMeta'[OldBin(u)])
           n == Cardinality(Filled(OldBin(u))) + Cardinality(xfer[u].todo)
<1>4. a \in Nat /\ b \in Nat /\ n \in Int
  <2>1. OldBin(u) \in BinId /\ xfer[u].todo \subseteq SlotIdx
    BY OldBinType, Locals DEF MovePC, XferRec
  <2>2. Cardinality(Filled(OldBin(u))) \in Nat /\ Cardinality(xfer[u].todo) \in Nat
    BY <2>1, FiniteFill, FS_Subset, FS_CardinalityType
  <2> QED BY <2>2, AttachedCount
<1>5. n' = n /\ Capacity(linkMeta[OldBin(u)])' = b
  BY <1>1, <1>2
<1>6. n <= IF AtPrimary(u) THEN PRIMARY_SLOTS ELSE a
  BY <1>1 DEF CountInv
<1>7. n <= IF AtPrimary(u) THEN PRIMARY_SLOTS ELSE b
  <2> HIDE DEF a, b, n
  <2> QED BY <1>3, <1>4, <1>6 DEF a, b
<1> QED BY <1>1, <1>5, <1>7 DEF CountInv

\* The links of a bin lie in the arena of its index.
LEMMA LinkRange ==
  ASSUME IInv, NEW bin \in BinId
  PROVE  /\ LinksOf(bin) \subseteq 1..NumLinks[bin[1]]
         /\ \A n \in LinkNo : resolveLink(linkMeta[bin], n) \in Nat
         /\ \A n \in LinkNo : resolveLink(linkMeta[bin], n) # NO_LINK
                              => resolveLink(linkMeta[bin], n) \in LinksOf(bin)
         /\ \A a \in LinksOf(bin) : \E n \in LinkNo : a = resolveLink(linkMeta[bin], n)
<1>1. linkMeta[bin] \in LinkMeta /\ LinkMetaOK(linkMeta[bin], NumLinks[bin[1]]) /\ NumLinks[bin[1]] \in Nat
  BY BinWords
<1>2. \A n \in LinkNo : resolveLink(linkMeta[bin], n) \in 0..NumLinks[bin[1]]
  BY <1>1 DEF resolveLink, LinkMeta, LinkMetaOK, LinkNo, NO_LINK
<1> QED BY <1>1, <1>2 DEF LinksOf, LinkNo, NO_LINK

\* The links at the top that belong to new bins are finitely many.
LEMMA TopFinite ==
  ASSUME IInv, NEW bin \in BinId
  PROVE  IsFiniteSet(TopOf(bin)) /\ Cardinality(TopOf(bin)) \in Nat
<1>1. CASE NewBins(bin) = {}
  <2>1. TopOf(bin) = {}
    BY <1>1 DEF TopOf
  <2> QED BY <2>1, FS_EmptySet
<1>2. CASE NewBins(bin) # {}
  <2> DEFINE N == NumLinks[bin[1] + 1]
  <2>1. N \in Int /\ 1 \in Int
    <3>1. bin[1] + 1 \in Gen
      BY <1>2, BinIdGen DEF NewBins
    <3> QED BY <3>1, SizeAssumption
  <2>2. TopOf(bin) \subseteq 1..N
    BY LinkRange DEF TopOf, NewBins
  <2>3. IsFiniteSet(1..N)
    BY <2>1, FS_Interval
  <2> QED BY <2>2, <2>3, FS_Subset, FS_CardinalityType
<1> QED BY <1>1, <1>2

\* New bins before and during the transfer of their old bin, when neither moves.
LEMMA SameNewBin ==
  ASSUME IInv, LInv, NEW nb \in BinId,
         nb[1] > 0 => /\ header'[OldOf(nb)].bs \in {BinNoTransfer, BinInTransfer} =>
                           header'[OldOf(nb)].bs = header[OldOf(nb)].bs /\ Untouched(nb)
                      /\ ctx'[nb[1] - 1].linkNextResize = ctx[nb[1] - 1].linkNextResize
  PROVE  NewBinInv(nb)'
<1> SUFFICES ASSUME nb[1] > 0, header'[OldOf(nb)].bs \in {BinNoTransfer, BinInTransfer}
             PROVE  /\ header'[OldOf(nb)].bs = BinNoTransfer => EmptyBin(nb)'
                    /\ header'[OldOf(nb)].bs = BinInTransfer => PackedBin(nb)'
  BY DEF NewBinInv, OldOf
<1>1. /\ header'[OldOf(nb)].bs = header[OldOf(nb)].bs
      /\ header'[nb].ss = header[nb].ss /\ linkMeta'[nb] = linkMeta[nb]
      /\ ctx'[nb[1] - 1].linkNextResize = ctx[nb[1] - 1].linkNextResize
      /\ NewBinInv(nb)
  BY DEF Untouched, LInv
<1>2. header[OldOf(nb)].bs = BinNoTransfer => EmptyBin(nb)'
  BY <1>1 DEF NewBinInv, EmptyBin
<1>3. header[OldOf(nb)].bs = BinInTransfer => PackedBin(nb)'
  BY <1>1 DEF NewBinInv, PackedBin, LinksOf
<1> QED BY <1>1, <1>2, <1>3

\* The top links of a bin, when only links below them are attached.
LEMMA SameTop ==
  ASSUME IInv, IInv', LInv, NEW bin \in BinId, LinksKept,
         bin[1] < MaxGen =>
           /\ header'[bin].bs = BinDoneTransfer => header[bin].bs = BinDoneTransfer
           /\ ctx'[bin[1]].linkNextResize = ctx[bin[1]].linkNextResize
           /\ header[bin].bs = BinDoneTransfer =>
                \A nb \in NewBins(bin) : \A a \in LinksOf(nb)' :
                   a \in LinksOf(nb) \/ a < ctx[bin[1]].linkNextResize
  PROVE  TopInv(bin)'
<1> SUFFICES ASSUME bin[1] < MaxGen, header'[bin].bs = BinDoneTransfer
             PROVE  Cardinality(TopOf(bin)') <= TopMost(linkMeta'[bin])
  BY DEF TopInv
<1>1. header[bin].bs = BinDoneTransfer /\ Cardinality(TopOf(bin)) <= TopMost(linkMeta[bin])
  BY DEF LInv, TopInv
<1>2. TopOf(bin)' \subseteq TopOf(bin)
  <2>1. bin[1] \in 0..(MaxGen - 1)
    BY BinIdGen, SizeAssumption DEF Gen
  <2>2. ctx[bin[1]].linkNextResize \in Int
    BY <2>1, CtxType DEF CtxRec
  <2>3. \A nb \in NewBins(bin) : LinksOf(nb)' \subseteq Nat
    <3>1. \A nb \in BinId : linkMeta'[nb] \in LinkMeta
      BY DEF IInv, BaseType, BaseMemory
    <3>2. \A nb \in BinId : \A n \in 1..3 : resolveLink(linkMeta'[nb], n) \in Nat
      BY <3>1 DEF resolveLink, LinkMeta, NO_LINK
    <3> QED BY <3>2 DEF NewBins, LinksOf
  <2> SUFFICES ASSUME NEW a \in TopOf(bin)' PROVE a \in TopOf(bin)
    OBVIOUS
  <2>4. PICK nb \in NewBins(bin) : a \in LinksOf(nb)'
    BY DEF TopOf, NewBins, OldOf
  <2>5. a >= ctx[bin[1]].linkNextResize
    BY DEF TopOf
  <2>6. ~(a < ctx[bin[1]].linkNextResize)
    BY <2>2, <2>3, <2>4, <2>5
  <2>7. a \in LinksOf(nb)
    BY <1>1, <2>4, <2>6
  <2> QED BY <2>5, <2>7 DEF TopOf
<1>3. Cardinality(TopOf(bin)') <= Cardinality(TopOf(bin)) /\ Cardinality(TopOf(bin)') \in Nat
  BY <1>2, TopFinite, FS_Subset, FS_CardinalityType
<1>4. TopMost(linkMeta[bin]) <= TopMost(linkMeta'[bin])
  BY BinWords DEF LinksKept, Keeps, TopMost, LinkMetaOK, NO_LINK
<1>5. Cardinality(TopOf(bin)) \in Nat /\ TopMost(linkMeta[bin]) \in Int /\ TopMost(linkMeta'[bin]) \in Int
  BY TopFinite DEF TopMost
<1> QED BY <1>1, <1>3, <1>4, <1>5

\* The owners of links, when none is allocated or attached.
LEMMA SameLinksInv ==
  ASSUME IInv, IInv', LInv, NEW t \in Thread, OthersSame(t), UNCHANGED <<linkMeta, linkNext>>,
         \A g \in Gen : linkCapacity'[g] >= linkCapacity[g] \/ linkNext[g] = 0,
         \A g \in 0..(MaxGen - 1) : ctx'[g].linkNextResize <= ctx[g].linkNextResize,
         Held(t)' = {}
  PROVE  LinksInv'
<1>1. \A bin \in BinId : LinksOf(bin)' = LinksOf(bin)
  BY DEF LinksOf
<1>2. \A u \in Thread \ {t} : /\ Held(u)' = Held(u) /\ scan'[u].idx = scan[u].idx
  BY DEF OthersSame, Held
<1>3. LinksInv /\ RootType /\ RootType'
  BY DEF LInv, IInv, BaseType
<1>4. ASSUME NEW g \in Gen, NEW a \in Nat, a > 0, Low(g, a) PROVE Low(g, a)'
  BY <1>3, <1>4 DEF Low, RootType
<1>5. ASSUME NEW g \in Gen, NEW a \in Nat, High(g, a) PROVE High(g, a)'
  <2>1. g > 0 /\ g - 1 \in 0..(MaxGen - 1)
    BY <1>5, SizeAssumption DEF High, Gen
  <2>2. ctx[g - 1] \in CtxRec /\ ctx'[g - 1].linkNextResize <= ctx[g - 1].linkNextResize
    BY <2>1, CtxType
  <2>3. ctx'[g - 1].linkNextResize \in Int
    <3>1. g - 1 \in Gen
      BY <2>1, CtxType
    <3> QED BY <1>3, <3>1 DEF RootType, CtxRec
  <2> QED BY <1>5, <2>1, <2>2, <2>3 DEF High, CtxRec
<1>6. ASSUME NEW bin \in BinId, NEW a \in LinksOf(bin)' PROVE Low(bin[1], a)' \/ High(bin[1], a)'
  <2>1. a \in LinksOf(bin) /\ a \in Nat /\ a > 0 /\ bin[1] \in Gen
    BY <1>1, LinkRange, BinIdGen, SizeAssumption
  <2> QED BY <1>3, <1>4, <1>5, <2>1 DEF LinksInv
<1>7. \A bin, other \in BinId : bin[1] = other[1] => OneOwner(bin, other)'
  BY <1>3 DEF LinksInv, OneOwner
<1>8. ASSUME NEW u \in Thread PROVE HeldInv(u)'
  <2>1. CASE u = t
    BY <2>1 DEF HeldInv
  <2>2. CASE u # t
    <3> SUFFICES ASSUME NEW a \in Held(u)
                 PROVE  Low(scan[u].idx, a)' /\ \A bin \in BinId : bin[1] = scan[u].idx => a \notin LinksOf(bin)
      BY <1>1, <1>2, <2>2 DEF HeldInv, Low
    <3>1. HeldInv(u)
      BY <1>3 DEF LinksInv
    <3>2. a \in Nat /\ a > 0 /\ scan[u].idx \in Gen
      <4>1. pc[u] \in {"attachSingle", "attachPair"}
        BY DEF Held
      <4>2. InsInv(u) /\ scan[u].idx \in Gen /\ ins[u].link \in Nat
        BY <4>1, Locals, BinType DEF InsRec
      <4>3. ins[u].link > 0
        <5>1. NumLinks[scan[u].idx] \in Nat
          BY <4>2, SizeAssumption
        <5> QED BY <4>1, <4>2, <5>1 DEF InsInv
      <4> QED BY <4>2, <4>3 DEF Held
    <3> QED BY <1>2, <1>4, <2>2, <3>1, <3>2 DEF HeldInv, Low, OthersSame
  <2> QED BY <2>1, <2>2
<1>9. \A u, v \in Thread : u # v /\ scan'[u].idx = scan'[v].idx => Held(u)' \cap Held(v)' = {}
  BY <1>2, <1>3 DEF LinksInv
<1> QED BY <1>6, <1>7, <1>8, <1>9 DEF LinksInv

\* A bin that is marked belongs to a resize that has begun.
LEMMA MarkedStarted ==
  ASSUME IInv, RInv, NEW bin \in BinId, header[bin].bs # BinNoTransfer
  PROVE  bin[1] \in 0..(MaxGen - 1) /\ Started(bin[1])
<1>1. Published(bin[1])
  BY DEF IInv, SharedInv, BinInv
<1>2. ProgressInv(bin)
  BY DEF RInv, MoversInv
<1>3. \/ Started(bin[1])
      \/ \A t \in Thread : ~Moves(t, bin[1], chunkOf(bin[2]))
  BY <1>2 DEF ProgressInv
<1> QED BY <1>1, <1>2, <1>3 DEF ProgressInv, Published

\* The old bin of the bin in which a call works is done.
LEMMA UsesNew ==
  ASSUME IInv, RInv, NEW t \in Thread, pc[t] \in UsesPC, scan[t].idx > 0
  PROVE  header[OldOf(Bin(t))].bs = BinDoneTransfer /\ Started(scan[t].idx - 1)
<1>1. pc[t] # "idle"
  BY DEF UsesPC, ScanPC, SlotPC, InsertPC, OwnPC
<1>2. scan[t].idx \in Gen /\ hash(t) \in Nat
  BY <1>1, BinType
<1>3. /\ scan[t].idx - 1 \in 0..(MaxGen - 1) /\ scan[t].idx - 1 \in Gen
      /\ OldOf(Bin(t)) = getBin(scan[t].idx - 1, hash(t))
  BY <1>2, OldBins DEF Bin
<1>4. header[OldOf(Bin(t))].bs = BinDoneTransfer
  <2>1. scan[t].idx - 1 \in 0..(scan[t].idx - 1)
    BY <1>3
  <2> QED BY <1>3, <2>1 DEF RInv, PrivateInv
<1>5. OldOf(Bin(t)) \in BinId /\ OldOf(Bin(t))[1] = scan[t].idx - 1
  BY <1>2, <1>3, GetBinType
<1> QED BY <1>4, <1>5, MarkedStarted DEF BinNoTransfer, BinDoneTransfer

\* A goroutine that moves a bin has marked it; every earlier index is done.
LEMMA MoverBin ==
  ASSUME IInv, RInv, NEW t \in Thread, pc[t] \in TransferPC
  PROVE  /\ OldBin(t) \in BinId /\ OldBin(t)[1] = xfer[t].gen
         /\ xfer[t].gen \in 0..(MaxGen - 1) /\ Started(xfer[t].gen)
         /\ header[OldBin(t)].bs = IF pc[t] = "or" THEN BinNoTransfer ELSE BinInTransfer
         /\ OldBin(t)[1] > 0 => header[OldOf(OldBin(t))].bs = BinDoneTransfer
         /\ ctx[xfer[t].gen].chunksDone < NumChunks(xfer[t].gen)
         /\ ~(xfer[t].gen < active)
         /\ \A u \in Thread : pc[u] \in TransferPC /\ OldBin(u) = OldBin(t) => u = t
<1> DEFINE g == xfer[t].gen
           c == chunkOf(xfer[t].bin)
<1>1. /\ g \in 0..(MaxGen - 1) /\ g \in Gen /\ Started(g) /\ Moves(t, g, c)
      /\ xfer[t].bin \in Nat /\ OldBin(t) \in BinId
      /\ \A u \in Thread : Moves(u, g, c) => u = t
      /\ \A bin \in BinId : bin[1] = g /\ chunkOf(bin[2]) = c => header[bin].bs = MoverState(t, bin[2])
  BY AtTransfer
<1>2. OldBin(t)[1] = g /\ OldBin(t)[2] = xfer[t].bin
  BY DEF OldBin
<1>3. header[OldBin(t)].bs = IF pc[t] = "or" THEN BinNoTransfer ELSE BinInTransfer
  <2>1. header[OldBin(t)].bs = MoverState(t, xfer[t].bin)
    BY <1>1, <1>2
  <2> QED BY <1>1, <2>1 DEF MoverState
<1>4. ~(g < active)
  BY <1>1, <1>2, <1>3, ActiveDone DEF BinNoTransfer, BinInTransfer, BinDoneTransfer
<1>5. OldBin(t)[1] > 0 => header[OldOf(OldBin(t))].bs = BinDoneTransfer
  <2> SUFFICES ASSUME g > 0 PROVE header[OldOf(OldBin(t))].bs = BinDoneTransfer
    BY <1>2
  <2>1. OldOf(OldBin(t)) \in BinId /\ OldOf(OldBin(t))[1] = g - 1
    BY <1>1, <1>2, OldOfType
  <2>2. g - 1 < active
    BY <1>1, <1>4, ResizeWords DEF Started, RInv, RolesInv
  <2> QED BY <2>1, <2>2, ActiveDone
<1>6. ctx[g].chunksDone < NumChunks(g)
  <2>1. ChunksInv(g) /\ ctx[g].chunksDone \in Nat /\ NumChunks(g) \in Int /\ ctx[g].chunkClaimed \in Nat
    BY <1>1, CtxType DEF RInv, MoversInv
  <2>2. t \in Holders(g)
    BY <1>1 DEF Holders, Moves, HoldPC
  <2>3. /\ ctx[g].chunkClaimed <= NumChunks(g) /\ IsFiniteSet(Holders(g))
        /\ ctx[g].chunkClaimed = ctx[g].chunksDone + Cardinality(Holders(g))
    BY <1>1, <2>1 DEF ChunksInv
  <2>4. Cardinality(Holders(g)) \in Nat /\ Cardinality(Holders(g)) # 0
    BY <2>2, <2>3, FS_CardinalityType, FS_EmptySet
  <2> QED BY <2>1, <2>3, <2>4
<1>7. ASSUME NEW u \in Thread, pc[u] \in TransferPC, OldBin(u) = OldBin(t) PROVE u = t
  <2>1. Moves(u, g, c)
    BY <1>7 DEF Moves, OldBin
  <2> QED BY <1>1, <2>1
<1> QED BY <1>1, <1>2, <1>3, <1>4, <1>5, <1>6, <1>7

-----------------------------------------------------------------------------
(* Steps outside the transfer of a bin.                                    *)

\* The bins, keys and links as a call or a control step of the resize leaves them:
\* only the bin in which a call works changes, its keys belong to it, and a new
\* link is from the bottom.
LinkFrame(t) ==
  /\ OthersSame(t) /\ \A u \in Thread \ {t} : call'[u] = call[u]
  /\ pc[t] \notin MovePC /\ pc'[t] \notin MovePC
  /\ \A bin \in BinId : header'[bin].bs = header[bin].bs /\ KeysKept(bin)
  /\ \A bin \in BinId : Untouched(bin) \/ (pc[t] \in UsesPC /\ bin = Bin(t))
  /\ LinksKept
  /\ \A bin \in BinId : \A i \in SlotIdx :
       header[bin].bs = BinNoTransfer /\ header'[bin].ss[i] = SlotValid =>
         header[bin].ss[i] = SlotValid \/ KeyInBin(bin, i)'
  /\ \A g \in 0..(MaxGen - 1) : ctx'[g].linkNextResize = ctx[g].linkNextResize
  /\ \A bin \in BinId : \A a \in LinksOf(bin)' : a \in LinksOf(bin) \/ a <= linkCapacity[bin[1]]

\* A bin in which a call works is not being filled by a transfer.
LEMMA NotFilling ==
  ASSUME IInv, RInv, NEW t \in Thread, NEW nb \in BinId, nb[1] > 0,
         header[OldOf(nb)].bs # BinDoneTransfer
  PROVE  ~(pc[t] \in UsesPC /\ nb = Bin(t))
<1> SUFFICES ASSUME pc[t] \in UsesPC, nb = Bin(t) PROVE FALSE
  OBVIOUS
<1>1. pc[t] # "idle"
  BY DEF UsesPC, ScanPC, SlotPC, InsertPC, OwnPC
<1>2. scan[t].idx > 0
  BY <1>1, BinType
<1> QED BY <1>2, UsesNew

\* Such a step keeps the invariant, given what it does to the arena.
LEMMA OpL ==
  ASSUME IInv, IInv', RInv, LInv, NEW t \in Thread, LinkFrame(t), OwnerInv(t)',
         \A u \in Thread : FinInv(u)', \A g \in 0..(MaxGen - 1) : EndsInv(g)', LinksInv'
  PROVE  LInv'
<1>1. \A u \in Thread : OwnerInv(u)'
  BY SameOwners DEF LinkFrame
<1>2. ASSUME NEW u \in Thread, pc'[u] \in MovePC PROVE MoverInv(u)' /\ CountInv(u)'
  <2>1. u # t /\ pc'[u] = pc[u] /\ xfer'[u] = xfer[u] /\ pc[u] \in MovePC /\ pc[u] \in TransferPC
    BY <1>2 DEF LinkFrame, OthersSame, MovePC
  <2>2. /\ OldBin(u) \in BinId /\ header[OldBin(u)].bs = BinInTransfer
    BY <2>1, MoverBin DEF MovePC
  <2>3. MoverInv(u)'
    BY <2>1, <2>2, SameMover DEF LinkFrame
  <2>4. ASSUME NEW nb \in NewBins(OldBin(u)) PROVE header'[nb].ss = header[nb].ss
    <3>1. nb \in BinId /\ OldOf(nb) = OldBin(u) /\ nb[1] > 0
      BY <2>1, <2>2, MoverBin DEF NewBins
    <3>2. Untouched(nb)
      BY <2>2, <3>1, NotFilling DEF LinkFrame, BinInTransfer, BinDoneTransfer
    <3> QED BY <3>2 DEF Untouched
  <2>5. Keeps(linkMeta[OldBin(u)], linkMeta'[OldBin(u)])
    BY <2>2 DEF LinkFrame, LinksKept
  <2> QED BY <2>1, <2>3, <2>4, <2>5, SameCount
<1>3. ASSUME NEW bin \in BinId PROVE KeysInv(bin)'
  BY SameKeys DEF LinkFrame
<1>4. ASSUME NEW nb \in BinId PROVE NewBinInv(nb)'
  <2>1. ASSUME nb[1] > 0
        PROVE  /\ header'[OldOf(nb)].bs \in {BinNoTransfer, BinInTransfer} =>
                    header'[OldOf(nb)].bs = header[OldOf(nb)].bs /\ Untouched(nb)
               /\ ctx'[nb[1] - 1].linkNextResize = ctx[nb[1] - 1].linkNextResize
    <3>1. OldOf(nb) \in BinId /\ nb[1] - 1 \in 0..(MaxGen - 1)
      BY <2>1, OldOfType
    <3>2. header'[OldOf(nb)].bs = header[OldOf(nb)].bs
      BY <3>1 DEF LinkFrame
    <3>3. header[OldOf(nb)].bs # BinDoneTransfer => Untouched(nb)
      BY <2>1, NotFilling DEF LinkFrame
    <3> QED BY <3>1, <3>2, <3>3 DEF LinkFrame, BinNoTransfer, BinInTransfer, BinDoneTransfer
  <2> QED BY <2>1, SameNewBin
<1>5. ASSUME NEW bin \in BinId PROVE TopInv(bin)'
  <2>1. ASSUME bin[1] < MaxGen
        PROVE  /\ header'[bin].bs = BinDoneTransfer => header[bin].bs = BinDoneTransfer
               /\ ctx'[bin[1]].linkNextResize = ctx[bin[1]].linkNextResize
               /\ header[bin].bs = BinDoneTransfer =>
                    \A nb \in NewBins(bin) : \A a \in LinksOf(nb)' :
                       a \in LinksOf(nb) \/ a < ctx[bin[1]].linkNextResize
    <3>1. bin[1] \in 0..(MaxGen - 1)
      BY <2>1, BinIdGen, SizeAssumption DEF Gen
    <3>2. ASSUME header[bin].bs = BinDoneTransfer, NEW nb \in NewBins(bin), NEW a \in LinksOf(nb)',
                 a \notin LinksOf(nb)
          PROVE  a < ctx[bin[1]].linkNextResize
      <4>1. nb \in BinId /\ nb[1] = bin[1] + 1
        BY DEF NewBins
      <4>2. a <= linkCapacity[bin[1] + 1]
        BY <3>2, <4>1 DEF LinkFrame
      <4>3. Started(bin[1])
        BY <3>2, MarkedStarted DEF BinNoTransfer, BinDoneTransfer
      <4>4. linkCapacity[bin[1] + 1] < ctx[bin[1]].linkNextResize
        BY <3>1, <4>3 DEF LInv, EndsInv
      <4>5. /\ linkCapacity[bin[1] + 1] \in Int /\ ctx[bin[1]].linkNextResize \in Int
        BY <3>1, CtxType DEF CtxRec, IInv, BaseType, RootType
      <4>6. a \in Int
        <5>1. linkMeta'[nb] \in LinkMeta
          BY <4>1 DEF IInv, BaseType, BaseMemory
        <5>2. \A n \in 1..3 : resolveLink(linkMeta'[nb], n) \in Nat
          BY <5>1 DEF resolveLink, LinkMeta, NO_LINK
        <5> QED BY <5>2 DEF LinksOf
      <4> QED BY <4>2, <4>4, <4>5, <4>6
    <3> QED BY <3>1, <3>2 DEF LinkFrame
  <2> QED BY <2>1, SameTop DEF LinkFrame
<1> QED BY <1>1, <1>2, <1>3, <1>4, <1>5 DEF LInv

\* Links stay with their bin.
LEMMA LinksStay ==
  ASSUME NEW bin, Keeps(linkMeta[bin], linkMeta'[bin])
  PROVE  LinksOf(bin) \subseteq LinksOf(bin)'
<1>1. \A n \in 1..3 : resolveLink(linkMeta[bin], n) # NO_LINK =>
         resolveLink(linkMeta'[bin], n) = resolveLink(linkMeta[bin], n)
  BY DEF resolveLink, Keeps
<1> QED BY <1>1 DEF LinksOf

\* The ends of the arenas, when the transfers take no link and no resize begins.
LEMMA SameEnds ==
  ASSUME IInv, IInv', LInv, LinksKept,
         \A g \in 0..(MaxGen - 1) :
           /\ ctx'[g].linkNextResize = ctx[g].linkNextResize
           /\ ctx'[g].chunksDone >= ctx[g].chunksDone
           /\ Started(g)' <=> Started(g)
           /\ g < active' => g < active \/ linkCapacity[g + 1] = ctx[g].linkNextResize - 1
           /\ linkCapacity'[g + 1] = linkCapacity[g + 1]
           /\ ~Started(g) => linkNext'[g + 1] = linkNext[g + 1]
  PROVE  \A g \in 0..(MaxGen - 1) : EndsInv(g)'
<1> SUFFICES ASSUME NEW g \in 0..(MaxGen - 1) PROVE EndsInv(g)'
  OBVIOUS
<1>1. EndsInv(g)
  BY DEF LInv
<1>2. /\ ctx[g].chunksDone \in Nat /\ ctx'[g].chunksDone \in Nat /\ NumChunks(g) \in Int
      /\ NumChunks(g)' = NumChunks(g)
  <2>1. ctx' \in [Gen -> CtxRec] /\ g \in Gen
    BY CtxType DEF IInv, BaseType, RootType
  <2> QED BY <2>1, CtxType DEF CtxRec, NumChunks
<1>3. SetAside(g)' <=> SetAside(g)
  BY DEF SetAside, resLinkBudget
<1>4. Started(g)' /\ ctx'[g].chunksDone < NumChunks(g) => SetAside(g)'
  BY <1>1, <1>2, <1>3 DEF EndsInv
<1>5. ASSUME NEW a \in ctx'[g].linkNextResize..(NumLinks[g + 1] - 1)
      PROVE  \E nb \in BinId : nb[1] = g + 1 /\ a \in LinksOf(nb)'
  <2>1. PICK nb \in BinId : nb[1] = g + 1 /\ a \in LinksOf(nb)
    BY <1>1 DEF EndsInv
  <2>2. a \in LinksOf(nb)'
    BY <2>1, LinksStay DEF LinksKept
  <2> QED BY <2>1, <2>2
<1> QED BY <1>1, <1>2, <1>4, <1>5 DEF EndsInv

\* The roles at the ends of the arena, of the threads that do not move.
LEMMA SameFin ==
  ASSUME LInv, NEW t \in Thread, OthersSame(t), FinInv(t)',
         \A u \in Thread \ {t} : pc[u] \in {"setCtx", "finActive"} =>
            /\ linkCapacity'[xfer[u].gen + 1] = linkCapacity[xfer[u].gen + 1]
            /\ ctx'[xfer[u].gen].linkNextResize = ctx[xfer[u].gen].linkNextResize
  PROVE  \A u \in Thread : FinInv(u)'
<1> SUFFICES ASSUME NEW u \in Thread \ {t} PROVE FinInv(u)'
  OBVIOUS
<1>1. pc'[u] = pc[u] /\ xfer'[u] = xfer[u] /\ FinInv(u)
  BY DEF OthersSame, LInv
<1> QED BY <1>1 DEF FinInv, SetAside, resLinkBudget

\* A call's step, or a control step of the resize, that leaves the arenas and the
\* links of the bins alone.
LEMMA CallL ==
  ASSUME IInv, IInv', RInv, LInv, NEW t \in Thread, OthersSame(t),
         \A u \in Thread \ {t} : call'[u] = call[u],
         pc[t] \notin MovePC, pc'[t] \notin MovePC \cup {"setCtx", "finActive", "attachSingle", "attachPair"},
         UNCHANGED <<linkMeta, linkNext, linkCapacity>>,
         \A bin \in BinId : header'[bin].bs = header[bin].bs,
         \A bin \in BinId : header'[bin].ss = header[bin].ss \/ (pc[t] \in UsesPC /\ bin = Bin(t)),
         \A bin \in BinId : KeysKept(bin),
         \A bin \in BinId : \A i \in SlotIdx :
           header[bin].bs = BinNoTransfer /\ header'[bin].ss[i] = SlotValid =>
             header[bin].ss[i] = SlotValid \/ KeyInBin(bin, i)',
         \A g \in 0..(MaxGen - 1) :
           /\ ctx'[g].linkNextResize = ctx[g].linkNextResize
           /\ ctx'[g].chunksDone >= ctx[g].chunksDone
           /\ Started(g)' <=> Started(g)
           /\ g < active' => g < active \/ linkCapacity[g + 1] = ctx[g].linkNextResize - 1,
         OwnerInv(t)'
  PROVE  LInv'
<1>1. LinksKept /\ \A bin \in BinId : LinksOf(bin)' = LinksOf(bin)
  BY DEF LinksKept, Keeps, LinksOf
<1>2. LinkFrame(t)
  BY <1>1 DEF LinkFrame, Untouched
<1>3. \A g \in 0..(MaxGen - 1) : EndsInv(g)'
  BY <1>1, SameEnds
<1>4. \A u \in Thread : FinInv(u)'
  <2>1. FinInv(t)'
    BY DEF FinInv
  <2>2. ASSUME NEW u \in Thread, pc[u] \in {"setCtx", "finActive"} PROVE xfer[u].gen \in 0..(MaxGen - 1)
    BY <2>2, AtResize DEF ContextPC
  <2> QED BY <2>1, <2>2, SameFin
<1>5. LinksInv'
  <2>1. Held(t)' = {}
    BY DEF Held
  <2>2. \A g \in Gen : linkCapacity'[g] >= linkCapacity[g]
    BY DEF IInv, BaseType, RootType
  <2>3. \A g \in 0..(MaxGen - 1) : ctx'[g].linkNextResize <= ctx[g].linkNextResize
    BY CtxType DEF CtxRec
  <2> QED BY <2>1, <2>2, <2>3, SameLinksInv
<1> QED BY <1>2, <1>3, <1>4, <1>5, OpL

-----------------------------------------------------------------------------
(* The steps of calls.                                                     *)

\* The slot that an Insert keeps, and the header it works from, when it stays in its
\* bin and writes nothing.
LEMMA SameOwner ==
  ASSUME IInv, LInv, NEW t \in Thread, call'[t] = call[t],
         UNCHANGED <<linkMeta, slotKey>>, header'[Bin(t)].bs = header[Bin(t)].bs,
         pc'[t] \in HeadPC => scan'[t].h.bs = BinNoTransfer,
         pc'[t] \in FilledPC \/ (pc'[t] \in ScanPC /\ Reserved(t)') =>
           /\ pc[t] \in FilledPC \/ (pc[t] \in ScanPC /\ Reserved(t))
           /\ scan'[t].slot = scan[t].slot /\ scan'[t].idx = scan[t].idx
  PROVE  OwnerInv(t)'
<1>1. ASSUME pc'[t] \in FilledPC \/ (pc'[t] \in ScanPC /\ Reserved(t)'), header'[Bin(t)'].bs = BinNoTransfer
      PROVE  KeyInBin(Bin(t), scan[t].slot)'
  <2>1. Bin(t)' = Bin(t) /\ scan'[t].slot = scan[t].slot
    BY <1>1 DEF Bin, hash
  <2>2. KeyInBin(Bin(t), scan[t].slot)
    BY <1>1, <2>1 DEF LInv, OwnerInv
  <2>3. InBin(Bin(t), slotKey'[SlotLoc(Bin(t), scan[t].slot)])
    BY <2>2 DEF KeyInBin
  <2>4. (SlotLoc(Bin(t), scan[t].slot))' = SlotLoc(Bin(t), scan[t].slot)
    BY <2>1 DEF SlotLoc
  <2> QED BY <2>1, <2>3, <2>4 DEF KeyInBin, InBin
<1> QED BY <1>1 DEF OwnerInv

\* Where the steps of a lookup lead.
LEMMA ScanOwner ==
  ASSUME IInv, LInv, NEW t \in Thread, ScanStep(t)
  PROVE  /\ OwnerInv(t)' /\ pc[t] \notin MovePC
         /\ pc'[t] \notin MovePC \cup {"setCtx", "finActive", "attachSingle", "attachPair"}
<1> USE DEF Goto, HeadPC, FilledPC, ScanPC, MovePC, TransferPC
<1>1. /\ UNCHANGED <<memory, call>> /\ pc \in [Thread -> PC] /\ scan \in [Thread -> BaseScan]
      /\ OwnerInv(t) /\ pc[t] # "idle"
  BY ScanFrame DEF IInv, BaseType, BaseLocal, LInv, ScanStep, LoadActive, LoadHeader, Follow, MatchKeys, Probe,
     LoadLinks, CheckStale, CheckAnswer, CheckTarget, api
<1>2. header' = header /\ linkMeta' = linkMeta /\ slotKey' = slotKey
  BY <1>1 DEF memory
<1>3. CASE LoadActive(t)
  <2>1. pc[t] = "active" /\ pc'[t] = "load" /\ scan'[t] = FreshScan(active)
    BY <1>1, <1>3 DEF LoadActive
  <2> QED BY <1>1, <1>2, <2>1, SameOwner DEF FreshScan, Reserved
<1>4. CASE LoadHeader(t)
  <2>1. /\ pc[t] = "load" /\ pc'[t] \in {"match", "follow", "active"}
        /\ scan'[t].slot = scan[t].slot /\ scan'[t].idx = scan[t].idx
        /\ pc'[t] = "match" => scan'[t].h = header[Bin(t)] /\ header[Bin(t)].bs = BinNoTransfer
    <3>1. CASE header[Bin(t)].bs = BinNoTransfer
      BY <1>1, <1>4, <3>1 DEF LoadHeader, BaseScan
    <3>2. CASE header[Bin(t)].bs # BinNoTransfer
      BY <1>1, <1>4, <3>2 DEF LoadHeader
    <3> QED BY <3>1, <3>2
  <2> QED BY <1>1, <1>2, <2>1, SameOwner DEF Reserved
<1>5. CASE Follow(t)
  <2>1. pc[t] = "follow" /\ pc'[t] = "load" /\ scan'[t] = FreshScan(getNextIndex(scan[t].idx))
    BY <1>1, <1>5 DEF Follow
  <2> QED BY <1>1, <1>2, <2>1, SameOwner DEF FreshScan, Reserved
<1>6. ASSUME pc[t] \in {"match", "probe", "links"}, NEW rest, NEW lm, ScanOn(t, rest, lm)
      PROVE  /\ pc'[t] \in {"probe", "links", "match", "check", "finalize", "reserve", "choose"}
             /\ pc'[t] = "finalize" => Reserved(t)
             /\ scan'[t].slot = scan[t].slot /\ scan'[t].idx = scan[t].idx /\ scan'[t].h = scan[t].h
  <2>1. CASE rest # {}
    BY <1>1, <1>6, <2>1 DEF ScanOn, BaseScan
  <2>2. CASE rest = {} /\ scan[t].grp = 0 /\ pc[t] # "links"
    BY <1>1, <1>6, <2>2 DEF ScanOn, BaseScan
  <2>3. CASE rest = {} /\ ~(scan[t].grp = 0 /\ pc[t] # "links")
    <3>1. CASE LaterBuckets(t, scan[t].grp, lm) # {}
      BY <1>1, <1>6, <2>3, <3>1 DEF ScanOn, BaseScan
    <3>2. CASE LaterBuckets(t, scan[t].grp, lm) = {}
      <4>1. NotFound(t) \in {"check", "finalize", "reserve", "choose"} /\ (NotFound(t) = "finalize" => Reserved(t))
        BY DEF NotFound
      <4>2. /\ pc'[t] = NotFound(t)
            /\ scan'[t].slot = scan[t].slot /\ scan'[t].idx = scan[t].idx /\ scan'[t].h = scan[t].h
        BY <1>1, <1>6, <2>3, <3>2 DEF ScanOn, BaseScan
      <4> QED BY <4>1, <4>2
    <3> QED BY <3>1, <3>2
  <2> QED BY <2>1, <2>2, <2>3
<1>7. ASSUME pc[t] \in {"match", "probe", "links"}, NEW rest, NEW lm, ScanOn(t, rest, lm)
      PROVE  /\ OwnerInv(t)' /\ pc[t] \notin MovePC
             /\ pc'[t] \notin MovePC \cup {"setCtx", "finActive", "attachSingle", "attachPair"}
  BY <1>1, <1>2, <1>6, <1>7, SameOwner DEF OwnerInv, Reserved
<1>8. CASE MatchKeys(t)
  BY <1>7, <1>8 DEF MatchKeys
<1>9. CASE LoadLinks(t)
  BY <1>7, <1>9 DEF LoadLinks
<1>10. CASE Probe(t)
  <2>1. CASE ScanOn(t, scan[t].bm \ {Lowest(scan[t].bm)}, scan[t].lm)
    BY <1>7, <1>10, <2>1 DEF Probe
  <2>2. CASE ~ScanOn(t, scan[t].bm \ {Lowest(scan[t].bm)}, scan[t].lm)
    <3> DEFINE e == slotVal[SlotLoc(Bin(t), Lowest(scan[t].bm))]
    <3>1. pc[t] = "probe" /\ pc'[t] = "check" /\ scan'[t] = Found(t, Lowest(scan[t].bm), e)
      BY <1>1, <1>10, <2>2 DEF Probe
    <3>2. /\ scan'[t].idx = scan[t].idx /\ scan'[t].h = scan[t].h
          /\ call[t].kind = "Insert" => scan'[t].slot = scan[t].slot
      BY <1>1, <3>1 DEF Found, BaseScan
    <3> QED BY <1>1, <1>2, <3>1, <3>2, SameOwner DEF OwnerInv, Reserved
  <2> QED BY <2>1, <2>2
<1>11. CASE CheckStale(t)
  <2>1. CASE Reserved(t)
    <3>1. pc[t] = "check" /\ pc'[t] = "load2" /\ scan'[t] = Kept(t)
      BY <1>1, <1>11, <2>1 DEF CheckStale, KeepSlot
    <3> QED BY <1>1, <1>2, <2>1, <3>1, SameOwner DEF Kept, FreshScan
  <2>2. CASE ~Reserved(t)
    <3>1. pc[t] = "check" /\ pc'[t] = "load" /\ scan'[t] = FreshScan(scan[t].idx)
      BY <1>1, <1>11, <2>2 DEF CheckStale, Retry
    <3> QED BY <1>1, <1>2, <3>1, SameOwner DEF FreshScan, Reserved
  <2> QED BY <2>1, <2>2
<1>12. CASE CheckAnswer(t)
  <2>1. pc[t] = "check" /\ pc'[t] \in {"unres", "idle"}
    BY <1>1, <1>12 DEF CheckAnswer
  <2> QED BY <1>1, <1>2, <2>1, SameOwner
<1>13. CASE CheckTarget(t)
  <2>1. pc[t] = "check" /\ pc'[t] = "dwcas"
    BY <1>1, <1>13 DEF CheckTarget
  <2> QED BY <1>1, <1>2, <2>1, SameOwner
<1> QED BY <1>3, <1>4, <1>5, <1>8, <1>9, <1>10, <1>11, <1>12, <1>13 DEF ScanStep

\* The lookup changes nothing that is shared.
LEMMA ScanL ==
  ASSUME IInv, IInv', RInv, LInv, NEW t \in Thread, ScanStep(t) PROVE LInv'
<1>1. UNCHANGED <<memory, arena, roots>>
  BY DEF ScanStep, LoadActive, LoadHeader, Follow, MatchKeys, Probe, LoadLinks, CheckStale, CheckAnswer,
     CheckTarget
<1>2. /\ header' = header /\ linkMeta' = linkMeta /\ slotKey' = slotKey
      /\ linkNext' = linkNext /\ linkCapacity' = linkCapacity
      /\ active' = active /\ resizeCtx' = resizeCtx /\ ctx' = ctx
  BY <1>1 DEF memory, arena, roots
<1>3. \A bin \in BinId : KeysKept(bin)
  BY <1>2, KeepKeys DEF Keeps
<1>4. \A g \in 0..(MaxGen - 1) : ctx'[g].chunksDone >= ctx[g].chunksDone /\ (Started(g)' <=> Started(g))
  BY <1>2, CtxType DEF Started
<1>5. OthersSame(t) /\ \A u \in Thread \ {t} : call'[u] = call[u]
  BY ScanFrame DEF Quiet
<1> QED BY <1>2, <1>3, <1>4, <1>5, ScanOwner, CallL

\* At a found slot no key changes and no slot becomes Valid.
LEMMA SlotL ==
  ASSUME IInv, IInv', RInv, LInv, NEW t \in Thread, SlotStep(t) PROVE LInv'
<1>1. /\ pc \in [Thread -> PC] /\ scan \in [Thread -> BaseScan] /\ scan[t] \in BaseScan
      /\ header \in [BinId -> Header]
  BY DEF IInv, BaseType, BaseLocal, BaseMemory
<1>2. pc[t] \in SlotPC /\ pc[t] \in UsesPC /\ pc[t] # "idle"
  BY DEF SlotStep, DWCASHit, DWCASMiss, LoopHeader, LoopKey, LoopVal, LoopCheck, LoopTTAS,
         markSlotInvalid, SlotPC, UsesPC
<1>3. /\ UNCHANGED <<call, linkMeta, slotKey, linkNext, linkCapacity, active, resizeCtx, ctx>>
      /\ UNCHANGED <<ins, xfer>>
  BY DEF SlotStep, DWCASHit, DWCASMiss, LoopHeader, LoopKey, LoopVal, LoopCheck, LoopTTAS,
         markSlotInvalid, memory, arena, roots, api
<1>4. Bin(t) \in BinId /\ scan[t].slot \in SlotIdx
  <2>1. scan[t].slot # NoSlot
    BY <1>2, Locals DEF ScanInv, NeedsSlot
  <2> QED BY <1>1, <1>2, <2>1, BinType DEF BaseScan
<1>5. \A bin \in BinId : /\ header'[bin].bs = header[bin].bs
                         /\ header'[bin].ss = header[bin].ss \/ (pc[t] \in UsesPC /\ bin = Bin(t))
                         /\ \A i \in SlotIdx : header'[bin].ss[i] = SlotValid => header[bin].ss[i] = SlotValid
  <2>1. CASE markSlotInvalid(t)
    <3> DEFINE b == Bin(t)
    <3>1. header' = [header EXCEPT ![b].ss[scan[t].slot] = SlotInvalid]
      BY <2>1 DEF markSlotInvalid
    <3> HIDE DEF b
    <3>2. \A bin \in BinId : bin # b => header'[bin] = header[bin]
      BY <1>1, <3>1
    <3>3. /\ header'[b].bs = header[b].bs
          /\ \A i \in SlotIdx : header'[b].ss[i] = IF i = scan[t].slot THEN SlotInvalid ELSE header[b].ss[i]
      <4>1. header[b] \in Header
        BY <1>1, <1>4 DEF b
      <4>2. header'[b] = [header[b] EXCEPT !.ss = [header[b].ss EXCEPT ![scan[t].slot] = SlotInvalid]]
        BY <1>1, <1>4, <3>1 DEF b, Header
      <4> QED BY <4>1, <4>2 DEF Header
    <3> QED BY <1>2, <3>2, <3>3 DEF SlotValid, SlotInvalid, b
  <2>2. CASE ~markSlotInvalid(t)
    <3>1. header' = header
      BY <2>2 DEF SlotStep, DWCASHit, DWCASMiss, LoopHeader, LoopKey, LoopVal, LoopCheck, LoopTTAS,
         memory
    <3> QED BY <3>1
  <2> QED BY <2>1, <2>2
<1>6. /\ \A u \in Thread \ {t} : pc'[u] = pc[u] /\ scan'[u] = scan[u]
      /\ pc'[t] \in SlotPC \cup {"load", "idle"}
      /\ pc'[t] = "load" => scan'[t].slot = NoSlot
  <2>1. \A g : FreshScan(g).slot = NoSlot
    BY DEF FreshScan
  <2>2. CASE DWCASHit(t) \/ DWCASMiss(t)
    BY <1>1, <2>1, <2>2 DEF DWCASHit, DWCASMiss, KeepSlot, SlotPC, Goto
  <2>3. CASE LoopHeader(t)
    BY <1>1, <2>1, <2>3 DEF LoopHeader, Retry, SlotPC, BaseScan, Goto
  <2>4. CASE LoopKey(t) \/ LoopCheck(t) \/ LoopTTAS(t)
    BY <1>1, <2>1, <2>4 DEF LoopKey, LoopCheck, LoopTTAS, KeepSlot, Retry, SlotPC, Goto
  <2>5. CASE LoopVal(t)
    BY <1>1, <2>1, <2>5 DEF LoopVal, Retry, SlotPC, BaseScan, Goto
  <2>6. CASE markSlotInvalid(t)
    BY <1>1, <2>6 DEF markSlotInvalid, Goto
  <2> QED BY <2>2, <2>3, <2>4, <2>5, <2>6 DEF SlotStep
<1>7. OthersSame(t)
  BY <1>3, <1>6 DEF OthersSame
<1>8. OwnerInv(t)'
  BY <1>6 DEF OwnerInv, HeadPC, FilledPC, ScanPC, SlotPC, Reserved
<1>9. \A bin \in BinId : KeysKept(bin)
  BY <1>3, KeepKeys DEF Keeps
<1>10. \A g \in 0..(MaxGen - 1) : /\ ctx'[g].chunksDone >= ctx[g].chunksDone
                                  /\ (Started(g)' <=> Started(g)) /\ (g < active' => g < active)
  BY <1>3, CtxType DEF Started
<1>11. pc[t] \notin MovePC /\ pc'[t] \notin MovePC \cup {"setCtx", "finActive", "attachSingle", "attachPair"}
  BY <1>2, <1>6 DEF MovePC, TransferPC, SlotPC
<1>12. \A bin \in BinId : \A i \in SlotIdx :
         header[bin].bs = BinNoTransfer /\ header'[bin].ss[i] = SlotValid =>
           header[bin].ss[i] = SlotValid \/ KeyInBin(bin, i)'
  BY <1>5
<1>13. \A bin \in BinId : /\ header'[bin].bs = header[bin].bs
                          /\ header'[bin].ss = header[bin].ss \/ (pc[t] \in UsesPC /\ bin = Bin(t))
  BY <1>5
<1> QED BY <1>3, <1>7, <1>8, <1>9, <1>10, <1>11, <1>12, <1>13, CallL

\* A key that is written to a slot is written to that slot only.
LEMMA KeyWritten ==
  ASSUME IInv, LInv, NEW b \in BinId, NEW i \in SlotIdx, HasSlot(linkMeta[b], i), NEW k,
         slotKey'[SlotLoc(b, i)] = k,
         \A loc \in Loc : loc # SlotLoc(b, i) => slotKey'[loc] = slotKey[loc]
  PROVE  \A bin \in BinId : \A j \in SlotIdx : HasSlot(linkMeta[bin], j) =>
            slotKey'[SlotLoc(bin, j)] = IF bin = b /\ j = i THEN k ELSE slotKey[SlotLoc(bin, j)]
<1> SUFFICES ASSUME NEW bin \in BinId, NEW j \in SlotIdx, HasSlot(linkMeta[bin], j)
             PROVE  slotKey'[SlotLoc(bin, j)] = IF bin = b /\ j = i THEN k ELSE slotKey[SlotLoc(bin, j)]
  OBVIOUS
<1>1. slotKey \in [Loc -> Nat] /\ SlotLoc(bin, j) \in Loc /\ SlotLoc(b, i) \in Loc
  BY BinWords, LocType DEF IInv, BaseType, BaseMemory, SlotLoc
<1>2. SlotLoc(bin, j) = SlotLoc(b, i) => bin = b /\ j = i
  <2>1. bin[1] = b[1] =>
          \A n, m \in LinkNo : resolveLink(linkMeta[bin], n) = resolveLink(linkMeta[b], m)
                               /\ resolveLink(linkMeta[bin], n) # NO_LINK => bin = b /\ n = m
    BY DEF LInv, LinksInv, OneOwner
  <2>2. linkMeta[bin] \in LinkMeta /\ linkMeta[b] \in LinkMeta
    BY BinWords
  <2> HIDE DEF LinkNo
  <2> QED BY <2>1, <2>2, LocApart DEF SlotLoc
<1> QED BY <1>1, <1>2

\* One slot of a header is set.
LEMMA SlotSet ==
  ASSUME IInv, NEW b \in BinId, NEW i \in SlotIdx, NEW st,
         header'[b] = setSlotStateAndVersion(header[b], i, st),
         \A bin \in BinId : bin # b => header'[bin] = header[bin]
  PROVE  /\ \A bin \in BinId : bin # b => header'[bin] = header[bin]
         /\ header'[b].bs = header[b].bs
         /\ \A j \in SlotIdx : header'[b].ss[j] = IF j = i THEN st ELSE header[b].ss[j]
<1>1. header \in [BinId -> Header] /\ header[b] \in Header
  BY DEF IInv, BaseType, BaseMemory
<1> QED BY <1>1 DEF setSlotStateAndVersion, Header

\* An Insert in its bin, when it takes no link.
LEMMA InsertCall ==
  ASSUME IInv, IInv', RInv, LInv, NEW t \in Thread, InsertStep(t),
         UNCHANGED <<linkMeta, linkNext, linkCapacity>>, pc'[t] \notin {"attachSingle", "attachPair"},
         \A bin \in BinId : KeysKept(bin) /\ (header'[bin].ss = header[bin].ss \/ bin = Bin(t)),
         \A bin \in BinId : \A i \in SlotIdx :
           header[bin].bs = BinNoTransfer /\ header'[bin].ss[i] = SlotValid =>
             header[bin].ss[i] = SlotValid \/ KeyInBin(bin, i)',
         OwnerInv(t)'
  PROVE  LInv'
<1>1. /\ UNCHANGED <<call, xfer, active, resizeCtx, ctx>>
      /\ pc[t] \in InsertPC /\ pc'[t] \in CallPC
      /\ \A bin \in BinId : header'[bin].bs = header[bin].bs
      /\ \A u \in Thread \ {t} : pc'[u] = pc[u] /\ scan'[u] = scan[u] /\ ins'[u] = ins[u]
  BY InsertFrame
<1>2. OthersSame(t) /\ \A u \in Thread \ {t} : call'[u] = call[u]
  BY <1>1 DEF OthersSame
<1>3. pc[t] \in UsesPC /\ pc[t] \notin MovePC /\ pc'[t] \notin MovePC \cup {"setCtx", "finActive"}
  BY <1>1 DEF MovePC, TransferPC, CallPC, UsesPC, ScanPC, SlotPC, InsertPC, OwnPC
<1>4. \A g \in 0..(MaxGen - 1) : /\ ctx'[g].linkNextResize = ctx[g].linkNextResize
                                 /\ ctx'[g].chunksDone >= ctx[g].chunksDone
                                 /\ (Started(g)' <=> Started(g)) /\ (g < active' => g < active)
  BY <1>1, CtxType DEF Started
<1>5. \A bin \in BinId : /\ KeysKept(bin)
                         /\ header'[bin].ss = header[bin].ss \/ (pc[t] \in UsesPC /\ bin = Bin(t))
  BY <1>3
<1> QED BY <1>1, <1>2, <1>3, <1>4, <1>5, CallL

\* An Insert that writes neither a header nor a key nor a link.
LEMMA InsertLocal ==
  ASSUME IInv, IInv', RInv, LInv, NEW t \in Thread, InsertStep(t),
         UNCHANGED <<header, slotKey, linkMeta, linkNext, linkCapacity>>,
         pc'[t] \notin {"attachSingle", "attachPair"},
         pc'[t] \in HeadPC => scan'[t].h.bs = BinNoTransfer,
         pc'[t] \in FilledPC \/ (pc'[t] \in ScanPC /\ Reserved(t)') =>
           pc[t] \in FilledPC /\ scan'[t].slot = scan[t].slot /\ scan'[t].idx = scan[t].idx
  PROVE  LInv'
<1>1. \A bin \in BinId : KeysKept(bin)
  BY KeepKeys DEF Keeps
<1>2. call'[t] = call[t]
  BY InsertFrame
<1>3. OwnerInv(t)'
  BY <1>2, SameOwner
<1> QED BY <1>1, <1>3, InsertCall

\* The choice of a slot, the store of the entry, and the loads.
LEMMA InsertLoadsL ==
  ASSUME IInv, IInv', RInv, LInv, NEW t \in Thread,
         \/ ChooseHeader(t) \/ ChooseLinks(t) \/ FillVal(t)
         \/ LoadHeader2(t) \/ UnreserveLoad(t) \/ UnreserveClear(t)
  PROVE  LInv'
<1>1. /\ pc \in [Thread -> PC] /\ scan \in [Thread -> BaseScan] /\ scan[t] \in BaseScan
      /\ ins[t].cont \in {"idle", "load", "follow", "active"} /\ OwnerInv(t)
  BY Locals DEF IInv, BaseType, BaseLocal, LInv, InsRec
<1>2. UNCHANGED <<header, slotKey, linkMeta, linkNext, linkCapacity>> /\ InsertStep(t)
  BY DEF ChooseHeader, ChooseLinks, FillVal, LoadHeader2, UnreserveLoad, UnreserveClear, InsertStep,
         memory, arena
<1> DEFINE Out == /\ pc'[t] \notin {"attachSingle", "attachPair"}
                  /\ pc'[t] \in HeadPC => scan'[t].h.bs = BinNoTransfer
                  /\ pc'[t] \in FilledPC \/ (pc'[t] \in ScanPC /\ Reserved(t)') =>
                       pc[t] \in FilledPC /\ scan'[t].slot = scan[t].slot /\ scan'[t].idx = scan[t].idx
<1>3. \A g : FreshScan(g).slot = NoSlot
  BY DEF FreshScan
<1> USE DEF HeadPC, FilledPC, ScanPC, Goto
<1>4. CASE ChooseHeader(t)
  <2>1. pc'[t] \in {"reserve", "chooseLinks"} /\ pc[t] = "choose" /\ scan' = scan
    BY <1>1, <1>4 DEF ChooseHeader
  <2>2. Out
    BY <1>1, <2>1 DEF OwnerInv
  <2> QED BY <1>2, <2>2, InsertLocal
<1>5. CASE ChooseLinks(t)
  <2>1. /\ pc'[t] \in {"reserve", "allocLink", "allocPair", "trigger"} /\ pc[t] = "chooseLinks"
        /\ pc'[t] = "trigger" \/ scan' = scan
    BY <1>1, <1>5 DEF ChooseLinks, NoRoom
  <2>2. Out
    BY <1>1, <2>1 DEF OwnerInv
  <2> QED BY <1>2, <2>2, InsertLocal
<1>6. CASE FillVal(t)
  <2>1. pc'[t] = "finalize" /\ pc[t] = "fillVal" /\ scan' = scan
    BY <1>1, <1>6 DEF FillVal
  <2>2. Out
    BY <1>1, <2>1 DEF OwnerInv
  <2> QED BY <1>2, <2>2, InsertLocal
<1>7. CASE LoadHeader2(t)
  <2>1. CASE header[Bin(t)].bs = BinNoTransfer
    <3>1. /\ pc[t] = "load2" /\ pc'[t] = "match" /\ scan'[t].h = header[Bin(t)]
          /\ scan'[t].slot = scan[t].slot /\ scan'[t].idx = scan[t].idx
      BY <1>1, <1>7, <2>1 DEF LoadHeader2, BaseScan
    <3>2. Out
      BY <2>1, <3>1
    <3> QED BY <1>2, <3>2, InsertLocal
  <2>2. CASE header[Bin(t)].bs # BinNoTransfer
    <3>1. pc'[t] = "unres"
      BY <1>1, <1>7, <2>2 DEF LoadHeader2
    <3>2. Out
      BY <3>1
    <3> QED BY <1>2, <3>2, InsertLocal
  <2> QED BY <2>1, <2>2
<1>8. CASE UnreserveLoad(t)
  <2>1. \/ pc'[t] = "unresClear"
        \/ pc'[t] = ins[t].cont /\ scan'[t].slot = NoSlot
    BY <1>1, <1>3, <1>8 DEF UnreserveLoad, Unreserved
  <2>2. Out
    BY <1>1, <2>1 DEF Reserved
  <2> QED BY <1>2, <2>2, InsertLocal
<1>9. CASE UnreserveClear(t)
  <2>1. pc'[t] = "unresCAS"
    BY <1>1, <1>9 DEF UnreserveClear
  <2>2. Out
    BY <2>1
  <2> QED BY <1>2, <2>2, InsertLocal
<1> QED BY <1>4, <1>5, <1>6, <1>7, <1>8, <1>9

\* The key that Insert writes belongs to its bin.
LEMMA FillKeyL ==
  ASSUME IInv, IInv', RInv, LInv, NEW t \in Thread, FillKey(t) PROVE LInv'
<1>1. /\ pc \in [Thread -> PC] /\ scan[t] \in BaseScan /\ OwnerInv(t) /\ pc[t] = "fillKey"
      /\ InsertStep(t)
      /\ header' = header /\ linkMeta' = linkMeta /\ linkNext' = linkNext /\ linkCapacity' = linkCapacity
      /\ scan' = scan /\ call' = call
  BY Locals DEF IInv, BaseType, BaseLocal, LInv, FillKey, InsertStep, arena, api
<1>2. PICK b \in BinId, s \in SlotIdx, k \in Nat :
        b = Bin(t) /\ s = scan[t].slot /\ k = hash(t) /\ InBin(b, k)
  <2>1. scan[t].slot # NoSlot
    BY <1>1, Locals DEF ScanInv, NeedsSlot, OwnPC
  <2>2. scan[t].slot \in SlotIdx /\ Bin(t) \in BinId /\ hash(t) \in Nat
    BY <1>1, <2>1, BinType DEF BaseScan
  <2>3. InBin(Bin(t), hash(t))
    BY <1>1, BinType DEF InBin, Bin, getBin
  <2> QED BY <2>2, <2>3
<1>3. CASE HasSlot(linkMeta[b], s)
  <2>1. /\ slotKey' = [slotKey EXCEPT ![SlotLoc(b, s)] = k] /\ pc'[t] = "fillVal"
    BY <1>1, <1>2, <1>3 DEF FillKey, Goto, OpLoc
  <2>2. \A bin \in BinId : \A j \in SlotIdx : HasSlot(linkMeta[bin], j) =>
           slotKey'[SlotLoc(bin, j)] = IF bin = b /\ j = s THEN k ELSE slotKey[SlotLoc(bin, j)]
    <3>1. slotKey \in [Loc -> Nat] /\ SlotLoc(b, s) \in Loc
      BY <1>3, BinWords, LocType DEF IInv, BaseType, BaseMemory, SlotLoc
    <3>2. slotKey'[SlotLoc(b, s)] = k /\ \A loc \in Loc : loc # SlotLoc(b, s) => slotKey'[loc] = slotKey[loc]
      BY <2>1, <3>1
    <3> QED BY <1>3, <3>2, KeyWritten
  <2>3. ASSUME NEW bin \in BinId PROVE KeysKept(bin)
    <3> SUFFICES ASSUME NEW j \in SlotIdx, HasSlot(linkMeta[bin], j), KeyInBin(bin, j)
                 PROVE  KeyInBin(bin, j)'
      BY DEF KeysKept
    <3>1. SlotLoc(bin, j)' = SlotLoc(bin, j)
      BY <1>1 DEF SlotLoc
    <3> QED BY <1>2, <2>2, <3>1 DEF KeyInBin, InBin
  <2>4. OwnerInv(t)'
    <3>1. slotKey'[SlotLoc(b, s)] = k
      BY <1>3, <2>2
    <3>2. Bin(t)' = b /\ scan'[t].slot = s /\ SlotLoc(b, s)' = SlotLoc(b, s)
      BY <1>1, <1>2 DEF Bin, hash, SlotLoc
    <3>3. KeyInBin(b, s)'
      BY <1>2, <3>1, <3>2 DEF KeyInBin, InBin
    <3>4. KeyInBin(Bin(t), scan[t].slot)'
      BY <3>2, <3>3 DEF KeyInBin, InBin
    <3>5. scan'[t].h.bs = BinNoTransfer
      BY <1>1 DEF OwnerInv, HeadPC
    <3> QED BY <3>4, <3>5 DEF OwnerInv
  <2> QED BY <1>1, <2>1, <2>3, <2>4, InsertCall
<1>4. CASE ~HasSlot(linkMeta[b], s)
  <2>1. slotKey' = slotKey /\ pc'[t] = "unres"
    BY <1>1, <1>2, <1>4 DEF FillKey, Goto
  <2> QED BY <1>1, <2>1, InsertLocal DEF HeadPC, FilledPC, ScanPC
<1> QED BY <1>3, <1>4

\* The headers that Insert writes: a slot that it makes Valid has a key of the bin.
LEMMA InsertHeaderL ==
  ASSUME IInv, IInv', RInv, LInv, NEW t \in Thread,
         reserveSlot(t) \/ finalizeSlot(t) \/ UnreserveCAS(t)
  PROVE  LInv'
<1>1. /\ pc \in [Thread -> PC] /\ scan \in [Thread -> BaseScan] /\ scan[t] \in BaseScan
      /\ OwnerInv(t) /\ InsertStep(t)
      /\ linkMeta' = linkMeta /\ linkNext' = linkNext /\ linkCapacity' = linkCapacity /\ slotKey' = slotKey
      /\ ins[t].cont \in {"idle", "load", "follow", "active"}
  BY Locals DEF IInv, BaseType, BaseLocal, LInv, InsRec, reserveSlot, finalizeSlot, UnreserveCAS, InsertStep,
     arena, memory
<1>2. Bin(t) \in BinId /\ ScanInv(t) /\ InsInv(t) /\ pc[t] # "idle" /\ header[Bin(t)] \in Header
      /\ pc[t] \in {"reserve", "finalize", "unresCAS"}
  BY Locals, BinType DEF reserveSlot, finalizeSlot, UnreserveCAS
<1>3. (\A bin \in BinId : KeysKept(bin)) /\ call'[t] = call[t]
  BY <1>1, KeepKeys, InsertFrame DEF Keeps
<1>4. \A g : FreshScan(g).slot = NoSlot
  BY DEF FreshScan
<1>5. ASSUME NEW i \in SlotIdx, NEW st \in {SlotTrying, SlotInvalid},
             header' = [header EXCEPT ![Bin(t)] = setSlotStateAndVersion(header[Bin(t)], i, st)],
             pc'[t] \notin {"attachSingle", "attachPair"}, OwnerInv(t)'
      PROVE  LInv'
  <2>0. PICK b \in BinId : b = Bin(t)
    BY <1>2
  <2>1. /\ \A bin \in BinId : bin # b => header'[bin] = header[bin]
        /\ \A j \in SlotIdx : header'[b].ss[j] = IF j = i THEN st ELSE header[b].ss[j]
    <3>1. /\ header'[b] = setSlotStateAndVersion(header[b], i, st)
          /\ \A bin \in BinId : bin # b => header'[bin] = header[bin]
      BY <1>5, <2>0 DEF IInv, BaseType, BaseMemory
    <3> QED BY <3>1, SlotSet
  <2>2. \A bin \in BinId : \A j \in SlotIdx :
           header[bin].bs = BinNoTransfer /\ header'[bin].ss[j] = SlotValid => header[bin].ss[j] = SlotValid
    BY <2>1 DEF SlotTrying, SlotInvalid, SlotValid
  <2>3. \A bin \in BinId : header'[bin].ss = header[bin].ss \/ bin = Bin(t)
    BY <2>0, <2>1
  <2> QED BY <1>1, <1>3, <1>5, <2>2, <2>3, InsertCall
<1> USE DEF HeadPC, FilledPC, ScanPC, Goto
<1>6. CASE reserveSlot(t)
  <2> DEFINE i == IF invalidMask(scan[t].h, 0) # {} THEN Lowest(invalidMask(scan[t].h, 0)) ELSE ins[t].pick
  <2>1. i \in SlotIdx
    <3>1. invalidMask(scan[t].h, 0) \subseteq SlotIdx /\ scan[t].h \in Header
      BY <1>1, HeaderOps DEF BaseScan
    <3>2. invalidMask(scan[t].h, 0) # {} => Lowest(invalidMask(scan[t].h, 0)) \in SlotIdx
      BY <3>1, LowestIn, SlotIdxNat
    <3>3. invalidMask(scan[t].h, 0) = {} => ins[t].pick \in SlotIdx
      BY <1>2, <1>6, Locals DEF reserveSlot, InsInv, InsRec
    <3> QED BY <3>2, <3>3
  <2> HIDE DEF i
  <2>2. CASE Validated(t)
    <3>1. /\ header' = [header EXCEPT ![Bin(t)] = setSlotStateAndVersion(header[Bin(t)], i, SlotTrying)]
          /\ pc'[t] = "fillKey" /\ pc[t] = "reserve"
          /\ scan'[t].h = setSlotStateAndVersion(header[Bin(t)], i, SlotTrying)
          /\ header[Bin(t)] = scan[t].h
      BY <1>1, <1>6, <2>2 DEF reserveSlot, Validated, BaseScan, i
    <3>2. scan'[t].h.bs = BinNoTransfer
      BY <1>1, <3>1 DEF OwnerInv, setSlotStateAndVersion
    <3>3. OwnerInv(t)'
      BY <3>1, <3>2 DEF OwnerInv
    <3> QED BY <1>5, <2>1, <3>1, <3>3
  <2>3. CASE ~Validated(t)
    <3>1. header' = header /\ pc'[t] = "load" /\ scan'[t].slot = NoSlot
      BY <1>1, <1>4, <1>6, <2>3 DEF reserveSlot, Retry
    <3> QED BY <1>1, <3>1, InsertLocal DEF Reserved
  <2> QED BY <2>2, <2>3
<1>7. CASE finalizeSlot(t)
  <2>1. CASE Validated(t)
    <3>1. /\ header' = [header EXCEPT ![Bin(t)] = setSlotStateAndVersion(header[Bin(t)], scan[t].slot, SlotValid)]
          /\ pc[t] = "finalize" /\ pc'[t] = "idle" /\ header[Bin(t)] = scan[t].h
      BY <1>1, <1>7, <2>1 DEF finalizeSlot, Validated
    <3>2. PICK b \in BinId, s \in SlotIdx : b = Bin(t) /\ s = scan[t].slot
      BY <3>1, FilledSlot
    <3>3. KeyInBin(b, s)
      BY <1>1, <3>1, <3>2 DEF OwnerInv
    <3>4. /\ \A bin \in BinId : bin # b => header'[bin] = header[bin]
          /\ \A j \in SlotIdx : header'[b].ss[j] = IF j = s THEN SlotValid ELSE header[b].ss[j]
      <4>1. /\ header'[b] = setSlotStateAndVersion(header[b], s, SlotValid)
            /\ \A bin \in BinId : bin # b => header'[bin] = header[bin]
        BY <3>1, <3>2 DEF IInv, BaseType, BaseMemory
      <4> QED BY <4>1, SlotSet
    <3>7. ASSUME NEW bin \in BinId, NEW i \in SlotIdx, header[bin].bs = BinNoTransfer,
                 header'[bin].ss[i] = SlotValid, header[bin].ss[i] # SlotValid
          PROVE  KeyInBin(bin, i)'
      <4>1. bin = b /\ i = s
        BY <3>4, <3>7
      <4>2. KeyInBin(bin, i)
        BY <3>3, <4>1
      <4>3. SlotLoc(bin, i)' = SlotLoc(bin, i)
        BY <1>1 DEF SlotLoc
      <4> QED BY <1>1, <4>2, <4>3 DEF KeyInBin, InBin
    <3>8. \A bin \in BinId : header'[bin].ss = header[bin].ss \/ bin = Bin(t)
      BY <3>2, <3>4
    <3>9. OwnerInv(t)'
      BY <3>1 DEF OwnerInv
    <3> QED BY <1>1, <1>3, <3>1, <3>7, <3>8, <3>9, InsertCall
  <2>2. CASE ~Validated(t)
    <3>1. /\ header' = header /\ pc[t] = "finalize" /\ pc'[t] = "load2" /\ scan'[t] = Kept(t)
      BY <1>1, <1>7, <2>2 DEF finalizeSlot, KeepSlot, memory
    <3>2. scan'[t].slot = scan[t].slot /\ scan'[t].idx = scan[t].idx
      BY <3>1 DEF Kept, FreshScan
    <3> QED BY <1>1, <3>1, <3>2, InsertLocal
  <2> QED BY <2>1, <2>2
<1>8. CASE UnreserveCAS(t)
  <2>1. scan[t].slot \in SlotIdx
    BY <1>1, <1>2, <1>8, Locals DEF UnreserveCAS, ScanInv, NeedsSlot, OwnPC, BaseScan
  <2>2. CASE header[Bin(t)] = ins[t].h
    <3>1. /\ header' = [header EXCEPT ![Bin(t)] = setSlotStateAndVersion(header[Bin(t)], scan[t].slot, SlotInvalid)]
          /\ pc'[t] = ins[t].cont /\ scan'[t].slot = NoSlot
      BY <1>1, <1>4, <1>8, <2>2 DEF UnreserveCAS, Unreserved
    <3>2. OwnerInv(t)'
      BY <1>1, <3>1 DEF OwnerInv, Reserved
    <3> QED BY <1>1, <1>5, <2>1, <3>1, <3>2
  <2>3. CASE header[Bin(t)] # ins[t].h
    <3>1. header' = header /\ pc'[t] = "unres"
      BY <1>1, <1>8, <2>3 DEF UnreserveCAS
    <3> QED BY <1>1, <3>1, InsertLocal
  <2> QED BY <2>2, <2>3
<1> QED BY <1>6, <1>7, <1>8

\* The arena of an index in which calls work: what is handed out from the bottom is
\* below what the transfers took from the top.
LEMMA BottomTop ==
  ASSUME IInv, RInv, LInv, NEW t \in Thread, pc[t] \in UsesPC
  PROVE  \A a \in Nat : a <= linkCapacity[scan[t].idx] => ~High(scan[t].idx, a)
<1> SUFFICES ASSUME NEW a \in Nat, a <= linkCapacity[scan[t].idx], High(scan[t].idx, a) PROVE FALSE
  OBVIOUS
<1>1. PICK g \in Gen : g = scan[t].idx
  <2>1. pc[t] # "idle"
    BY DEF UsesPC, ScanPC, SlotPC, InsertPC, OwnPC
  <2> QED BY <2>1, BinType
<1>2. g > 0 /\ ctx[g - 1].linkNextResize <= a
  BY <1>1 DEF High
<1>3. Started(g - 1) /\ g - 1 \in 0..(MaxGen - 1) /\ (g - 1) + 1 = g
  <2>1. g - 1 \in 0..(MaxGen - 1) /\ (g - 1) + 1 = g
    BY <1>2, SizeAssumption DEF Gen
  <2>2. Started(scan[t].idx - 1)
    BY <1>1, <1>2, UsesNew
  <2> QED BY <1>1, <2>1, <2>2
<1>4. linkCapacity[g] < ctx[g - 1].linkNextResize
  <2>1. EndsInv(g - 1)
    BY <1>3 DEF LInv
  <2> QED BY <1>3, <2>1 DEF EndsInv
<1>5. linkCapacity[g] \in Int /\ ctx[g - 1].linkNextResize \in Int
  BY <1>3, CtxType DEF CtxRec, IInv, BaseType, RootType
<1> QED BY <1>1, <1>2, <1>4, <1>5

\* The links that a thread allocated are numbers of its arena.
LEMMA HeldType ==
  ASSUME IInv, NEW t \in Thread
  PROVE  /\ Held(t) \subseteq Nat
         /\ Held(t) # {} => pc[t] \in {"attachSingle", "attachPair"} /\ scan[t].idx \in Gen
         /\ \A a \in Held(t) : a > 0
<1>1. CASE pc[t] \in {"attachSingle", "attachPair"}
  <2>1. InsInv(t) /\ scan[t].idx \in Gen /\ ins[t].link \in Nat
    BY <1>1, Locals, BinType DEF InsRec
  <2>2. NumLinks[scan[t].idx] \in Nat
    BY <2>1, SizeAssumption
  <2>3. ins[t].link > 0
    BY <1>1, <2>1, <2>2 DEF InsInv
  <2> QED BY <1>1, <2>1, <2>3 DEF Held
<1>2. CASE pc[t] \notin {"attachSingle", "attachPair"}
  <2>1. Held(t) = {}
    BY <1>2 DEF Held
  <2> QED BY <2>1
<1> QED BY <1>1, <1>2

\* A link that is handed out has no owner, and nobody else holds it.
LEMMA AllocateL ==
  ASSUME IInv, IInv', RInv, LInv, NEW t \in Thread, NEW n \in {1, 2}, NEW next,
         \/ pc[t] = "allocLink" /\ n = 1 /\ next = "attachSingle"
         \/ pc[t] = "allocPair" /\ n = 2 /\ next = "attachPair",
         Allocate(t, n, next), InsertStep(t)
  PROVE  LInv'
<1>1. /\ pc \in [Thread -> PC] /\ scan \in [Thread -> BaseScan] /\ ins \in [Thread -> InsRec]
      /\ OwnerInv(t) /\ LinksInv /\ RootType /\ linkNext \in [Gen -> Nat]
      /\ header' = header /\ linkMeta' = linkMeta /\ slotKey' = slotKey /\ linkCapacity' = linkCapacity
      /\ UNCHANGED <<active, resizeCtx, ctx, call, xfer>>
  BY DEF IInv, BaseType, BaseLocal, LInv, Allocate, memory, roots, api, RootType
<1>2. PICK g \in Gen : g = scan[t].idx
  BY Locals DEF ThreadInv
<1>3. /\ linkNext' = [linkNext EXCEPT ![g] = IF linkNext[g] + n <= NumLinks[g] THEN linkNext[g] + n ELSE NumLinks[g] + 1]
      /\ \A u \in Thread \ {t} : pc'[u] = pc[u] /\ scan'[u] = scan[u] /\ ins'[u] = ins[u]
      /\ \/ /\ pc'[t] = "trigger"
         \/ /\ ~(linkNext[g] + 1 + n - 1 > linkCapacity[g])
            /\ pc'[t] = next /\ scan' = scan /\ ins'[t].link = linkNext[g] + 1
  BY <1>1, <1>2 DEF Allocate, NoRoom, Goto, InsRec
<1>4. /\ linkNext[g] \in Nat /\ linkCapacity[g] \in Int /\ NumLinks[g] \in Nat /\ linkCapacity[g] <= NumLinks[g]
      /\ linkNext'[g] = IF linkNext[g] + n <= NumLinks[g] THEN linkNext[g] + n ELSE NumLinks[g] + 1
      /\ \A f \in Gen : f # g => linkNext'[f] = linkNext[f]
  BY <1>1, <1>3, SizeAssumption, Roots DEF RootType, ArenaInv
<1>5. OthersSame(t) /\ LinksKept /\ (\A bin \in BinId : KeysKept(bin)) /\ \A bin \in BinId : LinksOf(bin)' = LinksOf(bin)
  BY <1>1, <1>3, KeepKeys DEF OthersSame, LinksKept, Keeps, LinksOf
<1>6. pc[t] \in UsesPC /\ pc[t] \notin MovePC /\ pc'[t] \notin MovePC \cup {"setCtx", "finActive"}
  BY <1>3 DEF MovePC, TransferPC, UsesPC, InsertPC
<1>7. OwnerInv(t)'
  BY <1>1, <1>3 DEF OwnerInv, HeadPC, FilledPC, ScanPC
<1>8. LinkFrame(t)
  BY <1>1, <1>5, <1>6 DEF LinkFrame, Untouched
<1>9. \A f \in 0..(MaxGen - 1) : EndsInv(f)'
  <2>1. ASSUME NEW f \in 0..(MaxGen - 1), ~Started(f) PROVE linkNext'[f + 1] = linkNext[f + 1]
    <3>1. f + 1 \in Gen
      BY CtxType
    <3>2. f + 1 # g
      <4> SUFFICES ASSUME f + 1 = g PROVE FALSE
        OBVIOUS
      <4>1. g > 0 /\ g - 1 = f
        BY SizeAssumption
      <4> QED BY <1>2, <1>6, <2>1, <4>1, UsesNew
    <3> QED BY <1>4, <3>1, <3>2
  <2>2. \A f \in 0..(MaxGen - 1) : ctx'[f].chunksDone >= ctx[f].chunksDone /\ (Started(f)' <=> Started(f))
    BY <1>1, CtxType DEF Started
  <2> QED BY <1>1, <1>5, <2>1, <2>2, SameEnds
<1>10. \A u \in Thread : FinInv(u)'
  <2>1. FinInv(t)'
    BY <1>6 DEF FinInv
  <2> QED BY <1>1, <1>5, <2>1, SameFin
<1>11. ASSUME NEW f \in Gen, NEW a \in Nat
       PROVE  (Low(f, a) => Low(f, a)') /\ (High(f, a)' <=> High(f, a))
  <2>1. linkCapacity[f] \in Int /\ linkNext[f] \in Nat
    BY <1>1 DEF RootType
  <2> QED BY <1>1, <1>4, <2>1 DEF Low, High
<1>12. Held(t)' = {} \/ (scan' = scan /\ \A a \in Held(t)' : a \in Nat /\ a > linkNext[g] /\ a <= linkCapacity[g] /\ a <= linkNext'[g])
  <2>1. CASE pc'[t] = "trigger"
    BY <2>1 DEF Held
  <2>2. CASE pc'[t] # "trigger"
    <3>1. CASE n = 1
      <4>1. Held(t)' = {linkNext[g] + 1}
        BY <1>3, <2>2, <3>1 DEF Held
      <4> QED BY <1>3, <1>4, <2>2, <3>1, <4>1
    <3>2. CASE n = 2
      <4>1. Held(t)' = {linkNext[g] + 1, linkNext[g] + 1 + 1}
        BY <1>3, <2>2, <3>2 DEF Held
      <4> QED BY <1>3, <1>4, <2>2, <3>2, <4>1
    <3> QED BY <3>1, <3>2
  <2> QED BY <2>1, <2>2
<1>13. HeldInv(t)'
  <2> SUFFICES ASSUME NEW a \in Held(t)'
               PROVE  Low(scan[t].idx, a)' /\ \A bin \in BinId : bin[1] = scan'[t].idx => a \notin LinksOf(bin)'
    BY DEF HeldInv
  <2>1. scan'[t].idx = g /\ a \in Nat /\ a > linkNext[g] /\ a <= linkCapacity[g] /\ a <= linkNext'[g]
    BY <1>2, <1>12
  <2>2. ~High(g, a) /\ ~Low(g, a)
    BY <1>2, <1>4, <1>6, <2>1, BottomTop DEF Low
  <2>3. \A bin \in BinId : bin[1] = g => a \notin LinksOf(bin)
    BY <1>1, <2>2 DEF LinksInv
  <2> QED BY <1>1, <1>5, <2>1, <2>3 DEF Low
<1>14. ASSUME NEW u \in Thread \ {t}
       PROVE  /\ HeldInv(u)' /\ Held(u)' = Held(u) /\ scan'[u].idx = scan[u].idx
              /\ scan'[u].idx = scan'[t].idx => Held(u)' \cap Held(t)' = {}
  <2>1. HeldInv(u) /\ Held(u)' = Held(u) /\ scan'[u] = scan[u]
    BY <1>1, <1>3 DEF LinksInv, Held
  <2>2. \A a \in Held(u) : a \in Nat /\ Low(scan[u].idx, a) /\ Low(scan[u].idx, a)' /\ scan[u].idx \in Gen
    BY <1>11, <2>1, HeldType DEF HeldInv
  <2>3. HeldInv(u)'
    BY <1>5, <2>1, <2>2 DEF HeldInv, Low
  <2>4. scan[u].idx = g => \A a \in Held(u) : a <= linkNext[g]
    BY <2>2 DEF Low
  <2>5. scan'[u].idx = scan'[t].idx => Held(u)' \cap Held(t)' = {}
    BY <1>2, <1>4, <1>12, <2>1, <2>2, <2>4
  <2> QED BY <2>1, <2>3, <2>5
<1>15. LinksInv'
  <2>1. \A bin \in BinId : \A a \in LinksOf(bin)' : Low(bin[1], a)' \/ High(bin[1], a)'
    <3> SUFFICES ASSUME NEW bin \in BinId, NEW a \in LinksOf(bin) PROVE Low(bin[1], a)' \/ High(bin[1], a)'
      BY <1>5
    <3>1. a \in Nat /\ bin[1] \in Gen
      BY LinkRange, BinIdGen, SizeAssumption
    <3> QED BY <1>1, <1>11, <3>1 DEF LinksInv
  <2>2. \A bin, other \in BinId : bin[1] = other[1] => OneOwner(bin, other)'
    BY <1>1 DEF LinksInv, OneOwner
  <2>3. \A u, v \in Thread : u # v /\ scan'[u].idx = scan'[v].idx => Held(u)' \cap Held(v)' = {}
    BY <1>1, <1>14 DEF LinksInv
  <2>4. \A u \in Thread : HeldInv(u)'
    BY <1>13, <1>14
  <2> QED BY <2>1, <2>2, <2>3, <2>4 DEF LinksInv
<1> QED BY <1>7, <1>8, <1>9, <1>10, <1>15, OpL

\* New links of one bin, which no bin of its index has: no link has two owners.
LEMMA NewLinks ==
  ASSUME IInv, LinksInv, NEW b \in BinId, NEW S,
         \A bin \in BinId : bin # b => linkMeta'[bin] = linkMeta[bin],
         \A n \in LinkNo : resolveLink(linkMeta'[b], n) = resolveLink(linkMeta[b], n)
                           \/ resolveLink(linkMeta'[b], n) \in S,
         \A n, m \in LinkNo : resolveLink(linkMeta'[b], n) = resolveLink(linkMeta'[b], m)
                              /\ resolveLink(linkMeta'[b], n) \in S => n = m,
         \A bin \in BinId : bin[1] = b[1] => S \cap LinksOf(bin) = {}
  PROVE  /\ \A bin, other \in BinId : bin[1] = other[1] => OneOwner(bin, other)'
         /\ \A bin \in BinId : \A a \in LinksOf(bin)' : a \in LinksOf(bin) \/ (bin = b /\ a \in S)
<1>1. ASSUME NEW bin \in BinId, NEW n \in LinkNo
      PROVE  \/ resolveLink(linkMeta'[bin], n) = resolveLink(linkMeta[bin], n)
             \/ bin = b /\ resolveLink(linkMeta'[bin], n) \in S
  BY <1>1
<1>2. ASSUME NEW bin \in BinId, NEW n \in LinkNo, resolveLink(linkMeta[bin], n) # NO_LINK,
             bin[1] = b[1]
      PROVE  resolveLink(linkMeta[bin], n) \notin S
  BY <1>2, LinkRange
<1>3. ASSUME NEW bin \in BinId, NEW other \in BinId, bin[1] = other[1], NEW n \in LinkNo, NEW m \in LinkNo,
             resolveLink(linkMeta'[bin], n) = resolveLink(linkMeta'[other], m),
             resolveLink(linkMeta'[bin], n) # NO_LINK
      PROVE  bin = other /\ n = m
  <2>1. CASE resolveLink(linkMeta'[bin], n) = resolveLink(linkMeta[bin], n)
             /\ resolveLink(linkMeta'[other], m) = resolveLink(linkMeta[other], m)
    <3>1. OneOwner(bin, other)
      BY <1>3 DEF LinksInv
    <3> QED BY <1>3, <2>1, <3>1 DEF OneOwner
  <2>2. CASE bin = b /\ other = b /\ resolveLink(linkMeta'[bin], n) \in S
    BY <1>3, <2>2
  <2>3. CASE bin = b /\ resolveLink(linkMeta'[bin], n) \in S
             /\ resolveLink(linkMeta'[other], m) = resolveLink(linkMeta[other], m)
    BY <1>2, <1>3, <2>3
  <2>4. CASE other = b /\ resolveLink(linkMeta'[other], m) \in S
             /\ resolveLink(linkMeta'[bin], n) = resolveLink(linkMeta[bin], n)
    BY <1>2, <1>3, <2>4
  <2> QED BY <1>1, <2>1, <2>2, <2>3, <2>4
<1>4. ASSUME NEW bin \in BinId, NEW a \in LinksOf(bin)' PROVE a \in LinksOf(bin) \/ (bin = b /\ a \in S)
  <2>1. PICK n \in LinkNo : a = resolveLink(linkMeta'[bin], n) /\ a # NO_LINK
    BY <1>4 DEF LinksOf, LinkNo
  <2>2. resolveLink(linkMeta[bin], n) # NO_LINK => resolveLink(linkMeta[bin], n) \in LinksOf(bin)
    BY LinkRange
  <2> QED BY <1>1, <2>1, <2>2
<1>5. \A bin, other \in BinId : bin[1] = other[1] => OneOwner(bin, other)'
  BY <1>3 DEF OneOwner
<1> QED BY <1>4, <1>5

\* A link that was allocated gets its owner.
LEMMA AttachL ==
  ASSUME IInv, IInv', RInv, LInv, NEW t \in Thread, InsertStep(t),
         pc[t] \in {"attachSingle", "attachPair"}, pc'[t] = "reserve", scan' = scan,
         UNCHANGED <<header, slotKey, linkNext, linkCapacity>>,
         NEW b \in BinId, b = Bin(t), \A bin \in BinId : bin # b => linkMeta'[bin] = linkMeta[bin],
         Keeps(linkMeta[b], linkMeta'[b]),
         \A n \in LinkNo : resolveLink(linkMeta'[b], n) = resolveLink(linkMeta[b], n)
                           \/ resolveLink(linkMeta'[b], n) \in Held(t),
         \A n, m \in LinkNo : resolveLink(linkMeta'[b], n) = resolveLink(linkMeta'[b], m)
                              /\ resolveLink(linkMeta'[b], n) \in Held(t) => n = m
  PROVE  LInv'
<1>1. /\ OwnerInv(t) /\ LinksInv /\ HeldInv(t) /\ RootType
      /\ UNCHANGED <<call, xfer, active, resizeCtx, ctx>>
      /\ \A u \in Thread \ {t} : pc'[u] = pc[u] /\ scan'[u] = scan[u] /\ ins'[u] = ins[u]
  BY InsertFrame DEF LInv, LinksInv, IInv, BaseType
<1>2. PICK g \in Gen : g = scan[t].idx /\ b[1] = g
  BY BinType
<1>3. OthersSame(t) /\ LinksKept /\ \A bin \in BinId : Untouched(bin) \/ bin = b
  BY <1>1 DEF OthersSame, LinksKept, Keeps, Untouched
<1>4. \A bin \in BinId : KeysKept(bin)
  BY <1>3, KeepKeys DEF LinksKept
<1>5. pc[t] \in UsesPC /\ pc[t] \notin MovePC /\ pc'[t] \notin MovePC \cup {"setCtx", "finActive"}
  BY DEF MovePC, TransferPC, UsesPC, InsertPC
<1>6. \A a \in Held(t) : Low(g, a) /\ a \in Nat
  BY <1>1, <1>2, HeldType DEF HeldInv
<1>7. /\ \A bin, other \in BinId : bin[1] = other[1] => OneOwner(bin, other)'
      /\ \A bin \in BinId : \A a \in LinksOf(bin)' : a \in LinksOf(bin) \/ (bin = b /\ a \in Held(t))
  <2>1. \A bin \in BinId : bin[1] = b[1] => Held(t) \cap LinksOf(bin) = {}
    BY <1>1, <1>2 DEF HeldInv
  <2> QED BY <1>1, <2>1, NewLinks
<1>8. \A bin \in BinId : \A a \in LinksOf(bin)' : a \in LinksOf(bin) \/ a <= linkCapacity[bin[1]]
  BY <1>2, <1>6, <1>7 DEF Low
<1>9. LinkFrame(t)
  BY <1>1, <1>3, <1>4, <1>5, <1>8 DEF LinkFrame
<1>10. OwnerInv(t)'
  BY <1>1 DEF OwnerInv, HeadPC, FilledPC, ScanPC
<1>11. \A f \in 0..(MaxGen - 1) : EndsInv(f)'
  <2>1. \A f \in 0..(MaxGen - 1) : ctx'[f].chunksDone >= ctx[f].chunksDone /\ (Started(f)' <=> Started(f))
    BY <1>1, CtxType DEF Started
  <2> QED BY <1>1, <1>3, <2>1, SameEnds
<1>12. \A u \in Thread : FinInv(u)'
  <2>1. FinInv(t)'
    BY DEF FinInv
  <2> QED BY <1>1, <1>3, <2>1, SameFin
<1>13. LinksInv'
  <2>1. \A bin \in BinId : \A a \in LinksOf(bin)' : Low(bin[1], a)' \/ High(bin[1], a)'
    <3> SUFFICES ASSUME NEW bin \in BinId, NEW a \in LinksOf(bin)' PROVE Low(bin[1], a)' \/ High(bin[1], a)'
      OBVIOUS
    <3>1. Low(bin[1], a) \/ High(bin[1], a)
      BY <1>1, <1>2, <1>6, <1>7 DEF LinksInv
    <3> QED BY <1>1, <3>1 DEF Low, High
  <2>2. Held(t)' = {} /\ \A u \in Thread \ {t} : Held(u)' = Held(u)
    BY <1>1 DEF Held
  <2>3. ASSUME NEW u \in Thread PROVE HeldInv(u)'
    <3>1. CASE u = t
      BY <2>2, <3>1 DEF HeldInv
    <3>2. CASE u # t
      <4> SUFFICES ASSUME NEW a \in Held(u)
                   PROVE  Low(scan[u].idx, a) /\ \A bin \in BinId : bin[1] = scan[u].idx => a \notin LinksOf(bin)'
        BY <1>1, <2>2, <3>2 DEF HeldInv, Low
      <4>1. Low(scan[u].idx, a) /\ \A bin \in BinId : bin[1] = scan[u].idx => a \notin LinksOf(bin)
        BY <1>1 DEF LinksInv, HeldInv
      <4>2. scan[u].idx = scan[t].idx => a \notin Held(t)
        BY <1>1, <3>2 DEF LinksInv
      <4> QED BY <1>2, <1>7, <4>1, <4>2
    <3> QED BY <3>1, <3>2
  <2>4. \A u, v \in Thread : u # v /\ scan'[u].idx = scan'[v].idx => Held(u)' \cap Held(v)' = {}
    BY <1>1, <2>2 DEF LinksInv
  <2> QED BY <1>7, <2>1, <2>3, <2>4 DEF LinksInv
<1> QED BY <1>9, <1>10, <1>11, <1>12, <1>13, OpL

\* attachSingle: the link is the bin's first, or it is lost.
LEMMA attachSingleL ==
  ASSUME IInv, IInv', RInv, LInv, NEW t \in Thread, attachSingle(t) PROVE LInv'
<1>1. /\ pc \in [Thread -> PC] /\ ins \in [Thread -> InsRec]
      /\ linkMeta \in [BinId -> LinkMeta] /\ OwnerInv(t) /\ InsertStep(t)
      /\ UNCHANGED <<header, slotKey, linkNext, linkCapacity>> /\ scan' = scan
      /\ pc[t] = "attachSingle" /\ pc'[t] = "reserve"
  BY DEF IInv, BaseType, BaseLocal, BaseMemory, LInv, attachSingle, InsertStep, arena, Goto
<1>2. PICK b \in BinId, k \in Nat : b = Bin(t) /\ k = ins[t].link
  BY <1>1, BinType DEF InsRec
<1>3. linkMeta[b] \in LinkMeta /\ LinkMetaOK(linkMeta[b], NumLinks[b[1]])
  BY BinWords
<1>4. CASE linkMeta[b].single = NO_LINK
  <2>1. /\ linkMeta'[b] = [linkMeta[b] EXCEPT !.single = k]
        /\ \A bin \in BinId : bin # b => linkMeta'[bin] = linkMeta[bin]
    BY <1>1, <1>2, <1>4 DEF attachSingle
  <2>2. linkMeta'[b].single = k /\ linkMeta'[b].pair = NO_LINK /\ linkMeta[b].pair = NO_LINK
    BY <1>2, <1>3, <1>4, <2>1 DEF LinkMeta, LinkMetaOK, NO_LINK
  <2>3. Held(t) = {k}
    BY <1>1, <1>2 DEF Held
  <2>4. Keeps(linkMeta[b], linkMeta'[b])
    BY <1>4, <2>2 DEF Keeps
  <2>5. k # NO_LINK
    BY <2>3, HeldType DEF NO_LINK
  <2>6. /\ resolveLink(linkMeta'[b], 1) = k
        /\ \A n \in LinkNo : n # 1 => resolveLink(linkMeta'[b], n) = NO_LINK /\ resolveLink(linkMeta[b], n) = NO_LINK
    BY <2>2 DEF resolveLink, LinkNo
  <2>7. \A n \in LinkNo : resolveLink(linkMeta'[b], n) = resolveLink(linkMeta[b], n)
                           \/ resolveLink(linkMeta'[b], n) \in Held(t)
    BY <2>3, <2>6
  <2>8. \A n, m \in LinkNo : resolveLink(linkMeta'[b], n) = resolveLink(linkMeta'[b], m)
                              /\ resolveLink(linkMeta'[b], n) \in Held(t) => n = m
    BY <2>3, <2>5, <2>6
  <2> QED BY <1>1, <1>2, <2>1, <2>4, <2>7, <2>8, AttachL
<1>5. CASE linkMeta[b].single # NO_LINK
  <2>1. linkMeta' = linkMeta
    <3>1. [linkMeta[b] EXCEPT !.single = linkMeta[b].single] = linkMeta[b]
      BY <1>3 DEF LinkMeta
    <3> QED BY <1>1, <1>2, <1>5, <3>1 DEF attachSingle
  <2> QED BY <1>1, <2>1, InsertLocal DEF HeadPC, FilledPC, ScanPC, OwnerInv
<1> QED BY <1>4, <1>5

\* attachPair: the links are the bin's second and third, or they are lost.
LEMMA attachPairL ==
  ASSUME IInv, IInv', RInv, LInv, NEW t \in Thread, attachPair(t) PROVE LInv'
<1>1. /\ pc \in [Thread -> PC] /\ ins \in [Thread -> InsRec]
      /\ linkMeta \in [BinId -> LinkMeta] /\ OwnerInv(t) /\ InsertStep(t)
      /\ UNCHANGED <<header, slotKey, linkNext, linkCapacity>> /\ scan' = scan
      /\ pc[t] = "attachPair" /\ pc'[t] = "reserve"
  BY DEF IInv, BaseType, BaseLocal, BaseMemory, LInv, attachPair, InsertStep, arena, Goto
<1>2. PICK b \in BinId, k \in Nat : b = Bin(t) /\ k = ins[t].link
  BY <1>1, BinType DEF InsRec
<1>3. linkMeta[b] \in LinkMeta /\ LinkMetaOK(linkMeta[b], NumLinks[b[1]])
  BY BinWords
<1>4. CASE linkMeta[b].pair = NO_LINK
  <2>1. /\ linkMeta'[b] = [linkMeta[b] EXCEPT !.pair = k]
        /\ \A bin \in BinId : bin # b => linkMeta'[bin] = linkMeta[bin]
    BY <1>1, <1>2, <1>4 DEF attachPair
  <2>2. linkMeta'[b].pair = k /\ linkMeta'[b].single = linkMeta[b].single
    BY <1>2, <1>3, <2>1 DEF LinkMeta
  <2>3. Held(t) = {k, k + 1}
    BY <1>1, <1>2 DEF Held
  <2>4. Keeps(linkMeta[b], linkMeta'[b])
    BY <1>4, <2>2 DEF Keeps
  <2>5. k # NO_LINK /\ k > 0
    BY <2>3, HeldType DEF NO_LINK
  <2>6. /\ resolveLink(linkMeta'[b], 1) = resolveLink(linkMeta[b], 1) /\ resolveLink(linkMeta'[b], 1) = linkMeta[b].single
        /\ resolveLink(linkMeta'[b], 2) = k /\ resolveLink(linkMeta'[b], 3) = k + 1
    BY <2>2, <2>5 DEF resolveLink
  <2>7. linkMeta[b].single \notin Held(t)
    <3>1. CASE linkMeta[b].single = NO_LINK
      BY <2>3, <2>5, <3>1 DEF NO_LINK
    <3>2. CASE linkMeta[b].single # NO_LINK
      <4>1. linkMeta[b].single \in LinksOf(b)
        BY <2>6, <3>2 DEF LinksOf
      <4>2. HeldInv(t) /\ b[1] = scan[t].idx
        BY <1>1, <1>2, BinType DEF LInv, LinksInv
      <4> QED BY <4>1, <4>2 DEF HeldInv
    <3> QED BY <3>1, <3>2
  <2>8. \A n \in LinkNo : n = 1 \/ n = 2 \/ n = 3
    BY DEF LinkNo
  <2>9. \A n \in LinkNo : resolveLink(linkMeta'[b], n) = resolveLink(linkMeta[b], n)
                           \/ resolveLink(linkMeta'[b], n) \in Held(t)
    BY <2>3, <2>6, <2>8
  <2>10. \A n, m \in LinkNo : resolveLink(linkMeta'[b], n) = resolveLink(linkMeta'[b], m)
                              /\ resolveLink(linkMeta'[b], n) \in Held(t) => n = m
    <3>1. k # k + 1
      OBVIOUS
    <3> QED BY <2>3, <2>6, <2>7, <2>8, <3>1
  <2> QED BY <1>1, <1>2, <2>1, <2>4, <2>9, <2>10, AttachL
<1>5. CASE linkMeta[b].pair # NO_LINK
  <2>1. linkMeta' = linkMeta
    <3>1. [linkMeta[b] EXCEPT !.pair = linkMeta[b].pair] = linkMeta[b]
      BY <1>3 DEF LinkMeta
    <3> QED BY <1>1, <1>2, <1>5, <3>1 DEF attachPair
  <2> QED BY <1>1, <2>1, InsertLocal DEF HeadPC, FilledPC, ScanPC, OwnerInv
<1> QED BY <1>4, <1>5

\* The steps of Insert.
LEMMA InsertL ==
  ASSUME IInv, IInv', RInv, LInv, NEW t \in Thread, InsertStep(t) PROVE LInv'
<1>1. CASE allocateLink(t) \/ allocateLinkPair(t)
  BY <1>1, AllocateL DEF allocateLink, allocateLinkPair
<1> QED BY <1>1, InsertLoadsL, FillKeyL, InsertHeaderL, attachSingleL, attachPairL DEF InsertStep

-----------------------------------------------------------------------------
(* The steps of the resize, between transfers.                             *)

\* A thread in a resize has no header in hand and no slot.
LEMMA ResizeOwner ==
  ASSUME IInv, NEW t \in Thread, ResizeStep(t)
  PROVE  /\ OwnerInv(t)' /\ OthersSame(t) /\ UNCHANGED <<call, scan, ins>> /\ pc[t] \notin UsesPC
         /\ pc'[t] \notin {"attachSingle", "attachPair"} /\ Held(t)' = {}
<1>1. pc[t] \in ResizePC /\ pc'[t] \in ResizePC \cup {"active"}
  BY ResizeFrame
<1>2. /\ pc'[t] \notin HeadPC \cup FilledPC \cup ScanPC \cup {"attachSingle", "attachPair"}
      /\ pc[t] \notin UsesPC
  BY <1>1 DEF HeadPC, FilledPC, ScanPC, ResizePC, ContextPC, TransferPC, UsesPC, SlotPC, InsertPC, OwnPC
<1> QED BY <1>2, ResizeFrame DEF OwnerInv, Held

\* A step of the resize that leaves the memory, the arenas and their ends alone.
LEMMA ControlL ==
  ASSUME IInv, IInv', RInv, LInv, NEW t \in Thread, ResizeStep(t), UNCHANGED <<memory, arena>>,
         pc[t] \notin MovePC, pc'[t] \notin MovePC \cup {"setCtx", "finActive"},
         \A g \in 0..(MaxGen - 1) :
           /\ ctx'[g].linkNextResize = ctx[g].linkNextResize
           /\ ctx'[g].chunksDone >= ctx[g].chunksDone
           /\ Started(g)' <=> Started(g)
           /\ g < active' => g < active \/ linkCapacity[g + 1] = ctx[g].linkNextResize - 1
  PROVE  LInv'
<1>1. /\ header' = header /\ linkMeta' = linkMeta /\ slotKey' = slotKey
      /\ linkNext' = linkNext /\ linkCapacity' = linkCapacity
  BY DEF memory, arena
<1>2. \A bin \in BinId : KeysKept(bin)
  BY <1>1, KeepKeys DEF Keeps
<1> QED BY <1>1, <1>2, ResizeOwner, CallL

\* helpResize, claimChunk and the count of the chunks that are done.
LEMMA HelpL ==
  ASSUME IInv, IInv', RInv, LInv, NEW t \in Thread,
         TriggerResize(t) \/ HelpResize(t) \/ HelpActive(t) \/ ClaimChunk(t) \/ ChunkDone(t)
  PROVE  LInv'
<1>1. /\ UNCHANGED <<memory, arena, active>> /\ ResizeStep(t) /\ pc \in [Thread -> PC]
      /\ pc[t] \notin MovePC
  BY DEF TriggerResize, HelpResize, HelpActive, ClaimChunk, ChunkDone, ResizeStep, IInv, BaseType, BaseLocal,
     MovePC, TransferPC, roots
<1>2. pc'[t] \notin MovePC \cup {"setCtx", "finActive"}
  BY <1>1 DEF TriggerResize, HelpResize, HelpActive, ClaimChunk, ChunkDone, Goto, MovePC, TransferPC
<1>3. \A g \in 0..(MaxGen - 1) : Started(g)' <=> Started(g)
  <2>1. CASE TriggerResize(t)
    BY <1>1, <2>1, ResizeWords, CtxType DEF TriggerResize, Started
  <2>2. CASE ~TriggerResize(t)
    <3>1. resizeCtx' = resizeCtx
      BY <2>2 DEF HelpResize, HelpActive, ClaimChunk, ChunkDone, roots
    <3> QED BY <1>1, <3>1 DEF Started
  <2> QED BY <2>1, <2>2
<1>4. ASSUME NEW g \in 0..(MaxGen - 1)
      PROVE  ctx'[g].linkNextResize = ctx[g].linkNextResize /\ ctx'[g].chunksDone >= ctx[g].chunksDone
  <2>1. /\ ctx[g] \in CtxRec /\ ctx[g].chunksDone \in Nat /\ g \in Gen /\ ctx \in [Gen -> CtxRec]
    BY CtxType, ResizeWords
  <2>2. CASE ctx' = ctx
    BY <2>1, <2>2
  <2>3. CASE ClaimChunk(t)
    BY <2>1, <2>3 DEF ClaimChunk, CtxRec
  <2>4. CASE ChunkDone(t)
    BY <2>1, <2>4 DEF ChunkDone, CtxRec
  <2> QED BY <2>2, <2>3, <2>4 DEF TriggerResize, HelpResize, HelpActive, roots
<1>5. \A g \in 0..(MaxGen - 1) : g < active' => g < active
  BY <1>1
<1> QED BY <1>1, <1>2, <1>3, <1>4, <1>5, ControlL

\* The new index becomes active after its capacity was set.
LEMMA FinishL ==
  ASSUME IInv, IInv', RInv, LInv, NEW t \in Thread, FinishActive(t) \/ FinishInactive(t) \/ FinishCtx(t)
  PROVE  LInv'
<1>1. /\ UNCHANGED <<memory, arena>> /\ ResizeStep(t) /\ pc \in [Thread -> PC]
      /\ pc[t] \notin MovePC /\ pc[t] \in FinishPC /\ pc[t] \in ContextPC
  BY DEF FinishActive, FinishInactive, FinishCtx, ResizeStep, IInv, BaseType, BaseLocal, MovePC, TransferPC,
     FinishPC, ContextPC
<1>2. pc'[t] \notin MovePC \cup {"setCtx", "finActive"}
  BY <1>1 DEF FinishActive, FinishInactive, FinishCtx, Goto, MovePC, TransferPC
<1>3. PICK f \in 0..(MaxGen - 1) : f = xfer[t].gen /\ resizeCtx = f
  BY <1>1, AtResize DEF RoleInv
<1>4. RoleInv(t) /\ FinInv(t) /\ f \in Nat /\ f \in Gen /\ ctx \in [Gen -> CtxRec]
  BY <1>1, CtxType, ResizeWords, AtResize DEF LInv
<1>5. ASSUME NEW g \in 0..(MaxGen - 1)
      PROVE  /\ Started(g)' <=> Started(g)
             /\ g < active' => g < active \/ linkCapacity[g + 1] = ctx[g].linkNextResize - 1
  <2>0. g \in Gen /\ g \in Nat
    BY CtxType
  <2>1. CASE FinishActive(t)
    <3>1. active = f /\ active' = f + 1 /\ resizeCtx' = f /\ linkCapacity[f + 1] = ctx[f].linkNextResize - 1
      BY <1>3, <1>4, <2>1 DEF FinishActive, RoleInv, FinInv
    <3> QED BY <1>3, <1>4, <2>0, <3>1 DEF Started
  <2>2. CASE FinishInactive(t)
    <3>1. active' = active /\ resizeCtx' = resizeCtx
      BY <2>2 DEF FinishInactive
    <3> QED BY <3>1 DEF Started
  <2>3. CASE FinishCtx(t)
    <3>1. active = f + 1 /\ active' = active /\ resizeCtx' = NoCtx
      BY <1>3, <1>4, <2>3 DEF FinishCtx, RoleInv
    <3>2. resizeCtx' # g
      BY <2>0, <3>1, ResizeWords
    <3>3. Started(g) <=> g < f + 1
      BY <1>3, <1>4, <2>0, <3>1 DEF Started
    <3>4. Started(g)' <=> g < f + 1
      BY <3>1, <3>2 DEF Started
    <3> QED BY <3>1, <3>3, <3>4
  <2> QED BY <2>1, <2>2, <2>3
<1>6. ASSUME NEW g \in 0..(MaxGen - 1)
      PROVE  ctx'[g].linkNextResize = ctx[g].linkNextResize /\ ctx'[g].chunksDone >= ctx[g].chunksDone
  <2>1. ctx[g] \in CtxRec /\ ctx[g].chunksDone \in Nat /\ g \in Gen
    BY CtxType
  <2>2. CASE ctx' = ctx
    BY <2>1, <2>2
  <2>3. CASE FinishInactive(t)
    BY <1>4, <2>1, <2>3 DEF FinishInactive, CtxRec
  <2> QED BY <2>2, <2>3 DEF FinishActive, FinishCtx
<1> QED BY <1>1, <1>2, <1>5, <1>6, ControlL

\* A step that moves an end of the arena that the resize of f fills.
LEMMA ArenaL ==
  ASSUME IInv, IInv', RInv, LInv, NEW t \in Thread, ResizeStep(t),
         UNCHANGED <<header, linkMeta, slotKey, linkNext, active>>,
         pc[t] \notin MovePC, pc'[t] \notin MovePC, NEW f \in 0..(MaxGen - 1),
         \A g \in 0..(MaxGen - 1) : ctx'[g].linkNextResize = ctx[g].linkNextResize,
         \A g \in Gen : g # f + 1 => linkCapacity'[g] = linkCapacity[g],
         \A g \in 0..(MaxGen - 1) : g # f => ctx'[g].chunksDone = ctx[g].chunksDone /\ (Started(g)' <=> Started(g)),
         linkCapacity'[f + 1] >= linkCapacity[f + 1] \/ linkNext[f + 1] = 0,
         EndsInv(f)', FinInv(t)', \A u \in Thread \ {t} : pc[u] \notin {"setCtx", "finActive"}
  PROVE  LInv'
<1>1. (\A bin \in BinId : KeysKept(bin)) /\ LinksKept /\ \A bin \in BinId : LinksOf(bin)' = LinksOf(bin)
  BY KeepKeys DEF Keeps, LinksKept, LinksOf
<1>2. OthersSame(t) /\ OwnerInv(t)' /\ Held(t)' = {} /\ call' = call
  BY ResizeOwner
<1>3. LinkFrame(t)
  BY <1>1, <1>2 DEF LinkFrame, Untouched
<1>4. \A u \in Thread : FinInv(u)'
  BY <1>2, SameFin
<1>5. ASSUME NEW g \in 0..(MaxGen - 1) PROVE EndsInv(g)'
  <2>1. CASE g = f
    BY <2>1
  <2>2. CASE g # f
    <3>1. /\ g + 1 \in Gen /\ g + 1 # f + 1 /\ linkCapacity'[g + 1] = linkCapacity[g + 1]
          /\ linkNext' = linkNext /\ ctx'[g].linkNextResize = ctx[g].linkNextResize
          /\ ctx'[g].chunksDone = ctx[g].chunksDone /\ (Started(g)' <=> Started(g)) /\ active' = active
      BY <2>2, CtxType
    <3>2. EndsInv(g)
      BY DEF LInv
    <3>3. \A a \in ctx'[g].linkNextResize..(NumLinks[g + 1] - 1) :
             \E nb \in BinId : nb[1] = g + 1 /\ a \in LinksOf(nb)'
      BY <1>1, <3>1, <3>2 DEF EndsInv
    <3> QED BY <3>1, <3>2, <3>3 DEF EndsInv, SetAside, resLinkBudget, NumChunks
  <2> QED BY <2>1, <2>2
<1>6. LinksInv'
  <2>1. \A g \in Gen : linkCapacity'[g] >= linkCapacity[g] \/ linkNext[g] = 0
    <3>1. \A g \in Gen : linkCapacity[g] \in Int
      BY DEF IInv, BaseType, RootType
    <3> QED BY <3>1
  <2>2. \A g \in 0..(MaxGen - 1) : ctx'[g].linkNextResize <= ctx[g].linkNextResize
    BY CtxType DEF CtxRec
  <2> QED BY <1>2, <2>1, <2>2, SameLinksInv
<1> QED BY <1>2, <1>3, <1>4, <1>5, <1>6, OpL

\* triggerResize sets the links for the transfer aside, in an arena that nobody uses.
LEMMA PublishL ==
  ASSUME IInv, IInv', RInv, LInv, NEW t \in Thread, PublishNext(t) PROVE LInv'
<1>1. PICK f \in 0..(MaxGen - 1) : f = active
  BY ResizeWords DEF PublishNext, Gen
<1>2. /\ ResizeStep(t) /\ pc \in [Thread -> PC] /\ xfer \in [Thread -> XferRec] /\ linkCapacity \in [Gen -> Int]
      /\ UNCHANGED <<header, linkMeta, slotKey, linkNext, active, ctx, resizeCtx>>
      /\ pc[t] = "publish" /\ pc'[t] = "setCtx" /\ xfer'[t].gen = f
      /\ linkCapacity' = [linkCapacity EXCEPT ![f + 1] = NumLinks[f + 1] - resLinkBudget(f)]
  BY <1>1 DEF PublishNext, ResizeStep, memory, IInv, BaseType, BaseLocal, RootType, Goto, XferRec
<1>3. f + 1 \in Gen /\ f \in Gen
  BY CtxType
<1>4. resizeCtx = ReservedCtx /\ ~Started(f)
  <2>1. resizeCtx = ReservedCtx
    BY <1>2 DEF RInv, RolesInv, RoleInv, InstallPC
  <2> QED BY <1>1, <1>3, <2>1, ResizeWords DEF Started
<1>5. \A u \in Thread \ {t} : pc[u] \notin {"setCtx", "finActive"}
  BY <1>2, <1>4, ResizeWords, AtResize DEF RInv, RolesInv, RoleInv, InstallPC, FinishPC, ContextPC
<1>6. \A g \in Gen : g # f + 1 => linkCapacity'[g] = linkCapacity[g]
  BY <1>2
<1>7. SetAside(f)'
  BY <1>2, <1>3 DEF SetAside, resLinkBudget
<1>8. EndsInv(f) /\ linkNext[f + 1] = 0
  BY <1>4 DEF LInv, EndsInv
<1>9. EndsInv(f)'
  <2>1. ~Started(f)' /\ ~(f < active')
    BY <1>1, <1>2, <1>4 DEF Started
  <2>2. \A a \in ctx'[f].linkNextResize..(NumLinks[f + 1] - 1) :
           \E nb \in BinId : nb[1] = f + 1 /\ a \in LinksOf(nb)'
    BY <1>2, <1>8 DEF EndsInv, LinksOf
  <2> QED BY <1>2, <1>4, <1>8, <2>1, <2>2 DEF EndsInv
<1>10. FinInv(t)'
  BY <1>2, <1>7 DEF FinInv, SetAside, resLinkBudget
<1>11. \A g \in 0..(MaxGen - 1) : /\ ctx'[g].linkNextResize = ctx[g].linkNextResize
                                  /\ ctx'[g].chunksDone = ctx[g].chunksDone /\ (Started(g)' <=> Started(g))
  BY <1>2 DEF Started
<1>12. pc[t] \notin MovePC /\ pc'[t] \notin MovePC
  BY <1>2 DEF MovePC, TransferPC
<1> QED BY <1>2, <1>5, <1>6, <1>8, <1>9, <1>10, <1>11, <1>12, ArenaL

\* The resize begins with the whole arena above what was set aside.
LEMMA SetContextL ==
  ASSUME IInv, IInv', RInv, LInv, NEW t \in Thread, SetResizeContext(t) PROVE LInv'
<1>1. PICK f \in 0..(MaxGen - 1) : f = xfer[t].gen
  BY AtContext DEF SetResizeContext, ContextPC
<1>2. /\ ResizeStep(t) /\ pc \in [Thread -> PC] /\ ctx \in [Gen -> CtxRec] /\ linkCapacity \in [Gen -> Int]
      /\ UNCHANGED <<header, linkMeta, slotKey, linkNext, active, linkCapacity>>
      /\ pc[t] = "setCtx" /\ pc'[t] = "claim"
      /\ resizeCtx' = f /\ ctx' = [ctx EXCEPT ![f] = FreshCtx(f)]
  BY <1>1 DEF SetResizeContext, ResizeStep, memory, arena, IInv, BaseType, BaseLocal, RootType, Goto
<1>3. f + 1 \in Gen /\ f \in Gen /\ f < MaxGen /\ NumLinks[f + 1] \in Nat /\ NumLinks[f] \in Nat
  BY CtxType, SizeAssumption, ResizeWords
<1>4. resizeCtx = ReservedCtx /\ active = f /\ ~Started(f)
  <2>1. resizeCtx = ReservedCtx /\ active = f
    BY <1>1, <1>2 DEF RInv, RolesInv, RoleInv, InstallPC
  <2> QED BY <1>3, <2>1, ResizeWords DEF Started
<1>5. \A u \in Thread \ {t} : pc[u] \notin {"setCtx", "finActive"}
  BY <1>2, <1>4, ResizeWords, AtResize DEF RInv, RolesInv, RoleInv, InstallPC, FinishPC, ContextPC
<1>6. EndsInv(f) /\ linkNext[f + 1] = 0 /\ ctx[f].linkNextResize = NumLinks[f + 1]
  BY <1>4 DEF LInv, EndsInv
<1>7. ctx'[f].linkNextResize = NumLinks[f + 1] /\ ctx'[f].chunksDone = 0
  BY <1>2, <1>3 DEF FreshCtx
<1>8. SetAside(f)
  BY <1>1, <1>2 DEF LInv, FinInv
<1>9. EndsInv(f)'
  <2>1. linkCapacity[f + 1] < NumLinks[f + 1]
    <3>1. (NumLinks[f] * 4) \div 3 \in Nat
      BY <1>3
    <3> QED BY <1>3, <1>8, <3>1 DEF SetAside, resLinkBudget
  <2>2. NumLinks[f + 1]..(NumLinks[f + 1] - 1) = {}
    BY <1>3
  <2>3. Started(f)' /\ ~(f < active')
    BY <1>2, <1>3, <1>4, ResizeWords DEF Started
  <2> QED BY <1>2, <1>7, <1>8, <2>1, <2>2, <2>3 DEF EndsInv, SetAside, resLinkBudget
<1>10. FinInv(t)'
  BY <1>2 DEF FinInv
<1>11. ASSUME NEW g \in 0..(MaxGen - 1)
       PROVE  /\ ctx'[g].linkNextResize = ctx[g].linkNextResize
              /\ g # f => ctx'[g].chunksDone = ctx[g].chunksDone /\ (Started(g)' <=> Started(g))
  <2>1. g \in Gen
    BY CtxType
  <2>2. g # f => ctx'[g] = ctx[g]
    BY <1>2, <2>1
  <2>3. g # f => (Started(g)' <=> Started(g))
    BY <1>2, <1>4, <2>1, ResizeWords DEF Started
  <2> QED BY <1>6, <1>7, <2>2, <2>3
<1>12. pc[t] \notin MovePC /\ pc'[t] \notin MovePC
  BY <1>2 DEF MovePC, TransferPC
<1> QED BY <1>2, <1>5, <1>6, <1>9, <1>10, <1>11, <1>12, ArenaL

\* The links that the transfer left become the capacity.
LEMMA FinishCapacityL ==
  ASSUME IInv, IInv', RInv, LInv, NEW t \in Thread, FinishCapacity(t) PROVE LInv'
<1>1. PICK f \in 0..(MaxGen - 1) : f = xfer[t].gen
  BY AtContext DEF FinishCapacity, ContextPC
<1>2. /\ ResizeStep(t) /\ pc \in [Thread -> PC] /\ linkCapacity \in [Gen -> Int] /\ xfer' = xfer
      /\ UNCHANGED <<header, linkMeta, slotKey, linkNext, active, resizeCtx, ctx>>
      /\ pc[t] = "finCapacity" /\ pc'[t] = "finActive"
      /\ linkCapacity' = [linkCapacity EXCEPT ![f + 1] = ctx[f].linkNextResize - 1]
  BY <1>1 DEF FinishCapacity, ResizeStep, memory, roots, IInv, BaseType, BaseLocal, RootType, Goto
<1>3. f + 1 \in Gen /\ f \in Gen /\ ctx[f].linkNextResize \in Int /\ NumChunks(f) \in Int
  BY CtxType DEF CtxRec
<1>4. resizeCtx = f /\ active = f /\ Started(f) /\ ctx[f].chunksDone = NumChunks(f)
  BY <1>1, <1>2, AtResize DEF RoleInv, FinishPC, ContextPC
<1>5. \A u \in Thread \ {t} : pc[u] \notin {"setCtx", "finActive"}
  BY <1>2, <1>3, <1>4, ResizeWords DEF RInv, RolesInv, RoleInv, InstallPC, FinishPC
<1>6. EndsInv(f) /\ linkCapacity[f + 1] < ctx[f].linkNextResize /\ linkCapacity[f + 1] \in Int
  BY <1>2, <1>3, <1>4 DEF LInv, EndsInv
<1>7. linkCapacity'[f + 1] = ctx[f].linkNextResize - 1
  BY <1>2, <1>3
<1>8. EndsInv(f)'
  <2>1. \A a \in ctx'[f].linkNextResize..(NumLinks[f + 1] - 1) :
           \E nb \in BinId : nb[1] = f + 1 /\ a \in LinksOf(nb)'
    BY <1>2, <1>6 DEF EndsInv, LinksOf
  <2>2. Started(f)' /\ ~(f < active') /\ ~(ctx'[f].chunksDone < NumChunks(f)) /\ NumChunks(f)' = NumChunks(f)
    BY <1>2, <1>3, <1>4, ResizeWords DEF Started, NumChunks
  <2>3. linkCapacity'[f + 1] < ctx'[f].linkNextResize
    BY <1>2, <1>3, <1>7
  <2> QED BY <2>1, <2>2, <2>3 DEF EndsInv
<1>9. FinInv(t)'
  BY <1>1, <1>2, <1>7 DEF FinInv
<1>10. \A g \in 0..(MaxGen - 1) : /\ ctx'[g].linkNextResize = ctx[g].linkNextResize
                                  /\ ctx'[g].chunksDone = ctx[g].chunksDone /\ (Started(g)' <=> Started(g))
  BY <1>2 DEF Started
<1>11. pc[t] \notin MovePC /\ pc'[t] \notin MovePC
  BY <1>2 DEF MovePC, TransferPC
<1>12. linkCapacity'[f + 1] >= linkCapacity[f + 1]
  BY <1>3, <1>6, <1>7
<1> QED BY <1>2, <1>5, <1>8, <1>9, <1>10, <1>11, <1>12, ArenaL

-----------------------------------------------------------------------------
(* The steps of a transfer that take no link.                              *)

\* A step of the mover of b, which leaves the other bins and their keys alone.
LEMMA MoverL ==
  ASSUME IInv, IInv', RInv, LInv, NEW t \in Thread, ResizeStep(t), pc[t] \in TransferPC,
         UNCHANGED <<linkMeta, linkNext, linkCapacity, active, resizeCtx, ctx>>,
         pc'[t] \notin {"setCtx", "finActive"}, NEW b \in BinId, b = OldBin(t),
         \A bin \in BinId : bin # b => header'[bin] = header[bin] /\ KeysKept(bin),
         header'[b].bs # BinNoTransfer,
         \A nb \in NewBins(b) : NewBinInv(nb)',
         TopInv(b)',
         pc'[t] \in MovePC => MoverInv(t)' /\ CountInv(t)'
  PROVE  LInv'
<1>1. OwnerInv(t)' /\ OthersSame(t) /\ call' = call /\ Held(t)' = {}
  BY ResizeOwner
<1>2. LinksKept /\ b[1] > 0 => header[OldOf(b)].bs = BinDoneTransfer
  BY MoverBin
<1>3. LinksKept /\ \A bin \in BinId : Keeps(linkMeta[bin], linkMeta'[bin])
  BY DEF LinksKept, Keeps
<1>4. \A u \in Thread : OwnerInv(u)'
  <2>1. \A bin \in BinId : KeysKept(bin) \/ header'[bin].bs # BinNoTransfer
    OBVIOUS
  <2>2. \A bin \in BinId : header'[bin].bs = BinNoTransfer => header[bin].bs = BinNoTransfer
    OBVIOUS
  <2> QED BY <1>1, <2>1, <2>2, SameOwners
<1>5. ASSUME NEW u \in Thread, pc'[u] \in MovePC PROVE MoverInv(u)' /\ CountInv(u)'
  <2>1. CASE u = t
    BY <1>5, <2>1
  <2>2. CASE u # t
    <3>1. pc'[u] = pc[u] /\ xfer'[u] = xfer[u] /\ pc[u] \in MovePC /\ pc[u] \in TransferPC
      BY <1>1, <1>5, <2>2 DEF OthersSame, MovePC
    <3>2. /\ OldBin(u) \in BinId /\ header[OldBin(u)].bs = BinInTransfer /\ OldBin(u) # b
      BY <2>2, <3>1, MoverBin DEF MovePC
    <3>3. MoverInv(u)'
      BY <3>1, <3>2, SameMover
    <3>4. ASSUME NEW nb \in NewBins(OldBin(u)) PROVE header'[nb].ss = header[nb].ss
      <4>1. nb \in BinId /\ OldOf(nb) = OldBin(u) /\ nb[1] > 0
        BY <3>1, <3>2, MoverBin DEF NewBins
      <4>2. nb # b
        BY <1>2, <1>3, <3>2, <4>1 DEF BinInTransfer, BinDoneTransfer
      <4> QED BY <4>1, <4>2
    <3> QED BY <1>3, <3>1, <3>2, <3>3, <3>4, SameCount
  <2> QED BY <2>1, <2>2
<1>6. ASSUME NEW bin \in BinId PROVE KeysInv(bin)'
  <2>1. CASE bin = b
    BY <2>1 DEF KeysInv
  <2>2. CASE bin # b
    BY <2>2, SameKeys
  <2> QED BY <2>1, <2>2
<1>7. ASSUME NEW nb \in BinId PROVE NewBinInv(nb)'
  <2>1. CASE nb \in NewBins(b)
    BY <2>1
  <2>2. CASE nb \notin NewBins(b)
    <3>1. ASSUME nb[1] > 0
          PROVE  /\ header'[OldOf(nb)].bs \in {BinNoTransfer, BinInTransfer} =>
                      header'[OldOf(nb)].bs = header[OldOf(nb)].bs /\ Untouched(nb)
                 /\ ctx'[nb[1] - 1].linkNextResize = ctx[nb[1] - 1].linkNextResize
      <4>1. OldOf(nb) \in BinId /\ OldOf(nb) # b
        BY <2>2, <3>1, OldOfType
      <4>2. header'[OldOf(nb)] = header[OldOf(nb)]
        BY <4>1
      <4>3. header[OldOf(nb)].bs # BinDoneTransfer => nb # b
        BY <1>2, <1>3, <3>1
      <4> QED BY <4>2, <4>3 DEF Untouched, BinNoTransfer, BinInTransfer, BinDoneTransfer
    <3> QED BY <3>1, SameNewBin
  <2> QED BY <2>1, <2>2
<1>8. ASSUME NEW bin \in BinId PROVE TopInv(bin)'
  <2>1. CASE bin = b
    BY <2>1
  <2>2. CASE bin # b
    <3>1. header'[bin] = header[bin] /\ \A nb \in BinId : LinksOf(nb)' = LinksOf(nb)
      BY <2>2 DEF LinksOf
    <3>2. \A nb \in NewBins(bin) : \A a \in LinksOf(nb)' : a \in LinksOf(nb)
      BY <3>1 DEF NewBins
    <3> QED BY <1>3, <3>1, <3>2, SameTop
  <2> QED BY <2>1, <2>2
<1>9. \A g \in 0..(MaxGen - 1) : EndsInv(g)'
  <2>1. \A g \in 0..(MaxGen - 1) : ctx'[g].chunksDone >= ctx[g].chunksDone /\ (Started(g)' <=> Started(g))
    BY CtxType DEF Started
  <2> QED BY <1>3, <2>1, SameEnds
<1>10. \A u \in Thread : FinInv(u)'
  <2>1. FinInv(t)'
    BY DEF FinInv
  <2> QED BY <1>1, <2>1, SameFin
<1>11. LinksInv'
  <2>1. \A g \in Gen : linkCapacity'[g] >= linkCapacity[g]
    BY DEF IInv, BaseType, RootType
  <2>2. \A g \in 0..(MaxGen - 1) : ctx'[g].linkNextResize <= ctx[g].linkNextResize
    BY CtxType DEF CtxRec
  <2> QED BY <1>1, <2>1, <2>2, SameLinksInv
<1> QED BY <1>4, <1>5, <1>6, <1>7, <1>8, <1>9, <1>10, <1>11 DEF LInv

\* The primary slots of a bin.
LEMMA PrimaryCount ==
  ASSUME NEW S, S \subseteq Bucket(0)
  PROVE  IsFiniteSet(S) /\ Cardinality(S) \in Nat /\ Cardinality(S) <= PRIMARY_SLOTS
         /\ \A i \in S : i < PRIMARY_SLOTS
<1>1. 0 \in Int /\ PRIMARY_SLOTS - 1 \in Int /\ PRIMARY_SLOTS \in Nat \ {0}
  BY SizeAssumption
<1>2. ASSUME NEW a \in Int, NEW c \in Int, a = 0, c >= 0 PROVE IsFiniteSet(a..c) /\ Cardinality(a..c) = c + 1
  BY <1>2, FS_Interval
<1>3. IsFiniteSet(0..(PRIMARY_SLOTS - 1)) /\ Cardinality(0..(PRIMARY_SLOTS - 1)) = PRIMARY_SLOTS
  <2>1. PRIMARY_SLOTS - 1 >= 0 /\ PRIMARY_SLOTS - 1 + 1 = PRIMARY_SLOTS
    BY <1>1
  <2> QED BY <1>1, <1>2, <2>1
<1>4. Bucket(0) = 0..(PRIMARY_SLOTS - 1)
  BY DEF Bucket
<1>5. IsFiniteSet(S) /\ Cardinality(S) <= PRIMARY_SLOTS /\ Cardinality(S) \in Nat
  BY <1>3, <1>4, FS_Subset, FS_CardinalityType
<1> QED BY <1>1, <1>4, <1>5

\* The mark: the slots that were Valid have keys of the bin, and the new bins are empty.
LEMMA TransferBinL ==
  ASSUME IInv, IInv', RInv, LInv, NEW t \in Thread, TransferBin(t) PROVE LInv'
<1>1. /\ ResizeStep(t) /\ pc[t] \in TransferPC /\ pc[t] = "or"
      /\ pc \in [Thread -> PC] /\ xfer \in [Thread -> XferRec] /\ header \in [BinId -> Header]
      /\ UNCHANGED <<linkMeta, slotKey, linkNext, linkCapacity, active, resizeCtx, ctx>>
  BY DEF TransferBin, ResizeStep, TransferPC, arena, roots, IInv, BaseType, BaseLocal, BaseMemory
<1>2. PICK b \in BinId : b = OldBin(t) /\ header[b].bs = BinNoTransfer
  BY <1>1, MoverBin
<1>3. PICK h \in Header : h = header[b]
  BY <1>1
<1>4. /\ header'[b] = orInTransfer(h) /\ \A bin \in BinId : bin # b => header'[bin] = header[bin]
      /\ xfer'[t].h = h /\ xfer'[t].todo = validMask(h, 0) /\ OldBin(t)' = b
      /\ pc'[t] = IF validMask(h, 0) = {} THEN "xlinks" ELSE "sentinel"
  BY <1>1, <1>2, <1>3 DEF TransferBin, Goto, OldBin, XferRec
<1>5. header'[b].bs = BinInTransfer
  BY <1>2, <1>3, <1>4 DEF orInTransfer, setBinState, Header, BinNoTransfer, BinInTransfer
<1>6. \A bin \in BinId : KeysKept(bin)
  BY <1>1, KeepKeys DEF Keeps
<1>7. ASSUME NEW nb \in NewBins(b) PROVE EmptyBin(nb)' /\ NewBinInv(nb)'
  <2>1. nb \in BinId /\ OldOf(nb) = b /\ nb[1] = b[1] + 1 /\ b[1] \in Nat
    BY BinIdGen, SizeAssumption DEF NewBins, Gen
  <2>2. nb # b /\ nb[1] > 0
    BY <2>1
  <2>3. NewBinInv(nb)
    BY <2>1 DEF LInv
  <2>4. EmptyBin(nb)
    BY <1>2, <2>1, <2>2, <2>3 DEF NewBinInv
  <2>5. linkMeta'[nb] = NoLinks /\ \A i \in SlotIdx : header'[nb].ss[i] = SlotInvalid
    BY <1>1, <1>4, <2>1, <2>2, <2>4 DEF EmptyBin
  <2>6. PackedBin(nb)'
    <3>1. LinksOf(nb)' = {}
      BY <2>5 DEF LinksOf, resolveLink, NoLinks, NO_LINK
    <3> QED BY <2>5, <3>1 DEF PackedBin, NoLinks, SlotInvalid, SlotTrying
  <2>7. header'[OldOf(nb)].bs = BinInTransfer
    BY <1>5, <2>1
  <2> QED BY <2>5, <2>6, <2>7 DEF NewBinInv, EmptyBin, OldOf, BinNoTransfer, BinInTransfer
<1>8. TopInv(b)'
  BY <1>5 DEF TopInv, BinInTransfer, BinDoneTransfer
<1>9. /\ validMask(h, 0) \subseteq Bucket(0) /\ validMask(h, 0) \subseteq SlotIdx
      /\ validMask(h, 0) \subseteq Valids(h) /\ Valids(h) \subseteq SlotIdx
  BY HeaderOps DEF validMask, Valids
<1>10. ASSUME NEW i \in Valids(h) PROVE KeyInBin(b, i)'
  <2>1. KeyInBin(b, i) /\ HasSlot(linkMeta[b], i)
    BY <1>2, <1>3, <1>9, BinWords DEF LInv, KeysInv, Valids, Backed, SlotValid, SlotInvalid
  <2> QED BY <1>6, <1>9, <2>1 DEF KeysKept
<1>11. MoverInv(t)'
  <2>1. \A i \in xfer'[t].todo : KeyInBin(OldBin(t), i)'
    BY <1>4, <1>9, <1>10 DEF KeyInBin, InBin, SlotLoc
  <2>2. \A i \in Valids(xfer'[t].h) : KeyInBin(OldBin(t), i)'
    BY <1>4, <1>9, <1>10 DEF KeyInBin, InBin, SlotLoc
  <2> QED BY <1>4, <1>9, <2>1, <2>2 DEF MoverInv, Valids
<1>12. CountInv(t)'
  <2>1. Filled(b)' = {}
    BY <1>7 DEF Filled, EmptyBin, NewBins, OldOf, SlotValid, SlotInvalid
  <2>2. Filled(OldBin(t))' = {} /\ Cardinality(Filled(OldBin(t)))' = 0
    <3>1. Filled(OldBin(t))' = {}
      BY <1>4, <2>1 DEF Filled, NewBins, OldOf
    <3> QED BY <3>1, FS_EmptySet
  <2>3. Cardinality(validMask(h, 0)) \in Nat /\ Cardinality(validMask(h, 0)) <= PRIMARY_SLOTS
    BY <1>9, PrimaryCount
  <2>4. AtPrimary(t)'
    <3>1. validMask(h, 0) # {} => \E i \in validMask(h, 0) : i < PRIMARY_SLOTS
      BY <1>9, PrimaryCount
    <3> QED BY <1>4, <3>1 DEF AtPrimary
  <2> QED BY <1>4, <2>2, <2>3, <2>4 DEF CountInv
<1>13. pc'[t] \notin {"setCtx", "finActive"} /\ header'[b].bs # BinNoTransfer
  BY <1>4, <1>5 DEF BinNoTransfer, BinInTransfer
<1> QED BY <1>1, <1>2, <1>4, <1>6, <1>7, <1>8, <1>11, <1>12, <1>13, MoverL

\* A set that maps one to one into a finite set is not larger.
LEMMA InjCount ==
  ASSUME NEW S, IsFiniteSet(S), NEW T, IsFiniteSet(T), NEW f \in [S -> T],
         \A x, y \in S : f[x] = f[y] => x = y
  PROVE  Cardinality(S) <= Cardinality(T)
<1>1. Cardinality(S) \in Nat /\ Cardinality(T) \in Nat
  BY FS_CardinalityType
<1>2. ~(Cardinality(T) < Cardinality(S))
  BY FS_PigeonHole
<1> QED BY <1>1, <1>2

\* The slots of the links: none of them is primary, and the attached links have room
\* for them.
LEMMA LinkSlotsCount ==
  ASSUME NEW h \in Header, NEW lm \in LinkMeta
  PROVE  LET S == linkSlots(h, lm) IN
         /\ S \subseteq Valids(h) /\ S \subseteq SlotIdx /\ \A i \in S : i \notin Bucket(0)
         /\ Cardinality(S) \in Nat /\ Cardinality(S) <= LINK_SLOTS * Cardinality(attached(lm))
<1> DEFINE S == linkSlots(h, lm)
           T == attached(lm) \X (0..(LINK_SLOTS - 1))
           f == [i \in S |-> <<1 + (i - PRIMARY_SLOTS) \div LINK_SLOTS, (i - PRIMARY_SLOTS) % LINK_SLOTS>>]
<1>1. ASSUME NEW i \in S
      PROVE  /\ i \in SlotIdx /\ h.ss[i] = SlotValid /\ ~(i < PRIMARY_SLOTS) /\ i \notin Bucket(0)
             /\ 1 + (i - PRIMARY_SLOTS) \div LINK_SLOTS \in attached(lm)
  <2>1. PICK n \in attached(lm) : i \in validMask(h, n)
    BY DEF linkSlots
  <2>2. n \in 1..3 /\ resolveLink(lm, n) # NO_LINK /\ i \in SlotIdx /\ i \in Bucket(n) /\ h.ss[i] = SlotValid
    BY <2>1, HeaderOps DEF attached, validMask
  <2>3. i >= PRIMARY_SLOTS /\ LinkOf(lm, i) = resolveLink(lm, n)
    BY <2>2, BucketSlots
  <2>4. ~(i < PRIMARY_SLOTS) /\ i \notin Bucket(0)
    BY <2>2, <2>3, BucketSlots, SlotIdxNat, SizeAssumption
  <2>5. 1 + (i - PRIMARY_SLOTS) \div LINK_SLOTS \in LinkNo
    BY <2>2, <2>4, LinkIndex
  <2> QED BY <2>2, <2>3, <2>4, <2>5 DEF attached, LinkOf, LinkNo
<1>2. S \subseteq SlotIdx /\ S \subseteq Valids(h)
  BY <1>1 DEF Valids
<1>3. IsFiniteSet(S)
  <2>1. IsFiniteSet(SlotIdx)
    BY FS_Interval, SizeAssumption DEF SlotIdx, MaxSlots
  <2> QED BY <1>2, <2>1, FS_Subset
<1>4. IsFiniteSet(attached(lm)) /\ Cardinality(attached(lm)) \in Nat
  BY AttachedCount
<1>5. IsFiniteSet(T) /\ Cardinality(T) = LINK_SLOTS * Cardinality(attached(lm))
  <2>1. LINK_SLOTS - 1 \in Int /\ LINK_SLOTS \in Nat \ {0}
    BY SizeAssumption
  <2>2. ASSUME NEW a \in Int, NEW c \in Int, a = 0, c >= 0 PROVE IsFiniteSet(a..c) /\ Cardinality(a..c) = c + 1
    BY <2>2, FS_Interval
  <2>3. IsFiniteSet(0..(LINK_SLOTS - 1)) /\ Cardinality(0..(LINK_SLOTS - 1)) = LINK_SLOTS
    <3>1. LINK_SLOTS - 1 >= 0 /\ LINK_SLOTS - 1 + 1 = LINK_SLOTS /\ 0 \in Int
      BY <2>1
    <3> QED BY <2>1, <2>2, <3>1
  <2>4. IsFiniteSet(T) /\ Cardinality(T) = Cardinality(attached(lm)) * Cardinality(0..(LINK_SLOTS - 1))
    BY <1>4, <2>3, FS_Product
  <2> DEFINE a == Cardinality(attached(lm))
  <2>5. a * LINK_SLOTS = LINK_SLOTS * a
    <3>1. a \in Nat
      BY <1>4
    <3> HIDE DEF a
    <3> QED BY <2>1, <3>1
  <2> QED BY <2>3, <2>4, <2>5
<1>6. f \in [S -> T]
  <2>1. ASSUME NEW i \in S PROVE (i - PRIMARY_SLOTS) % LINK_SLOTS \in 0..(LINK_SLOTS - 1)
    <3>1. i \in Nat /\ ~(i < PRIMARY_SLOTS)
      BY <1>1, SlotIdxNat
    <3> QED BY <3>1, SizeAssumption
  <2> QED BY <1>1, <2>1
<1>7. ASSUME NEW i \in S, NEW j \in S, f[i] = f[j] PROVE i = j
  <2>1. /\ 1 + (i - PRIMARY_SLOTS) \div LINK_SLOTS = 1 + (j - PRIMARY_SLOTS) \div LINK_SLOTS
        /\ (i - PRIMARY_SLOTS) % LINK_SLOTS = (j - PRIMARY_SLOTS) % LINK_SLOTS
    BY <1>7
  <2>2. /\ i = PRIMARY_SLOTS + LINK_SLOTS * ((i - PRIMARY_SLOTS) \div LINK_SLOTS)
                             + ((i - PRIMARY_SLOTS) % LINK_SLOTS)
        /\ j = PRIMARY_SLOTS + LINK_SLOTS * ((j - PRIMARY_SLOTS) \div LINK_SLOTS)
                             + ((j - PRIMARY_SLOTS) % LINK_SLOTS)
    BY <1>1, LinkIndex
  <2>3. (i - PRIMARY_SLOTS) \div LINK_SLOTS = (j - PRIMARY_SLOTS) \div LINK_SLOTS
    <3>1. i \in Nat /\ j \in Nat /\ ~(i < PRIMARY_SLOTS) /\ ~(j < PRIMARY_SLOTS)
      BY <1>1, SlotIdxNat
    <3>2. (i - PRIMARY_SLOTS) \div LINK_SLOTS \in Int /\ (j - PRIMARY_SLOTS) \div LINK_SLOTS \in Int
      BY <3>1, SizeAssumption
    <3> QED BY <2>1, <3>2
  <2> QED BY <2>1, <2>2, <2>3
<1>8. Cardinality(S) <= Cardinality(T) /\ Cardinality(S) \in Nat
  <2> HIDE DEF f, T, S
  <2> QED BY <1>3, <1>5, <1>6, <1>7, InjCount, FS_CardinalityType
<1> QED BY <1>1, <1>2, <1>5, <1>8

\* The new bins of a bin that is being moved are packed; nothing of them changes while
\* headers, links and contexts stay.
LEMMA StillPacked ==
  ASSUME IInv, LInv, NEW b \in BinId, UNCHANGED <<header, linkMeta, ctx>>, NEW nb \in NewBins(b)
  PROVE  NewBinInv(nb)'
<1>1. nb \in BinId /\ NewBinInv(nb)
  BY DEF NewBins, LInv
<1>2. nb[1] > 0 => OldOf(nb) \in BinId /\ nb[1] - 1 \in 0..(MaxGen - 1)
  BY <1>1, OldOfType
<1> QED BY <1>1, <1>2, SameNewBin DEF Untouched

\* The links of the bin: the slots there that were Valid have keys of the bin.
LEMMA TransferLinksL ==
  ASSUME IInv, IInv', RInv, LInv, NEW t \in Thread, TransferLinks(t) PROVE LInv'
<1>1. /\ ResizeStep(t) /\ pc[t] \in TransferPC /\ pc[t] \in MovePC /\ pc[t] = "xlinks"
      /\ pc \in [Thread -> PC] /\ xfer \in [Thread -> XferRec] /\ linkMeta \in [BinId -> LinkMeta]
      /\ UNCHANGED <<header, linkMeta, slotKey, linkNext, linkCapacity, active, resizeCtx, ctx>>
  BY DEF TransferLinks, ResizeStep, TransferPC, MovePC, memory, arena, roots, IInv, BaseType, BaseLocal, BaseMemory
<1>2. PICK b \in BinId : b = OldBin(t) /\ header[b].bs = BinInTransfer
  BY <1>1, MoverBin
<1>3. PICK h \in Header : h = xfer[t].h
  BY <1>1 DEF XferRec
<1>4. PICK S \in SUBSET SlotIdx : S = linkSlots(h, linkMeta[b])
  BY <1>1, <1>2, LinkSlotsCount
<1>5. /\ S \subseteq Valids(h) /\ \A i \in S : i \notin Bucket(0) /\ ~(i < PRIMARY_SLOTS)
      /\ Cardinality(S) \in Nat /\ Cardinality(S) <= LINK_SLOTS * Cardinality(attached(linkMeta[b]))
  <2>1. linkMeta[b] \in LinkMeta
    BY <1>1
  <2>2. \A i \in SlotIdx : i \notin Bucket(0) => ~(i < PRIMARY_SLOTS)
    BY <2>1, BucketSlots
  <2> QED BY <1>4, <2>1, <2>2, LinkSlotsCount
<1>6. /\ xfer'[t].h = h /\ xfer'[t].todo = S /\ OldBin(t)' = b
      /\ pc'[t] = IF S = {} THEN "xdone" ELSE "sentinel"
  BY <1>1, <1>2, <1>3, <1>4 DEF TransferLinks, Goto, OldBin, XferRec
<1>7. MoverInv(t) /\ CountInv(t) /\ AtPrimary(t) /\ xfer[t].todo = {} /\ ~AtPrimary(t)'
  BY <1>1, <1>5, <1>6 DEF LInv, MoverInv, AtPrimary
<1>8. \A bin \in BinId : KeysKept(bin)
  BY <1>1, KeepKeys DEF Keeps
<1>9. ASSUME NEW i \in S PROVE KeyInBin(b, i)'
  <2>1. KeyInBin(b, i) /\ i \in SlotIdx
    BY <1>2, <1>3, <1>5, <1>7 DEF MoverInv
  <2>2. HasSlot(linkMeta[b], i)
    <3>1. XferInv(t) /\ i \in Valids(h)
      BY <1>1, <1>5, Locals
    <3> QED BY <1>1, <1>2, <1>3, <2>1, <3>1 DEF XferInv, Backed, Valids, SlotValid, SlotInvalid
  <2> QED BY <1>8, <2>1, <2>2 DEF KeysKept
<1>10. MoverInv(t)'
  <2>1. \A i \in xfer'[t].todo : KeyInBin(OldBin(t), i)'
    BY <1>6, <1>9 DEF KeyInBin, InBin, SlotLoc
  <2>2. pc'[t] \in {"xlinks", "xdone"} => xfer'[t].todo = {}
    BY <1>6
  <2>3. pc'[t] # "move"
    BY <1>6
  <2> QED BY <1>5, <1>6, <1>7, <2>1, <2>2, <2>3 DEF MoverInv, Valids
<1>11. CountInv(t)'
  <2>1. Filled(OldBin(t))' = Filled(b) /\ Capacity(linkMeta[OldBin(t)])' = Capacity(linkMeta[b])
    BY <1>1, <1>6 DEF Filled, NewBins, OldOf
  <2>2. Cardinality(Filled(b)) \in Nat /\ Cardinality(Filled(b)) <= PRIMARY_SLOTS
    <3>1. Cardinality(Filled(b)) \in Nat /\ Cardinality({}) = 0
      BY FiniteFill, FS_EmptySet
    <3> QED BY <1>2, <1>7, <3>1 DEF CountInv
  <2> DEFINE m == Cardinality(Filled(b))
             k == LINK_SLOTS * Cardinality(attached(linkMeta[b]))
             s == Cardinality(S)
  <2>3. k \in Int /\ s \in Nat /\ m \in Nat /\ m <= PRIMARY_SLOTS /\ s <= k
    BY <1>5, <2>2, AttachedCount, SizeAssumption
  <2>4. m + s <= PRIMARY_SLOTS + k
    <3> HIDE DEF m, k, s
    <3> QED BY <2>3, SizeAssumption
  <2> QED BY <1>6, <1>7, <2>1, <2>4 DEF CountInv, Capacity
<1>12. \A nb \in NewBins(b) : NewBinInv(nb)'
  BY <1>1, StillPacked
<1>13. TopInv(b)' /\ header'[b].bs # BinNoTransfer
  BY <1>1, <1>2 DEF TopInv, BinInTransfer, BinDoneTransfer, BinNoTransfer
<1>14. pc'[t] \notin {"setCtx", "finActive"}
  BY <1>6
<1> QED BY <1>1, <1>2, <1>8, <1>10, <1>11, <1>12, <1>13, <1>14, MoverL

\* The sentinel replaces one key of the bin, which the mover remembers.
LEMMA StoreSentinelL ==
  ASSUME IInv, IInv', RInv, LInv, NEW t \in Thread, StoreSentinel(t) PROVE LInv'
<1>1. /\ ResizeStep(t) /\ pc[t] \in TransferPC /\ pc[t] \in MovePC /\ pc[t] = "sentinel"
      /\ pc \in [Thread -> PC] /\ xfer \in [Thread -> XferRec] /\ linkMeta \in [BinId -> LinkMeta]
      /\ slotKey \in [Loc -> Nat]
      /\ UNCHANGED <<header, linkMeta, linkNext, linkCapacity, active, resizeCtx, ctx>>
  BY DEF StoreSentinel, ResizeStep, TransferPC, MovePC, arena, roots, IInv, BaseType, BaseLocal, BaseMemory
<1>2. PICK b \in BinId : b = OldBin(t) /\ header[b].bs = BinInTransfer
  BY <1>1, MoverBin
<1>3. /\ Lowest(xfer[t].todo) \in xfer[t].todo /\ xfer[t].todo \subseteq SlotIdx
      /\ SlotLoc(b, Lowest(xfer[t].todo)) \in Loc /\ XferInv(t) /\ xfer[t].h \in Header
      /\ \A i \in xfer[t].todo : HasSlot(linkMeta[b], i)
  BY <1>1, <1>2, AtMove, Locals DEF XferRec
<1>4. PICK i0 \in SlotIdx : i0 = Lowest(xfer[t].todo) /\ i0 \in xfer[t].todo /\ HasSlot(linkMeta[b], i0)
                            /\ SlotLoc(b, i0) \in Loc
  BY <1>3
<1>5. /\ slotKey'[SlotLoc(b, i0)] = GetTransferSentinel(xfer[t].bin)
      /\ \A loc \in Loc : loc # SlotLoc(b, i0) => slotKey'[loc] = slotKey[loc]
      /\ xfer'[t].h = xfer[t].h /\ xfer'[t].todo = xfer[t].todo /\ OldBin(t)' = b
      /\ xfer'[t].key = slotKey[SlotLoc(b, i0)] /\ pc'[t] = "move"
  BY <1>1, <1>2, <1>4 DEF StoreSentinel, Goto, OldBin, XferRec
<1>6. ASSUME NEW bin \in BinId, NEW i \in SlotIdx, HasSlot(linkMeta[bin], i), bin # b \/ i # i0,
             KeyInBin(bin, i)
      PROVE  KeyInBin(bin, i)'
  <2>1. slotKey'[SlotLoc(bin, i)] = slotKey[SlotLoc(bin, i)]
    BY <1>4, <1>5, <1>6, KeyWritten
  <2>2. SlotLoc(bin, i)' = SlotLoc(bin, i)
    BY <1>1 DEF SlotLoc
  <2> QED BY <1>6, <2>1, <2>2 DEF KeyInBin, InBin
<1>7. \A bin \in BinId : bin # b => header'[bin] = header[bin] /\ KeysKept(bin)
  BY <1>1, <1>6 DEF KeysKept
<1>8. MoverInv(t) /\ CountInv(t) /\ (AtPrimary(t)' <=> AtPrimary(t))
  BY <1>1, <1>5 DEF LInv, AtPrimary
<1>9. ASSUME NEW i \in Valids(xfer[t].h), i # i0, KeyInBin(b, i) PROVE KeyInBin(OldBin(t), i)'
  <2>1. i \in SlotIdx /\ HasSlot(linkMeta[b], i)
    BY <1>1, <1>2, <1>3 DEF XferInv, Backed, Valids, SlotValid, SlotInvalid
  <2>2. KeyInBin(b, i)'
    BY <1>6, <1>9, <2>1
  <2> QED BY <1>5, <2>2 DEF KeyInBin, InBin, SlotLoc
<1>10. MoverInv(t)'
  <2>1. ASSUME NEW i \in xfer'[t].todo, i # Lowest(xfer'[t].todo) PROVE KeyInBin(OldBin(t), i)'
    BY <1>1, <1>2, <1>4, <1>5, <1>8, <1>9, <2>1 DEF MoverInv
  <2>2. InBin(OldBin(t), xfer[t].key)'
    BY <1>1, <1>2, <1>4, <1>5, <1>8 DEF MoverInv, InBin, KeyInBin
  <2>3. ASSUME AtPrimary(t), NEW i \in Valids(xfer'[t].h) PROVE i \in Bucket(0) \/ KeyInBin(OldBin(t), i)'
    BY <1>2, <1>4, <1>5, <1>8, <1>9, <2>3 DEF MoverInv
  <2>4. pc'[t] \notin {"xlinks", "xdone"}
    BY <1>5
  <2>5. /\ xfer'[t].todo \subseteq Valids(xfer[t].h)' /\ Valids(xfer[t].h)' = Valids(xfer'[t].h)
        /\ (AtPrimary(t)' => xfer'[t].todo \subseteq Bucket(0))
    BY <1>5, <1>8 DEF MoverInv, Valids
  <2> QED BY <1>5, <1>8, <2>1, <2>2, <2>3, <2>4, <2>5 DEF MoverInv
<1>11. CountInv(t)'
  <2>1. Filled(OldBin(t))' = Filled(b) /\ Capacity(linkMeta[OldBin(t)])' = Capacity(linkMeta[b])
    BY <1>1, <1>5 DEF Filled, NewBins, OldOf
  <2> QED BY <1>2, <1>5, <1>8, <2>1 DEF CountInv
<1>12. \A nb \in NewBins(b) : NewBinInv(nb)'
  BY <1>1, StillPacked
<1>13. TopInv(b)' /\ header'[b].bs # BinNoTransfer
  BY <1>1, <1>2 DEF TopInv, BinInTransfer, BinDoneTransfer, BinNoTransfer
<1>14. pc'[t] \notin {"setCtx", "finActive"}
  BY <1>5
<1> QED BY <1>1, <1>2, <1>7, <1>10, <1>11, <1>12, <1>13, <1>14, MoverL

-----------------------------------------------------------------------------
(* The links that a transfer takes: at most four for every three.          *)

\* s new bins got a link and q of them a pair too, which they do only when the
\* buckets before are full: the entries of p primary and k * l link slots.
LEMMA TopArith ==
  ASSUME NEW p \in Nat \ {0}, NEW l \in Nat \ {0}, l <= p + 1, NEW s \in Nat, NEW q \in Nat, q <= s,
         NEW k \in {0, 1, 3}, s * (p + 1) + q * l <= p + k * l
  PROVE  s + 2 * q <= IF k = 0 THEN 0 ELSE IF k = 1 THEN 1 ELSE 4
<1> DEFINE x == s * (p + 1)
           y == q * l
<1>1. x \in Nat /\ y \in Nat
  OBVIOUS
<1>2. s = 0 \/ x >= p + 1
  <2>1. ASSUME s >= 1 PROVE s * (p + 1) >= 1 * (p + 1)
    BY <2>1
  <2> QED BY <2>1
<1>3. s <= 1 \/ x >= 2 * p + 2
  <2>1. ASSUME s >= 2 PROVE s * (p + 1) >= 2 * (p + 1)
    BY <2>1
  <2> QED BY <2>1
<1>4. s <= 2 \/ x >= 3 * p + 3
  <2>1. ASSUME s >= 3 PROVE s * (p + 1) >= 3 * (p + 1)
    BY <2>1
  <2> QED BY <2>1
<1>5. s <= 3 \/ x >= 4 * p + 4
  <2>1. ASSUME s >= 4 PROVE s * (p + 1) >= 4 * (p + 1)
    BY <2>1
  <2> QED BY <2>1
<1>6. q = 0 \/ y >= l
  <2>1. ASSUME q >= 1 PROVE q * l >= 1 * l
    BY <2>1
  <2> QED BY <2>1
<1>7. q <= 1 \/ y >= 2 * l
  <2>1. ASSUME q >= 2 PROVE q * l >= 2 * l
    BY <2>1
  <2> QED BY <2>1
<1>8. x + y <= p + k * l
  OBVIOUS
<1> HIDE DEF x, y
<1>9. CASE k = 0
  BY <1>1, <1>2, <1>8, <1>9
<1>10. CASE k = 1
  BY <1>1, <1>2, <1>3, <1>6, <1>8, <1>10
<1>11. CASE k = 3
  BY <1>1, <1>2, <1>3, <1>4, <1>5, <1>6, <1>7, <1>8, <1>11
<1> QED BY <1>9, <1>10, <1>11

\* How many slots the buckets 0 and 1, and those of the pair, give.
LEMMA SlotRanges ==
  /\ IsFiniteSet(0..PRIMARY_SLOTS) /\ Cardinality(0..PRIMARY_SLOTS) = PRIMARY_SLOTS + 1
  /\ LET R == (PRIMARY_SLOTS + 1)..firstPairSlot
     IN  IsFiniteSet(R) /\ Cardinality(R) = LINK_SLOTS
<1>1. ASSUME NEW a \in Int, NEW c \in Int, a <= c PROVE IsFiniteSet(a..c) /\ Cardinality(a..c) = c - a + 1
  BY <1>1, FS_Interval
<1>2. /\ 0 \in Int /\ PRIMARY_SLOTS \in Int /\ 0 <= PRIMARY_SLOTS /\ PRIMARY_SLOTS - 0 + 1 = PRIMARY_SLOTS + 1
      /\ PRIMARY_SLOTS + 1 \in Int /\ firstPairSlot \in Int /\ PRIMARY_SLOTS + 1 <= firstPairSlot
      /\ firstPairSlot - (PRIMARY_SLOTS + 1) + 1 = LINK_SLOTS
  BY SizeAssumption DEF firstPairSlot
<1>3. IsFiniteSet(0..PRIMARY_SLOTS) /\ Cardinality(0..PRIMARY_SLOTS) = PRIMARY_SLOTS + 1
  BY <1>1, <1>2
<1>4. IsFiniteSet((PRIMARY_SLOTS + 1)..firstPairSlot) /\ Cardinality((PRIMARY_SLOTS + 1)..firstPairSlot) = LINK_SLOTS
  BY <1>1, <1>2
<1> QED BY <1>3, <1>4

\* The links of the new bins of b, when those that have one are S, those that have a
\* pair Q, and F are slots that the entries of b filled.
LEMMA TopCount ==
  ASSUME NEW lm \in LinkMeta, NEW n \in Nat, LinkMetaOK(lm, n),
         NEW S, IsFiniteSet(S), NEW Q, Q \subseteq S, NEW F, IsFiniteSet(F),
         \A nb \in S : \A i \in 0..PRIMARY_SLOTS : <<nb, i>> \in F,
         \A nb \in Q : \A i \in (PRIMARY_SLOTS + 1)..firstPairSlot : <<nb, i>> \in F,
         Cardinality(F) <= Capacity(lm),
         NEW T, IsFiniteSet(T), NEW own \in [T -> (S \X {1}) \cup (Q \X {2, 3})],
         \A a, c \in T : own[a] = own[c] => a = c
  PROVE  Cardinality(T) <= TopMost(lm)
<1> DEFINE A1 == S \X (0..PRIMARY_SLOTS)
           A2 == Q \X ((PRIMARY_SLOTS + 1)..firstPairSlot)
           B1 == S \X {1}
           B2 == Q \X {2, 3}
           k == Cardinality(attached(lm))
<1>1. IsFiniteSet(Q) /\ Cardinality(S) \in Nat /\ Cardinality(Q) \in Nat /\ Cardinality(Q) <= Cardinality(S)
  BY FS_Subset, FS_CardinalityType
<1>2. PICK s \in Nat : s = Cardinality(S)
  BY <1>1
<1>3. PICK q \in Nat : q = Cardinality(Q) /\ q <= s
  BY <1>1, <1>2
<1>4. IsFiniteSet(A1) /\ Cardinality(A1) = s * (PRIMARY_SLOTS + 1)
  BY <1>2, SlotRanges, FS_Product
<1>5. IsFiniteSet(A2) /\ Cardinality(A2) = q * LINK_SLOTS
  BY <1>1, <1>3, SlotRanges, FS_Product
<1>6. s * (PRIMARY_SLOTS + 1) \in Nat /\ q * LINK_SLOTS \in Nat
  BY SizeAssumption
<1>7. s * (PRIMARY_SLOTS + 1) + q * LINK_SLOTS <= Cardinality(F)
  <2>1. A1 \cap A2 = {}
    <3> SUFFICES ASSUME NEW p \in A1, p \in A2 PROVE FALSE
      OBVIOUS
    <3>1. p[2] \in 0..PRIMARY_SLOTS /\ p[2] \in (PRIMARY_SLOTS + 1)..firstPairSlot
      OBVIOUS
    <3> QED BY <3>1, SizeAssumption DEF firstPairSlot
  <2>2. IsFiniteSet(A1 \cup A2) /\ Cardinality(A1 \cup A2) = Cardinality(A1) + Cardinality(A2) - Cardinality(A1 \cap A2)
    BY <1>4, <1>5, FS_Union
  <2>3. Cardinality(A1 \cup A2) = s * (PRIMARY_SLOTS + 1) + q * LINK_SLOTS
    <3>1. Cardinality({}) = 0
      BY FS_EmptySet
    <3> DEFINE x == s * (PRIMARY_SLOTS + 1)
               y == q * LINK_SLOTS
    <3>2. x \in Nat /\ y \in Nat /\ Cardinality(A1) = x /\ Cardinality(A2) = y /\ Cardinality(A1 \cap A2) = 0
      BY <1>4, <1>5, <1>6, <2>1, <3>1
    <3> HIDE DEF A1, A2, x, y
    <3>3. Cardinality(A1 \cup A2) = x + y
      BY <2>2, <3>2
    <3> QED BY <3>3 DEF x, y
  <2>4. A1 \cup A2 \subseteq F
    OBVIOUS
  <2>5. Cardinality(A1 \cup A2) <= Cardinality(F)
    <3> HIDE DEF A1, A2
    <3> QED BY <2>4, FS_Subset
  <2> QED BY <2>3, <2>5
<1>8. /\ k \in {0, 1, 3}
      /\ TopMost(lm) = IF k = 0 THEN 0 ELSE IF k = 1 THEN 1 ELSE 4
  <2>1. lm.single \in Nat /\ lm.pair \in Nat /\ (lm.pair # 0 => lm.single # 0)
    BY DEF LinkMeta, LinkMetaOK, NO_LINK
  <2>2. CASE lm.single = NO_LINK
    <3>1. attached(lm) = {}
      BY <2>1, <2>2 DEF attached, resolveLink, NO_LINK
    <3> QED BY <2>2, <3>1, FS_EmptySet DEF TopMost
  <2>3. CASE lm.single # NO_LINK /\ lm.pair = NO_LINK
    <3>1. attached(lm) = {1}
      BY <2>1, <2>3 DEF attached, resolveLink, NO_LINK
    <3> QED BY <2>3, <3>1, FS_Singleton DEF TopMost
  <2>4. CASE lm.single # NO_LINK /\ lm.pair # NO_LINK
    <3>1. attached(lm) = LinkNo
      BY <2>1, <2>4 DEF attached, resolveLink, NO_LINK, LinkNo
    <3>2. k = 3
      BY <3>1, ThreeLinks
    <3> QED BY <2>4, <3>2 DEF TopMost
  <2> QED BY <2>2, <2>3, <2>4
<1>9. s + 2 * q <= TopMost(lm)
  <2>1. Cardinality(F) <= PRIMARY_SLOTS + LINK_SLOTS * k
    BY DEF Capacity
  <2>2. LINK_SLOTS * k \in Nat /\ LINK_SLOTS * k = k * LINK_SLOTS
    BY <1>8, SizeAssumption
  <2>3. Cardinality(F) \in Nat
    BY FS_CardinalityType
  <2> HIDE DEF k
  <2>4. s * (PRIMARY_SLOTS + 1) + q * LINK_SLOTS <= PRIMARY_SLOTS + k * LINK_SLOTS
    BY <1>6, <1>7, <2>1, <2>2, <2>3, SizeAssumption
  <2>5. s + 2 * q <= IF k = 0 THEN 0 ELSE IF k = 1 THEN 1 ELSE 4
    BY <1>3, <1>8, <2>4, SizeAssumption, LinkAssumption, TopArith
  <2> QED BY <1>8, <2>5
<1>10. IsFiniteSet(B1 \cup B2) /\ Cardinality(B1 \cup B2) <= s + 2 * q
  <2>1. IsFiniteSet({1}) /\ Cardinality({1}) = 1
    BY FS_Singleton
  <2>2. IsFiniteSet({2, 3}) /\ Cardinality({2, 3}) = 2
    <3>1. IsFiniteSet({2}) /\ Cardinality({2}) = 1
      BY FS_Singleton
    <3>2. {2, 3} = {2} \cup {3} /\ 3 \notin {2}
      OBVIOUS
    <3>3. IsFiniteSet({2} \cup {3}) /\ Cardinality({2} \cup {3}) = IF 3 \in {2} THEN Cardinality({2}) ELSE Cardinality({2}) + 1
      BY <3>1, FS_AddElement
    <3> QED BY <3>1, <3>2, <3>3
  <2>3. IsFiniteSet(B1) /\ Cardinality(B1) = s * 1
    BY <1>2, <2>1, FS_Product
  <2>4. IsFiniteSet(B2) /\ Cardinality(B2) = q * 2
    <3>1. IsFiniteSet(Q) /\ Cardinality(Q) = q
      BY <1>1, <1>3
    <3>2. IsFiniteSet(Q \X {2, 3}) /\ Cardinality(Q \X {2, 3}) = Cardinality(Q) * Cardinality({2, 3})
      BY <2>2, <3>1, FS_Product
    <3> QED BY <2>2, <3>1, <3>2
  <2>5. IsFiniteSet(B1 \cup B2) /\ Cardinality(B1 \cup B2) = Cardinality(B1) + Cardinality(B2) - Cardinality(B1 \cap B2)
    BY <2>3, <2>4, FS_Union
  <2>6. Cardinality(B1 \cap B2) \in Nat
    BY <2>3, FS_Intersection, FS_CardinalityType
  <2> HIDE DEF B1, B2
  <2> QED BY <2>3, <2>4, <2>5, <2>6
<1>11. Cardinality(T) <= Cardinality(B1 \cup B2)
  BY <1>10, InjCount
<1>12. Cardinality(T) \in Nat /\ Cardinality(B1 \cup B2) \in Nat /\ TopMost(lm) \in Nat
  BY <1>8, <1>10, FS_CardinalityType
<1> QED BY <1>9, <1>10, <1>11, <1>12

\* What a mover has filled and has left to move fits.
LEMMA MoverRoom ==
  ASSUME IInv, NEW t \in Thread, pc[t] \in MovePC, CountInv(t)
  PROVE  /\ Cardinality(Filled(OldBin(t))) \in Nat /\ Cardinality(xfer[t].todo) \in Nat
         /\ IsFiniteSet(xfer[t].todo)
         /\ Cardinality(Filled(OldBin(t))) + Cardinality(xfer[t].todo) <= Capacity(linkMeta[OldBin(t)])
         /\ Cardinality(Filled(OldBin(t))) <= Capacity(linkMeta[OldBin(t)])
<1>1. OldBin(t) \in BinId /\ xfer[t].todo \subseteq SlotIdx
  BY OldBinType, Locals DEF MovePC, XferRec
<1>2. /\ Cardinality(Filled(OldBin(t))) \in Nat /\ Cardinality(xfer[t].todo) \in Nat
      /\ IsFiniteSet(xfer[t].todo)
  BY <1>1, FiniteFill, FS_Subset, FS_CardinalityType
<1>3. Capacity(linkMeta[OldBin(t)]) \in Nat /\ PRIMARY_SLOTS <= Capacity(linkMeta[OldBin(t)])
  <2>1. LINK_SLOTS * Cardinality(attached(linkMeta[OldBin(t)])) \in Nat
    <3>1. Cardinality(attached(linkMeta[OldBin(t)])) \in Nat
      BY AttachedCount
    <3> QED BY <3>1, SizeAssumption
  <2> QED BY <2>1, SizeAssumption DEF Capacity
<1>4. Cardinality(Filled(OldBin(t))) + Cardinality(xfer[t].todo)
        <= IF AtPrimary(t) THEN PRIMARY_SLOTS ELSE Capacity(linkMeta[OldBin(t)])
  BY DEF CountInv
<1> QED BY <1>2, <1>3, <1>4, SizeAssumption

\* The links L that the new bins of b have, when F are slots that the entries of b filled.
LEMMA TopsFit ==
  ASSUME IInv, NEW b \in BinId, NEW lmv, NEW F, IsFiniteSet(F), Cardinality(F) <= Capacity(linkMeta[b]),
         \A nb \in NewBins(b) :
           /\ lmv[nb].single # NO_LINK => \A i \in 0..PRIMARY_SLOTS : <<nb, i>> \in F
           /\ lmv[nb].pair # NO_LINK => /\ lmv[nb].single # NO_LINK
                                        /\ \A i \in 0..firstPairSlot : <<nb, i>> \in F,
         NEW T, IsFiniteSet(T),
         \A a \in T : \E nb \in NewBins(b), m \in LinkNo : resolveLink(lmv[nb], m) = a /\ a # NO_LINK
  PROVE  Cardinality(T) <= TopMost(linkMeta[b])
<1> DEFINE S == {nb \in NewBins(b) : lmv[nb].single # NO_LINK}
           Q == {nb \in NewBins(b) : lmv[nb].pair # NO_LINK}
           P == (S \X {1}) \cup (Q \X {2, 3})
           own == [a \in T |-> CHOOSE p \in P : resolveLink(lmv[p[1]], p[2]) = a]
<1>1. IsFiniteSet(S) /\ Q \subseteq S
  BY FiniteFill, FS_Subset
<1>2. \A nb \in S : \A i \in 0..PRIMARY_SLOTS : <<nb, i>> \in F
  OBVIOUS
<1>3. \A nb \in Q : \A i \in (PRIMARY_SLOTS + 1)..firstPairSlot : <<nb, i>> \in F
  <2>1. (PRIMARY_SLOTS + 1)..firstPairSlot \subseteq 0..firstPairSlot
    BY SizeAssumption DEF firstPairSlot
  <2> QED BY <2>1
<1>4. ASSUME NEW a \in T PROVE \E p \in P : resolveLink(lmv[p[1]], p[2]) = a
  <2>1. PICK nb \in NewBins(b), m \in LinkNo : resolveLink(lmv[nb], m) = a /\ a # NO_LINK
    OBVIOUS
  <2>2. CASE m = 1
    <3>1. <<nb, 1>> \in P
      BY <2>1, <2>2 DEF resolveLink
    <3> QED BY <2>1, <2>2, <3>1
  <2>3. CASE m \in {2, 3}
    <3>1. lmv[nb].pair # NO_LINK
      BY <2>1, <2>3 DEF resolveLink
    <3>2. <<nb, m>> \in P
      BY <2>3, <3>1
    <3> QED BY <2>1, <3>2
  <2> QED BY <2>2, <2>3 DEF LinkNo
<1>5. \A a \in T : own[a] \in P /\ resolveLink(lmv[own[a][1]], own[a][2]) = a
  <2> HIDE DEF P
  <2> QED BY <1>4
<1>6. own \in [T -> P]
  BY <1>5
<1>7. \A a, c \in T : own[a] = own[c] => a = c
  BY <1>5
<1>8. linkMeta[b] \in LinkMeta /\ LinkMetaOK(linkMeta[b], NumLinks[b[1]]) /\ NumLinks[b[1]] \in Nat
  BY BinWords
<1> HIDE DEF own, S, Q
<1> QED BY <1>1, <1>2, <1>3, <1>6, <1>7, <1>8, TopCount DEF P

\* The links that the transfer of b has taken so far.
LEMMA TakenFit ==
  ASSUME IInv, NEW b \in BinId, \A nb \in NewBins(b) : PackedBin(nb),
         Cardinality(Filled(b)) <= Capacity(linkMeta[b])
  PROVE  Cardinality(TopOf(b)) <= TopMost(linkMeta[b])
<1>1. IsFiniteSet(Filled(b)) /\ IsFiniteSet(TopOf(b))
  BY FiniteFill, TopFinite
<1>2. ASSUME NEW nb \in NewBins(b)
      PROVE  /\ linkMeta[nb].single # NO_LINK => \A i \in 0..PRIMARY_SLOTS : <<nb, i>> \in Filled(b)
             /\ linkMeta[nb].pair # NO_LINK => /\ linkMeta[nb].single # NO_LINK
                                               /\ \A i \in 0..firstPairSlot : <<nb, i>> \in Filled(b)
  <2>1. nb \in BinId /\ LinkMetaOK(linkMeta[nb], NumLinks[nb[1]])
    BY BinWords DEF NewBins
  <2>2. 0..PRIMARY_SLOTS \subseteq SlotIdx /\ 0..firstPairSlot \subseteq SlotIdx
    BY SizeAssumption DEF SlotIdx, MaxSlots, firstPairSlot
  <2> QED BY <2>1, <2>2 DEF PackedBin, Filled, LinkMetaOK
<1>3. ASSUME NEW a \in TopOf(b)
      PROVE  \E nb \in NewBins(b), m \in LinkNo : resolveLink(linkMeta[nb], m) = a /\ a # NO_LINK
  <2>1. PICK nb \in NewBins(b) : a \in LinksOf(nb)
    BY DEF TopOf
  <2>2. nb \in BinId /\ a # NO_LINK
    BY <2>1 DEF NewBins, LinksOf
  <2> QED BY <2>1, <2>2, LinkRange
<1> QED BY <1>1, <1>2, <1>3, TopsFit

\* The transfer of every bin of an index takes at most four links for three.
LEMMA TopOfBins ==
  ASSUME IInv, RInv, LInv, NEW b \in BinId, b[1] < MaxGen
  PROVE  Cardinality(TopOf(b)) <= TopMost(linkMeta[b])
<1>1. b[1] \in 0..(MaxGen - 1) /\ NumBins[b[1]] \in Nat /\ b[2] \in Nat
  BY BinIdGen, SizeAssumption DEF Gen
<1>2. CASE header[b].bs = BinDoneTransfer
  BY <1>2 DEF LInv, TopInv
<1>3. CASE header[b].bs # BinDoneTransfer
  <2>1. PICK c : c = chunkOf(b[2])
    OBVIOUS
  <2>2. ProgressInv(b)
    BY DEF RInv, MoversInv
  <2>3. CASE header[b].bs = BinNoTransfer
    <3>1. \A nb \in NewBins(b) : LinksOf(nb) = {}
      <4> SUFFICES ASSUME NEW nb \in NewBins(b) PROVE LinksOf(nb) = {}
        OBVIOUS
      <4>1. nb \in BinId /\ nb[1] > 0 /\ OldOf(nb) = b
        BY <1>1 DEF NewBins
      <4>2. linkMeta[nb] = NoLinks
        BY <2>3, <4>1 DEF LInv, NewBinInv, EmptyBin
      <4> QED BY <4>2 DEF LinksOf, resolveLink, NoLinks, NO_LINK
    <3>2. TopOf(b) = {}
      BY <3>1 DEF TopOf
    <3>3. Cardinality(TopOf(b)) = 0
      BY <3>2, FS_EmptySet
    <3> QED BY <3>3 DEF TopMost
  <2>4. CASE header[b].bs # BinNoTransfer
    <3>1. PICK t \in Thread : Moves(t, b[1], c) /\ header[b].bs = MoverState(t, b[2])
      BY <1>3, <2>1, <2>2, <2>4 DEF ProgressInv
    <3>2. pc[t] \in MovePC /\ OldBin(t) = b /\ header[b].bs = BinInTransfer
      BY <1>3, <2>4, <3>1, BinIdGen DEF Moves, MoverState, MovePC, OldBin
    <3>3. CountInv(t) /\ MoverInv(t)
      BY <3>2 DEF LInv
    <3>4. \A nb \in NewBins(b) : PackedBin(nb)
      <4> SUFFICES ASSUME NEW nb \in NewBins(b) PROVE PackedBin(nb)
        OBVIOUS
      <4>1. nb \in BinId /\ nb[1] > 0 /\ OldOf(nb) = b
        BY <1>1 DEF NewBins
      <4> QED BY <3>2, <4>1 DEF LInv, NewBinInv
    <3>5. Cardinality(Filled(b)) <= Capacity(linkMeta[b])
      BY <3>2, <3>3, MoverRoom
    <3> QED BY <3>4, <3>5, TakenFit
  <2> QED BY <2>3, <2>4
<1> QED BY <1>2, <1>3

\* At most four things can be numbered from 0 to 3.
LEMMA FourRanks ==
  ASSUME NEW T, IsFiniteSet(T), Cardinality(T) <= 4
  PROVE  \E r \in [T -> 0..3] : \A a, c \in T : r[a] = r[c] => a = c
<1>1. PICK n \in Nat : n = Cardinality(T) /\ n <= 4
  BY FS_CardinalityType
<1>2. PICK f \in Bijection(1..n, T) : TRUE
  BY <1>1, FS_CardinalityType DEF ExistsBijection
<1>3. f \in [1..n -> T] /\ \A a \in T : \E i \in 1..n : f[i] = a
  BY <1>2 DEF Bijection, Surjection
<1> DEFINE r == [a \in T |-> (CHOOSE i \in 1..n : f[i] = a) - 1]
<1>4. \A a \in T : r[a] + 1 \in 1..n /\ f[r[a] + 1] = a /\ r[a] \in 0..3
  <2> SUFFICES ASSUME NEW a \in T PROVE r[a] + 1 \in 1..n /\ f[r[a] + 1] = a /\ r[a] \in 0..3
    OBVIOUS
  <2>1. PICK i \in 1..n : i = CHOOSE j \in 1..n : f[j] = a
    BY <1>3
  <2>2. f[i] = a /\ r[a] = i - 1
    BY <1>3, <2>1
  <2> QED BY <1>1, <2>2
<1>5. r \in [T -> 0..3]
  BY <1>4
<1>6. \A a, c \in T : r[a] = r[c] => a = c
  BY <1>4
<1> QED BY <1>5, <1>6

\* The links I that the bins of g take for their transfer, at most four for three of their
\* own, fit into the links that triggerResize set aside.
LEMMA CountLinks ==
  ASSUME IInv, LInv, NEW g \in 0..(MaxGen - 1), NEW Tops, NEW I, IsFiniteSet(I),
         \A b \in BinId : b[1] = g => IsFiniteSet(Tops[b]) /\ Cardinality(Tops[b]) <= TopMost(linkMeta[b]),
         \A a \in I : \E b \in BinId : b[1] = g /\ a \in Tops[b]
  PROVE  /\ Cardinality(I) \in Nat /\ Cardinality(I) <= (NumLinks[g] * 4) \div 3
         /\ I # {} => NumLinks[g] > 0
<1>1. PICK n \in Nat : n = NumLinks[g] /\ g \in Gen
  BY CtxType, SizeAssumption
<1> DEFINE D == I \X {0, 1, 2}
           C == (1..n) \X (0..3)
<1>2. PICK own \in [I -> BinId] : \A a \in I : own[a][1] = g /\ a \in Tops[own[a]]
  <2> DEFINE w == [a \in I |-> CHOOSE b \in BinId : b[1] = g /\ a \in Tops[b]]
  <2>1. w \in [I -> BinId] /\ \A a \in I : w[a][1] = g /\ a \in Tops[w[a]]
    OBVIOUS
  <2> HIDE DEF w
  <2> QED BY <2>1
<1>3. PICK rank : \A b \in BinId : b[1] = g => /\ rank[b] \in [Tops[b] -> 0..3]
                                               /\ \A x, y \in Tops[b] : rank[b][x] = rank[b][y] => x = y
  <2> DEFINE w == [b \in BinId |-> CHOOSE r \in [Tops[b] -> 0..3] : \A x, y \in Tops[b] : r[x] = r[y] => x = y]
  <2>1. ASSUME NEW b \in BinId, b[1] = g
        PROVE  /\ w[b] \in [Tops[b] -> 0..3]
               /\ \A x, y \in Tops[b] : w[b][x] = w[b][y] => x = y
    <3>1. PICK T : T = Tops[b] /\ IsFiniteSet(T) /\ Cardinality(T) <= TopMost(linkMeta[b]) /\ Cardinality(T) \in Nat
      BY <2>1, FS_CardinalityType
    <3>2. Cardinality(T) <= 4
      BY <3>1 DEF TopMost
    <3>3. \E r \in [T -> 0..3] : \A x, y \in T : r[x] = r[y] => x = y
      BY <3>1, <3>2, FourRanks
    <3>4. w[b] = CHOOSE r \in [T -> 0..3] : \A x, y \in T : r[x] = r[y] => x = y
      BY <3>1
    <3> HIDE DEF w
    <3> QED BY <3>1, <3>3, <3>4
  <2> HIDE DEF w
  <2> QED BY <2>1
<1>4. PICK lm \in [I -> LinkMeta] : \A a \in I : lm[a] = linkMeta[own[a]]
  <2>1. \A a \in I : linkMeta[own[a]] \in LinkMeta
    BY <1>2, BinWords
  <2>2. [a \in I |-> linkMeta[own[a]]] \in [I -> LinkMeta]
    BY <2>1
  <2> QED BY <2>2
<1>5. ASSUME NEW a \in I
      PROVE  /\ lm[a].single # NO_LINK
             /\ lm[a].pair = NO_LINK => \A c \in Tops[own[a]] : c = a
  <2>1. PICK b \in BinId : b = own[a] /\ b[1] = g /\ a \in Tops[b] /\ lm[a] = linkMeta[b]
    BY <1>2, <1>4
  <2>2. PICK T : T = Tops[b] /\ IsFiniteSet(T) /\ Cardinality(T) <= TopMost(linkMeta[b]) /\ Cardinality(T) \in Nat
    BY <2>1, FS_CardinalityType
  <2>3. Cardinality(T) # 0
    BY <2>1, <2>2, FS_EmptySet
  <2>4. linkMeta[b].single # NO_LINK
    BY <2>2, <2>3 DEF TopMost
  <2>5. ASSUME linkMeta[b].pair = NO_LINK PROVE \A c \in T : c = a
    <3>1. Cardinality(T) = 1
      BY <2>2, <2>3, <2>4, <2>5 DEF TopMost
    <3>2. \E x : T = {x}
      BY <2>2, <3>1, FS_Singleton
    <3> QED BY <2>1, <2>2, <3>2
  <2> QED BY <2>1, <2>2, <2>4, <2>5
<1> DEFINE f == [p \in D |-> IF lm[p[1]].pair = NO_LINK THEN <<lm[p[1]].single, p[2]>>
                             ELSE <<resolveLink(lm[p[1]], p[2] + 1), rank[own[p[1]]][p[1]]>>]
<1>6. ASSUME NEW p \in D
      PROVE  /\ \E m \in LinkNo : /\ f[p][1] = resolveLink(lm[p[1]], m) /\ f[p][1] # NO_LINK
                                  /\ f[p][1] \in 1..n
                                  /\ lm[p[1]].pair # NO_LINK => m = p[2] + 1
             /\ f[p][2] = (IF lm[p[1]].pair = NO_LINK THEN p[2] ELSE rank[own[p[1]]][p[1]])
             /\ f[p][2] \in 0..3
  <2>1. p[1] \in I /\ p[2] \in {0, 1, 2} /\ p[2] + 1 \in LinkNo
    BY DEF LinkNo
  <2>2. PICK a \in I, b \in BinId : a = p[1] /\ b = own[a] /\ b[1] = g /\ a \in Tops[b] /\ lm[a] = linkMeta[b]
    BY <1>2, <1>4, <2>1
  <2>3. lm[a].single # NO_LINK /\ lm[a] \in LinkMeta
    BY <1>5, <1>4
  <2>4. LinksOf(b) \subseteq 1..n /\ \A m \in LinkNo : resolveLink(lm[a], m) # NO_LINK
                                                     => resolveLink(lm[a], m) \in LinksOf(b)
    BY <1>1, <2>2, LinkRange
  <2>5. CASE lm[a].pair = NO_LINK
    <3>1. f[p] = <<lm[a].single, p[2]>>
      BY <2>2, <2>5
    <3>2. resolveLink(lm[a], 1) = lm[a].single /\ 1 \in LinkNo
      BY DEF resolveLink, LinkNo
    <3> HIDE DEF f
    <3> QED BY <2>1, <2>2, <2>3, <2>4, <2>5, <3>1, <3>2
  <2>6. CASE lm[a].pair # NO_LINK
    <3>1. f[p] = <<resolveLink(lm[a], p[2] + 1), rank[b][a]>>
      BY <2>2, <2>6
    <3>2. resolveLink(lm[a], p[2] + 1) # NO_LINK
      BY <2>1, <2>3, <2>6 DEF resolveLink, LinkMeta, NO_LINK
    <3>3. rank[b][a] \in 0..3
      BY <1>3, <2>2
    <3> HIDE DEF f
    <3> QED BY <2>1, <2>2, <2>4, <2>6, <3>1, <3>2, <3>3
  <2> QED BY <2>5, <2>6
<1> HIDE DEF f
<1>7. f \in [D -> C]
  <2>1. \A p \in D : f[p] = <<f[p][1], f[p][2]>>
    BY DEF f
  <2>2. \A p \in D : f[p] \in C
    BY <1>6, <2>1
  <2> QED BY <2>2 DEF f
<1>8. ASSUME NEW p \in D, NEW q \in D, f[p] = f[q] PROVE p = q
  <2>1. /\ p[1] \in I /\ q[1] \in I /\ p = <<p[1], p[2]>> /\ q = <<q[1], q[2]>>
        /\ p[2] \in {0, 1, 2} /\ q[2] \in {0, 1, 2}
    OBVIOUS
  <2>2. PICK m \in LinkNo : /\ f[p][1] = resolveLink(lm[p[1]], m) /\ f[p][1] # NO_LINK
                            /\ lm[p[1]].pair # NO_LINK => m = p[2] + 1
    BY <1>6
  <2>3. PICK k \in LinkNo : /\ f[q][1] = resolveLink(lm[q[1]], k) /\ f[q][1] # NO_LINK
                            /\ lm[q[1]].pair # NO_LINK => k = q[2] + 1
    BY <1>6
  <2>4. own[p[1]] = own[q[1]] /\ m = k
    <3>1. OneOwner(own[p[1]], own[q[1]])
      BY <1>2, <2>1 DEF LInv, LinksInv
    <3> QED BY <1>4, <1>8, <2>1, <2>2, <2>3, <3>1 DEF OneOwner
  <2>5. CASE lm[p[1]].pair = NO_LINK
    <3>1. p[1] = q[1]
      BY <1>2, <1>5, <2>1, <2>4, <2>5
    <3>2. f[p][2] = p[2] /\ f[q][2] = q[2]
      BY <1>4, <1>6, <2>1, <2>4, <2>5
    <3> QED BY <1>8, <2>1, <3>1, <3>2
  <2>6. CASE lm[p[1]].pair # NO_LINK
    <3>1. p[2] = q[2]
      BY <1>4, <2>1, <2>2, <2>3, <2>4, <2>6
    <3>2. rank[own[p[1]]][p[1]] = rank[own[p[1]]][q[1]]
      BY <1>4, <1>6, <1>8, <2>1, <2>4, <2>6
    <3>3. p[1] = q[1]
      BY <1>2, <1>3, <2>1, <2>4, <3>2
    <3> QED BY <2>1, <3>1, <3>3
  <2> QED BY <2>5, <2>6
<1>9. IsFiniteSet(D) /\ Cardinality(D) = Cardinality(I) * 3
  <2>1. IsFiniteSet({0, 1, 2}) /\ Cardinality({0, 1, 2}) = 3
    <3>1. ASSUME NEW a \in Int, NEW c \in Int, a = 0, c = 2 PROVE IsFiniteSet(a..c) /\ Cardinality(a..c) = 3
      <4>1. IsFiniteSet(a..c) /\ Cardinality(a..c) = IF a > c THEN 0 ELSE c - a + 1
        BY FS_Interval
      <4>2. ~(a > c) /\ c - a + 1 = 3
        BY <3>1
      <4> QED BY <4>1, <4>2
    <3>2. {0, 1, 2} = 0..2 /\ 0 \in Int /\ 2 \in Int
      OBVIOUS
    <3> QED BY <3>1, <3>2
  <2> QED BY <2>1, FS_Product
<1>10. IsFiniteSet(C) /\ Cardinality(C) = n * 4
  <2>1. ASSUME NEW a \in Int, NEW c \in Int, a <= c + 1 PROVE IsFiniteSet(a..c) /\ Cardinality(a..c) = c - a + 1
    BY <2>1, FS_Interval
  <2>2. IsFiniteSet(0..3) /\ Cardinality(0..3) = 4
    <3>1. 0 \in Int /\ 3 \in Int /\ 0 <= 3 + 1 /\ 3 - 0 + 1 = 4
      OBVIOUS
    <3> QED BY <2>1, <3>1
  <2>3. IsFiniteSet(1..n) /\ Cardinality(1..n) = n
    <3>1. 1 \in Int /\ n \in Int /\ 1 <= n + 1 /\ n - 1 + 1 = n
      OBVIOUS
    <3> QED BY <2>1, <3>1
  <2>4. IsFiniteSet(C) /\ Cardinality(C) = Cardinality(1..n) * Cardinality(0..3)
    BY <2>2, <2>3, FS_Product
  <2> QED BY <2>2, <2>3, <2>4
<1>11. Cardinality(D) <= Cardinality(C)
  <2> HIDE DEF D, C
  <2> QED BY <1>7, <1>8, <1>9, <1>10, InjCount
<1>12. PICK x \in Nat : x = Cardinality(I) /\ x * 3 <= n * 4
  BY <1>9, <1>10, <1>11, FS_CardinalityType
<1>13. x <= (n * 4) \div 3
  <2>1. n * 4 \in Nat /\ 3 \in Nat \ {0}
    OBVIOUS
  <2>2. PICK q, r \in Nat : q = (n * 4) \div 3 /\ n * 4 = 3 * q + r /\ r < 3
    BY <2>1, DivMod
  <2> QED BY <1>12, <2>2
<1>14. I # {} => n > 0
  <2>1. x = 0 => I = {}
    BY <1>12, FS_EmptySet
  <2> QED BY <1>12, <2>1
<1> QED BY <1>1, <1>12, <1>13, <1>14

\* The bin is done: its new bins are full of what was moved.
LEMMA FinishBinL ==
  ASSUME IInv, IInv', RInv, LInv, NEW t \in Thread, FinishBin(t) PROVE LInv'
<1>1. /\ ResizeStep(t) /\ pc[t] \in TransferPC /\ pc[t] = "xdone"
      /\ pc \in [Thread -> PC] /\ xfer \in [Thread -> XferRec] /\ header \in [BinId -> Header]
      /\ UNCHANGED <<linkMeta, slotKey, linkNext, linkCapacity, active, resizeCtx, ctx>>
  BY DEF FinishBin, ResizeStep, TransferPC, arena, roots, IInv, BaseType, BaseLocal, BaseMemory
<1>2. PICK b \in BinId : b = OldBin(t) /\ b[1] < MaxGen
  <2>1. OldBin(t) \in BinId /\ OldBin(t)[1] \in 0..(MaxGen - 1)
    BY <1>1, MoverBin
  <2> QED BY <2>1, SizeAssumption
<1>3. /\ header'[b] = setBinState(xfer[t].h, BinDoneTransfer)
      /\ \A bin \in BinId : bin # b => header'[bin] = header[bin]
      /\ pc'[t] \in {"chunkDone", "or"}
  BY <1>1, <1>2 DEF FinishBin, Goto
<1>4. header'[b].bs = BinDoneTransfer
  BY <1>1, <1>3 DEF setBinState, XferRec, Header
<1>5. \A bin \in BinId : KeysKept(bin)
  BY <1>1, KeepKeys DEF Keeps
<1>6. ASSUME NEW nb \in NewBins(b) PROVE NewBinInv(nb)'
  BY <1>4 DEF NewBinInv, NewBins, OldOf, BinDoneTransfer, BinNoTransfer, BinInTransfer
<1>7. TopInv(b)'
  <2>1. TopOf(b)' = TopOf(b) /\ linkMeta'[b] = linkMeta[b]
    BY <1>1 DEF TopOf, NewBins, OldOf, LinksOf
  <2> QED BY <1>2, <2>1, TopOfBins DEF TopInv
<1>8. /\ header'[b].bs # BinNoTransfer
      /\ pc'[t] \notin {"setCtx", "finActive"} /\ pc'[t] \notin MovePC
  BY <1>3, <1>4 DEF BinDoneTransfer, BinNoTransfer, MovePC, TransferPC
<1> QED BY <1>1, <1>2, <1>3, <1>5, <1>6, <1>7, <1>8, MoverL

-----------------------------------------------------------------------------
(* The move of an entry.                                                   *)

\* Where the entry goes: to a new bin that its transfer is filling, with room for one more.
LEMMA AtEntry ==
  ASSUME IInv, RInv, LInv, NEW t \in Thread, pc[t] = "move",
         NEW b \in BinId, b = OldBin(t), NEW g \in 0..(MaxGen - 1), g = xfer[t].gen,
         NEW new, new = getBin(g + 1, xfer[t].key)
  PROVE  /\ header[b].bs = BinInTransfer /\ b[1] = g /\ Started(g)
         /\ new \in NewBins(b) /\ new \in BinId /\ new[1] = g + 1 /\ OldOf(new) = b /\ new # b
         /\ xfer[t].key \in Nat /\ InBin(new, xfer[t].key)
         /\ \A nb \in NewBins(b) : PackedBin(nb) /\ nb \in BinId /\ nb[1] = g + 1 /\ OldOf(nb) = b
         /\ Cardinality(Filled(b)) \in Nat /\ Cardinality(Filled(b)) + 1 <= Capacity(linkMeta[b])
         /\ SetAside(g) /\ ctx[g].linkNextResize \in 1..NumLinks[g + 1] /\ NumLinks[g + 1] \in Nat
         /\ MoverInv(t) /\ CountInv(t)
<1>1. pc[t] \in TransferPC /\ pc[t] \in MovePC /\ pc[t] \in ContextPC
  BY DEF TransferPC, MovePC, ContextPC
<1>2. header[b].bs = BinInTransfer /\ b[1] = g /\ Started(g) /\ ctx[g].chunksDone < NumChunks(g)
  BY <1>1, MoverBin
<1>3. MoverInv(t) /\ CountInv(t)
  BY <1>1 DEF LInv
<1>4. InBin(b, xfer[t].key) /\ xfer[t].key \in Nat
  BY <1>3, Locals DEF MoverInv, XferRec
<1>5. new \in NewBins(b) /\ InBin(new, xfer[t].key) /\ g + 1 \in Gen
  BY <1>2, <1>4, KeyGoes
<1>6. \A nb \in NewBins(b) : PackedBin(nb) /\ nb \in BinId /\ nb[1] = g + 1 /\ OldOf(nb) = b
  <2> SUFFICES ASSUME NEW nb \in NewBins(b) PROVE PackedBin(nb) /\ nb \in BinId /\ nb[1] = g + 1 /\ OldOf(nb) = b
    OBVIOUS
  <2>1. nb \in BinId /\ nb[1] = g + 1 /\ OldOf(nb) = b /\ nb[1] > 0
    BY <1>2, SizeAssumption DEF NewBins
  <2> QED BY <1>2, <2>1 DEF LInv, NewBinInv
<1>7. new \in BinId /\ new[1] = g + 1 /\ OldOf(new) = b /\ new # b
  BY <1>2, <1>5, <1>6, SizeAssumption
<1>8. Cardinality(Filled(b)) \in Nat /\ Cardinality(Filled(b)) + 1 <= Capacity(linkMeta[b])
  <2>1. /\ Cardinality(Filled(b)) \in Nat /\ Cardinality(xfer[t].todo) \in Nat /\ IsFiniteSet(xfer[t].todo)
        /\ Cardinality(Filled(b)) + Cardinality(xfer[t].todo) <= Capacity(linkMeta[b])
    BY <1>1, <1>3, MoverRoom
  <2>2. Cardinality(xfer[t].todo) # 0
    BY <2>1, AtMove, FS_EmptySet
  <2>3. Capacity(linkMeta[b]) \in Nat
    BY AttachedCount
  <2> QED BY <2>1, <2>2, <2>3
<1>9. SetAside(g)
  BY <1>2 DEF LInv, EndsInv
<1>10. ctx[g].linkNextResize \in 1..NumLinks[g + 1] /\ NumLinks[g + 1] \in Nat
  BY <1>1, <1>5, AtContext, SizeAssumption
<1> QED BY <1>2, <1>3, <1>4, <1>5, <1>6, <1>7, <1>8, <1>9, <1>10

\* LinkMeta lm2 gives the bin new the links lo..hi as well, and a link beyond the first
\* bucket only if, with slot i, the buckets before it are full.
Extends(new, lm2, i, lo, hi) ==
  /\ lm2.single # NO_LINK => \A j \in 0..PRIMARY_SLOTS : header[new].ss[j] = SlotValid \/ j = i
  /\ lm2.pair # NO_LINK => /\ lm2.single # NO_LINK
                           /\ \A j \in 0..firstPairSlot : header[new].ss[j] = SlotValid \/ j = i
  /\ \A m \in LinkNo : resolveLink(linkMeta[new], m) # NO_LINK =>
        \E k \in LinkNo : resolveLink(lm2, k) = resolveLink(linkMeta[new], m)
  /\ \A a \in lo..hi : \E k \in LinkNo : resolveLink(lm2, k) = a

\* If the new bin took the links NumLinks..hi as well, when slot i of it is filled, there
\* would be at most as many as were set aside.
LEMMA TakeMore ==
  ASSUME IInv, RInv, LInv, NEW t \in Thread, pc[t] = "move",
         NEW b \in BinId, b = OldBin(t), NEW g \in 0..(MaxGen - 1), g = xfer[t].gen,
         NEW new, new = getBin(g + 1, xfer[t].key),
         NEW lm2, NEW i \in SlotIdx, NEW N \in Nat, N = NumLinks[g + 1], NEW hi \in Nat, hi >= N,
         Extends(new, lm2, i, N, hi)
  PROVE  LET lo == ctx[g].linkNextResize - (hi - N + 1) IN
         linkCapacity[g + 1] < lo /\ lo >= 2
<1> USE DEF Extends
<1>1. /\ b[1] = g /\ Started(g) /\ b[1] < MaxGen
      /\ new \in NewBins(b) /\ new \in BinId /\ new[1] = g + 1
      /\ \A nb \in NewBins(b) : PackedBin(nb) /\ nb \in BinId /\ nb[1] = g + 1 /\ OldOf(nb) = b
      /\ Cardinality(Filled(b)) \in Nat /\ Cardinality(Filled(b)) + 1 <= Capacity(linkMeta[b])
      /\ SetAside(g) /\ ctx[g].linkNextResize \in 1..N
  BY AtEntry, SizeAssumption
<1>2. PICK n \in Nat : n = ctx[g].linkNextResize /\ n >= 1 /\ n <= N
  BY <1>1
<1> DEFINE F == Filled(b) \cup {<<new, i>>}
           T == TopOf(b) \cup (N..hi)
           lmv == [nb \in NewBins(b) |-> IF nb = new THEN lm2 ELSE linkMeta[nb]]
           Tops == [bb \in BinId |-> IF bb = b THEN T ELSE TopOf(bb)]
           I == n..hi
<1>3. IsFiniteSet(F) /\ Cardinality(F) <= Capacity(linkMeta[b])
  <2>1. IsFiniteSet(Filled(b)) /\ Capacity(linkMeta[b]) \in Nat
    BY FiniteFill, AttachedCount
  <2>2. IsFiniteSet(F) /\ Cardinality(F) = IF <<new, i>> \in Filled(b) THEN Cardinality(Filled(b))
                                           ELSE Cardinality(Filled(b)) + 1
    BY <2>1, FS_AddElement
  <2> HIDE DEF F
  <2> QED BY <1>1, <2>1, <2>2
<1>4. 0..PRIMARY_SLOTS \subseteq SlotIdx /\ 0..firstPairSlot \subseteq SlotIdx
  BY SizeAssumption DEF SlotIdx, MaxSlots, firstPairSlot
<1>5. ASSUME NEW nb \in NewBins(b)
      PROVE  /\ lmv[nb].single # NO_LINK => \A j \in 0..PRIMARY_SLOTS : <<nb, j>> \in F
             /\ lmv[nb].pair # NO_LINK => /\ lmv[nb].single # NO_LINK
                                          /\ \A j \in 0..firstPairSlot : <<nb, j>> \in F
  <2>1. CASE nb = new
    <3>1. lmv[nb] = lm2
      BY <2>1
    <3>2. \A j \in SlotIdx : header[new].ss[j] = SlotValid \/ j = i => <<nb, j>> \in F
      BY <1>1, <2>1 DEF Filled
    <3> HIDE DEF lmv, F
    <3> QED BY <1>4, <3>1, <3>2
  <2>2. CASE nb # new
    <3>1. lmv[nb] = linkMeta[nb] /\ PackedBin(nb) /\ LinkMetaOK(linkMeta[nb], NumLinks[nb[1]])
      BY <1>1, <2>2, BinWords
    <3>2. \A j \in SlotIdx : header[nb].ss[j] = SlotValid => <<nb, j>> \in F
      BY DEF Filled
    <3> HIDE DEF lmv, F
    <3> QED BY <1>4, <3>1, <3>2 DEF PackedBin, LinkMetaOK
  <2> QED BY <2>1, <2>2
<1>6. IsFiniteSet(T)
  <2>1. IsFiniteSet(TopOf(b)) /\ IsFiniteSet(N..hi)
    <3>1. N \in Int /\ hi \in Int
      OBVIOUS
    <3> QED BY <3>1, TopFinite, FS_Interval
  <2> QED BY <2>1, FS_Union
<1>7. ASSUME NEW a \in T
      PROVE  \E nb \in NewBins(b), m \in LinkNo : resolveLink(lmv[nb], m) = a /\ a # NO_LINK
  <2>1. CASE a \in N..hi
    <3>1. lmv[new] = lm2 /\ a # NO_LINK
      BY <1>1, <1>2, <2>1 DEF NO_LINK
    <3> QED BY <1>1, <2>1, <3>1
  <2>2. CASE a \in TopOf(b)
    <3>1. PICK nb \in NewBins(b) : a \in LinksOf(nb)
      BY <2>2 DEF TopOf
    <3>2. PICK m \in LinkNo : a = resolveLink(linkMeta[nb], m) /\ a # NO_LINK
      <4>1. nb \in BinId /\ a # NO_LINK
        BY <1>1, <3>1 DEF LinksOf
      <4> QED BY <3>1, <4>1, LinkRange
    <3>3. CASE nb = new
      <4>1. lmv[nb] = lm2
        BY <3>3
      <4>2. PICK k \in LinkNo : resolveLink(lm2, k) = a
        BY <3>2, <3>3
      <4> HIDE DEF lmv
      <4> QED BY <3>2, <4>1, <4>2
    <3>4. CASE nb # new
      <4>1. lmv[nb] = linkMeta[nb]
        BY <3>4
      <4> HIDE DEF lmv
      <4> QED BY <3>2, <4>1
    <3> QED BY <3>3, <3>4
  <2> QED BY <2>1, <2>2
<1>8. Cardinality(T) <= TopMost(linkMeta[b])
  <2> HIDE DEF T, F, lmv
  <2> QED BY <1>3, <1>5, <1>6, <1>7, TopsFit
<1>9. ASSUME NEW bb \in BinId, bb[1] = g
      PROVE  IsFiniteSet(Tops[bb]) /\ Cardinality(Tops[bb]) <= TopMost(linkMeta[bb])
  <2>1. IsFiniteSet(TopOf(bb)) /\ Cardinality(TopOf(bb)) <= TopMost(linkMeta[bb])
    BY <1>1, <1>9, TopOfBins, TopFinite
  <2>2. Tops[bb] = IF bb = b THEN T ELSE TopOf(bb)
    OBVIOUS
  <2> HIDE DEF T, Tops
  <2> QED BY <1>6, <1>8, <2>1, <2>2
<1>10. ASSUME NEW a \in I PROVE \E bb \in BinId : bb[1] = g /\ a \in Tops[bb]
  <2>1. CASE a \in N..hi
    <3>1. a \in Tops[b]
      BY <2>1
    <3> QED BY <1>1, <3>1
  <2>2. CASE a \in n..(N - 1)
    <3>1. PICK nb \in BinId : nb[1] = g + 1 /\ a \in LinksOf(nb)
      BY <1>2, <2>2 DEF LInv, EndsInv
    <3>2. OldOf(nb) \in BinId /\ OldOf(nb)[1] = g /\ nb \in NewBins(OldOf(nb))
      BY <3>1, OldOfType
    <3>3. a \in TopOf(OldOf(nb))
      BY <1>2, <2>2, <3>1, <3>2 DEF TopOf
    <3>4. a \in Tops[OldOf(nb)]
      BY <3>2, <3>3
    <3> QED BY <3>2, <3>4
  <2> QED BY <1>2, <2>1, <2>2
<1>11. IsFiniteSet(I) /\ Cardinality(I) = hi - n + 1
  <2>1. n \in Int /\ hi \in Int /\ ~(n > hi)
    BY <1>2
  <2> QED BY <2>1, FS_Interval
<1>12. Cardinality(I) <= (NumLinks[g] * 4) \div 3 /\ NumLinks[g] > 0
  <2>1. I # {}
    BY <1>2
  <2> HIDE DEF I, Tops
  <2> QED BY <1>9, <1>10, <1>11, <2>1, CountLinks
<1>13. N > (NumLinks[g] * 4) \div 3 + 1
  BY <1>12, LinkAssumption
<1>14. linkCapacity[g + 1] = N - ((NumLinks[g] * 4) \div 3 + 1)
  BY <1>1 DEF SetAside, resLinkBudget
<1>15. PICK x \in Nat : x = (NumLinks[g] * 4) \div 3
  BY CtxType, SizeAssumption
<1>16. hi - n + 1 <= x /\ N > x + 1 /\ linkCapacity[g + 1] = N - (x + 1)
  BY <1>11, <1>12, <1>13, <1>14, <1>15
<1> QED BY <1>2, <1>16

\* What findFreeSlotOrChain is to return for a new bin, when n is the lowest link taken:
\* a free slot, behind it the links that the bin had and those of next..n-1, and a link
\* only when the buckets before are full.
GoodSlot(new, n, r) ==
  /\ r.slot \in SlotIdx /\ header[new].ss[r.slot] # SlotValid
  /\ r.lm \in LinkMeta /\ Keeps(linkMeta[new], r.lm) /\ HasSlot(r.lm, r.slot)
  /\ r.lm.single # NO_LINK => \A j \in 0..PRIMARY_SLOTS : header[new].ss[j] = SlotValid \/ j = r.slot
  /\ r.lm.pair # NO_LINK => \A j \in 0..firstPairSlot : header[new].ss[j] = SlotValid \/ j = r.slot
  /\ r.next \in Nat /\ r.next <= n
  /\ \A k \in LinkNo : resolveLink(r.lm, k) = resolveLink(linkMeta[new], k)
                       \/ resolveLink(r.lm, k) \in r.next..(n - 1)
  /\ \A k, m \in LinkNo : resolveLink(r.lm, k) = resolveLink(r.lm, m)
                          /\ resolveLink(r.lm, k) \in r.next..(n - 1) => k = m
  /\ \A a \in r.next..(n - 1) : \E k \in LinkNo : resolveLink(r.lm, k) = a

\* A slot of a bucket that the new bin has.
LEMMA OldSlot ==
  ASSUME IInv, NEW new \in BinId, PackedBin(new), NEW n \in Nat,
         NEW m \in 0..3, m # 0 => m \in attached(linkMeta[new]), NEW i \in invalidMask(header[new], m)
  PROVE  GoodSlot(new, n, [slot |-> i, lm |-> linkMeta[new], next |-> n])
<1>1. /\ header[new] \in Header /\ linkMeta[new] \in LinkMeta
      /\ LinkMetaOK(linkMeta[new], NumLinks[new[1]])
  BY BinWords
<1>2. i \in SlotIdx /\ i \in Bucket(m) /\ header[new].ss[i] = SlotInvalid
  BY <1>1, HeaderOps DEF invalidMask
<1>3. HasSlot(linkMeta[new], i)
  <2>1. CASE m = 0
    BY <1>1, <1>2, <2>1, BucketSlots DEF HasSlot
  <2>2. CASE m # 0
    BY <1>1, <2>2, AttachedSlot
  <2> QED BY <2>1, <2>2
<1>4. n..(n - 1) = {}
  OBVIOUS
<1> DEFINE r == [slot |-> i, lm |-> linkMeta[new], next |-> n]
<1>5. r.slot = i /\ r.lm = linkMeta[new] /\ r.next = n
  OBVIOUS
<1>6. /\ linkMeta[new].single # NO_LINK => \A j \in 0..PRIMARY_SLOTS : header[new].ss[j] = SlotValid
      /\ linkMeta[new].pair # NO_LINK => \A j \in 0..firstPairSlot : header[new].ss[j] = SlotValid
  BY DEF PackedBin
<1>7. Keeps(linkMeta[new], linkMeta[new])
  BY DEF Keeps
<1> HIDE DEF r
<1>8. GoodSlot(new, n, r)
  BY <1>1, <1>2, <1>3, <1>4, <1>5, <1>6, <1>7 DEF GoodSlot, SlotValid, SlotInvalid
<1> QED BY <1>8 DEF r

\* The slots of a full bucket are Valid.
LEMMA FullBucket ==
  ASSUME IInv, NEW new \in BinId, PackedBin(new), NEW m \in 0..3, invalidMask(header[new], m) = {}
  PROVE  \A i \in Bucket(m) : i \in SlotIdx => header[new].ss[i] = SlotValid
<1> SUFFICES ASSUME NEW i \in SlotIdx, i \in Bucket(m) PROVE header[new].ss[i] = SlotValid
  OBVIOUS
<1>1. header[new].ss[i] \in SlotState /\ header[new].ss[i] # SlotTrying
  BY BinWords DEF PackedBin
<1>2. header[new].ss[i] # SlotInvalid
  BY DEF invalidMask
<1> QED BY <1>1, <1>2 DEF SlotState, SlotTrying, SlotInvalid, SlotValid

\* Where the buckets are.
LEMMA BucketRanges ==
  /\ \A i \in SlotIdx : /\ i < PRIMARY_SLOTS => i \in Bucket(0)
                        /\ ~(i < PRIMARY_SLOTS) /\ i < firstPairSlot => i \in Bucket(1)
                        /\ ~(i < firstPairSlot) => i \in Bucket(2) \/ i \in Bucket(3)
  /\ PRIMARY_SLOTS \in SlotIdx /\ firstPairSlot \in SlotIdx
  /\ 0..PRIMARY_SLOTS \subseteq SlotIdx /\ 0..firstPairSlot \subseteq SlotIdx
  /\ Bucket(1) \subseteq 0..firstPairSlot /\ Bucket(0) \subseteq 0..PRIMARY_SLOTS
  /\ \A i \in Bucket(1) : i \in SlotIdx
<1>1. PRIMARY_SLOTS \in Nat \ {0} /\ LINK_SLOTS \in Nat \ {0}
  BY SizeAssumption
<1>2. /\ Bucket(0) = 0..(PRIMARY_SLOTS - 1)
      /\ Bucket(1) = PRIMARY_SLOTS..(PRIMARY_SLOTS + LINK_SLOTS - 1)
      /\ Bucket(2) = (PRIMARY_SLOTS + LINK_SLOTS)..(PRIMARY_SLOTS + 2 * LINK_SLOTS - 1)
      /\ Bucket(3) = (PRIMARY_SLOTS + 2 * LINK_SLOTS)..(PRIMARY_SLOTS + 3 * LINK_SLOTS - 1)
  <2>1. (1 - 1) * LINK_SLOTS = 0 /\ 1 * LINK_SLOTS = LINK_SLOTS
        /\ (2 - 1) * LINK_SLOTS = LINK_SLOTS /\ (3 - 1) * LINK_SLOTS = 2 * LINK_SLOTS
    BY <1>1
  <2> QED BY <1>1, <2>1 DEF Bucket
<1>3. firstPairSlot = PRIMARY_SLOTS + LINK_SLOTS
  BY DEF firstPairSlot
<1>4. SlotIdx = 0..((PRIMARY_SLOTS + 3 * LINK_SLOTS) - 1)
  BY DEF SlotIdx, MaxSlots
<1> QED BY <1>1, <1>2, <1>3, <1>4

\* The entry always finds a slot, and a link that it takes was set aside for it: the
\* entries moved before fill the buckets of their new bins in order, and they and the
\* one to move fitted into the old bin.
LEMMA EntryFits ==
  ASSUME IInv, RInv, LInv, NEW t \in Thread, pc[t] = "move",
         NEW g \in 0..(MaxGen - 1), g = xfer[t].gen,
         NEW new, new = getBin(g + 1, xfer[t].key),
         NEW n \in Nat, n = ctx[g].linkNextResize
  PROVE  /\ GoodSlot(new, n, findFreeSlotOrChain(g, new))
         /\ linkCapacity[g + 1] < findFreeSlotOrChain(g, new).next
         /\ findFreeSlotOrChain(g, new).next >= 1
<1>1. PICK b \in BinId : b = OldBin(t)
  BY MoverBin DEF TransferPC
<1>2. /\ b[1] = g /\ Started(g) /\ new \in NewBins(b) /\ new \in BinId /\ new[1] = g + 1
      /\ PackedBin(new)
      /\ Cardinality(Filled(b)) \in Nat /\ Cardinality(Filled(b)) + 1 <= Capacity(linkMeta[b])
      /\ n \in 1..NumLinks[g + 1] /\ NumLinks[g + 1] \in Nat
  BY <1>1, AtEntry
<1>3. PICK lm \in LinkMeta, h \in Header : lm = linkMeta[new] /\ h = header[new]
  BY <1>2, BinWords
<1>4. /\ LinkMetaOK(lm, NumLinks[g + 1]) /\ Backed(lm, h) /\ linkCapacity[g + 1] < n
      /\ lm.pair # NO_LINK => lm.single # NO_LINK
      /\ \A i \in SlotIdx : h.ss[i] \in SlotState /\ h.ss[i] # SlotTrying
  BY <1>2, <1>3, BinWords DEF LInv, EndsInv, LinkMetaOK, PackedBin
<1>5. \A m \in 0..3 : /\ invalidMask(h, m) \subseteq SlotIdx /\ invalidMask(h, m) \subseteq Nat
                      /\ invalidMask(h, m) # {} => Lowest(invalidMask(h, m)) \in invalidMask(h, m)
  <2>1. \A m \in 0..3 : invalidMask(h, m) \subseteq SlotIdx /\ invalidMask(h, m) \subseteq Nat
    BY HeaderOps, SlotIdxNat
  <2> QED BY <2>1, LowestIn
<1>6. \A m \in LinkNo : resolveLink(lm, m) # NO_LINK => resolveLink(lm, m) >= n
  <2>1. ctx[new[1] - 1].linkNextResize = n
    BY <1>2, SizeAssumption
  <2> QED BY <1>2, <1>3, <2>1, LinkRange DEF PackedBin
<1> DEFINE free == findFreeSlotOrChain(g, new)
           Good(r) == GoodSlot(new, n, r) /\ linkCapacity[g + 1] < r.next /\ r.next >= 1
<1>7. ASSUME NEW m \in 0..3, m # 0 => m \in attached(lm), NEW i \in invalidMask(h, m)
      PROVE  Good([slot |-> i, lm |-> lm, next |-> n])
  <2>1. GoodSlot(new, n, [slot |-> i, lm |-> lm, next |-> n])
    BY <1>2, <1>3, <1>7, OldSlot
  <2> QED BY <1>2, <1>4, <2>1
<1>8. ASSUME invalidMask(h, 0) # {} PROVE Good(free)
  <2>1. free = [slot |-> Lowest(invalidMask(h, 0)), lm |-> lm, next |-> n]
    BY <1>3, <1>8 DEF findFreeSlotOrChain
  <2>2. Lowest(invalidMask(h, 0)) \in invalidMask(h, 0)
    BY <1>5, <1>8
  <2> HIDE DEF free, Good
  <2> QED BY <1>7, <2>1, <2>2
<1>9. ASSUME invalidMask(h, 0) = {} PROVE \A i \in Bucket(0) : h.ss[i] = SlotValid
  BY <1>2, <1>3, <1>9, FullBucket, BucketRanges
<1>10. ASSUME invalidMask(h, 1) = {} PROVE \A i \in Bucket(1) : h.ss[i] = SlotValid
  BY <1>2, <1>3, <1>10, FullBucket, BucketRanges
<1>11. ASSUME invalidMask(h, 0) = {}, lm.single # NO_LINK, invalidMask(h, 1) # {} PROVE Good(free)
  <2>1. free = [slot |-> Lowest(invalidMask(h, 1)), lm |-> lm, next |-> n]
    BY <1>3, <1>11 DEF findFreeSlotOrChain
  <2>2. Lowest(invalidMask(h, 1)) \in invalidMask(h, 1) /\ 1 \in attached(lm)
    BY <1>5, <1>11 DEF attached, resolveLink
  <2> HIDE DEF free, Good
  <2> QED BY <1>7, <2>1, <2>2
<1>12. ASSUME invalidMask(h, 0) = {}, lm.single # NO_LINK, invalidMask(h, 1) = {}, lm.pair # NO_LINK
       PROVE  Good(free)
  <2> DEFINE S == invalidMask(h, 2) \cup invalidMask(h, 3)
  <2>1. free = [slot |-> IF S = {} THEN NoSlot ELSE Lowest(S), lm |-> lm, next |-> n]
    BY <1>3, <1>12 DEF findFreeSlotOrChain
  <2>2. S # {}
    <3> SUFFICES ASSUME S = {} PROVE FALSE
      OBVIOUS
    <3>1. \A i \in SlotIdx : h.ss[i] = SlotValid
      <4>1. \A m \in {2, 3} : \A i \in Bucket(m) : i \in SlotIdx => h.ss[i] = SlotValid
        BY <1>2, <1>3, FullBucket
      <4> QED BY <1>9, <1>10, <1>12, <4>1, BucketRanges
    <3>2. {new} \X SlotIdx \subseteq Filled(b)
      BY <1>2, <1>3, <3>1 DEF Filled
    <3>3. IsFiniteSet({new}) /\ Cardinality({new}) = 1
      BY FS_Singleton
    <3>4. IsFiniteSet(SlotIdx) /\ Cardinality(SlotIdx) = MaxSlots
      <4>1. 0 \in Int /\ MaxSlots - 1 \in Int /\ 0 <= MaxSlots - 1 /\ MaxSlots \in Nat
        BY SizeAssumption DEF MaxSlots
      <4>2. ASSUME NEW x \in Int, NEW y \in Int, x = 0, x <= y PROVE IsFiniteSet(x..y) /\ Cardinality(x..y) = y + 1
        BY <4>2, FS_Interval
      <4>3. IsFiniteSet(0..(MaxSlots - 1)) /\ Cardinality(0..(MaxSlots - 1)) = MaxSlots - 1 + 1
        BY <4>1, <4>2
      <4> QED BY <4>1, <4>3 DEF SlotIdx
    <3>5. Cardinality({new} \X SlotIdx) = 1 * MaxSlots
      BY <3>3, <3>4, FS_Product
    <3>6. Cardinality({new} \X SlotIdx) <= Cardinality(Filled(b))
      BY <3>2, FiniteFill, FS_Subset
    <3>7. Capacity(linkMeta[b]) <= MaxSlots
      <4>1. PICK k \in 0..3 : k = Cardinality(attached(linkMeta[b]))
        BY AttachedCount
      <4>2. LINK_SLOTS * k <= 3 * LINK_SLOTS /\ LINK_SLOTS * k \in Nat
        <5>1. LINK_SLOTS \in Nat
          BY SizeAssumption
        <5> QED BY <5>1
      <4> QED BY <4>1, <4>2, SizeAssumption DEF Capacity, MaxSlots
    <3>8. MaxSlots \in Nat /\ Capacity(linkMeta[b]) \in Nat
      BY AttachedCount, SizeAssumption DEF MaxSlots
    <3> QED BY <1>2, <3>5, <3>6, <3>7, <3>8
  <2>3. Lowest(S) \in S
    <3>1. S \subseteq Nat
      BY <1>5
    <3> HIDE DEF S
    <3> QED BY <2>2, <3>1, LowestIn
  <2>4. 2 \in attached(lm) /\ 3 \in attached(lm)
    BY <1>12 DEF attached, resolveLink, LinkMeta, NO_LINK
  <2>5. \E m \in 0..3 : m \in attached(lm) /\ Lowest(S) \in invalidMask(h, m)
    BY <2>3, <2>4
  <2>6. free = [slot |-> Lowest(S), lm |-> lm, next |-> n]
    BY <2>1, <2>2
  <2> HIDE DEF free, Good, S
  <2> QED BY <1>7, <2>5, <2>6
<1>13. ASSUME invalidMask(h, 0) = {}, lm.single = NO_LINK PROVE Good(free)
  <2>1. lm.pair = NO_LINK
    BY <1>4, <1>13
  <2>2. linkCapacity[g + 1] < n - 1 /\ n - 1 >= 2
    <3>1. PICK N \in Nat : N = NumLinks[g + 1] /\ N >= 1
      BY <1>2
    <3>2. PICK l2 : l2 = [single |-> N, pair |-> NO_LINK]
      OBVIOUS
    <3>3. PRIMARY_SLOTS \in SlotIdx
      BY BucketRanges
    <3>4. \A j \in 0..PRIMARY_SLOTS : h.ss[j] = SlotValid \/ j = PRIMARY_SLOTS
      BY <1>9, <1>13, SizeAssumption DEF Bucket
    <3>5. \A m \in LinkNo : resolveLink(lm, m) = NO_LINK
      BY <1>13, <2>1 DEF LinkNo, resolveLink
    <3>6. \A a \in N..N : \E k \in LinkNo : resolveLink(l2, k) = a
      BY <3>2 DEF resolveLink, LinkNo
    <3>7. n - (N - N + 1) = n - 1
      BY <3>1
    <3>8. linkCapacity[g + 1] < ctx[g].linkNextResize - (N - N + 1)
          /\ ctx[g].linkNextResize - (N - N + 1) >= 2
      <4>1. l2.pair = NO_LINK /\ N >= N
        BY <3>1, <3>2
      <4>2. l2.single # NO_LINK => \A j \in 0..PRIMARY_SLOTS : header[new].ss[j] = SlotValid \/ j = PRIMARY_SLOTS
        BY <1>3, <3>4
      <4>3. \A m \in LinkNo : resolveLink(linkMeta[new], m) # NO_LINK =>
              \E k \in LinkNo : resolveLink(l2, k) = resolveLink(linkMeta[new], m)
        BY <1>3, <3>5
      <4>4. PICK hi \in Nat : hi = N
        BY <3>1
      <4>5. \A a \in N..hi : \E k \in LinkNo : resolveLink(l2, k) = a
        BY <3>6, <4>4
      <4>6. Extends(new, l2, PRIMARY_SLOTS, N, hi) /\ hi >= N
        BY <4>1, <4>2, <4>3, <4>4, <4>5 DEF Extends
      <4>7. linkCapacity[g + 1] < ctx[g].linkNextResize - (hi - N + 1)
            /\ ctx[g].linkNextResize - (hi - N + 1) >= 2
        BY <1>1, <3>1, <3>3, <4>4, <4>6, TakeMore
      <4> QED BY <4>4, <4>7
    <3> QED BY <3>7, <3>8
  <2>3. PICK l2 : l2 = [lm EXCEPT !.single = n - 1]
    OBVIOUS
  <2>4. free = [slot |-> PRIMARY_SLOTS, lm |-> l2, next |-> n - 1]
    BY <1>3, <1>13, <2>2, <2>3 DEF findFreeSlotOrChain, NO_LINK
  <2>5. l2 \in LinkMeta /\ l2.single = n - 1 /\ l2.pair = NO_LINK /\ n - 1 \in Nat
    BY <2>1, <2>2, <2>3 DEF LinkMeta, NO_LINK
  <2>6. Keeps(lm, l2) /\ HasSlot(l2, PRIMARY_SLOTS)
    <3>1. 1 + (PRIMARY_SLOTS - PRIMARY_SLOTS) \div LINK_SLOTS = 1
      BY SizeAssumption
    <3> QED BY <1>13, <2>1, <2>2, <2>5, <3>1 DEF Keeps, HasSlot, LinkOf, resolveLink, NO_LINK
  <2>7. PRIMARY_SLOTS \in SlotIdx /\ h.ss[PRIMARY_SLOTS] # SlotValid
    <3>1. PRIMARY_SLOTS \in SlotIdx
      BY BucketRanges
    <3>2. ~HasSlot(lm, PRIMARY_SLOTS)
      <4>1. 1 + (PRIMARY_SLOTS - PRIMARY_SLOTS) \div LINK_SLOTS = 1 /\ ~(PRIMARY_SLOTS < PRIMARY_SLOTS)
        BY SizeAssumption
      <4> QED BY <1>13, <4>1 DEF HasSlot, LinkOf, resolveLink
    <3> QED BY <1>4, <3>1, <3>2 DEF Backed, SlotValid, SlotInvalid
  <2>8. \A j \in 0..PRIMARY_SLOTS : h.ss[j] = SlotValid \/ j = PRIMARY_SLOTS
    BY <1>9, <1>13, SizeAssumption DEF Bucket
  <2>9. /\ resolveLink(l2, 1) = n - 1
        /\ \A k \in LinkNo : k # 1 => resolveLink(l2, k) = NO_LINK /\ resolveLink(lm, k) = NO_LINK
    BY <2>1, <2>5 DEF resolveLink, LinkNo
  <2>10. PICK r : r = free /\ r.slot = PRIMARY_SLOTS /\ r.lm = l2 /\ r.next = n - 1
    BY <2>4
  <2>11. (n - 1)..(n - 1) = {n - 1} /\ n - 1 <= n /\ NO_LINK \notin (n - 1)..(n - 1)
    BY <2>2 DEF NO_LINK
  <2>12. \A k \in LinkNo : resolveLink(l2, k) = resolveLink(lm, k) \/ resolveLink(l2, k) \in (n - 1)..(n - 1)
    BY <2>9, <2>11
  <2>13. \A k, m \in LinkNo : resolveLink(l2, k) = resolveLink(l2, m) /\ resolveLink(l2, k) \in (n - 1)..(n - 1) => k = m
    BY <2>9, <2>11
  <2>14. \A a \in (n - 1)..(n - 1) : \E k \in LinkNo : resolveLink(l2, k) = a
    BY <2>9, <2>11 DEF LinkNo
  <2>15. GoodSlot(new, n, r)
    <3>1. r.slot \in SlotIdx /\ header[new].ss[r.slot] # SlotValid
      BY <1>3, <2>7, <2>10
    <3>2. r.lm \in LinkMeta /\ Keeps(linkMeta[new], r.lm) /\ HasSlot(r.lm, r.slot)
      BY <1>3, <2>5, <2>6, <2>10
    <3>3. r.lm.pair = NO_LINK /\ \A j \in 0..PRIMARY_SLOTS : header[new].ss[j] = SlotValid \/ j = r.slot
      BY <1>3, <2>5, <2>8, <2>10
    <3>4. r.next \in Nat /\ r.next <= n
      BY <2>5, <2>10, <2>11
    <3>5. \A k \in LinkNo : resolveLink(r.lm, k) = resolveLink(linkMeta[new], k)
                            \/ resolveLink(r.lm, k) \in r.next..(n - 1)
      BY <1>3, <2>10, <2>12
    <3>6. \A k, m \in LinkNo : resolveLink(r.lm, k) = resolveLink(r.lm, m)
                               /\ resolveLink(r.lm, k) \in r.next..(n - 1) => k = m
      BY <2>10, <2>13
    <3>7. \A a \in r.next..(n - 1) : \E k \in LinkNo : resolveLink(r.lm, k) = a
      BY <2>10, <2>14
    <3> QED BY <3>1, <3>2, <3>3, <3>4, <3>5, <3>6, <3>7 DEF GoodSlot
  <2> QED BY <2>2, <2>10, <2>15
<1>14. ASSUME invalidMask(h, 0) = {}, lm.single # NO_LINK, invalidMask(h, 1) = {}, lm.pair = NO_LINK
       PROVE  Good(free)
  <2>1. \A j \in 0..firstPairSlot : h.ss[j] = SlotValid \/ j = firstPairSlot
    <3> SUFFICES ASSUME NEW j \in 0..firstPairSlot, j # firstPairSlot PROVE h.ss[j] = SlotValid
      OBVIOUS
    <3>1. j \in SlotIdx /\ j < firstPairSlot
      BY BucketRanges, SizeAssumption DEF firstPairSlot
    <3> QED BY <1>9, <1>10, <1>14, <3>1, BucketRanges
  <2>2. \A j \in 0..PRIMARY_SLOTS : h.ss[j] = SlotValid
    <3>1. 0..PRIMARY_SLOTS \subseteq 0..firstPairSlot /\ firstPairSlot \notin 0..PRIMARY_SLOTS
      BY SizeAssumption DEF firstPairSlot
    <3> QED BY <2>1, <3>1
  <2>3. linkCapacity[g + 1] < n - 2 /\ n - 2 >= 2
    <3>1. PICK N \in Nat : N = NumLinks[g + 1] /\ N >= 1
      BY <1>2
    <3>2. PICK l2 : l2 = [single |-> lm.single, pair |-> N]
      OBVIOUS
    <3>3. firstPairSlot \in SlotIdx
      BY BucketRanges
    <3>5. \A m \in LinkNo : resolveLink(lm, m) # NO_LINK => resolveLink(l2, 1) = resolveLink(lm, m)
      BY <1>14, <3>2 DEF LinkNo, resolveLink
    <3>6. \A a \in N..(N + 1) : \E k \in LinkNo : resolveLink(l2, k) = a
      <4>1. resolveLink(l2, 2) = N /\ resolveLink(l2, 3) = N + 1 /\ 2 \in LinkNo /\ 3 \in LinkNo
        BY <3>1, <3>2 DEF resolveLink, LinkNo, NO_LINK
      <4> QED BY <3>1, <4>1
    <3>7. PICK hi \in Nat : hi = N + 1
      BY <3>1
    <3>8. linkCapacity[g + 1] < ctx[g].linkNextResize - (hi - N + 1)
          /\ ctx[g].linkNextResize - (hi - N + 1) >= 2
      <4>1. l2.single # NO_LINK /\ 1 \in LinkNo /\ hi >= N
        BY <1>14, <3>1, <3>2, <3>7 DEF LinkNo
      <4>2. l2.single # NO_LINK =>
              \A j \in 0..PRIMARY_SLOTS : header[new].ss[j] = SlotValid \/ j = firstPairSlot
        BY <1>3, <2>2
      <4>3. l2.pair # NO_LINK =>
              /\ l2.single # NO_LINK
              /\ \A j \in 0..firstPairSlot : header[new].ss[j] = SlotValid \/ j = firstPairSlot
        BY <1>3, <2>1, <4>1
      <4>4. \A m \in LinkNo : resolveLink(linkMeta[new], m) # NO_LINK =>
              \E k \in LinkNo : resolveLink(l2, k) = resolveLink(linkMeta[new], m)
        BY <1>3, <3>5, <4>1
      <4>5. \A a \in N..hi : \E k \in LinkNo : resolveLink(l2, k) = a
        BY <3>6, <3>7
      <4>6. Extends(new, l2, firstPairSlot, N, hi)
        BY <4>1, <4>2, <4>3, <4>4, <4>5 DEF Extends
      <4> QED BY <1>1, <3>1, <3>3, <3>7, <4>1, <4>6, TakeMore
    <3>9. hi - N + 1 = 2
      BY <3>1, <3>7
    <3> QED BY <3>8, <3>9
  <2>4. PICK l2 : l2 = [single |-> lm.single, pair |-> n - 2]
    OBVIOUS
  <2>5. free = [slot |-> firstPairSlot, lm |-> l2, next |-> n - 2]
    BY <1>3, <1>14, <2>3, <2>4 DEF findFreeSlotOrChain
  <2>6. l2 \in LinkMeta /\ l2.single = lm.single /\ l2.pair = n - 2 /\ n - 2 \in Nat /\ n - 2 # NO_LINK
    BY <2>3, <2>4 DEF LinkMeta, NO_LINK
  <2>7. Keeps(lm, l2) /\ HasSlot(l2, firstPairSlot)
    <3>1. 1 + (firstPairSlot - PRIMARY_SLOTS) \div LINK_SLOTS = 2
      BY SizeAssumption DEF firstPairSlot
    <3> QED BY <1>14, <2>6, <3>1 DEF Keeps, HasSlot, LinkOf, resolveLink
  <2>8. firstPairSlot \in SlotIdx /\ h.ss[firstPairSlot] # SlotValid
    <3>1. firstPairSlot \in SlotIdx
      BY BucketRanges
    <3>2. ~HasSlot(lm, firstPairSlot)
      <4>1. 1 + (firstPairSlot - PRIMARY_SLOTS) \div LINK_SLOTS = 2 /\ ~(firstPairSlot < PRIMARY_SLOTS)
        BY SizeAssumption DEF firstPairSlot
      <4> QED BY <1>14, <4>1 DEF HasSlot, LinkOf, resolveLink
    <3> QED BY <1>4, <3>1, <3>2 DEF Backed, SlotValid, SlotInvalid
  <2>9. /\ resolveLink(l2, 1) = lm.single /\ resolveLink(lm, 1) = lm.single /\ lm.single >= n
        /\ resolveLink(l2, 2) = n - 2 /\ resolveLink(l2, 3) = n - 1
    <3>1. resolveLink(l2, 3) = n - 2 + 1 /\ n - 2 + 1 = n - 1
      BY <2>6 DEF resolveLink
    <3>2. resolveLink(lm, 1) = lm.single /\ 1 \in LinkNo
      BY DEF resolveLink, LinkNo
    <3> QED BY <1>6, <1>14, <2>6, <3>1, <3>2 DEF resolveLink
  <2>10. PICK r : r = free /\ r.slot = firstPairSlot /\ r.lm = l2 /\ r.next = n - 2
    BY <2>5
  <2>11. (n - 2)..(n - 1) = {n - 2, n - 1} /\ n - 2 <= n /\ \A x \in Nat : x >= n => x \notin (n - 2)..(n - 1)
    BY <2>3
  <2>12. \A k \in LinkNo : resolveLink(l2, k) = resolveLink(lm, k) \/ resolveLink(l2, k) \in (n - 2)..(n - 1)
    BY <2>9, <2>11 DEF LinkNo
  <2>13. \A k, m \in LinkNo : resolveLink(l2, k) = resolveLink(l2, m) /\ resolveLink(l2, k) \in (n - 2)..(n - 1) => k = m
    <3>1. lm.single \in Nat
      BY DEF LinkMeta
    <3> QED BY <2>9, <3>1 DEF LinkNo
  <2>14. \A a \in (n - 2)..(n - 1) : \E k \in LinkNo : resolveLink(l2, k) = a
    BY <2>9, <2>11 DEF LinkNo
  <2>15. GoodSlot(new, n, r)
    <3>1. /\ r.slot \in SlotIdx /\ header[new].ss[r.slot] # SlotValid
          /\ r.lm \in LinkMeta /\ Keeps(linkMeta[new], r.lm) /\ HasSlot(r.lm, r.slot)
      BY <1>3, <2>6, <2>7, <2>8, <2>10
    <3>2. /\ \A j \in 0..PRIMARY_SLOTS : header[new].ss[j] = SlotValid \/ j = r.slot
          /\ \A j \in 0..firstPairSlot : header[new].ss[j] = SlotValid \/ j = r.slot
      BY <1>3, <2>1, <2>2, <2>10
    <3>3. r.next \in Nat /\ r.next <= n
      BY <2>6, <2>10, <2>11
    <3>4. \A k \in LinkNo : resolveLink(r.lm, k) = resolveLink(linkMeta[new], k)
                            \/ resolveLink(r.lm, k) \in r.next..(n - 1)
      BY <1>3, <2>10, <2>12
    <3>5. \A k, m \in LinkNo : resolveLink(r.lm, k) = resolveLink(r.lm, m)
                               /\ resolveLink(r.lm, k) \in r.next..(n - 1) => k = m
      BY <2>10, <2>13
    <3>6. \A a \in r.next..(n - 1) : \E k \in LinkNo : resolveLink(r.lm, k) = a
      BY <2>10, <2>14
    <3> QED BY <3>1, <3>2, <3>3, <3>4, <3>5, <3>6 DEF GoodSlot
  <2> QED BY <2>3, <2>10, <2>15
<1>15. Good(free)
  <2> HIDE DEF Good, free
  <2> QED BY <1>8, <1>11, <1>12, <1>13, <1>14
<1> QED BY <1>15

\* Entry of key k moved into slot r of the bin new, one of the new bins of b.
Placed(b, g, new, n, r, k) ==
  /\ b[1] = g /\ header[b].bs = BinInTransfer /\ Started(g) /\ ~(g < active)
  /\ new \in NewBins(b) /\ new \in BinId /\ new[1] = g + 1 /\ OldOf(new) = b /\ new # b
  /\ n = ctx[g].linkNextResize /\ n <= NumLinks[g + 1]
  /\ GoodSlot(new, n, r) /\ linkCapacity[g + 1] < r.next /\ r.next # 0
  /\ PackedBin(new) /\ InBin(new, k)
  /\ header'[new] = setSlotStateAndVersion(header[new], r.slot, SlotValid)
  /\ \A bin \in BinId : bin # new => header'[bin] = header[bin]
  /\ linkMeta'[new] = r.lm
  /\ \A bin \in BinId : bin # new => linkMeta'[bin] = linkMeta[bin]
  /\ slotKey'[LocVia(r.lm, new, r.slot)] = k
  /\ \A loc \in Loc : loc # LocVia(r.lm, new, r.slot) => slotKey'[loc] = slotKey[loc]
  /\ \A f \in 0..(MaxGen - 1) :
       /\ ctx'[f].linkNextResize = IF f = g THEN r.next ELSE ctx[f].linkNextResize
       /\ ctx'[f].chunksDone = ctx[f].chunksDone
  /\ UNCHANGED <<linkNext, linkCapacity, active, resizeCtx>>

\* What MoveEntry does with an entry.
LEMMA EntryPlaced ==
  ASSUME IInv, IInv', RInv, LInv, NEW t \in Thread, MoveEntry(t), NEW b \in BinId, b = OldBin(t)
  PROVE  \/ UNCHANGED <<header, linkMeta, slotKey, linkNext, linkCapacity, active, resizeCtx, ctx>>
         \/ \E g \in 0..(MaxGen - 1), n \in Nat, k \in Nat : \E new, r :
              Placed(b, g, new, n, r, k) /\ g = xfer[t].gen
<1> SUFFICES ASSUME ~UNCHANGED <<header, linkMeta, slotKey, linkNext, linkCapacity, active, resizeCtx, ctx>>
             PROVE  \E g \in 0..(MaxGen - 1), n \in Nat, k \in Nat : \E new, r :
                      Placed(b, g, new, n, r, k) /\ g = xfer[t].gen
  OBVIOUS
<1>1. pc[t] = "move" /\ pc[t] \in TransferPC
  BY DEF MoveEntry, TransferPC
<1>2. PICK g \in 0..(MaxGen - 1) : g = xfer[t].gen /\ ~(g < active) /\ g \in Gen /\ g + 1 \in Gen
  BY <1>1, MoverBin, CtxType
<1>3. PICK new : new = getBin(g + 1, xfer[t].key)
  OBVIOUS
<1>4. PICK n \in Nat : n = ctx[g].linkNextResize /\ n <= NumLinks[g + 1]
  BY <1>1, <1>2, <1>3, AtEntry
<1>5. PICK r : r = findFreeSlotOrChain(g, new)
  OBVIOUS
<1>6. PICK k \in Nat : k = xfer[t].key
  BY <1>1, <1>2, <1>3, AtEntry
<1>7. /\ b[1] = g /\ header[b].bs = BinInTransfer /\ Started(g)
      /\ new \in NewBins(b) /\ new \in BinId /\ new[1] = g + 1 /\ OldOf(new) = b /\ new # b
      /\ PackedBin(new) /\ InBin(new, k)
  BY <1>1, <1>2, <1>3, <1>6, AtEntry
<1>8. GoodSlot(new, n, r) /\ linkCapacity[g + 1] < r.next /\ r.next # 0
  BY <1>1, <1>2, <1>3, <1>4, <1>5, EntryFits
<1>9. /\ header \in [BinId -> Header] /\ linkMeta \in [BinId -> LinkMeta] /\ slotKey \in [Loc -> Nat]
      /\ ctx \in [Gen -> CtxRec]
  BY DEF IInv, BaseType, BaseMemory, RootType
<1>10. LocVia(r.lm, new, r.slot) \in Loc
  <2>1. linkMeta' = [linkMeta EXCEPT ![new] = r.lm]
    BY <1>1, <1>2, <1>3, <1>5, <1>6 DEF MoveEntry, memory, arena
  <2>2. linkMeta'[new] = r.lm
    BY <1>7, <1>9, <2>1
  <2>3. LinkMetaOK(r.lm, NumLinks[new[1]])
    BY <1>7, <2>2 DEF IInv, SharedInv, BinInv
  <2> QED BY <1>7, <1>8, <2>3, LocType DEF GoodSlot
<1>11. /\ header' = [header EXCEPT ![new] = setSlotStateAndVersion(header[new], r.slot, SlotValid)]
       /\ linkMeta' = [linkMeta EXCEPT ![new] = r.lm]
       /\ slotKey' = [slotKey EXCEPT ![LocVia(r.lm, new, r.slot)] = k]
       /\ ctx' = [ctx EXCEPT ![g].linkNextResize = r.next]
       /\ UNCHANGED <<linkNext, linkCapacity, active, resizeCtx>>
  BY <1>1, <1>2, <1>3, <1>5, <1>6 DEF MoveEntry, memory, arena
<1>12. /\ header'[new] = setSlotStateAndVersion(header[new], r.slot, SlotValid)
       /\ \A bin \in BinId : bin # new => header'[bin] = header[bin]
       /\ linkMeta'[new] = r.lm
       /\ \A bin \in BinId : bin # new => linkMeta'[bin] = linkMeta[bin]
       /\ slotKey'[LocVia(r.lm, new, r.slot)] = k
       /\ \A loc \in Loc : loc # LocVia(r.lm, new, r.slot) => slotKey'[loc] = slotKey[loc]
  BY <1>7, <1>9, <1>10, <1>11
<1>13. \A f \in 0..(MaxGen - 1) :
          /\ ctx'[f].linkNextResize = IF f = g THEN r.next ELSE ctx[f].linkNextResize
          /\ ctx'[f].chunksDone = ctx[f].chunksDone
  BY <1>9, <1>11, CtxType DEF CtxRec
<1>14. Placed(b, g, new, n, r, k)
  BY <1>2, <1>4, <1>7, <1>8, <1>11, <1>12, <1>13 DEF Placed
<1> QED BY <1>2, <1>14

\* The links that the entry takes were nobody's: they lie between the two ends.
LEMMA PlacedLinks ==
  ASSUME IInv, IInv', LInv, NEW t \in Thread, OthersSame(t), UNCHANGED scan, Held(t)' = {},
         NEW b \in BinId, NEW g \in 0..(MaxGen - 1), NEW new, NEW n \in Nat, NEW r, NEW k \in Nat,
         Placed(b, g, new, n, r, k)
  PROVE  /\ LinksInv'
         /\ \A bin \in BinId : \A a \in LinksOf(bin)' :
              a \in LinksOf(bin) \/ (bin = new /\ a \in r.next..(n - 1))
         /\ \A bin \in BinId : bin[1] = g + 1 => \A a \in LinksOf(bin) : a < r.next \/ a >= n
         /\ LinksKept
<1>1. /\ new \in BinId /\ new[1] = g + 1 /\ g \in Nat /\ g + 1 \in Gen
      /\ r.next \in Nat /\ r.next <= n /\ linkCapacity[g + 1] < r.next /\ linkCapacity[g + 1] \in Int
      /\ n = ctx[g].linkNextResize /\ n <= NumLinks[g + 1] /\ NumLinks[g + 1] \in Nat
  BY CtxType, SizeAssumption DEF Placed, GoodSlot, IInv, BaseType, RootType
<1>2. LinksKept
  <2>1. Keeps(linkMeta[new], linkMeta'[new])
    BY DEF Placed, GoodSlot
  <2> QED BY <2>1 DEF LinksKept, Placed, Keeps
<1>3. ASSUME NEW bin \in BinId, bin[1] = g + 1, NEW a \in LinksOf(bin) PROVE a \in Nat /\ (a < r.next \/ a >= n)
  <2>1. a \in Nat /\ (Low(g + 1, a) \/ High(g + 1, a))
    BY <1>3, LinkRange DEF LInv, LinksInv
  <2>2. (g + 1) - 1 = g
    BY <1>1
  <2> QED BY <1>1, <2>1, <2>2 DEF Low, High
<1>4. /\ \A bin, other \in BinId : bin[1] = other[1] => OneOwner(bin, other)'
      /\ \A bin \in BinId : \A a \in LinksOf(bin)' :
           a \in LinksOf(bin) \/ (bin = new /\ a \in r.next..(n - 1))
  <2>1. PICK S : S = r.next..(n - 1)
    OBVIOUS
  <2>2. \A bin \in BinId : bin[1] = new[1] => S \cap LinksOf(bin) = {}
    BY <1>1, <1>3, <2>1
  <2>3. /\ \A bin \in BinId : bin # new => linkMeta'[bin] = linkMeta[bin]
        /\ \A m \in LinkNo : resolveLink(linkMeta'[new], m) = resolveLink(linkMeta[new], m)
                           \/ resolveLink(linkMeta'[new], m) \in S
        /\ \A j, m \in LinkNo : resolveLink(linkMeta'[new], j) = resolveLink(linkMeta'[new], m)
                              /\ resolveLink(linkMeta'[new], j) \in S => j = m
    BY <2>1 DEF Placed, GoodSlot
  <2>4. LinksInv
    BY DEF LInv
  <2>5. /\ \A bin, other \in BinId : bin[1] = other[1] => OneOwner(bin, other)'
        /\ \A bin \in BinId : \A a \in LinksOf(bin)' : a \in LinksOf(bin) \/ (bin = new /\ a \in S)
    BY <1>1, <2>2, <2>3, <2>4, NewLinks
  <2> QED BY <2>1, <2>5
<1>5. \A f \in Gen : \A a \in Nat : /\ Low(f, a)' <=> Low(f, a)
                                    /\ High(f, a) => High(f, a)'
  <2> SUFFICES ASSUME NEW f \in Gen, NEW a \in Nat, High(f, a) PROVE High(f, a)'
    BY DEF Low, Placed
  <2>1. f - 1 \in 0..(MaxGen - 1)
    BY SizeAssumption DEF High, Gen
  <2>2. ctx[f - 1].linkNextResize \in Int
    BY <2>1, CtxType DEF CtxRec
  <2>3. ctx'[f - 1].linkNextResize = IF f - 1 = g THEN r.next ELSE ctx[f - 1].linkNextResize
    BY <2>1 DEF Placed
  <2>4. ctx'[f - 1].linkNextResize \in Int /\ ctx'[f - 1].linkNextResize <= ctx[f - 1].linkNextResize
    BY <1>1, <2>2, <2>3
  <2> QED BY <2>2, <2>4 DEF High
<1>6. ASSUME NEW bin \in BinId, NEW a \in LinksOf(bin)' PROVE Low(bin[1], a)' \/ High(bin[1], a)'
  <2>1. CASE a \in LinksOf(bin)
    <3>1. a \in Nat /\ bin[1] \in Gen /\ (Low(bin[1], a) \/ High(bin[1], a))
      BY <2>1, LinkRange, BinIdGen DEF LInv, LinksInv
    <3> QED BY <1>5, <3>1
  <2>2. CASE bin = new /\ a \in r.next..(n - 1)
    <3>1. ctx'[g].linkNextResize = r.next /\ bin[1] - 1 = g /\ bin[1] > 0
      BY <1>1, <2>2 DEF Placed
    <3>2. r.next <= a /\ a < NumLinks[bin[1]]
      BY <1>1, <2>2
    <3> QED BY <3>1, <3>2 DEF High
  <2> QED BY <1>4, <2>1, <2>2
<1>7. \A u \in Thread : Held(u)' = IF u = t THEN {} ELSE Held(u)
  BY DEF OthersSame, Held
<1>8. ASSUME NEW u \in Thread PROVE HeldInv(u)'
  <2>1. CASE u = t
    BY <1>7, <2>1 DEF HeldInv
  <2>2. CASE u # t
    <3>1. HeldInv(u) /\ Held(u)' = Held(u) /\ scan'[u] = scan[u]
      BY <1>7, <2>2 DEF LInv, LinksInv
    <3>2. SUFFICES ASSUME NEW a \in Held(u)
                   PROVE  /\ Low(scan[u].idx, a)'
                          /\ \A bin \in BinId : bin[1] = scan[u].idx => a \notin LinksOf(bin)'
      BY <3>1 DEF HeldInv
    <3>3. a \in Nat /\ scan[u].idx \in Gen /\ Low(scan[u].idx, a)
          /\ \A bin \in BinId : bin[1] = scan[u].idx => a \notin LinksOf(bin)
      BY <3>1, HeldType DEF HeldInv
    <3>4. Low(scan[u].idx, a)'
      BY <1>5, <3>1, <3>3 DEF Low
    <3>5. ASSUME NEW bin \in BinId, bin[1] = scan[u].idx, a \in LinksOf(bin)' PROVE FALSE
      <4>1. bin = new /\ a \in r.next..(n - 1)
        BY <1>4, <3>3, <3>5
      <4>2. a <= linkCapacity[g + 1]
        BY <1>1, <3>3, <3>5, <4>1 DEF Low
      <4> QED BY <1>1, <4>1, <4>2
    <3> QED BY <3>4, <3>5
  <2> QED BY <2>1, <2>2
<1>9. \A u, v \in Thread : u # v /\ scan'[u].idx = scan'[v].idx => Held(u)' \cap Held(v)' = {}
  BY <1>7 DEF LInv, LinksInv
<1>10. LinksInv'
  BY <1>4, <1>6, <1>8, <1>9 DEF LinksInv
<1> QED BY <1>2, <1>3, <1>4, <1>10

\* Slot s of the bin new becomes Valid, all other slots of all bins stay.
SlotFilled(new, s) ==
  \A bin \in BinId : \A i \in SlotIdx :
     header'[bin].ss[i] = IF bin = new /\ i = s THEN SlotValid ELSE header[bin].ss[i]

\* The slot that was written is the new bin's alone, and the key written is one of its keys.
LEMMA PlacedKeys ==
  ASSUME IInv, IInv', LInv, LinksInv', LinksKept,
         NEW b \in BinId, NEW g \in 0..(MaxGen - 1), NEW new, NEW n \in Nat, NEW r, NEW k \in Nat,
         Placed(b, g, new, n, r, k)
  PROVE  /\ \A bin \in BinId : KeysKept(bin) /\ header'[bin].bs = header[bin].bs
         /\ SlotFilled(new, r.slot)
         /\ KeyInBin(new, r.slot)'
         /\ \A bin \in BinId : KeysInv(bin)'
<1>1. /\ new \in BinId /\ r.slot \in SlotIdx /\ r.lm \in LinkMeta /\ HasSlot(r.lm, r.slot)
      /\ linkMeta'[new] = r.lm /\ slotKey'[LocVia(r.lm, new, r.slot)] = k /\ InBin(new, k)
      /\ \A loc \in Loc : loc # LocVia(r.lm, new, r.slot) => slotKey'[loc] = slotKey[loc]
      /\ \A bin \in BinId : bin # new => header'[bin] = header[bin]
      /\ header'[new] = setSlotStateAndVersion(header[new], r.slot, SlotValid)
  BY DEF Placed, GoodSlot
<1>2. KeyInBin(new, r.slot)'
  <2>1. slotKey'[LocVia(linkMeta'[new], new, r.slot)] = k
    BY <1>1
  <2> QED BY <1>1, <2>1 DEF KeyInBin, SlotLoc, InBin
<1>3. ASSUME NEW bin \in BinId, NEW j \in SlotIdx, HasSlot(linkMeta[bin], j), KeyInBin(bin, j)
      PROVE  KeyInBin(bin, j)'
  <2>1. PICK lm \in LinkMeta : lm = linkMeta'[bin]
    BY DEF IInv, BaseType, BaseMemory
  <2>2. HasSlot(lm, j) /\ LocVia(lm, bin, j) = SlotLoc(bin, j)
    <3>1. linkMeta[bin] \in LinkMeta /\ Keeps(linkMeta[bin], lm)
      BY <2>1, BinWords DEF LinksKept
    <3> QED BY <1>3, <3>1, SameLoc DEF SlotLoc
  <2>3. SlotLoc(bin, j) \in Loc
    BY <1>3, BinWords, LocType DEF SlotLoc
  <2>4. CASE LocVia(lm, bin, j) = LocVia(r.lm, new, r.slot)
    <3>1. ASSUME bin[1] = new[1]
          PROVE  \A m, q \in LinkNo : resolveLink(lm, m) = resolveLink(r.lm, q) /\ resolveLink(lm, m) # NO_LINK
                                => bin = new /\ m = q
      <4>1. OneOwner(bin, new)'
        BY <1>1, <3>1 DEF LinksInv
      <4> QED BY <1>1, <2>1, <4>1 DEF OneOwner
    <3>2. bin = new /\ j = r.slot
      BY <1>1, <2>2, <2>4, <3>1, LocApart
    <3> QED BY <1>2, <3>2
  <2>5. CASE LocVia(lm, bin, j) # LocVia(r.lm, new, r.slot)
    <3>1. slotKey'[LocVia(lm, bin, j)] = slotKey[SlotLoc(bin, j)]
      BY <1>1, <2>2, <2>3, <2>5
    <3> QED BY <1>3, <2>1, <3>1 DEF KeyInBin, SlotLoc, InBin
  <2> QED BY <2>4, <2>5
<1>4. \A bin \in BinId : KeysKept(bin)
  BY <1>3 DEF KeysKept
<1>5. /\ header'[new].bs = header[new].bs
      /\ \A j \in SlotIdx : header'[new].ss[j] = IF j = r.slot THEN SlotValid ELSE header[new].ss[j]
  <2>1. header[new] \in Header /\ header[new].ss \in [SlotIdx -> SlotState]
    BY <1>1, BinWords DEF Header
  <2> QED BY <1>1, <2>1 DEF setSlotStateAndVersion
<1>6. \A bin \in BinId : KeysKept(bin) /\ header'[bin].bs = header[bin].bs
  BY <1>1, <1>4, <1>5
<1>7. \A bin \in BinId : \A i \in SlotIdx :
              header'[bin].ss[i] = IF bin = new /\ i = r.slot THEN SlotValid ELSE header[bin].ss[i]
  BY <1>1, <1>5
<1>8. ASSUME NEW bin \in BinId PROVE KeysInv(bin)'
  <2>1. \A i \in SlotIdx : header'[bin].ss[i] = SlotValid => header[bin].ss[i] = SlotValid \/ KeyInBin(bin, i)'
    BY <1>2, <1>7
  <2> QED BY <1>6, <2>1, SameKeys
<1> QED BY <1>2, <1>6, <1>7, <1>8 DEF SlotFilled

\* The new bins stay packed, and what other transfers took stays what it was.
LEMMA PlacedBins ==
  ASSUME IInv, IInv', LInv, LinksInv', LinksKept,
         NEW b \in BinId, NEW g \in 0..(MaxGen - 1), NEW new, NEW n \in Nat, NEW r, NEW k \in Nat,
         Placed(b, g, new, n, r, k),
         \A bin \in BinId : \A a \in LinksOf(bin)' :
              a \in LinksOf(bin) \/ (bin = new /\ a \in r.next..(n - 1)),
         \A bin \in BinId : bin[1] = g + 1 => \A a \in LinksOf(bin) : a < r.next \/ a >= n,
         \A bin \in BinId : header'[bin].bs = header[bin].bs,
         SlotFilled(new, r.slot)
  PROVE  \A bin \in BinId : NewBinInv(bin)' /\ TopInv(bin)'
<1> USE DEF SlotFilled
<1>1. /\ new \in BinId /\ new[1] = g + 1 /\ OldOf(new) = b /\ header[b].bs = BinInTransfer
      /\ r.next \in Nat /\ r.next <= n /\ n = ctx[g].linkNextResize /\ ctx'[g].linkNextResize = r.next
      /\ \A bin \in BinId : bin # new => linkMeta'[bin] = linkMeta[bin]
      /\ \A f \in 0..(MaxGen - 1) : f # g => ctx'[f].linkNextResize = ctx[f].linkNextResize
      /\ new[1] - 1 = g /\ new[1] > 0
  BY CtxType DEF Placed, GoodSlot
<1>2. \A bin \in BinId : LinksOf(bin) \subseteq Nat
  BY LinkRange
<1>3. ASSUME NEW nb \in BinId PROVE NewBinInv(nb)'
  <2>1. CASE nb = new
    <3>1. PackedBin(new)'
      <4>1. PackedBin(new)
        BY DEF Placed
      <4>2. \A i \in SlotIdx : header'[new].ss[i] # SlotTrying
        BY <1>1, <4>1 DEF PackedBin, SlotValid, SlotTrying
      <4>3. /\ linkMeta'[new].single # NO_LINK => \A i \in 0..PRIMARY_SLOTS : header'[new].ss[i] = SlotValid
            /\ linkMeta'[new].pair # NO_LINK => \A i \in 0..firstPairSlot : header'[new].ss[i] = SlotValid
        <5>1. 0..PRIMARY_SLOTS \subseteq SlotIdx /\ 0..firstPairSlot \subseteq SlotIdx
          BY BucketRanges
        <5>2. /\ linkMeta'[new] = r.lm
              /\ r.lm.single # NO_LINK => \A j \in 0..PRIMARY_SLOTS : header[new].ss[j] = SlotValid \/ j = r.slot
              /\ r.lm.pair # NO_LINK => \A j \in 0..firstPairSlot : header[new].ss[j] = SlotValid \/ j = r.slot
          BY DEF Placed, GoodSlot
        <5> QED BY <1>1, <5>1, <5>2
      <4>4. \A a \in LinksOf(new)' : a >= ctx'[new[1] - 1].linkNextResize
        <5>1. \A a \in LinksOf(new) : a >= n
          BY <1>1, <4>1 DEF PackedBin
        <5>2. ctx'[new[1] - 1].linkNextResize = r.next
          BY <1>1
        <5>3. ASSUME NEW a \in LinksOf(new)' PROVE a >= r.next
          BY <1>1, <1>2, <5>1
        <5> QED BY <5>2, <5>3
      <4> QED BY <4>2, <4>3, <4>4 DEF PackedBin
    <3>2. header'[OldOf(new)].bs = BinInTransfer
      BY <1>1
    <3> QED BY <2>1, <3>1, <3>2 DEF NewBinInv, OldOf, BinInTransfer, BinNoTransfer
  <2>2. CASE nb # new
    <3> SUFFICES ASSUME nb[1] > 0
                 PROVE  /\ header'[OldOf(nb)].bs = BinNoTransfer => EmptyBin(nb)'
                        /\ header'[OldOf(nb)].bs = BinInTransfer => PackedBin(nb)'
      BY DEF NewBinInv, OldOf
    <3>1. OldOf(nb) \in BinId /\ header'[OldOf(nb)].bs = header[OldOf(nb)].bs /\ nb[1] - 1 \in 0..(MaxGen - 1)
      BY OldOfType
    <3>2. /\ header[OldOf(nb)].bs = BinNoTransfer => EmptyBin(nb)
          /\ header[OldOf(nb)].bs = BinInTransfer => PackedBin(nb)
      BY DEF LInv, NewBinInv
    <3>3. linkMeta'[nb] = linkMeta[nb] /\ (\A i \in SlotIdx : header'[nb].ss[i] = header[nb].ss[i])
          /\ LinksOf(nb)' = LinksOf(nb)
      BY <1>1, <2>2 DEF LinksOf
    <3>4. EmptyBin(nb) => EmptyBin(nb)'
      BY <3>3 DEF EmptyBin
    <3>5. PackedBin(nb) => PackedBin(nb)'
      <4> SUFFICES ASSUME PackedBin(nb) PROVE PackedBin(nb)'
        OBVIOUS
      <4>1. /\ \A i \in SlotIdx : header'[nb].ss[i] # SlotTrying
            /\ linkMeta'[nb].single # NO_LINK => \A i \in 0..PRIMARY_SLOTS : header'[nb].ss[i] = SlotValid
            /\ linkMeta'[nb].pair # NO_LINK => \A i \in 0..firstPairSlot : header'[nb].ss[i] = SlotValid
        BY <3>3, BucketRanges DEF PackedBin
      <4>2. \A a \in LinksOf(nb)' : a >= ctx'[nb[1] - 1].linkNextResize
        <5>1. \A a \in LinksOf(nb) : a \in Nat /\ a >= ctx[nb[1] - 1].linkNextResize
          BY <1>2 DEF PackedBin
        <5>2. CASE nb[1] - 1 = g
          BY <1>1, <3>3, <5>1, <5>2
        <5>3. CASE nb[1] - 1 # g
          BY <1>1, <3>1, <3>3, <5>1, <5>3
        <5> QED BY <5>2, <5>3
      <4> QED BY <4>1, <4>2 DEF PackedBin
    <3> QED BY <3>1, <3>2, <3>4, <3>5
  <2> QED BY <2>1, <2>2
<1>4. ASSUME NEW bin \in BinId PROVE TopInv(bin)'
  <2> SUFFICES ASSUME bin[1] < MaxGen, header'[bin].bs = BinDoneTransfer PROVE TopInv(bin)'
    BY DEF TopInv
  <2>1. header[bin].bs = BinDoneTransfer /\ bin # b
    BY <1>1 DEF BinInTransfer, BinDoneTransfer
  <2>2. ASSUME NEW nb \in NewBins(bin) PROVE nb \in BinId /\ LinksOf(nb)' = LinksOf(nb) /\ nb[1] = bin[1] + 1
    <3>1. nb \in BinId /\ nb # new /\ nb[1] = bin[1] + 1
      BY <1>1, <2>1 DEF NewBins
    <3> QED BY <1>1, <3>1 DEF LinksOf
  <2>3. CASE bin[1] = g
    <3>1. TopOf(bin)' = TopOf(bin)
      <4>1. NewBins(bin)' = NewBins(bin)
        BY DEF NewBins, OldOf
      <4>2. \A nb \in NewBins(bin) : \A a \in LinksOf(nb) : a >= r.next <=> a >= n
        BY <1>1, <1>2, <2>2, <2>3
      <4>3. /\ TopOf(bin)' = {a \in UNION {LinksOf(nb)' : nb \in NewBins(bin)} : a >= r.next}
            /\ TopOf(bin) = {a \in UNION {LinksOf(nb) : nb \in NewBins(bin)} : a >= n}
        BY <1>1, <2>3, <4>1 DEF TopOf
      <4> QED BY <2>2, <4>2, <4>3
    <3>2. bin # new
      BY <1>1, <2>3
    <3> QED BY <1>1, <2>1, <3>1, <3>2 DEF LInv, TopInv
  <2>4. CASE bin[1] # g
    <3>1. ctx'[bin[1]].linkNextResize = ctx[bin[1]].linkNextResize
      <4>1. MaxGen \in Nat
        BY SizeAssumption
      <4>2. bin[1] \in 0..MaxGen
        BY BinIdGen DEF Gen
      <4>3. bin[1] \in 0..(MaxGen - 1)
        BY <4>1, <4>2
      <4> QED BY <1>1, <2>4, <4>3
    <3>2. \A nb \in NewBins(bin) : \A a \in LinksOf(nb)' : a \in LinksOf(nb)
      BY <2>2
    <3> QED BY <2>1, <3>1, <3>2, SameTop
  <2> QED BY <2>3, <2>4
<1> QED BY <1>3, <1>4

\* The mover goes on to the next entry, to the links or to the end, with one entry less
\* to move and at most one more slot filled.
LEMMA MovedOn ==
  ASSUME IInv, RInv, LInv, NEW t \in Thread, MoveEntry(t), NEW b \in BinId, b = OldBin(t),
         KeysKept(b), linkMeta'[b] = linkMeta[b],
         NEW F, F = {p \in NewBins(b) \X SlotIdx : header'[p[1]].ss[p[2]] = SlotValid},
         Cardinality(F) \in Nat, Cardinality(F) <= Cardinality(Filled(b)) + 1
  PROVE  /\ pc'[t] \in MovePC /\ pc'[t] \notin {"setCtx", "finActive"}
         /\ MoverInv(t)' /\ CountInv(t)'
<1>1. /\ pc[t] = "move" /\ pc[t] \in TransferPC /\ pc[t] \in MovePC
      /\ pc \in [Thread -> PC] /\ xfer \in [Thread -> XferRec]
  BY DEF MoveEntry, TransferPC, MovePC, IInv, BaseType, BaseLocal
<1>2. /\ Lowest(xfer[t].todo) \in xfer[t].todo /\ xfer[t].todo \subseteq SlotIdx
      /\ \A i \in xfer[t].todo : HasSlot(linkMeta[b], i)
      /\ Backed(linkMeta[b], xfer[t].h)
  BY <1>1, AtMove
<1>3. PICK i0 \in SlotIdx : i0 = Lowest(xfer[t].todo) /\ i0 \in xfer[t].todo
  BY <1>2
<1>4. PICK rest : rest = xfer[t].todo \ {i0}
  OBVIOUS
<1>5. /\ xfer'[t].todo = rest /\ xfer'[t].h = xfer[t].h /\ OldBin(t)' = b
      /\ pc'[t] = IF rest # {} THEN "sentinel" ELSE IF i0 < PRIMARY_SLOTS THEN "xlinks" ELSE "xdone"
  <2>1. /\ xfer' = [xfer EXCEPT ![t].todo = rest, ![t].key = 0]
        /\ Goto(t, IF rest # {} THEN "sentinel" ELSE IF i0 < PRIMARY_SLOTS THEN "xlinks" ELSE "xdone")
    BY <1>3, <1>4 DEF MoveEntry
  <2>2. xfer'[t].todo = rest /\ xfer'[t].h = xfer[t].h /\ xfer'[t].gen = xfer[t].gen /\ xfer'[t].bin = xfer[t].bin
    BY <1>1, <2>1 DEF XferRec
  <2> QED BY <1>1, <2>1, <2>2 DEF Goto, OldBin
<1>6. /\ pc'[t] \in MovePC /\ pc'[t] \notin {"setCtx", "finActive", "move"}
      /\ pc'[t] \in {"xlinks", "xdone"} => rest = {}
      /\ pc'[t] = "xlinks" => i0 < PRIMARY_SLOTS
  BY <1>5 DEF MovePC, TransferPC
<1>7. MoverInv(t) /\ CountInv(t)
  BY <1>1 DEF LInv
<1>8. AtPrimary(t)' => AtPrimary(t)
  <2>1. AtPrimary(t)' => pc'[t] = "xlinks" \/ \E i \in rest : i < PRIMARY_SLOTS
    BY <1>5 DEF AtPrimary
  <2> QED BY <1>3, <1>4, <1>6, <2>1 DEF AtPrimary
<1>9. ASSUME NEW i \in Valids(xfer[t].h), KeyInBin(b, i) PROVE KeyInBin(OldBin(t), i)'
  <2>1. i \in SlotIdx /\ HasSlot(linkMeta[b], i)
    BY <1>2 DEF Backed, Valids, SlotValid, SlotInvalid
  <2>2. KeyInBin(b, i)'
    BY <1>9, <2>1 DEF KeysKept
  <2> QED BY <1>5, <2>2 DEF KeyInBin, InBin, SlotLoc
<1>10. MoverInv(t)'
  <2>1. /\ rest \subseteq Valids(xfer[t].h) /\ Valids(xfer[t].h)' = Valids(xfer[t].h)
        /\ AtPrimary(t)' => rest \subseteq Bucket(0)
    BY <1>4, <1>5, <1>7, <1>8 DEF MoverInv, Valids
  <2>2. ASSUME NEW i \in rest PROVE KeyInBin(OldBin(t), i)'
    <3>1. KeyInBin(b, i) /\ i \in Valids(xfer[t].h)
      BY <1>1, <1>3, <1>4, <1>7, <2>1 DEF MoverInv
    <3> QED BY <1>9, <3>1
  <2>3. ASSUME AtPrimary(t)', NEW i \in Valids(xfer[t].h) PROVE i \in Bucket(0) \/ KeyInBin(OldBin(t), i)'
    BY <1>7, <1>8, <1>9, <2>3 DEF MoverInv
  <2> QED BY <1>5, <1>6, <2>1, <2>2, <2>3 DEF MoverInv
<1>11. CountInv(t)'
  <2>1. Filled(OldBin(t))' = F /\ Capacity(linkMeta[OldBin(t)])' = Capacity(linkMeta[b])
    <3>1. NewBins(OldBin(t))' = NewBins(b)
      BY <1>5 DEF NewBins, OldOf
    <3>2. Filled(OldBin(t))' = {p \in NewBins(OldBin(t))' \X SlotIdx : header'[p[1]].ss[p[2]] = SlotValid}
      BY DEF Filled
    <3> QED BY <1>5, <3>1, <3>2
  <2>2. IsFiniteSet(xfer[t].todo) /\ Cardinality(xfer[t].todo) \in Nat /\ Cardinality(Filled(b)) \in Nat
    BY <1>1, <1>7, MoverRoom
  <2>3. Cardinality(rest) = Cardinality(xfer[t].todo) - 1 /\ Cardinality(rest) \in Int
    <3>1. Cardinality(rest) = IF i0 \in xfer[t].todo THEN Cardinality(xfer[t].todo) - 1 ELSE Cardinality(xfer[t].todo)
      BY <1>4, <2>2, FS_RemoveElement
    <3> QED BY <1>3, <2>2, <3>1
  <2>4. Capacity(linkMeta[b]) \in Nat /\ PRIMARY_SLOTS \in Nat /\ PRIMARY_SLOTS <= Capacity(linkMeta[b])
    <3>1. PICK c \in Nat : c = Cardinality(attached(linkMeta[b]))
      BY AttachedCount
    <3>2. LINK_SLOTS * c \in Nat /\ PRIMARY_SLOTS \in Nat
      BY SizeAssumption
    <3> QED BY <3>1, <3>2, AttachedCount DEF Capacity
  <2>5. Cardinality(Filled(b)) + Cardinality(xfer[t].todo) <= IF AtPrimary(t) THEN PRIMARY_SLOTS ELSE Capacity(linkMeta[b])
    BY <1>7 DEF CountInv
  <2>6. Cardinality(F) + Cardinality(rest) <= IF AtPrimary(t)' THEN PRIMARY_SLOTS ELSE Capacity(linkMeta[b])
    BY <1>8, <2>2, <2>3, <2>4, <2>5
  <2> QED BY <1>5, <2>1, <2>6 DEF CountInv
<1> QED BY <1>6, <1>10, <1>11

\* The ends of the arenas: the transfer's end comes down to a link that was set aside.
LEMMA PlacedEnds ==
  ASSUME IInv, IInv', LInv, LinksKept,
         NEW b \in BinId, NEW g \in 0..(MaxGen - 1), NEW new, NEW n \in Nat, NEW r, NEW k \in Nat,
         Placed(b, g, new, n, r, k)
  PROVE  \A f \in 0..(MaxGen - 1) : EndsInv(f)'
<1> SUFFICES ASSUME NEW f \in 0..(MaxGen - 1) PROVE EndsInv(f)'
  OBVIOUS
<1>1. /\ EndsInv(f) /\ (Started(f)' <=> Started(f)) /\ (f < active' <=> f < active)
      /\ ctx'[f].linkNextResize = (IF f = g THEN r.next ELSE ctx[f].linkNextResize)
      /\ ctx'[f].chunksDone = ctx[f].chunksDone /\ (SetAside(f)' <=> SetAside(f))
      /\ linkNext' = linkNext /\ linkCapacity' = linkCapacity
  BY DEF LInv, Placed, Started, SetAside, resLinkBudget
<1>2. ASSUME NEW a, NEW nb \in BinId, nb[1] = f + 1, a \in LinksOf(nb) PROVE a \in LinksOf(nb)'
  BY <1>2, LinksStay DEF LinksKept
<1>3. CASE f # g
  <2>1. \A a \in ctx[f].linkNextResize..(NumLinks[f + 1] - 1) :
          \E nb \in BinId : nb[1] = f + 1 /\ a \in LinksOf(nb)'
    BY <1>1, <1>2 DEF EndsInv
  <2> QED BY <1>1, <1>3, <2>1 DEF EndsInv
<1>4. CASE f = g
  <2>1. /\ Started(g) /\ ~(g < active) /\ linkCapacity[g + 1] < r.next /\ new \in BinId /\ new[1] = g + 1
        /\ n = ctx[g].linkNextResize /\ r.next \in Nat /\ linkMeta'[new] = r.lm /\ NumLinks[g + 1] \in Nat
        /\ \A a \in r.next..(n - 1) : \E j \in LinkNo : resolveLink(r.lm, j) = a
    BY CtxType, SizeAssumption DEF Placed, GoodSlot
  <2>2. ASSUME NEW a \in r.next..(NumLinks[g + 1] - 1)
        PROVE  \E nb \in BinId : nb[1] = g + 1 /\ a \in LinksOf(nb)'
    <3>1. CASE a \in n..(NumLinks[g + 1] - 1)
      BY <1>1, <1>2, <1>4, <2>1, <3>1 DEF EndsInv
    <3>2. CASE a \in r.next..(n - 1)
      <4>1. PICK j \in LinkNo : resolveLink(linkMeta'[new], j) = a
        BY <2>1, <3>2
      <4>2. a # NO_LINK
        <5>1. r.next # 0
          BY <2>1 DEF Placed, NO_LINK
        <5> QED BY <2>1, <3>2, <5>1 DEF NO_LINK
      <4>3. a \in LinksOf(new)'
        BY <4>1, <4>2 DEF LinksOf, LinkNo
      <4> QED BY <2>1, <4>3
    <3> QED BY <2>1, <2>2, <3>1, <3>2
  <2>3. \A a \in ctx'[f].linkNextResize..(NumLinks[f + 1] - 1) :
          \E nb \in BinId : nb[1] = f + 1 /\ a \in LinksOf(nb)'
    BY <1>1, <1>4, <2>2
  <2> QED BY <1>1, <1>4, <2>1, <2>3 DEF EndsInv
<1> QED BY <1>3, <1>4

\* The move of an entry.
LEMMA MoveEntryL ==
  ASSUME IInv, IInv', RInv, LInv, NEW t \in Thread, MoveEntry(t) PROVE LInv'
<1>1. /\ ResizeStep(t) /\ pc[t] = "move" /\ pc[t] \in TransferPC /\ pc[t] \in MovePC
  BY DEF MoveEntry, ResizeStep, TransferPC, MovePC
<1>2. PICK b \in BinId : b = OldBin(t)
  BY <1>1, MoverBin
<1>3. b = OldBin(t) /\ header[b].bs = BinInTransfer
  BY <1>1, <1>2, MoverBin
<1>4. /\ OwnerInv(t)' /\ OthersSame(t) /\ UNCHANGED <<call, scan>> /\ Held(t)' = {}
  BY <1>1, ResizeOwner
<1>5. IsFiniteSet(NewBins(b) \X SlotIdx) /\ IsFiniteSet(Filled(b)) /\ Cardinality(Filled(b)) \in Nat
  BY FiniteFill
<1>6. PICK F : F = {p \in NewBins(b) \X SlotIdx : header'[p[1]].ss[p[2]] = SlotValid}
  OBVIOUS
<1>7. CASE UNCHANGED <<header, linkMeta, slotKey, linkNext, linkCapacity, active, resizeCtx, ctx>>
  <2>1. \A bin \in BinId : KeysKept(bin)
    BY <1>7, KeepKeys DEF Keeps
  <2>2. F = Filled(b) /\ linkMeta'[b] = linkMeta[b]
    BY <1>6, <1>7 DEF Filled
  <2>3. /\ pc'[t] \in MovePC /\ pc'[t] \notin {"setCtx", "finActive"}
        /\ MoverInv(t)' /\ CountInv(t)'
    BY <1>3, <1>5, <1>6, <2>1, <2>2, MovedOn
  <2>4. \A nb \in NewBins(b) : NewBinInv(nb)'
    BY <1>7, StillPacked
  <2>5. TopInv(b)' /\ header'[b].bs # BinNoTransfer
    BY <1>3, <1>7 DEF TopInv, BinInTransfer, BinDoneTransfer, BinNoTransfer
  <2>6. \A bin \in BinId : bin # b => header'[bin] = header[bin] /\ KeysKept(bin)
    BY <1>7, <2>1
  <2>7. UNCHANGED <<linkMeta, linkNext, linkCapacity, active, resizeCtx, ctx>>
    BY <1>7
  <2> QED BY <1>1, <1>3, <2>3, <2>4, <2>5, <2>6, <2>7, MoverL
<1>8. CASE \E g \in 0..(MaxGen - 1), n \in Nat, k \in Nat : \E new, r : Placed(b, g, new, n, r, k) /\ g = xfer[t].gen
  <2>1. PICK g \in 0..(MaxGen - 1), n \in Nat, k \in Nat : \E new, r : Placed(b, g, new, n, r, k) /\ g = xfer[t].gen
    BY <1>8
  <2>2. PICK new, r : Placed(b, g, new, n, r, k) /\ g = xfer[t].gen
    BY <2>1
  <2>3. /\ LinksInv' /\ LinksKept
        /\ \A bin \in BinId : \A a \in LinksOf(bin)' :
              a \in LinksOf(bin) \/ (bin = new /\ a \in r.next..(n - 1))
        /\ \A bin \in BinId : bin[1] = g + 1 => \A a \in LinksOf(bin) : a < r.next \/ a >= n
    <3>1. OthersSame(t) /\ UNCHANGED scan /\ Held(t)' = {} /\ Placed(b, g, new, n, r, k)
      BY <1>4, <2>2
    <3> QED BY <3>1, PlacedLinks
  <2>4. /\ \A bin \in BinId : KeysKept(bin) /\ header'[bin].bs = header[bin].bs
        /\ SlotFilled(new, r.slot)
        /\ \A bin \in BinId : KeysInv(bin)'
    <3>1. LinksInv' /\ LinksKept /\ Placed(b, g, new, n, r, k)
      BY <2>2, <2>3
    <3> QED BY <3>1, PlacedKeys
  <2>5. \A bin \in BinId : NewBinInv(bin)' /\ TopInv(bin)'
    <3>1. LinksInv' /\ LinksKept /\ Placed(b, g, new, n, r, k)
      BY <2>2, <2>3
    <3>2. \A bin \in BinId : header'[bin].bs = header[bin].bs
      BY <2>4
    <3> QED BY <2>3, <2>4, <3>1, <3>2, PlacedBins
  <2>6. \A f \in 0..(MaxGen - 1) : EndsInv(f)'
    BY <2>2, <2>3, PlacedEnds
  <2>7. /\ new \in NewBins(b) /\ new \in BinId /\ OldOf(new) = b /\ new # b /\ r.slot \in SlotIdx
        /\ \A bin \in BinId : bin # new => header'[bin] = header[bin] /\ linkMeta'[bin] = linkMeta[bin]
        /\ \A f \in 0..(MaxGen - 1) : f # g => ctx'[f].linkNextResize = ctx[f].linkNextResize
        /\ linkCapacity' = linkCapacity
    BY <2>2 DEF Placed, GoodSlot
  <2>8. \A u \in Thread : OwnerInv(u)'
    <3>1. \A u \in Thread \ {t} : OwnerInv(u)'
      BY <1>4, <2>4, SameOwners
    <3> QED BY <1>4, <3>1
  <2>9. Cardinality(F) \in Nat /\ Cardinality(F) <= Cardinality(Filled(b)) + 1
    <3>1. F \subseteq Filled(b) \cup {<<new, r.slot>>}
      <4> SUFFICES ASSUME NEW p \in F, p # <<new, r.slot>> PROVE p \in Filled(b)
        OBVIOUS
      <4>1. p \in NewBins(b) \X SlotIdx /\ header'[p[1]].ss[p[2]] = SlotValid
        BY <1>6
      <4>2. p[1] \in BinId /\ p[2] \in SlotIdx /\ p = <<p[1], p[2]>>
        BY <4>1 DEF NewBins
      <4>3. header[p[1]].ss[p[2]] = SlotValid
        BY <2>4, <4>1, <4>2 DEF SlotFilled
      <4> QED BY <4>1, <4>3 DEF Filled
    <3>2. IsFiniteSet(Filled(b) \cup {<<new, r.slot>>})
          /\ Cardinality(Filled(b) \cup {<<new, r.slot>>}) =
               IF <<new, r.slot>> \in Filled(b) THEN Cardinality(Filled(b)) ELSE Cardinality(Filled(b)) + 1
      BY <1>5, FS_AddElement
    <3>3. IsFiniteSet(F) /\ Cardinality(F) <= Cardinality(Filled(b) \cup {<<new, r.slot>>})
      BY <3>1, <3>2, FS_Subset
    <3>4. Cardinality(F) \in Nat
      BY <3>3, FS_CardinalityType
    <3> QED BY <1>5, <3>2, <3>3, <3>4
  <2>10. /\ pc'[t] \in MovePC /\ pc'[t] \notin {"setCtx", "finActive"}
         /\ MoverInv(t)' /\ CountInv(t)'
    <3>1. linkMeta'[b] = linkMeta[b] /\ KeysKept(b)
      BY <2>4, <2>7
    <3> QED BY <1>3, <1>6, <2>9, <3>1, MovedOn
  <2>11. ASSUME NEW u \in Thread, pc'[u] \in MovePC PROVE MoverInv(u)' /\ CountInv(u)'
    <3>1. CASE u = t
      BY <2>10, <3>1
    <3>2. CASE u # t
      <4>1. pc'[u] = pc[u] /\ xfer'[u] = xfer[u] /\ pc[u] \in MovePC /\ pc[u] \in TransferPC
        BY <1>4, <2>11, <3>2 DEF OthersSame, MovePC
      <4>2. OldBin(u) \in BinId /\ OldBin(u) # b
        BY <1>1, <1>3, <3>2, <4>1, MoverBin
      <4>3. MoverInv(u)'
        BY <2>4, <4>1, <4>2, SameMover
      <4>4. ASSUME NEW nb \in NewBins(OldBin(u)) PROVE header'[nb].ss = header[nb].ss
        <5>1. nb \in BinId /\ nb # new
          BY <2>7, <4>2 DEF NewBins
        <5> QED BY <2>7, <5>1
      <4>5. Keeps(linkMeta[OldBin(u)], linkMeta'[OldBin(u)])
        BY <2>3, <4>2 DEF LinksKept
      <4> QED BY <4>1, <4>3, <4>4, <4>5, SameCount
    <3> QED BY <3>1, <3>2
  <2>12. \A u \in Thread : FinInv(u)'
    <3>1. FinInv(t)'
      BY <2>10 DEF FinInv
    <3>2. ASSUME NEW u \in Thread \ {t}, pc[u] \in {"setCtx", "finActive"}
          PROVE  ctx'[xfer[u].gen].linkNextResize = ctx[xfer[u].gen].linkNextResize
      <4>1. xfer[u].gen \in 0..(MaxGen - 1) /\ RoleInv(u)
        BY <3>2, AtResize DEF ContextPC
      <4>2. /\ Started(g) /\ ~(g < active) /\ ctx[g].chunksDone < NumChunks(g)
            /\ ctx[g].chunksDone \in Nat /\ NumChunks(g) \in Int /\ g \in Gen
        BY <1>1, <2>2, MoverBin, CtxType
      <4>3. xfer[u].gen # g
        <5>1. CASE pc[u] = "setCtx"
          <6>1. resizeCtx = ReservedCtx
            BY <4>1, <5>1 DEF RoleInv, InstallPC
          <6> QED BY <4>2, <6>1, ResizeWords DEF Started
        <5>2. CASE pc[u] = "finActive"
          BY <4>1, <4>2, <5>2 DEF RoleInv, FinishPC
        <5> QED BY <3>2, <5>1, <5>2
      <4> QED BY <2>7, <4>1, <4>3
    <3> QED BY <1>4, <2>7, <3>1, <3>2, SameFin
  <2> QED BY <2>3, <2>4, <2>5, <2>6, <2>8, <2>11, <2>12 DEF LInv
<1> QED BY <1>3, <1>7, <1>8, EntryPlaced

-----------------------------------------------------------------------------
(* The invariant, and what it says.                                        *)

\* A new call has no header in hand, no slot and no link.
LEMMA InvokeL ==
  ASSUME IInv, IInv', RInv, LInv, NEW t \in Thread, Invoke(t) PROVE LInv'
<1>1. /\ UNCHANGED <<header, linkMeta, slotKey, linkNext, linkCapacity, active, resizeCtx, ctx, scan, ins, xfer>>
      /\ pc[t] = "idle" /\ pc'[t] = "active" /\ pc \in [Thread -> PC] /\ call \in [Thread -> CallRec \cup {NoCall}]
      /\ \A u \in Thread \ {t} : pc'[u] = pc[u] /\ call'[u] = call[u]
  BY DEF Invoke, memory, arena, roots, Goto, IInv, BaseType, BaseLocal, ApiType
<1>2. OthersSame(t)
  BY <1>1 DEF OthersSame
<1>3. pc[t] \notin MovePC /\ pc'[t] \notin MovePC \cup {"setCtx", "finActive", "attachSingle", "attachPair"}
  BY <1>1 DEF MovePC, TransferPC
<1>4. \A bin \in BinId : KeysKept(bin)
  BY <1>1, KeepKeys DEF Keeps
<1>5. OwnerInv(t)'
  BY <1>1 DEF OwnerInv, HeadPC, FilledPC, ScanPC
<1>6. \A g \in 0..(MaxGen - 1) :
           /\ ctx'[g].linkNextResize = ctx[g].linkNextResize
           /\ ctx'[g].chunksDone >= ctx[g].chunksDone
           /\ Started(g)' <=> Started(g)
           /\ g < active' => g < active \/ linkCapacity[g + 1] = ctx[g].linkNextResize - 1
  BY <1>1, CtxType DEF Started
<1> QED BY <1>1, <1>2, <1>3, <1>4, <1>5, <1>6, CallL

\* The links in use in the beginning are those of one bin, 1 and then 2 and 3.
LEMMA PrefillOwner ==
  ASSUME NEW bin \in BinId, NEW other \in BinId
  PROVE  /\ \A p, q \in LinkNo : resolveLink(PrefillMeta(bin), p) = resolveLink(PrefillMeta(other), q)
                                 /\ resolveLink(PrefillMeta(bin), p) # NO_LINK => bin = other /\ p = q
         /\ \A p \in LinkNo : resolveLink(PrefillMeta(bin), p) <= LinksUsed(bin)
                              /\ resolveLink(PrefillMeta(bin), p) \in 0..3
         /\ LinksUsed(bin) \in 0..3
<1>1. ASSUME NEW b \in BinId
      PROVE  \E s \in {0, 1}, p \in {0, 2} :
               /\ PrefillMeta(b) = [single |-> s, pair |-> p] /\ (p = 2 => s = 1)
               /\ LinksUsed(b) = IF p = 2 THEN 3 ELSE s
  <2>1. PICK c \in Nat : c = Cardinality(PrefillIn(b))
    BY PrefillFacts
  <2>2. PRIMARY_SLOTS \in Nat /\ LINK_SLOTS \in Nat
    BY SizeAssumption
  <2>3. PICK s \in {0, 1}, p \in {0, 2} : /\ s = IF c > PRIMARY_SLOTS THEN 1 ELSE 0
                                          /\ p = IF c > PRIMARY_SLOTS + LINK_SLOTS THEN 2 ELSE 0
    OBVIOUS
  <2>4. PrefillMeta(b) = [single |-> s, pair |-> p]
    BY <2>1, <2>3 DEF PrefillMeta, NO_LINK
  <2>5. p = 2 => s = 1
    BY <2>2, <2>3
  <2> QED BY <2>4, <2>5 DEF LinksUsed, NO_LINK
<1>2. PICK s \in {0, 1}, p \in {0, 2} :
        /\ PrefillMeta(bin) = [single |-> s, pair |-> p] /\ (p = 2 => s = 1)
        /\ LinksUsed(bin) = IF p = 2 THEN 3 ELSE s
  BY <1>1
<1>3. PICK s2 \in {0, 1}, p2 \in {0, 2} :
        /\ PrefillMeta(other) = [single |-> s2, pair |-> p2] /\ (p2 = 2 => s2 = 1)
        /\ LinksUsed(other) = IF p2 = 2 THEN 3 ELSE s2
  BY <1>1
<1>4. /\ resolveLink(PrefillMeta(bin), 1) = s /\ resolveLink(PrefillMeta(bin), 2) = p
      /\ resolveLink(PrefillMeta(bin), 3) = IF p = 0 THEN 0 ELSE 3
      /\ resolveLink(PrefillMeta(other), 1) = s2 /\ resolveLink(PrefillMeta(other), 2) = p2
      /\ resolveLink(PrefillMeta(other), 3) = IF p2 = 0 THEN 0 ELSE 3
  BY <1>2, <1>3 DEF resolveLink, NO_LINK
<1>5. \A q \in LinkNo : q = 1 \/ q = 2 \/ q = 3
  BY DEF LinkNo
<1>6. s # 0 /\ s2 # 0 => bin = other
  BY <1>2, <1>3, PrefillAssumption
<1>7. \A x, q \in LinkNo : resolveLink(PrefillMeta(bin), x) = resolveLink(PrefillMeta(other), q)
                           /\ resolveLink(PrefillMeta(bin), x) # NO_LINK => x = q /\ s # 0 /\ s2 # 0
  BY <1>2, <1>3, <1>4, <1>5 DEF NO_LINK
<1>8. \A x \in LinkNo : resolveLink(PrefillMeta(bin), x) <= LinksUsed(bin) /\ resolveLink(PrefillMeta(bin), x) \in 0..3
  BY <1>2, <1>4, <1>5
<1>9. LinksUsed(bin) \in 0..3
  BY <1>2
<1> QED BY <1>6, <1>7, <1>8, <1>9

\* In a finite set of numbers there is one with i numbers below it, for every i short
\* of their count.
LEMMA Ranks ==
  ASSUME NEW S, S \subseteq Nat, IsFiniteSet(S), NEW i \in Nat, i < Cardinality(S)
  PROVE  \E j \in S : Cardinality({x \in S : x < j}) = i
<1> DEFINE Below(j) == {x \in S : x < j}
           rank == [j \in S |-> Cardinality(Below(j))]
           R == {rank[j] : j \in S}
<1>1. PICK c \in Nat : c = Cardinality(S)
  BY FS_CardinalityType
<1>2. ASSUME NEW j \in S
      PROVE  IsFiniteSet(Below(j)) /\ rank[j] \in Nat /\ rank[j] < c /\ rank[j] = Cardinality(Below(j))
  <2>1. IsFiniteSet(Below(j)) /\ Cardinality(Below(j)) \in Nat
    BY FS_Subset, FS_CardinalityType
  <2>2. IsFiniteSet(S \ {j}) /\ Cardinality(S \ {j}) = c - 1
    <3>1. Cardinality(S \ {j}) = IF j \in S THEN Cardinality(S) - 1 ELSE Cardinality(S)
      BY FS_RemoveElement
    <3> QED BY <1>1, <3>1, FS_RemoveElement
  <2>3. Below(j) \subseteq S \ {j}
    OBVIOUS
  <2>4. Cardinality(Below(j)) <= Cardinality(S \ {j})
    BY <2>2, <2>3, FS_Subset
  <2> QED BY <1>1, <2>1, <2>2, <2>4
<1>3. ASSUME NEW j \in S, NEW k \in S, j < k PROVE rank[j] < rank[k]
  <2>1. Below(j) \cup {j} \subseteq Below(k)
    <3>1. \A x \in S : x \in Nat
      OBVIOUS
    <3>2. \A x \in S : x < j => x < k
      BY <1>3, <3>1
    <3> QED BY <1>3, <3>2
  <2>2. IsFiniteSet(Below(j)) /\ IsFiniteSet(Below(k)) /\ rank[j] \in Nat /\ rank[k] \in Nat
        /\ rank[j] = Cardinality(Below(j)) /\ rank[k] = Cardinality(Below(k))
    BY <1>2
  <2>3. Cardinality(Below(j) \cup {j}) = IF j \in Below(j) THEN Cardinality(Below(j)) ELSE Cardinality(Below(j)) + 1
    BY <2>2, FS_AddElement
  <2>4. j \notin Below(j)
    OBVIOUS
  <2>5. Cardinality(Below(j) \cup {j}) <= Cardinality(Below(k))
    BY <2>1, <2>2, FS_Subset
  <2> QED BY <2>2, <2>3, <2>4, <2>5
<1>4. \A j, k \in S : rank[j] = rank[k] => j = k
  <2> SUFFICES ASSUME NEW j \in S, NEW k \in S, rank[j] = rank[k], j # k PROVE FALSE
    OBVIOUS
  <2>1. j < k \/ k < j
    OBVIOUS
  <2>2. rank[j] \in Nat /\ rank[k] \in Nat
    BY <1>2
  <2> HIDE DEF rank
  <2> QED BY <1>3, <2>1, <2>2
<1>5. PICK D : D = 0..(c - 1) /\ IsFiniteSet(D) /\ Cardinality(D) = c
  <2>1. ASSUME NEW x \in Int, NEW y \in Int, x = 0, x <= y PROVE IsFiniteSet(x..y) /\ Cardinality(x..y) = y + 1
    BY <2>1, FS_Interval
  <2>2. 0 \in Int /\ c - 1 \in Int /\ 0 <= c - 1
    BY <1>1
  <2>3. IsFiniteSet(0..(c - 1)) /\ Cardinality(0..(c - 1)) = (c - 1) + 1
    BY <2>1, <2>2
  <2> QED BY <1>1, <2>3
<1>6. R \subseteq D
  <2>1. ASSUME NEW j \in S PROVE rank[j] \in 0..(c - 1)
    <3>1. rank[j] \in Nat /\ rank[j] < c
      BY <1>2
    <3> HIDE DEF rank
    <3> QED BY <1>1, <3>1
  <2> HIDE DEF rank
  <2> QED BY <1>5, <2>1
<1>7. IsFiniteSet(R) /\ Cardinality(R) <= c /\ (Cardinality(R) = c => R = D)
  BY <1>5, <1>6, FS_Subset
<1>8. c <= Cardinality(R) /\ Cardinality(R) \in Nat
  <2>1. rank \in [S -> R]
    OBVIOUS
  <2>2. Cardinality(S) <= Cardinality(R)
    <3> HIDE DEF rank, R
    <3> QED BY <1>4, <1>7, <2>1, InjCount
  <2> QED BY <1>1, <1>7, <2>2, FS_CardinalityType
<1>9. i \in R
  <2> HIDE DEF R
  <2>1. R = D
    BY <1>7, <1>8
  <2>2. i \in 0..(c - 1)
    BY <1>1
  <2> QED BY <1>5, <2>1, <2>2
<1>10. PICK j \in S : rank[j] = i
  BY <1>9
<1> QED BY <1>2, <1>10

\* A slot that is Valid in the beginning has one of the keys inserted before: one of its
\* bin, with as many others before it as there are slots before the slot.
LEMMA PrefillSlot ==
  ASSUME Init, NEW bin \in BinId, NEW i \in SlotIdx, header[bin].ss[i] = SlotValid
  PROVE  \E k \in PrefillIn(bin) :
           /\ Cardinality({x \in PrefillIn(bin) : x < k}) = i
           /\ slotKey[SlotLoc(bin, i)] = Hash[Prefill[k]]
           /\ slotVal[SlotLoc(bin, i)] = [key |-> Prefill[k], val |-> InitVal]
<1>1. /\ IInv /\ linkMeta[bin] = PrefillMeta(bin) /\ i < Cardinality(PrefillIn(bin)) /\ i \in Nat
  BY InitInv, SlotIdxNat DEF Init, SlotValid, SlotInvalid
<1>2. /\ PrefillMeta(bin) \in LinkMeta /\ LinkMetaOK(PrefillMeta(bin), NumLinks[bin[1]])
      /\ HasSlot(PrefillMeta(bin), i)
  BY <1>1, PrefillFacts
<1>3. PICK loc \in Loc : loc = LocVia(PrefillMeta(bin), bin, i) /\ loc = SlotLoc(bin, i)
  BY <1>1, <1>2, LocType DEF SlotLoc
<1>4. PrefillIn(bin) \subseteq Nat /\ IsFiniteSet(PrefillIn(bin)) /\ Len(Prefill) \in Nat
  <2>1. Len(Prefill) \in Nat
    BY CallsAssumption
  <2>2. IsFiniteSet(1..Len(Prefill))
    BY <2>1, FS_Interval
  <2> QED BY <2>1, <2>2, FS_Subset DEF PrefillIn
<1>5. PICK j \in PrefillIn(bin) : Cardinality({x \in PrefillIn(bin) : x < j}) = i
  BY <1>1, <1>4, Ranks
<1>6. j \in 1..Len(Prefill) /\ getBin(0, Hash[Prefill[j]]) = bin
  BY <1>5 DEF PrefillIn
<1>7. PrefillLoc(j) = loc
  BY <1>3, <1>5, <1>6 DEF PrefillLoc
<1>8. PICK k \in 1..Len(Prefill) : /\ PrefillLoc(k) = loc /\ slotKey[loc] = Hash[Prefill[k]]
                                   /\ slotVal[loc] = [key |-> Prefill[k], val |-> InitVal]
  <2>1. j \in PrefillAt(loc)
    BY <1>6, <1>7 DEF PrefillAt
  <2>2. /\ slotKey[loc] = Hash[Prefill[CHOOSE m \in PrefillAt(loc) : TRUE]]
        /\ slotVal[loc] = [key |-> Prefill[CHOOSE m \in PrefillAt(loc) : TRUE], val |-> InitVal]
    BY <2>1 DEF Init
  <2>3. (CHOOSE m \in PrefillAt(loc) : TRUE) \in PrefillAt(loc)
    BY <2>1
  <2> QED BY <2>2, <2>3 DEF PrefillAt
<1>9. PICK other \in BinId : other = getBin(0, Hash[Prefill[k]]) /\ Hash[Prefill[k]] \in Nat
  <2>1. Hash[Prefill[k]] \in Nat /\ 0 \in Gen
    BY CallsAssumption, SizeAssumption DEF Gen
  <2> QED BY <2>1, GetBinType
<1>10. PICK m \in SlotIdx : /\ m = Cardinality({x \in PrefillIn(other) : x < k})
                            /\ m < Cardinality(PrefillIn(other))
  <2>1. k \in PrefillIn(other) /\ k \in Nat
    BY <1>4, <1>9 DEF PrefillIn
  <2>2. IsFiniteSet(PrefillIn(other)) /\ Cardinality(PrefillIn(other)) \in Nat
        /\ Cardinality(PrefillIn(other)) <= MaxSlots
    <3>1. IsFiniteSet(1..Len(Prefill))
      BY <1>4, FS_Interval
    <3>2. IsFiniteSet(PrefillIn(other))
      BY <3>1, FS_Subset DEF PrefillIn
    <3> QED BY <3>2, PrefillFacts, PrefillAssumption
  <2> DEFINE B == {x \in PrefillIn(other) : x < k}
  <2>3. B \subseteq PrefillIn(other) \ {k}
    BY <2>1
  <2>4. IsFiniteSet(PrefillIn(other) \ {k}) /\ Cardinality(PrefillIn(other) \ {k}) = Cardinality(PrefillIn(other)) - 1
    <3>1. Cardinality(PrefillIn(other) \ {k}) =
            IF k \in PrefillIn(other) THEN Cardinality(PrefillIn(other)) - 1 ELSE Cardinality(PrefillIn(other))
      BY <2>2, FS_RemoveElement
    <3> QED BY <2>1, <2>2, <3>1, FS_RemoveElement
  <2>5. IsFiniteSet(B) /\ Cardinality(B) <= Cardinality(PrefillIn(other) \ {k})
    BY <2>3, <2>4, FS_Subset
  <2>6. Cardinality(B) \in Nat
    BY <2>5, FS_CardinalityType
  <2>7. MaxSlots \in Nat
    BY SizeAssumption DEF MaxSlots
  <2>8. Cardinality(B) \in SlotIdx /\ Cardinality(B) < Cardinality(PrefillIn(other))
    BY <2>2, <2>4, <2>5, <2>6, <2>7 DEF SlotIdx
  <2> QED BY <2>8
<1>11. LocVia(PrefillMeta(other), other, m) = LocVia(PrefillMeta(bin), bin, i)
  BY <1>3, <1>8, <1>9, <1>10 DEF PrefillLoc
<1>12. PrefillMeta(other) \in LinkMeta /\ HasSlot(PrefillMeta(other), m)
  BY <1>10, PrefillFacts
<1>13. bin[1] = other[1] =>
         \A p, q \in LinkNo : resolveLink(PrefillMeta(bin), p) = resolveLink(PrefillMeta(other), q)
                              /\ resolveLink(PrefillMeta(bin), p) # NO_LINK => bin = other /\ p = q
  BY PrefillOwner
<1>14. bin = other /\ i = m
  BY <1>2, <1>11, <1>12, <1>13, LocApart
<1>15. k \in PrefillIn(bin)
  BY <1>9, <1>14 DEF PrefillIn
<1> QED
  BY <1>3, <1>8, <1>10, <1>14, <1>15

\* The keys that were inserted before belong to the bins in which they are.
LEMMA PrefillKeys ==
  ASSUME Init, NEW bin \in BinId PROVE KeysInv(bin)
<1> SUFFICES ASSUME NEW i \in SlotIdx, header[bin].ss[i] = SlotValid PROVE KeyInBin(bin, i)
  BY DEF KeysInv
<1>1. PICK k \in PrefillIn(bin) : slotKey[SlotLoc(bin, i)] = Hash[Prefill[k]]
  BY PrefillSlot
<1>2. getBin(0, Hash[Prefill[k]]) = bin
  BY DEF PrefillIn
<1> QED
  BY <1>1, <1>2 DEF KeyInBin, InBin, getBin

\* In the beginning nobody is in a call, no new bin has an entry, and the links in use
\* are those of the keys inserted before.
LEMMA InitL == Init => LInv
<1> SUFFICES ASSUME Init PROVE LInv
  OBVIOUS
<1>1. IInv
  BY InitInv
<1>2. \A t \in Thread : pc[t] = "idle"
  BY DEF Init
<1>3. \A t \in Thread : OwnerInv(t) /\ FinInv(t) /\ pc[t] \notin MovePC
  BY <1>2 DEF OwnerInv, FinInv, HeadPC, FilledPC, ScanPC, MovePC, TransferPC
<1>4. /\ \A bin \in BinId : header[bin].bs = BinNoTransfer /\ linkMeta[bin] = PrefillMeta(bin)
      /\ active = 0 /\ resizeCtx = NoCtx
      /\ \A g \in Gen : linkCapacity[g] = NumLinks[g]
  BY DEF Init
<1>5. ASSUME NEW bin \in BinId, bin[1] > 0 PROVE EmptyBin(bin)
  <2>1. PrefillIn(bin) = {}
    <3>1. bin[1] # 0
      BY <1>5, BinIdGen, SizeAssumption DEF Gen
    <3> QED BY <3>1 DEF PrefillIn, getBin
  <2>2. Cardinality(PrefillIn(bin)) = 0
    BY <2>1, FS_EmptySet
  <2>3. PrefillMeta(bin) = NoLinks
    BY <2>2, SizeAssumption DEF PrefillMeta, NoLinks
  <2>4. \A i \in SlotIdx : header[bin].ss[i] = SlotInvalid
    <3>1. \A i \in SlotIdx : header[bin].ss[i] = IF i < Cardinality(PrefillIn(bin)) THEN SlotValid ELSE SlotInvalid
      BY DEF Init
    <3>2. \A i \in SlotIdx : ~(i < 0)
      BY SlotIdxNat
    <3> QED BY <2>2, <3>1, <3>2
  <2> QED BY <1>4, <2>3, <2>4 DEF EmptyBin
<1>6. ASSUME NEW bin \in BinId PROVE KeysInv(bin) /\ NewBinInv(bin) /\ TopInv(bin)
  <2>1. KeysInv(bin)
    BY PrefillKeys
  <2>2. TopInv(bin)
    BY <1>4 DEF TopInv, BinNoTransfer, BinDoneTransfer
  <2>3. NewBinInv(bin)
    <3> SUFFICES ASSUME bin[1] > 0 PROVE header[OldOf(bin)].bs = BinNoTransfer /\ EmptyBin(bin)
      BY DEF NewBinInv, BinNoTransfer, BinInTransfer
    <3> QED BY <1>4, <1>5, OldOfType
  <2> QED BY <2>1, <2>2, <2>3
<1>7. PICK top \in BinId : /\ \A other \in BinId : LinksUsed(other) <= LinksUsed(top)
                           /\ linkNext = [g \in Gen |-> IF g = 0 THEN LinksUsed(top) ELSE 0]
  BY DEF Init
<1>8. ASSUME NEW g \in 0..(MaxGen - 1) PROVE EndsInv(g)
  <2>1. g \in Gen /\ g + 1 \in Gen /\ g \in Nat /\ g < MaxGen /\ g + 1 # 0 /\ ~(g < 0)
    BY SizeAssumption DEF Gen
  <2>2. ctx[g].linkNextResize = NumLinks[g + 1] /\ linkNext[g + 1] = 0 /\ NumLinks[g + 1] \in Nat
    BY <1>7, <2>1, SizeAssumption DEF Init, FreshCtx
  <2>3. ~Started(g)
    BY <1>4, <2>1 DEF Started, NoCtx
  <2>4. ctx[g].linkNextResize..(NumLinks[g + 1] - 1) = {}
    BY <2>2
  <2> QED BY <1>4, <2>1, <2>2, <2>3, <2>4 DEF EndsInv
<1>9. LinksInv
  <2>1. ASSUME NEW bin \in BinId, NEW a \in LinksOf(bin) PROVE Low(bin[1], a)
    <3>1. PICK p \in LinkNo : a = resolveLink(PrefillMeta(bin), p)
      BY <1>1, <1>4, LinkRange
    <3>2. a \in 1..NumLinks[bin[1]] /\ NumLinks[bin[1]] \in Nat /\ bin[1] \in Gen
      BY <1>1, LinkRange, BinWords
    <3>3. a <= LinksUsed(bin) /\ LinksUsed(bin) \in 0..3 /\ LinksUsed(top) \in 0..3
      BY <3>1, PrefillOwner
    <3>4. bin[1] = 0
      <4> SUFFICES ASSUME bin[1] # 0 PROVE FALSE
        OBVIOUS
      <4>1. linkMeta[bin] = NoLinks
        BY <1>5, <3>2, SizeAssumption DEF Gen, EmptyBin
      <4> QED BY <4>1 DEF LinksOf, resolveLink, NoLinks
    <3>5. a <= LinksUsed(top) /\ linkNext[bin[1]] = LinksUsed(top)
      BY <1>7, <3>2, <3>3, <3>4
    <3> QED BY <1>4, <3>2, <3>5 DEF Low
  <2>2. \A bin, other \in BinId : OneOwner(bin, other)
    BY <1>4, PrefillOwner DEF OneOwner
  <2>3. \A t \in Thread : Held(t) = {}
    BY <1>2 DEF Held
  <2> QED BY <2>1, <2>2, <2>3 DEF LinksInv, HeldInv
<1> QED BY <1>3, <1>6, <1>8, <1>9 DEF LInv

\* Every step keeps the invariant of the arenas.
LEMMA NextL == IInv /\ IInv' /\ RInv /\ LInv /\ [Next]_vars => LInv'
<1> SUFFICES ASSUME IInv, IInv', RInv, LInv, [Next]_vars PROVE LInv'
  OBVIOUS
<1>1. IInv'
  OBVIOUS
<1>2. CASE UNCHANGED vars
  <2>1. UNCHANGED <<header, linkMeta, slotKey, active, linkNext, linkCapacity, resizeCtx, ctx, pc, call, scan, ins, xfer>>
    BY <1>2 DEF vars
  <2>2. ASSUME NEW t \in Thread PROVE (OwnerInv(t) /\ FinInv(t))'
    <3>1. OwnerInv(t) /\ FinInv(t)
      BY DEF LInv
    <3>2. OwnerInv(t)'
      BY <2>1, <3>1 DEF OwnerInv, KeyInBin, InBin, SlotLoc, Bin, hash, Reserved
    <3> QED BY <2>1, <3>1, <3>2 DEF FinInv, SetAside
  <2>3. ASSUME NEW t \in Thread, pc'[t] \in MovePC PROVE (MoverInv(t) /\ CountInv(t))'
    <3>1. MoverInv(t) /\ CountInv(t)
      BY <2>1, <2>3 DEF LInv
    <3>2. MoverInv(t)'
      BY <2>1, <3>1 DEF MoverInv, AtPrimary, KeyInBin, InBin, SlotLoc, OldBin
    <3>3. CountInv(t)'
      BY <2>1, <3>1 DEF CountInv, AtPrimary, Filled, OldBin
    <3> QED BY <3>2, <3>3
  <2>4. ASSUME NEW bin \in BinId PROVE (KeysInv(bin) /\ NewBinInv(bin) /\ TopInv(bin))'
    <3>1. KeysInv(bin) /\ NewBinInv(bin) /\ TopInv(bin)
      BY DEF LInv
    <3>2. KeysInv(bin)'
      BY <2>1, <3>1 DEF KeysInv, KeyInBin, InBin, SlotLoc
    <3>3. NewBinInv(bin)'
      BY <2>1, <3>1 DEF NewBinInv, EmptyBin, PackedBin, LinksOf, OldOf
    <3>4. TopInv(bin)'
      BY <2>1, <3>1 DEF TopInv, TopOf, LinksOf
    <3> QED BY <3>2, <3>3, <3>4
  <2>5. ASSUME NEW g \in 0..(MaxGen - 1) PROVE EndsInv(g)'
    BY <2>1 DEF LInv, EndsInv, SetAside, Started, LinksOf
  <2>6. LinksInv'
    <3>1. LinksInv
      BY DEF LInv
    <3>2. \A bin \in BinId : LinksOf(bin)' = LinksOf(bin)
      BY <2>1 DEF LinksOf
    <3>3. \A t \in Thread : Held(t)' = Held(t)
      BY <2>1 DEF Held
    <3>4. \A bin \in BinId : \A a \in LinksOf(bin)' : (Low(bin[1], a) \/ High(bin[1], a))'
      BY <2>1, <3>1, <3>2 DEF LinksInv, Low, High
    <3>5. \A bin, other \in BinId : bin[1] = other[1] => OneOwner(bin, other)'
      BY <2>1, <3>1 DEF LinksInv, OneOwner
    <3>6. \A t \in Thread : HeldInv(t)'
      BY <2>1, <3>1, <3>2, <3>3 DEF LinksInv, HeldInv, Low
    <3>7. \A t, u \in Thread : t # u /\ scan'[t].idx = scan'[u].idx => Held(t)' \cap Held(u)' = {}
      BY <2>1, <3>1, <3>3 DEF LinksInv
    <3> QED BY <3>4, <3>5, <3>6, <3>7 DEF LinksInv
  <2> QED BY <2>2, <2>3, <2>4, <2>5, <2>6 DEF LInv
<1>3. ASSUME NEW t \in Thread, Invoke(t) PROVE LInv'
  BY <1>1, <1>3, InvokeL
<1>4. ASSUME NEW t \in Thread, ResizeStep(t) PROVE LInv'
  <2>1. CASE TriggerResize(t) \/ HelpResize(t) \/ HelpActive(t) \/ ClaimChunk(t) \/ ChunkDone(t)
    BY <1>1, <2>1, HelpL
  <2>2. CASE PublishNext(t)
    BY <1>1, <2>2, PublishL
  <2>3. CASE SetResizeContext(t)
    BY <1>1, <2>3, SetContextL
  <2>4. CASE TransferBin(t)
    BY <1>1, <2>4, TransferBinL
  <2>5. CASE TransferLinks(t)
    BY <1>1, <2>5, TransferLinksL
  <2>6. CASE StoreSentinel(t)
    BY <1>1, <2>6, StoreSentinelL
  <2>7. CASE MoveEntry(t)
    BY <1>1, <2>7, MoveEntryL
  <2>8. CASE FinishBin(t)
    BY <1>1, <2>8, FinishBinL
  <2>9. CASE FinishCapacity(t)
    BY <1>1, <2>9, FinishCapacityL
  <2>10. CASE FinishActive(t) \/ FinishInactive(t) \/ FinishCtx(t)
    BY <1>1, <2>10, FinishL
  <2> QED BY <1>4, <2>1, <2>2, <2>3, <2>4, <2>5, <2>6, <2>7, <2>8, <2>9, <2>10 DEF ResizeStep
<1>5. ASSUME NEW t \in Thread, Step(t) PROVE LInv'
  <2>1. CASE ScanStep(t)
    BY <1>1, <2>1, ScanL
  <2>2. CASE SlotStep(t)
    BY <1>1, <2>2, SlotL
  <2>3. CASE InsertStep(t)
    BY <1>1, <2>3, InsertL
  <2>4. CASE ResizeStep(t)
    BY <1>4, <2>4
  <2> QED BY <1>5, <2>1, <2>2, <2>3, <2>4 DEF Step
<1>6. CASE Finished
  BY <1>2, <1>6 DEF Finished
<1> QED BY <1>2, <1>3, <1>5, <1>6 DEF Next

\* LInv is an invariant of the map: the entries moved fit into the buckets their old bin
\* had, and the links that they take are those set aside for them.
THEOREM LinksInductive == Spec => []LInv
<1>1. Init => RInv /\ LInv
  BY InitInv, InitR, InitL
<1>2. IInv /\ IInv' /\ RInv /\ LInv /\ [Next]_vars => (RInv /\ LInv)'
  BY NextR, NextL
<1> QED BY <1>1, <1>2, Inductive, PTL DEF Spec

\* No link bucket belongs to two bins, whether the bottom of the arena gave it to an
\* Insert or the top to a transfer, and every link lies in the arena of its index.
THEOREM LinksAlwaysDisjoint == Spec => []LinksDisjoint
<1>1. ASSUME IInv, LInv PROVE LinksDisjoint
  <2>1. ASSUME NEW bin \in BinId, NEW other \in BinId, bin # other, bin[1] = other[1],
               NEW a \in LinksOf(bin), a \in LinksOf(other)
        PROVE  FALSE
    <3>1. OneOwner(bin, other)
      BY <1>1, <2>1 DEF LInv, LinksInv
    <3>2. PICK n \in LinkNo : a = resolveLink(linkMeta[bin], n)
      BY <1>1, LinkRange
    <3>3. PICK m \in LinkNo : a = resolveLink(linkMeta[other], m)
      BY <1>1, <2>1, LinkRange
    <3>4. a # NO_LINK
      BY <2>1 DEF LinksOf
    <3> QED BY <2>1, <3>1, <3>2, <3>3, <3>4 DEF OneOwner
  <2>2. \A bin \in BinId : LinksOf(bin) \subseteq 1..NumLinks[bin[1]]
    BY <1>1, LinkRange
  <2> QED BY <2>1, <2>2 DEF LinksDisjoint
<1> QED BY <1>1, Inductive, LinksInductive, PTL

\* The transfer finds a slot for every entry, in a bucket that the new bin has or with
\* links from the top of the arena: copyEntry never meets a full bin.
THEOREM TransferAlwaysFits == Spec => []TransferFits
<1>1. ASSUME IInv, RInv, LInv PROVE TransferFits
  <2> SUFFICES ASSUME NEW t \in Thread, pc[t] = "move"
               PROVE  findFreeSlotOrChain(xfer[t].gen, getBin(xfer[t].gen + 1, xfer[t].key)).slot # NoSlot
    BY DEF TransferFits
  <2>1. PICK g \in 0..(MaxGen - 1) : g = xfer[t].gen
    BY <1>1, MoverBin DEF TransferPC
  <2>2. PICK b \in BinId : b = OldBin(t)
    BY <1>1, MoverBin DEF TransferPC
  <2>3. PICK new : new = getBin(g + 1, xfer[t].key)
    OBVIOUS
  <2>4. ctx[g].linkNextResize \in 1..NumLinks[g + 1]
    BY <1>1, <2>1, <2>2, <2>3, AtEntry
  <2>5. PICK n \in Nat : n = ctx[g].linkNextResize
    BY <2>4
  <2>6. GoodSlot(new, n, findFreeSlotOrChain(g, new))
    BY <1>1, <2>1, <2>3, <2>5, EntryFits
  <2>7. findFreeSlotOrChain(g, new).slot \in SlotIdx
    BY <2>6 DEF GoodSlot
  <2>8. NoSlot \notin SlotIdx
    BY SlotIdxNat DEF NoSlot
  <2> QED BY <2>1, <2>3, <2>7, <2>8
<1> QED BY <1>1, Inductive, ResizeInductive, LinksInductive, PTL

\* The first index was allocated without a resize: Inserts may use its whole arena.
FirstEnd == linkCapacity[0] = NumLinks[0]

\* No step moves the end of the first arena: a resize sets that of its new index.
LEMMA FirstKept == IInv /\ FirstEnd /\ [Next]_vars => FirstEnd'
<1> SUFFICES ASSUME IInv, [Next]_vars PROVE linkCapacity'[0] = linkCapacity[0]
  BY DEF FirstEnd
<1>1. /\ linkCapacity \in [Gen -> Int] /\ 0 \in Gen
      /\ active \in Nat /\ pc \in [Thread -> PC]
  BY SizeAssumption DEF IInv, BaseType, RootType, BaseLocal, Gen
<1>2. ASSUME NEW t \in Thread, Invoke(t) PROVE linkCapacity' = linkCapacity
  BY <1>2 DEF Invoke, arena
<1>3. ASSUME NEW t \in Thread, ScanStep(t) PROVE linkCapacity' = linkCapacity
  <2>1. CASE LoadActive(t) \/ LoadHeader(t) \/ Follow(t)
    BY <2>1 DEF LoadActive, LoadHeader, Follow, arena
  <2>2. CASE MatchKeys(t) \/ Probe(t) \/ LoadLinks(t)
    BY <2>2 DEF MatchKeys, Probe, LoadLinks, arena
  <2>3. CASE CheckStale(t) \/ CheckAnswer(t) \/ CheckTarget(t)
    BY <2>3 DEF CheckStale, CheckAnswer, CheckTarget, arena
  <2> QED BY <1>3, <2>1, <2>2, <2>3 DEF ScanStep
<1>4. ASSUME NEW t \in Thread, SlotStep(t) PROVE linkCapacity' = linkCapacity
  <2>1. CASE DWCASHit(t) \/ DWCASMiss(t) \/ markSlotInvalid(t)
    BY <2>1 DEF DWCASHit, DWCASMiss, markSlotInvalid, arena
  <2>2. CASE LoopHeader(t) \/ LoopKey(t) \/ LoopVal(t)
    BY <2>2 DEF LoopHeader, LoopKey, LoopVal, arena
  <2>3. CASE LoopCheck(t) \/ LoopTTAS(t)
    BY <2>3 DEF LoopCheck, LoopTTAS, arena
  <2> QED BY <1>4, <2>1, <2>2, <2>3 DEF SlotStep
<1>5. ASSUME NEW t \in Thread, InsertStep(t) PROVE linkCapacity' = linkCapacity
  <2>1. CASE ChooseHeader(t) \/ ChooseLinks(t) \/ reserveSlot(t)
    BY <2>1 DEF ChooseHeader, ChooseLinks, reserveSlot, arena
  <2>2. CASE allocateLink(t) \/ allocateLinkPair(t)
    BY <2>2 DEF allocateLink, allocateLinkPair, Allocate
  <2>3. CASE attachSingle(t) \/ attachPair(t)
    BY <2>3 DEF attachSingle, attachPair, arena
  <2>4. CASE FillKey(t) \/ FillVal(t) \/ finalizeSlot(t) \/ LoadHeader2(t)
    BY <2>4 DEF FillKey, FillVal, finalizeSlot, LoadHeader2, arena
  <2>5. CASE UnreserveLoad(t) \/ UnreserveClear(t) \/ UnreserveCAS(t)
    BY <2>5 DEF UnreserveLoad, UnreserveClear, UnreserveCAS, arena
  <2> QED BY <1>5, <2>1, <2>2, <2>3, <2>4, <2>5 DEF InsertStep
<1>6. ASSUME NEW t \in Thread, ResizeStep(t) PROVE linkCapacity'[0] = linkCapacity[0]
  <2>1. CASE TriggerResize(t) \/ SetResizeContext(t) \/ HelpResize(t) \/ HelpActive(t) \/ ClaimChunk(t)
    BY <2>1 DEF TriggerResize, SetResizeContext, HelpResize, HelpActive, ClaimChunk, arena
  <2>2. CASE TransferBin(t) \/ TransferLinks(t) \/ StoreSentinel(t) \/ MoveEntry(t)
    BY <2>2 DEF TransferBin, TransferLinks, StoreSentinel, MoveEntry, arena
  <2>3. CASE FinishBin(t) \/ ChunkDone(t) \/ FinishActive(t) \/ FinishInactive(t) \/ FinishCtx(t)
    BY <2>3 DEF FinishBin, ChunkDone, FinishActive, FinishInactive, FinishCtx, arena
  <2>4. CASE PublishNext(t)
    BY <1>1, <2>4 DEF PublishNext
  <2>5. CASE FinishCapacity(t)
    <3>1. xfer[t].gen \in 0..(MaxGen - 1)
      BY <2>5, AtContext DEF FinishCapacity, ContextPC
    <3>2. xfer[t].gen + 1 # 0
      BY <3>1
    <3> QED BY <1>1, <2>5, <3>2 DEF FinishCapacity
  <2> QED BY <1>6, <2>1, <2>2, <2>3, <2>4, <2>5 DEF ResizeStep
<1>7. CASE UNCHANGED vars
  BY <1>7 DEF vars
<1> QED BY <1>2, <1>3, <1>4, <1>5, <1>6, <1>7 DEF Next, Step, Finished

\* The end of the first arena is that of the arena in every state.
LEMMA FirstInductive == Spec => []FirstEnd
<1>1. Init => FirstEnd
  BY SizeAssumption DEF Init, FirstEnd, Gen
<1> QED BY <1>1, FirstKept, Inductive, PTL DEF Spec

\* Stats counts every link bucket of the active index, and those that the transfer took
\* from the top of its arena once each.
THEOREM StatsAlwaysCountLinks == Spec => []StatsCountLinks
<1>1. ASSUME IInv, LInv, FirstEnd PROVE StatsCountLinks
  <2> DEFINE L == UNION {LinksOf(bin) : bin \in {b \in BinId : b[1] = active}}
  <2>1. PICK g : g = active
    OBVIOUS
  <2>2. /\ g \in Gen /\ linkNext[g] \in Nat /\ linkCapacity[g] \in Int /\ NumLinks[g] \in Nat
    BY <1>1, <2>1, SizeAssumption DEF IInv, BaseType, RootType, Gen
  <2>3. PICK lo \in Nat : lo = linkNext[g]
    BY <2>2
  <2>4. PICK hi \in Int : hi = linkCapacity[g] + 1
    BY <2>2
  <2>5. PICK N \in Nat : N = NumLinks[g]
    BY <2>2
  <2>6. ASSUME NEW a \in L PROVE a \in (1..lo) \cup (hi..(N - 1))
    <3>1. PICK bin \in BinId : bin[1] = g /\ a \in LinksOf(bin)
      BY <2>1
    <3>2. a \in 1..N /\ (Low(g, a) \/ High(g, a))
      BY <1>1, <2>5, <3>1, LinkRange DEF LInv, LinksInv
    <3>3. CASE Low(g, a)
      BY <2>3, <3>2, <3>3 DEF Low
    <3>4. CASE High(g, a)
      <4>1. g - 1 \in 0..(MaxGen - 1) /\ (g - 1) + 1 = g /\ g - 1 < active
        BY <2>1, <2>2, <3>4, SizeAssumption DEF High, Gen
      <4>2. linkCapacity[g] = ctx[g - 1].linkNextResize - 1 /\ ctx[g - 1].linkNextResize \in Int
        BY <1>1, <4>1, SizeAssumption DEF LInv, EndsInv, Gen, IInv, BaseType, RootType, CtxRec
      <4>3. hi <= a /\ a < N /\ a \in Nat
        BY <2>2, <2>4, <2>5, <3>2, <3>4, <4>2 DEF High
      <4> QED BY <4>3
    <3> QED BY <3>2, <3>3, <3>4
  <2>7. ASSUME NEW x \in Int, NEW y \in Int
        PROVE  IsFiniteSet(x..y) /\ Cardinality(x..y) = IF x > y THEN 0 ELSE y - x + 1
    BY FS_Interval
  <2>8. PICK S : S = 1..lo /\ IsFiniteSet(S) /\ Cardinality(S) = lo
    <3>1. IsFiniteSet(1..lo) /\ Cardinality(1..lo) = IF 1 > lo THEN 0 ELSE lo - 1 + 1
      BY <2>7
    <3> QED BY <3>1
  <2>9. PICK T : T = hi..(N - 1) /\ IsFiniteSet(T) /\ Cardinality(T) = IF hi < N THEN N - hi ELSE 0
    <3>1. IsFiniteSet(hi..(N - 1)) /\ Cardinality(hi..(N - 1)) = IF hi > N - 1 THEN 0 ELSE (N - 1) - hi + 1
      BY <2>7
    <3> QED BY <3>1
  <2>10. PICK U : U = S \cup T
    OBVIOUS
  <2>11. IsFiniteSet(U) /\ Cardinality(U) <= Cardinality(S) + Cardinality(T) /\ Cardinality(U) \in Nat
    <3>1. IsFiniteSet(S \cup T) /\ Cardinality(S \cup T) = Cardinality(S) + Cardinality(T) - Cardinality(S \cap T)
      BY <2>8, <2>9, FS_Union
    <3>2. Cardinality(S \cap T) \in Nat
      BY <2>8, <2>9, FS_Subset, FS_CardinalityType
    <3>3. Cardinality(S) \in Nat /\ Cardinality(T) \in Nat
      BY <2>8, <2>9, FS_CardinalityType
    <3> QED BY <2>10, <3>1, <3>2, <3>3, FS_CardinalityType
  <2>12. L \subseteq U
    BY <2>6, <2>8, <2>9, <2>10
  <2>13. Cardinality(L) <= Cardinality(U) /\ Cardinality(L) \in Nat
    <3> HIDE DEF L
    <3> QED BY <2>11, <2>12, FS_Subset, FS_CardinalityType
  <2>14. StatsLinks = lo + (IF hi <= N THEN N - hi ELSE 0)
    BY <2>1, <2>2, <2>3, <2>4, <2>5 DEF StatsLinks, transferLinks
  <2>15. Cardinality(L) <= StatsLinks
    <3> HIDE DEF L
    <3> QED BY <2>8, <2>9, <2>11, <2>13, <2>14
  <2> DEFINE taken == {a \in L : a > linkCapacity[active]}
  <2>16. taken = T
    <3>1. ASSUME NEW a \in taken PROVE a \in T
      <4>1. PICK bin \in BinId : bin[1] = g /\ a \in LinksOf(bin)
        BY <2>1
      <4>2. a \in 1..N /\ (Low(g, a) \/ High(g, a))
        BY <1>1, <2>5, <4>1, LinkRange DEF LInv, LinksInv
      <4>3. a > linkCapacity[g]
        BY <2>1
      <4>4. ~Low(g, a)
        BY <2>2, <4>2, <4>3 DEF Low
      <4>5. a < N
        BY <2>5, <4>2, <4>4 DEF High
      <4> QED BY <2>2, <2>4, <2>9, <4>2, <4>3, <4>5
    <3>2. ASSUME NEW a \in T PROVE a \in taken
      <4>1. a \in Int /\ hi <= a /\ a <= N - 1 /\ a > linkCapacity[g]
        BY <2>2, <2>4, <2>9
      <4>2. g # 0
        BY <1>1, <2>2, <2>5, <4>1 DEF FirstEnd
      <4>3. g - 1 \in 0..(MaxGen - 1) /\ (g - 1) + 1 = g /\ g - 1 < active
        BY <2>1, <2>2, <4>2, SizeAssumption DEF Gen
      <4>4. EndsInv(g - 1)
        BY <1>1, <4>3 DEF LInv
      <4>5. ctx[g - 1].linkNextResize \in Int
        <5>1. g - 1 \in Gen
          BY <4>3, SizeAssumption DEF Gen
        <5>2. ctx[g - 1] \in CtxRec
          BY <1>1, <5>1 DEF IInv, BaseType, RootType
        <5> QED BY <5>2 DEF CtxRec
      <4>6. linkCapacity[g] = ctx[g - 1].linkNextResize - 1
        BY <4>3, <4>4 DEF EndsInv
      <4>7. a \in ctx[g - 1].linkNextResize..(NumLinks[g] - 1)
        BY <2>2, <2>4, <2>5, <4>1, <4>5, <4>6
      <4>8. \E nb \in BinId : nb[1] = g /\ a \in LinksOf(nb)
        BY <4>3, <4>4, <4>7 DEF EndsInv
      <4> QED BY <2>1, <4>1, <4>8
    <3> HIDE DEF taken
    <3> QED BY <3>1, <3>2, <2>9
  <2>17. Cardinality(taken) = transferLinks(active)
    <3>1. transferLinks(active) = IF hi <= N THEN N - hi ELSE 0
      BY <2>1, <2>2, <2>4, <2>5 DEF transferLinks
    <3> HIDE DEF taken
    <3> QED BY <2>4, <2>5, <2>9, <2>16, <3>1
  <2> QED BY <2>15, <2>17 DEF StatsCountLinks
<1> QED BY <1>1, Inductive, LinksInductive, FirstInductive, PTL
=============================================================================
