--------------------------- MODULE ContentProofs ---------------------------
(***************************************************************************)
(* Theorems about what the bins of AllocatorMap hold: a key is in one slot *)
(* at most, the memory is the abstract map at every moment of a transfer,  *)
(* and the operations implement AtomicMap.  The invariant CInv is          *)
(* inductive relative to IInv, RInv, LInv and SInv, for as long as no      *)
(* version wraps.                                                          *)
(***************************************************************************)
EXTENDS SlotProofs

-----------------------------------------------------------------------------
(* The inductive invariant of the contents.                                *)

\* A slot that holds an entry, and the key it is found under
Full(bin, i) == header[bin].ss[i] = SlotValid /\ EntryAt(bin, i) # Nil
Has(bin, i, k) == Full(bin, i) /\ EntryAt(bin, i).key = k
KeyMatches(bin, i) == KeyAt(bin, i) = Hash[EntryAt(bin, i).key]
BinOf(bin, k) == getBin(bin[1], Hash[k]) = bin
\* What replaces the hash in a slot that was moved
Sentinel(bin) == GetTransferSentinel(bin[2])

\* The bin in which its keys are now
Current(bin) == /\ header[bin].bs # BinDoneTransfer
                /\ bin[1] > 0 => header[OldOf(bin)].bs = BinDoneTransfer

PlaceInv(bin) ==
  \A i \in SlotIdx : Full(bin, i) =>
    /\ BinOf(bin, EntryAt(bin, i).key)
    /\ header[bin].bs = BinNoTransfer => KeyMatches(bin, i)
    /\ header[bin].bs = BinDoneTransfer => KeyAt(bin, i) = Sentinel(bin)
CurrentInv(bin) ==
  Current(bin) =>
    /\ \A i \in SlotIdx : Full(bin, i) => map[EntryAt(bin, i).key] = EntryAt(bin, i).val
    /\ \A i, j \in SlotIdx : Full(bin, i) /\ Full(bin, j) /\ EntryAt(bin, i).key = EntryAt(bin, j).key => i = j
    /\ \A k \in Key : BinOf(bin, k) /\ map[k] # Absent => \E i \in SlotIdx : Has(bin, i, k)

\* The transfer: the slot that is being moved, those still to be taken, those that were copied
Mine(t, i) == pc[t] = "move" /\ i = Lowest(xfer[t].todo)
Left(t, i) == ~Mine(t, i) /\ (i \in xfer[t].todo \/ (AtPrimary(t) /\ i \notin Bucket(0)))
Copied(t, i) == ~Mine(t, i) /\ ~Left(t, i)
FrozenInv(t) ==
  \A i \in SlotIdx : Full(OldBin(t), i) =>
    /\ Left(t, i) => KeyMatches(OldBin(t), i)
    /\ ~Left(t, i) => KeyAt(OldBin(t), i) = Sentinel(OldBin(t))
    /\ Mine(t, i) => xfer[t].key = Hash[EntryAt(OldBin(t), i).key]
CopyInv(t) ==
  /\ \A i \in SlotIdx : Full(OldBin(t), i) /\ Copied(t, i) =>
       \E j \in SlotIdx : /\ Full(getBin(OldBin(t)[1] + 1, Hash[EntryAt(OldBin(t), i).key]), j)
                          /\ EntryAt(getBin(OldBin(t)[1] + 1, Hash[EntryAt(OldBin(t), i).key]), j) = EntryAt(OldBin(t), i)
  /\ \A nb \in NewBins(OldBin(t)) :
       /\ \A j \in SlotIdx : Full(nb, j) =>
            \E i \in SlotIdx : Full(OldBin(t), i) /\ Copied(t, i) /\ EntryAt(OldBin(t), i) = EntryAt(nb, j)
       /\ \A i, j \in SlotIdx : Full(nb, i) /\ Full(nb, j) /\ EntryAt(nb, i).key = EntryAt(nb, j).key => i = j

\* What a call saw, and where its lookup may still find its key
SeenInv(t) == IF res[t] = Pending THEN map[call[t].key] \in seen[t] ELSE seen[t] = {}
From(n) == UNION {Bucket(m) : m \in n..3}
Remaining(t) == IF pc[t] = "match" THEN From(scan[t].grp)
                ELSE IF pc[t] = "probe" THEN scan[t].bm \cup From(scan[t].grp + 1)
                ELSE IF pc[t] = "links" THEN From(1) ELSE {}
LookInv(t) ==
  /\ pc[t] \in HeadPC /\ Validated(t) =>
       IF scan[t].ent # Nil THEN scan[t].ent.val \in seen[t]
       ELSE \A i \in SlotIdx : Has(Bin(t), i, call[t].key) => i \in Remaining(t)
  /\ pc[t] \in HeadPC \ {"check"} => scan[t].ent = Nil
  /\ pc[t] = "check" /\ call[t].kind = "Insert" => scan[t].ent # Nil
  /\ pc[t] \in {"load", "load2", "links"} => scan[t].grp = 0
  /\ pc[t] \in {"match", "probe"} /\ scan[t].grp > 0 =>
       Backed(scan[t].lm, scan[t].h) /\ (scan[t].lm.pair # NO_LINK => scan[t].lm.single # NO_LINK)

CInv == /\ \A t \in Thread : SeenInv(t) /\ LookInv(t)
        /\ \A t \in Thread : pc[t] \in MovePC => FrozenInv(t) /\ CopyInv(t)
        /\ \A bin \in BinId : PlaceInv(bin) /\ CurrentInv(bin)

-----------------------------------------------------------------------------
(* Slots that hold an entry, and the bin in which a key is now.            *)

\* A slot that holds an entry has a bucket, and the entry its types.
LEMMA FullSlot ==
  ASSUME IInv, EntryType, NEW bin \in BinId, NEW i \in SlotIdx, Full(bin, i)
  PROVE  /\ header[bin].ss[i] = SlotValid /\ HasSlot(linkMeta[bin], i) /\ SlotLoc(bin, i) \in Loc
         /\ EntryAt(bin, i) \in Entry /\ EntryAt(bin, i) # Nil
         /\ EntryAt(bin, i).key \in Key /\ EntryAt(bin, i).val \in Value
         /\ Hash[EntryAt(bin, i).key] \in Nat
<1>1. header[bin].ss[i] = SlotValid /\ EntryAt(bin, i) # Nil
  BY DEF Full
<1>2. HasSlot(linkMeta[bin], i)
  BY <1>1, BinWords DEF Backed, SlotValid, SlotInvalid
<1>3. SlotLoc(bin, i) \in Loc
  BY <1>2, BinWords, LocType DEF SlotLoc
<1>4. EntryAt(bin, i) \in Entry
  BY <1>1, <1>3 DEF EntryType, EntryAt
<1> QED
  BY <1>1, <1>2, <1>3, <1>4, SizeAssumption DEF Entry

\* The bin of a key in its index, and where the key was in the index before.
LEMMA KeyBin ==
  ASSUME NEW bin \in BinId, NEW k \in Key, BinOf(bin, k)
  PROVE  /\ bin = getBin(bin[1], Hash[k]) /\ bin[1] \in Gen /\ Hash[k] \in Nat
         /\ InBin(bin, Hash[k])
         /\ bin[1] > 0 => OldOf(bin) \in BinId /\ OldOf(bin) = getBin(bin[1] - 1, Hash[k]) /\ BinOf(OldOf(bin), k)
<1>1. bin = getBin(bin[1], Hash[k]) /\ bin[1] \in Gen /\ Hash[k] \in Nat
  BY BinIdGen, SizeAssumption DEF BinOf
<1>2. InBin(bin, Hash[k])
  <2>1. bin = <<bin[1], bin[2]>> /\ bin[2] = Hash[k] % NumBins[bin[1]]
    BY <1>1, BinIdGen DEF getBin
  <2> QED BY <2>1 DEF InBin
<1>3. ASSUME bin[1] > 0
      PROVE  OldOf(bin) \in BinId /\ OldOf(bin) = getBin(bin[1] - 1, Hash[k]) /\ BinOf(OldOf(bin), k)
  <2>1. OldOf(bin) = getBin(bin[1] - 1, Hash[k])
    <3>1. OldOf(getBin(bin[1], Hash[k])) = getBin(bin[1] - 1, Hash[k])
      BY <1>1, <1>3, OldBins
    <3> QED BY <1>1, <3>1
  <2>2. OldOf(bin) \in BinId /\ OldOf(bin)[1] = bin[1] - 1
    BY <1>3, OldOfType
  <2> QED BY <2>1, <2>2 DEF BinOf
<1> QED
  BY <1>1, <1>2, <1>3

\* An earlier bin of a key is done when a later one is current.
LEMMA EarlierDone ==
  ASSUME IInv, RInv, NEW k \in Key, NEW bin \in BinId, NEW other \in BinId,
         BinOf(bin, k), BinOf(other, k), Current(other), bin[1] < other[1]
  PROVE  header[bin].bs = BinDoneTransfer
<1>1. /\ bin = getBin(bin[1], Hash[k]) /\ bin[1] \in Gen /\ bin[1] \in Nat
      /\ other[1] \in Gen /\ other[1] \in Nat /\ other[1] > 0
  BY KeyBin, ResizeWords
<1>2. OldOf(other) \in BinId /\ OldOf(other) = getBin(other[1] - 1, Hash[k]) /\ OldOf(other)[1] = other[1] - 1
  BY <1>1, KeyBin, OldOfType
<1>3. header[OldOf(other)].bs = BinDoneTransfer
  BY <1>1 DEF Current
<1>4. CASE bin[1] = other[1] - 1
  BY <1>1, <1>2, <1>3, <1>4
<1>5. CASE bin[1] < other[1] - 1
  <2>1. Started(other[1] - 1)
    BY <1>2, <1>3, MarkedStarted DEF BinNoTransfer, BinDoneTransfer
  <2>2. other[1] - 1 \in Gen
    BY <1>1, OldOfType
  <2>3. other[1] - 1 <= active
    <3>1. resizeCtx \in Gen => active \in {resizeCtx, resizeCtx + 1}
      BY DEF RInv, RolesInv
    <3>2. active \in Nat
      BY ResizeWords
    <3> QED BY <1>1, <2>1, <2>2, <3>1, <3>2 DEF Started
  <2>4. bin[1] < active
    BY <1>1, <1>5, <2>3, ResizeWords
  <2> QED BY <2>4, ActiveDone
<1> QED
  BY <1>1, <1>4, <1>5

\* A key has one current bin.
LEMMA CurrentOne ==
  ASSUME IInv, RInv, NEW k \in Key, NEW bin \in BinId, NEW other \in BinId,
         BinOf(bin, k), BinOf(other, k), Current(bin), Current(other)
  PROVE  bin = other
<1>1. /\ bin = getBin(bin[1], Hash[k]) /\ other = getBin(other[1], Hash[k])
      /\ bin[1] \in Nat /\ other[1] \in Nat
  BY KeyBin, ResizeWords
<1>2. ~(bin[1] < other[1]) /\ ~(other[1] < bin[1])
  BY EarlierDone DEF Current
<1> QED
  BY <1>1, <1>2

\* The bin in which a call works is current unless it is done.
LEMMA UsesCurrent ==
  ASSUME IInv, RInv, NEW t \in Thread, pc[t] \in UsesPC
  PROVE  /\ pc[t] # "idle" /\ Bin(t) \in BinId /\ call[t].key \in Key /\ hash(t) = Hash[call[t].key]
         /\ BinOf(Bin(t), call[t].key)
         /\ header[Bin(t)].bs # BinDoneTransfer => Current(Bin(t))
<1>1. pc[t] # "idle"
  BY DEF UsesPC, ScanPC, SlotPC, InsertPC, OwnPC
<1>2. Bin(t) \in BinId /\ Bin(t)[1] = scan[t].idx /\ call[t] \in CallRec
  BY <1>1, BinType
<1>3. BinOf(Bin(t), call[t].key)
  BY <1>2 DEF BinOf, Bin, hash
<1>4. Bin(t)[1] > 0 => header[OldOf(Bin(t))].bs = BinDoneTransfer
  BY <1>2, UsesNew
<1> QED
  BY <1>1, <1>2, <1>3, <1>4 DEF Current, CallRec, hash

\* A lookup whose header is still there works in the bin that is current, before it is
\* marked: the slots that hold an entry of the key have its hash.
LEMMA LookCurrent ==
  ASSUME IInv, RInv, LInv, CInv, NEW t \in Thread, pc[t] \in HeadPC, Validated(t)
  PROVE  /\ pc[t] \in UsesPC /\ pc[t] # "idle" /\ Bin(t) \in BinId /\ header[Bin(t)] = scan[t].h
         /\ header[Bin(t)].bs = BinNoTransfer /\ Current(Bin(t)) /\ BinOf(Bin(t), call[t].key)
         /\ CurrentInv(Bin(t)) /\ LookInv(t)
         /\ \A i \in SlotIdx : Has(Bin(t), i, call[t].key) =>
              /\ scan[t].h.ss[i] = SlotValid
              /\ KeyAt(Bin(t), i) = hash(t)
              /\ map[call[t].key] = EntryAt(Bin(t), i).val
<1>1. pc[t] \in UsesPC
  BY DEF HeadPC, UsesPC, ScanPC, InsertPC, OwnPC
<1>2. header[Bin(t)] = scan[t].h /\ scan[t].h.bs = BinNoTransfer
  BY DEF Validated, LInv, OwnerInv
<1>3. /\ pc[t] # "idle" /\ Bin(t) \in BinId /\ call[t].key \in Key /\ hash(t) = Hash[call[t].key]
      /\ BinOf(Bin(t), call[t].key) /\ Current(Bin(t))
  BY <1>1, <1>2, UsesCurrent DEF BinNoTransfer, BinDoneTransfer
<1>4. PlaceInv(Bin(t)) /\ CurrentInv(Bin(t)) /\ LookInv(t)
  BY <1>3 DEF CInv
<1>5. ASSUME NEW i \in SlotIdx, Has(Bin(t), i, call[t].key)
      PROVE  /\ scan[t].h.ss[i] = SlotValid
             /\ KeyAt(Bin(t), i) = hash(t)
             /\ map[call[t].key] = EntryAt(Bin(t), i).val
  <2>1. Full(Bin(t), i) /\ EntryAt(Bin(t), i).key = call[t].key
    BY <1>5 DEF Has
  <2>2. KeyMatches(Bin(t), i)
    BY <1>2, <1>4, <2>1 DEF PlaceInv
  <2>3. map[EntryAt(Bin(t), i).key] = EntryAt(Bin(t), i).val
    BY <1>3, <1>4, <2>1 DEF CurrentInv
  <2> QED BY <1>2, <1>3, <2>1, <2>2, <2>3 DEF KeyMatches, Full
<1> QED
  BY <1>1, <1>2, <1>3, <1>4, <1>5

-----------------------------------------------------------------------------
(* Frames: what a step leaves alone.                                       *)

\* The slot holds an entry as before, and the same one; its key is the same too
EntrySame(bin, i) == /\ Full(bin, i)' <=> Full(bin, i)
                     /\ Full(bin, i) => EntryAt(bin, i)' = EntryAt(bin, i)
SlotSame(bin, i) == EntrySame(bin, i) /\ (Full(bin, i) => KeyAt(bin, i)' = KeyAt(bin, i))
BinSame(bin) == \A i \in SlotIdx : SlotSame(bin, i)

\* What a step tells the running calls
Tells == UNCHANGED <<map, call, res, seen>> \/ Observe
\* A lookup whose header stays finds no more than before
FindsNoMore == \A bin \in BinId : header'[bin] = header[bin] =>
                  \A i \in SlotIdx, k \in Key : Has(bin, i, k)' => Has(bin, i, k)

\* A bin whose slots stay.
LEMMA SameContent ==
  ASSUME CInv, NEW bin \in BinId, BinSame(bin), header'[bin].bs = header[bin].bs, map' = map,
         bin[1] > 0 => header'[OldOf(bin)].bs = header[OldOf(bin)].bs
  PROVE  PlaceInv(bin)' /\ CurrentInv(bin)'
<1>1. PlaceInv(bin) /\ CurrentInv(bin)
  BY DEF CInv
<1>2. \A i \in SlotIdx : /\ Full(bin, i)' <=> Full(bin, i)
                         /\ Full(bin, i) => EntryAt(bin, i)' = EntryAt(bin, i) /\ KeyAt(bin, i)' = KeyAt(bin, i)
  BY DEF BinSame, SlotSame, EntrySame
<1>3. PlaceInv(bin)'
  <2> SUFFICES ASSUME NEW i \in SlotIdx, Full(bin, i)'
               PROVE  /\ BinOf(bin, EntryAt(bin, i)'.key)
                      /\ header'[bin].bs = BinNoTransfer => KeyMatches(bin, i)'
                      /\ header'[bin].bs = BinDoneTransfer => KeyAt(bin, i)' = Sentinel(bin)
    BY DEF PlaceInv, BinOf, Sentinel
  <2> QED BY <1>1, <1>2 DEF PlaceInv, KeyMatches
<1>4. Current(bin)' => Current(bin)
  BY DEF Current
<1>5. \A i \in SlotIdx, k \in Key : Has(bin, i, k)' <=> Has(bin, i, k)
  BY <1>2 DEF Has
<1>6. CurrentInv(bin)'
  <2> SUFFICES ASSUME Current(bin)
               PROVE  /\ \A i \in SlotIdx : Full(bin, i)' => map[EntryAt(bin, i)'.key] = EntryAt(bin, i)'.val
                      /\ \A i, j \in SlotIdx : Full(bin, i)' /\ Full(bin, j)'
                                                /\ EntryAt(bin, i)'.key = EntryAt(bin, j)'.key => i = j
                      /\ \A k \in Key : BinOf(bin, k) /\ map[k] # Absent => \E i \in SlotIdx : Has(bin, i, k)'
    BY <1>4 DEF CurrentInv, BinOf
  <2>1. \A i \in SlotIdx : Full(bin, i)' => map[EntryAt(bin, i)'.key] = EntryAt(bin, i)'.val
    BY <1>1, <1>2 DEF CurrentInv
  <2>2. \A i, j \in SlotIdx : Full(bin, i)' /\ Full(bin, j)' /\ EntryAt(bin, i)'.key = EntryAt(bin, j)'.key => i = j
    BY <1>1, <1>2 DEF CurrentInv
  <2>3. \A k \in Key : BinOf(bin, k) /\ map[k] # Absent => \E i \in SlotIdx : Has(bin, i, k)'
    BY <1>1, <1>5 DEF CurrentInv
  <2> QED BY <2>1, <2>2, <2>3
<1> QED
  BY <1>3, <1>6

\* The new bins of a bin that is moved are where its entries go.
LEMMA EntryGoes ==
  ASSUME IInv, EntryType, RInv, CInv, NEW u \in Thread, pc[u] \in MovePC, NEW b, b = OldBin(u),
         NEW i \in SlotIdx, Full(b, i)
  PROVE  /\ b \in BinId /\ b[1] + 1 \in Gen
         /\ getBin(b[1] + 1, Hash[EntryAt(b, i).key]) \in NewBins(b)
<1>1. b \in BinId /\ b[1] \in 0..(MaxGen - 1)
  BY MoverBin DEF MovePC
<1>2. EntryAt(b, i).key \in Key /\ BinOf(b, EntryAt(b, i).key)
  BY <1>1, FullSlot DEF CInv, PlaceInv
<1>3. InBin(b, Hash[EntryAt(b, i).key]) /\ Hash[EntryAt(b, i).key] \in Nat
  BY <1>1, <1>2, KeyBin
<1> QED
  BY <1>1, <1>3, KeyGoes

\* A transfer that has copied the same entries to the same slots.
LEMMA SameCopies ==
  ASSUME IInv, EntryType, RInv, CInv, NEW u \in Thread, pc[u] \in MovePC, NEW b, b = OldBin(u), OldBin(u)' = b,
         \A nb \in NewBins(b) : \A j \in SlotIdx : EntrySame(nb, j),
         \A i \in SlotIdx : /\ Full(b, i)' /\ Copied(u, i)' <=> Full(b, i) /\ Copied(u, i)
                            /\ Full(b, i) /\ Copied(u, i) => EntryAt(b, i)' = EntryAt(b, i)
  PROVE  CopyInv(u)'
<1>1. CopyInv(u)
  BY DEF CInv
<1>3. \A nb \in NewBins(b) : \A j \in SlotIdx : /\ Full(nb, j)' <=> Full(nb, j)
                                                /\ Full(nb, j) => EntryAt(nb, j)' = EntryAt(nb, j)
  BY DEF EntrySame
<1>6. ASSUME NEW i \in SlotIdx, Full(b, i)', Copied(u, i)'
      PROVE  \E nb : /\ nb = getBin(b[1] + 1, Hash[EntryAt(b, i)'.key])
                     /\ \E j \in SlotIdx : Full(nb, j)' /\ EntryAt(nb, j)' = EntryAt(b, i)'
  <2>1. Full(b, i) /\ Copied(u, i) /\ EntryAt(b, i)' = EntryAt(b, i)
    BY <1>6
  <2>2. PICK nb : nb = getBin(b[1] + 1, Hash[EntryAt(b, i).key])
    OBVIOUS
  <2>3. nb \in NewBins(b)
    BY <2>1, <2>2, EntryGoes
  <2>4. PICK j \in SlotIdx : Full(nb, j) /\ EntryAt(nb, j) = EntryAt(b, i)
    BY <1>1, <2>1, <2>2 DEF CopyInv
  <2>5. Full(nb, j)' /\ EntryAt(nb, j)' = EntryAt(b, i)'
    BY <1>3, <2>1, <2>3, <2>4
  <2>6. getBin(b[1] + 1, Hash[EntryAt(b, i)'.key]) = nb
    BY <2>1, <2>2
  <2> QED BY <2>5, <2>6
<1>7. ASSUME NEW nb \in NewBins(b)
      PROVE  /\ \A j \in SlotIdx : Full(nb, j)' =>
                  \E i \in SlotIdx : Full(b, i)' /\ Copied(u, i)' /\ EntryAt(b, i)' = EntryAt(nb, j)'
             /\ \A i, j \in SlotIdx : Full(nb, i)' /\ Full(nb, j)' /\ EntryAt(nb, i)'.key = EntryAt(nb, j)'.key => i = j
  <2>1. ASSUME NEW j \in SlotIdx, Full(nb, j)'
        PROVE  \E i \in SlotIdx : Full(b, i)' /\ Copied(u, i)' /\ EntryAt(b, i)' = EntryAt(nb, j)'
    <3>1. Full(nb, j) /\ EntryAt(nb, j)' = EntryAt(nb, j)
      BY <1>3, <2>1
    <3>2. PICK i \in SlotIdx : Full(b, i) /\ Copied(u, i) /\ EntryAt(b, i) = EntryAt(nb, j)
      BY <1>1, <3>1 DEF CopyInv
    <3> QED BY <3>1, <3>2
  <2>2. \A i, j \in SlotIdx : Full(nb, i) /\ Full(nb, j) /\ EntryAt(nb, i).key = EntryAt(nb, j).key => i = j
    BY <1>1 DEF CopyInv
  <2>3. \A i, j \in SlotIdx : Full(nb, i)' /\ Full(nb, j)' /\ EntryAt(nb, i)'.key = EntryAt(nb, j)'.key => i = j
    BY <1>3, <2>2
  <2> QED BY <2>1, <2>3
<1>8. \A i \in SlotIdx : Full(b, i)' /\ Copied(u, i)' =>
         \E j \in SlotIdx : (/\ Full(getBin(b[1] + 1, Hash[EntryAt(b, i).key]), j)
                             /\ EntryAt(getBin(b[1] + 1, Hash[EntryAt(b, i).key]), j) = EntryAt(b, i))'
  BY <1>6 DEF Full, EntryAt, SlotLoc
<1> QED
  BY <1>7, <1>8 DEF CopyInv, NewBins

\* A transfer that has the same entries left, and has copied the same ones.
LEMMA SameMove ==
  ASSUME IInv, EntryType, RInv, CInv, NEW u \in Thread, pc[u] \in MovePC, NEW b, b = OldBin(u), OldBin(u)' = b,
         BinSame(b), \A nb \in NewBins(b) : \A j \in SlotIdx : EntrySame(nb, j),
         \A i \in SlotIdx : Full(b, i) =>
           /\ Left(u, i)' <=> Left(u, i)
           /\ Mine(u, i)' <=> Mine(u, i)
           /\ Mine(u, i) => xfer'[u].key = xfer[u].key
  PROVE  FrozenInv(u)' /\ CopyInv(u)'
<1>1. FrozenInv(u)
  BY DEF CInv
<1>2. \A i \in SlotIdx : /\ Full(b, i)' <=> Full(b, i)
                         /\ Full(b, i) => EntryAt(b, i)' = EntryAt(b, i) /\ KeyAt(b, i)' = KeyAt(b, i)
  BY DEF BinSame, SlotSame, EntrySame
<1>3. FrozenInv(u)'
  BY <1>1, <1>2 DEF FrozenInv, KeyMatches, Sentinel
<1>4. \A i \in SlotIdx : /\ Full(b, i)' /\ Copied(u, i)' <=> Full(b, i) /\ Copied(u, i)
                         /\ Full(b, i) /\ Copied(u, i) => EntryAt(b, i)' = EntryAt(b, i)
  BY <1>2 DEF Copied
<1> QED
  BY <1>3, <1>4, SameCopies

\* A goroutine that does not move has the same entries left to take.
LEMMA SameLeft ==
  ASSUME NEW u \in Thread, pc'[u] = pc[u], xfer'[u] = xfer[u]
  PROVE  /\ OldBin(u)' = OldBin(u)
         /\ \A i \in SlotIdx : (Left(u, i)' <=> Left(u, i)) /\ (Mine(u, i)' <=> Mine(u, i))
<1>1. AtPrimary(u)' <=> AtPrimary(u)
  BY DEF AtPrimary
<1> QED
  BY <1>1 DEF Left, Mine, OldBin

\* What the running calls have seen.
LEMMA SeenKept ==
  ASSUME CInv, Tells
  PROVE  \A u \in Thread : /\ SeenInv(u)'
                           /\ res[u] = Pending /\ res'[u] = Pending => seen[u] \subseteq seen'[u]
<1> SUFFICES ASSUME NEW u \in Thread
             PROVE  SeenInv(u)' /\ (res[u] = Pending /\ res'[u] = Pending => seen[u] \subseteq seen'[u])
  OBVIOUS
<1>1. CASE UNCHANGED <<map, call, res, seen>>
  BY <1>1 DEF CInv, SeenInv
<1>2. CASE Observe
  <2>1. seen'[u] = IF res'[u] # Pending THEN {} ELSE seen[u] \cup {map'[call'[u].key]}
    BY <1>2 DEF Observe
  <2> QED BY <2>1 DEF SeenInv
<1> QED
  BY <1>1, <1>2 DEF Tells

\* The lookups of the goroutines that do not move: a header that is there again has not
\* changed since.
LEMMA OtherLook ==
  ASSUME IInv, IInv', SInv, CInv, NEW t \in Thread, OthersSame(t), header' = header \/ Forward, Tells, FindsNoMore,
         NEW u \in Thread, u # t, call'[u] = call[u], res'[u] = res[u]
  PROVE  LookInv(u)'
<1>1. pc'[u] = pc[u] /\ scan'[u] = scan[u] /\ Remaining(u)' = Remaining(u)
  BY DEF OthersSame, Remaining, From
<1>2. LookInv(u)
  BY DEF CInv
<1>3. ASSUME pc[u] \in HeadPC, Validated(u)'
      PROVE  IF scan[u].ent # Nil THEN scan[u].ent.val \in seen'[u]
             ELSE \A i \in SlotIdx : Has(Bin(u), i, call[u].key)' => i \in Remaining(u)
  <2>1. pc[u] # "idle" /\ pc[u] \in SeqPC /\ ~Returned(u)
    BY <1>3 DEF HeadPC, SeqPC, Returned, UnresPC
  <2>2. Bin(u) \in BinId /\ Bin(u)' = Bin(u) /\ call[u].key \in Key
    BY <1>1, <2>1, BinType DEF Bin, hash, CallRec
  <2>3. header'[Bin(u)] = scan[u].h
    BY <1>1, <1>3, <2>2 DEF Validated
  <2>4. header[Bin(u)] = header'[Bin(u)]
    <3>1. Before(scan[u].h, header[Bin(u)])
      BY <2>1 DEF SInv, HeadInv
    <3>2. header[Bin(u)] \in Header /\ header'[Bin(u)] \in Header
      BY <2>2 DEF IInv, BaseType, BaseMemory
    <3>3. Before(header[Bin(u)], header'[Bin(u)])
      BY <2>2, <3>2, BeforeOrder DEF Forward
    <3> QED BY <2>3, <3>1, <3>2, <3>3, BeforeOrder
  <2>5. Validated(u)
    BY <2>3, <2>4 DEF Validated
  <2>6. seen[u] \subseteq seen'[u]
    <3>1. res[u] = Pending
      BY <2>1 DEF SInv, CallInv
    <3> QED BY <3>1, SeenKept
  <2>7. \A i \in SlotIdx : Has(Bin(u), i, call[u].key)' => Has(Bin(u), i, call[u].key)
    <3>1. PICK b \in BinId : b = Bin(u)
      BY <2>2
    <3>2. \A i \in SlotIdx : Has(b, i, call[u].key)' => Has(b, i, call[u].key)
      BY <2>2, <2>4, <3>1 DEF FindsNoMore
    <3>3. \A i \in SlotIdx : Has(Bin(u), i, call[u].key)' => Has(b, i, call[u].key)'
      BY <2>2, <3>1 DEF Has, Full, EntryAt, SlotLoc
    <3> QED BY <3>1, <3>2, <3>3
  <2> QED BY <1>2, <1>3, <2>5, <2>6, <2>7 DEF LookInv
<1> QED
  BY <1>1, <1>2, <1>3 DEF LookInv

\* A step keeps the invariant of the contents if it keeps what t's lookup knows, the
\* transfers and the bins.
LEMMA StepC ==
  ASSUME IInv, IInv', SInv, CInv, NEW t \in Thread, OthersSame(t), header' = header \/ Forward,
         \A u \in Thread \ {t} : call'[u] = call[u] /\ res'[u] = res[u], Tells, FindsNoMore,
         LookInv(t)',
         \A u \in Thread : pc'[u] \in MovePC => FrozenInv(u)' /\ CopyInv(u)',
         \A bin \in BinId : PlaceInv(bin)' /\ CurrentInv(bin)'
  PROVE  CInv' /\ FindsNoMore
<1>1. \A u \in Thread : SeenInv(u)'
  BY SeenKept
<1>2. ASSUME NEW u \in Thread PROVE LookInv(u)'
  <2>1. CASE u = t
    BY <2>1
  <2>2. CASE u # t
    BY <2>2, OtherLook
  <2> QED BY <2>1, <2>2
<1> QED
  BY <1>1, <1>2 DEF CInv

\* A step that changes no slot that holds an entry, and no transfer.
LEMMA SteadyC ==
  ASSUME IInv, EntryType, IInv', RInv, SInv, CInv, NEW t \in Thread, OthersSame(t), header' = header \/ Forward,
         \A u \in Thread \ {t} : call'[u] = call[u] /\ res'[u] = res[u], Tells, map' = map,
         \A bin \in BinId : BinSame(bin) /\ header'[bin].bs = header[bin].bs,
         pc[t] \notin MovePC, pc'[t] \notin MovePC, LookInv(t)'
  PROVE  CInv' /\ FindsNoMore
<1>1. FindsNoMore
  BY DEF FindsNoMore, BinSame, SlotSame, EntrySame, Has
<1>2. ASSUME NEW bin \in BinId PROVE PlaceInv(bin)' /\ CurrentInv(bin)'
  <2>1. bin[1] > 0 => OldOf(bin) \in BinId
    BY OldOfType
  <2> QED BY <2>1, SameContent
<1>3. ASSUME NEW u \in Thread, pc'[u] \in MovePC PROVE FrozenInv(u)' /\ CopyInv(u)'
  <2>1. u # t /\ pc'[u] = pc[u] /\ xfer'[u] = xfer[u]
    BY <1>3 DEF OthersSame
  <2>2. PICK b : b = OldBin(u)
    OBVIOUS
  <2>3. /\ OldBin(u)' = b
        /\ \A i \in SlotIdx : (Left(u, i)' <=> Left(u, i)) /\ (Mine(u, i)' <=> Mine(u, i))
    BY <2>1, <2>2, SameLeft
  <2>4. b \in BinId
    BY <1>3, <2>1, <2>2, MoverBin DEF MovePC
  <2>5. BinSame(b) /\ \A nb \in NewBins(b) : \A j \in SlotIdx : EntrySame(nb, j)
    BY <2>4 DEF BinSame, SlotSame, NewBins
  <2> QED BY <1>3, <2>1, <2>2, <2>3, <2>5, SameMove
<1> QED
  BY <1>1, <1>2, <1>3, StepC

\* A step that writes no word of a bin.
LEMMA IdleC ==
  ASSUME IInv, EntryType, IInv', RInv, SInv, CInv, NEW t \in Thread, OthersSame(t), UNCHANGED memory,
         \A u \in Thread \ {t} : call'[u] = call[u] /\ res'[u] = res[u], Tells, map' = map,
         pc[t] \notin MovePC, pc'[t] \notin MovePC, LookInv(t)'
  PROVE  CInv' /\ FindsNoMore
<1>1. UNCHANGED <<header, linkMeta, slotKey, slotVal>>
  BY DEF memory
<1>2. \A bin \in BinId : BinSame(bin)
  BY <1>1 DEF BinSame, SlotSame, EntrySame, Full, EntryAt, KeyAt, SlotLoc
<1> QED
  BY <1>1, <1>2, SteadyC

\* A goroutine that has no header in hand has no lookup.
LEMMA NoLook ==
  ASSUME NEW t \in Thread, pc'[t] \notin HeadPC, pc'[t] \in {"load", "load2"} => scan'[t].grp = 0
  PROVE  LookInv(t)'
BY DEF LookInv, HeadPC

-----------------------------------------------------------------------------
(* The lookup.                                                             *)

\* The buckets that the lookup has before it.
LEMMA FromBuckets ==
  ASSUME NEW n \in 0..3
  PROVE  /\ From(n) = Bucket(n) \cup From(n + 1)
         /\ \A i \in From(n + 1) : \E p \in (n + 1)..3 : i \in Bucket(p)
         /\ \A p \in (n + 1)..3, m \in (n + 1)..3 : m <= p => Bucket(p) \subseteq From(m)
         /\ From(4) = {}
BY DEF From

\* Every slot of a bin is in one of its buckets.
LEMMA AllSlots == \A i \in SlotIdx : i \in From(0)
<1> SUFFICES ASSUME NEW i \in SlotIdx PROVE i \in From(0)
  OBVIOUS
<1>1. \E p \in 0..3 : i \in Bucket(p)
  BY BucketRanges
<1> QED
  BY <1>1 DEF From

\* The slots of a key that a lookup has not met are where it goes on: a bucket that it
\* passes over is not attached, or has no Valid slot.
LEMMA ScanOnLook ==
  ASSUME IInv, RInv, LInv, CInv, NEW t \in Thread, pc[t] \in {"match", "probe", "links"},
         UNCHANGED <<memory, api>>, NEW rest, NEW lm, ScanOn(t, rest, lm),
         NEW n \in 0..3, n = scan[t].grp,
         n > 0 \/ pc[t] = "links" => Backed(lm, scan[t].h) /\ (lm.pair # NO_LINK => lm.single # NO_LINK),
         lm \in LinkMeta,
         Validated(t) => \A i \in SlotIdx : Has(Bin(t), i, call[t].key) => i \in rest \/ i \in From(n + 1)
  PROVE  LookInv(t)'
<1> USE DEF Goto
<1>1. /\ pc \in [Thread -> PC] /\ scan \in [Thread -> BaseScan] /\ scan[t].ent = Nil
      /\ pc[t] \in HeadPC /\ call' = call
  BY Locals DEF IInv, BaseType, BaseLocal, ScanInv, HeadPC, api
<1>2. /\ pc'[t] \in {"probe", "links", "match", "check", "finalize", "reserve", "choose"}
      /\ scan'[t].slot = scan[t].slot /\ scan'[t].idx = scan[t].idx /\ scan'[t].h = scan[t].h
      /\ scan'[t].ent = Nil
  BY ScanOnTo
<1>3. /\ Bin(t)' = Bin(t) /\ (Validated(t)' <=> Validated(t))
      /\ \A i \in SlotIdx : Has(Bin(t), i, call[t].key)' <=> Has(Bin(t), i, call[t].key)
  BY <1>1, <1>2 DEF Bin, hash, Validated, Has, Full, EntryAt, SlotLoc, memory
<1>4. pc[t] = "links" => n = 0
  BY DEF CInv, LookInv
<1>5. CASE rest # {}
  <2>1. pc'[t] = "probe" /\ scan'[t].bm = rest /\ scan'[t].lm = lm /\ scan'[t].grp = n
    BY <1>1, <1>5 DEF ScanOn, BaseScan
  <2>2. Remaining(t)' = rest \cup From(n + 1)
    BY <2>1 DEF Remaining, From
  <2>3. n > 0 => Backed(scan'[t].lm, scan'[t].h) /\ (scan'[t].lm.pair # NO_LINK => scan'[t].lm.single # NO_LINK)
    BY <1>2, <2>1
  <2> QED BY <1>1, <1>2, <1>3, <2>1, <2>2, <2>3 DEF LookInv, Backed
<1>6. CASE rest = {} /\ n = 0 /\ pc[t] # "links"
  <2>0. Goto(t, "links") /\ scan' = [scan EXCEPT ![t].bm = {}]
    BY <1>6 DEF ScanOn
  <2>1. pc'[t] = "links" /\ scan'[t].grp = 0
    BY <1>1, <1>6, <2>0 DEF BaseScan
  <2>2. Remaining(t)' = From(n + 1)
    BY <1>6, <2>1 DEF Remaining, From
  <2> QED BY <1>1, <1>2, <1>3, <1>6, <2>1, <2>2 DEF LookInv
<1>7. CASE rest = {} /\ (n > 0 \/ pc[t] = "links")
  <2>1. Backed(lm, scan[t].h) /\ (lm.pair # NO_LINK => lm.single # NO_LINK)
    BY <1>7
  <2>2. ASSUME Validated(t), NEW i \in SlotIdx, Has(Bin(t), i, call[t].key)
        PROVE  \E p \in LaterBuckets(t, n, lm) : p \in (n + 1)..3 /\ i \in Bucket(p)
    <3>1. i \in From(n + 1)
      BY <1>7, <2>2
    <3>2. PICK p \in (n + 1)..3 : i \in Bucket(p)
      BY <3>1, FromBuckets
    <3>3. scan[t].h.ss[i] = SlotValid
      BY <1>1, <2>2, LookCurrent
    <3>4. HasSlot(lm, i)
      BY <2>1, <3>3 DEF Backed, SlotValid, SlotInvalid
    <3>5. p \in 1..3
      BY <3>2
    <3>6. resolveLink(lm, p) # NO_LINK
      <4>1. i >= PRIMARY_SLOTS /\ LinkOf(lm, i) = resolveLink(lm, p)
        BY <3>2, <3>5, BucketSlots
      <4>2. ~(i < PRIMARY_SLOTS)
        BY <4>1, SlotIdxNat, SizeAssumption
      <4> QED BY <3>4, <4>1, <4>2 DEF HasSlot
    <3>7. lm.single # NO_LINK
      BY <2>1, <3>5, <3>6 DEF resolveLink
    <3> QED BY <3>2, <3>3, <3>6, <3>7 DEF LaterBuckets, validMask
  <2>3. CASE LaterBuckets(t, n, lm) # {}
    <3>1. PICK m \in LaterBuckets(t, n, lm) : m = Lowest(LaterBuckets(t, n, lm))
                                            /\ \A p \in LaterBuckets(t, n, lm) : m <= p
      <4>1. LaterBuckets(t, n, lm) \subseteq Nat
        BY DEF LaterBuckets
      <4> QED BY <2>3, <4>1, HasLeast DEF Lowest
    <3>2. pc'[t] = "match" /\ scan'[t].lm = lm /\ scan'[t].grp = m /\ m \in (n + 1)..3
      BY <1>1, <1>7, <2>3, <3>1 DEF ScanOn, BaseScan, LaterBuckets
    <3>3. Remaining(t)' = From(m)
      BY <3>2 DEF Remaining, From
    <3>4. ASSUME Validated(t), NEW i \in SlotIdx, Has(Bin(t), i, call[t].key) PROVE i \in From(m)
      <4>1. PICK p \in LaterBuckets(t, n, lm) : p \in (n + 1)..3 /\ i \in Bucket(p)
        BY <2>2, <3>4
      <4> QED BY <3>1, <3>2, <4>1, FromBuckets
    <3> QED BY <1>1, <1>2, <1>3, <2>1, <3>2, <3>3, <3>4 DEF LookInv, Backed
  <2>4. CASE LaterBuckets(t, n, lm) = {}
    <3>1. pc'[t] = NotFound(t)
      BY <1>1, <1>7, <2>4 DEF ScanOn
    <3>2. pc'[t] \notin {"load", "load2", "links", "match", "probe"} /\ (pc'[t] = "check" => call'[t].kind # "Insert")
      BY <1>1, <3>1 DEF NotFound
    <3>3. Validated(t) => \A i \in SlotIdx : ~Has(Bin(t), i, call[t].key)
      BY <2>2, <2>4
    <3> QED BY <1>1, <1>2, <1>3, <3>2, <3>3 DEF LookInv
  <2> QED BY <2>3, <2>4
<1> QED
  BY <1>4, <1>5, <1>6, <1>7

\* A header that is not marked is in hand: the key is in one of the slots to look at.
LEMMA LoadsLook ==
  ASSUME IInv, LInv, CInv, NEW t \in Thread,
         LoadActive(t) \/ LoadHeader(t) \/ Follow(t) \/ LoadHeader2(t)
  PROVE  LookInv(t)'
<1> USE DEF Goto
<1>1. /\ pc \in [Thread -> PC] /\ scan \in [Thread -> BaseScan] /\ LookInv(t)
  BY DEF IInv, BaseType, BaseLocal, CInv
<1>2. CASE LoadActive(t) \/ Follow(t)
  <2>1. pc'[t] = "load" /\ scan'[t].grp = 0
    BY <1>1, <1>2 DEF LoadActive, Follow, FreshScan
  <2> QED BY <2>1, NoLook DEF HeadPC
<1>3. CASE (LoadHeader(t) \/ LoadHeader2(t)) /\ header[Bin(t)].bs # BinNoTransfer
  <2>1. pc'[t] \in {"follow", "active", "unres"}
    BY <1>1, <1>3 DEF LoadHeader, LoadHeader2
  <2> QED BY <2>1, NoLook DEF HeadPC
<1>4. CASE (LoadHeader(t) \/ LoadHeader2(t)) /\ header[Bin(t)].bs = BinNoTransfer
  <2>1. pc[t] \in {"load", "load2"} /\ pc'[t] = "match" /\ scan' = [scan EXCEPT ![t].h = header[Bin(t)]]
    BY <1>1, <1>4 DEF LoadHeader, LoadHeader2
  <2>2. scan'[t].grp = 0 /\ scan'[t].ent = Nil
    <3>1. scan[t].grp = 0
      BY <1>1, <2>1 DEF LookInv
    <3>2. scan[t].ent = Nil
      BY <2>1, Locals DEF ScanInv
    <3> QED BY <1>1, <2>1, <3>1, <3>2 DEF BaseScan
  <2>3. Remaining(t)' = From(0)
    BY <2>1, <2>2 DEF Remaining, From
  <2> QED BY <2>1, <2>2, <2>3, AllSlots DEF LookInv
<1> QED
  BY <1>2, <1>3, <1>4

\* The slots of the bucket that do not have the hash are not those of the key.
LEMMA MatchLook ==
  ASSUME IInv, RInv, LInv, CInv, NEW t \in Thread, MatchKeys(t)
  PROVE  LookInv(t)'
<1>1. pc[t] = "match" /\ UNCHANGED <<memory, api>> /\ scan[t] \in BaseScan /\ LookInv(t) /\ pc[t] \in HeadPC
  BY Locals DEF MatchKeys, CInv, HeadPC
<1>2. PICK n \in 0..3 : n = scan[t].grp
  BY <1>1 DEF BaseScan
<1>3. PICK rest : rest = {i \in validMask(scan[t].h, n) : KeyAt(Bin(t), i) = hash(t)}
  OBVIOUS
<1>4. ScanOn(t, rest, scan[t].lm)
  BY <1>2, <1>3 DEF MatchKeys, KeyAt
<1>5. ASSUME Validated(t), NEW i \in SlotIdx, Has(Bin(t), i, call[t].key)
      PROVE  i \in rest \/ i \in From(n + 1)
  <2>1. scan[t].ent = Nil
    BY <1>1 DEF LookInv
  <2>2. i \in From(n)
    BY <1>1, <1>2, <1>5, <2>1 DEF LookInv, Remaining
  <2>3. scan[t].h.ss[i] = SlotValid /\ KeyAt(Bin(t), i) = hash(t)
    BY <1>1, <1>5, LookCurrent
  <2> QED BY <1>3, <2>2, <2>3, FromBuckets DEF validMask
<1>6. n > 0 => Backed(scan[t].lm, scan[t].h) /\ (scan[t].lm.pair # NO_LINK => scan[t].lm.single # NO_LINK)
  BY <1>1, <1>2 DEF LookInv
<1>7. scan[t].lm \in LinkMeta
  BY <1>1 DEF BaseScan
<1> QED
  BY <1>1, <1>2, <1>4, <1>5, <1>6, <1>7, ScanOnLook

\* The slots of the links are looked at with the LinkMeta loaded now.
LEMMA LinksLook ==
  ASSUME IInv, RInv, LInv, CInv, NEW t \in Thread, LoadLinks(t)
  PROVE  LookInv(t)'
<1>1. pc[t] = "links" /\ UNCHANGED <<memory, api>> /\ LookInv(t) /\ pc[t] \in HeadPC /\ pc[t] # "idle"
      /\ ScanOn(t, {}, linkMeta[Bin(t)])
  BY DEF LoadLinks, CInv, HeadPC
<1>2. scan[t].grp = 0 /\ scan[t].ent = Nil
  BY <1>1 DEF LookInv
<1>3. Validated(t) => \A i \in SlotIdx : Has(Bin(t), i, call[t].key) => i \in From(0 + 1)
  BY <1>1, <1>2 DEF LookInv, Remaining
<1>4. /\ linkMeta[Bin(t)] \in LinkMeta /\ LinkMetaOK(linkMeta[Bin(t)], NumLinks[scan[t].idx])
      /\ Backed(linkMeta[Bin(t)], scan[t].h)
  BY <1>1, BinType, Locals DEF ScanInv
<1> QED
  BY <1>1, <1>2, <1>3, <1>4, ScanOnLook DEF LinkMetaOK

\* The entry that is loaded has the key, and then the map has the entry, or the slot is not
\* the key's.
LEMMA ProbeLook ==
  ASSUME IInv, RInv, LInv, SInv, CInv, NEW t \in Thread, Probe(t)
  PROVE  LookInv(t)'
<1> USE DEF Goto
<1>1. /\ pc[t] = "probe" /\ UNCHANGED <<memory, api>> /\ scan[t] \in BaseScan /\ LookInv(t) /\ pc[t] \in HeadPC
      /\ ScanInv(t) /\ pc \in [Thread -> PC] /\ scan \in [Thread -> BaseScan]
  BY Locals DEF Probe, CInv, HeadPC, IInv, BaseType, BaseLocal
<1>2. PICK n \in 0..3 : n = scan[t].grp
  BY <1>1 DEF BaseScan
<1>3. PICK i \in SlotIdx : i = Lowest(scan[t].bm) /\ i \in scan[t].bm /\ scan[t].h.ss[i] = SlotValid
  BY <1>1, LowestIn, SlotIdxNat DEF BaseScan, ScanInv
<1>4. PICK e : e = EntryAt(Bin(t), i)
  OBVIOUS
<1>5. scan[t].ent = Nil
  BY <1>1 DEF LookInv
<1>6. CASE e # Nil /\ e.key = call[t].key
  <2>1. pc'[t] = "check" /\ scan'[t] = Found(t, i, e)
    BY <1>1, <1>3, <1>4, <1>6 DEF Probe, EntryAt
  <2>2. /\ scan'[t].idx = scan[t].idx /\ scan'[t].h = scan[t].h /\ scan'[t].ent = e
    BY <1>1, <2>1 DEF Found, BaseScan
  <2>3. /\ Bin(t)' = Bin(t) /\ (Validated(t)' <=> Validated(t)) /\ seen' = seen
    BY <1>1, <2>2 DEF Bin, hash, Validated, memory, api
  <2>4. ASSUME Validated(t) PROVE e.val \in seen[t]
    <3>1. header[Bin(t)].ss[i] = SlotValid
      BY <1>1, <1>3, <2>4, LookCurrent
    <3>2. Has(Bin(t), i, call[t].key)
      BY <1>4, <1>6, <3>1 DEF Has, Full
    <3>3. map[call[t].key] = e.val
      BY <1>1, <1>4, <2>4, <3>2, LookCurrent
    <3>4. res[t] = Pending
      BY <1>1 DEF SInv, CallInv, Returned, UnresPC
    <3> QED BY <3>3, <3>4 DEF CInv, SeenInv
  <2> QED BY <1>6, <2>1, <2>2, <2>3, <2>4 DEF LookInv
<1>7. CASE ~(e # Nil /\ e.key = call[t].key)
  <2>1. PICK rest : rest = scan[t].bm \ {i}
    OBVIOUS
  <2>2. ScanOn(t, rest, scan[t].lm)
    BY <1>3, <1>4, <1>7, <2>1 DEF Probe, EntryAt
  <2>3. ASSUME Validated(t), NEW j \in SlotIdx, Has(Bin(t), j, call[t].key)
        PROVE  j \in rest \/ j \in From(n + 1)
    <3>1. j \in scan[t].bm \/ j \in From(n + 1)
      BY <1>1, <1>2, <1>5, <2>3 DEF LookInv, Remaining
    <3>2. j # i
      BY <1>4, <1>7, <2>3 DEF Has, Full
    <3> QED BY <2>1, <3>1, <3>2
  <2>4. n > 0 => Backed(scan[t].lm, scan[t].h) /\ (scan[t].lm.pair # NO_LINK => scan[t].lm.single # NO_LINK)
    BY <1>1, <1>2 DEF LookInv
  <2>5. scan[t].lm \in LinkMeta
    BY <1>1 DEF BaseScan
  <2> QED BY <1>1, <1>2, <2>2, <2>3, <2>4, <2>5, ScanOnLook
<1> QED
  BY <1>6, <1>7

\* The lookup writes no word of a bin, and what it finds, or finds to be nowhere, is so for
\* as long as the header is there.
LEMMA ScanC ==
  ASSUME IInv, EntryType, IInv', RInv, LInv, SInv, CInv, NEW t \in Thread, ScanStep(t)
  PROVE  CInv' /\ FindsNoMore
<1> USE DEF Goto
<1>1. /\ OthersSame(t) /\ UNCHANGED memory /\ pc[t] \notin MovePC /\ pc'[t] \notin MovePC
      /\ pc \in [Thread -> PC] /\ scan \in [Thread -> BaseScan] /\ map' = map
  <2>1. OthersSame(t)
    BY ScanFrame DEF Quiet
  <2>2. pc[t] \notin MovePC /\ pc'[t] \notin MovePC
    BY ScanOwner
  <2>3. UNCHANGED memory /\ map' = map
    BY DEF ScanStep, LoadActive, LoadHeader, Follow, MatchKeys, Probe, LoadLinks, CheckStale, CheckAnswer, CheckTarget, api
  <2> QED BY <2>1, <2>2, <2>3 DEF IInv, BaseType, BaseLocal
<1>2. Tells /\ \A u \in Thread \ {t} : call'[u] = call[u] /\ res'[u] = res[u]
  <2>1. CASE CheckAnswer(t)
    BY <2>1 DEF CheckAnswer, Tells, Reply, IInv, BaseType, ApiType
  <2>2. CASE ~CheckAnswer(t)
    <3>1. UNCHANGED api
      BY <2>2 DEF ScanStep, LoadActive, LoadHeader, Follow, MatchKeys, Probe, LoadLinks, CheckStale, CheckTarget
    <3> QED BY <3>1 DEF api, Tells
  <2> QED BY <2>1, <2>2
<1>3. LookInv(t)'
  <2>1. CASE CheckStale(t)
    <3>1. pc'[t] \in {"load", "load2"} /\ scan'[t].grp = 0
      BY <1>1, <2>1 DEF CheckStale, KeepSlot, Kept, Retry, FreshScan
    <3> QED BY <3>1, NoLook DEF HeadPC
  <2>2. CASE CheckAnswer(t)
    <3>1. pc'[t] \in {"unres", "idle"}
      BY <1>1, <2>2 DEF CheckAnswer
    <3> QED BY <3>1, NoLook DEF HeadPC
  <2>3. CASE CheckTarget(t)
    <3>1. pc'[t] = "dwcas"
      BY <1>1, <2>3 DEF CheckTarget
    <3> QED BY <3>1, NoLook DEF HeadPC
  <2> QED BY <2>1, <2>2, <2>3, LoadsLook, MatchLook, LinksLook, ProbeLook DEF ScanStep
<1> QED
  BY <1>1, <1>2, <1>3, IdleC

-----------------------------------------------------------------------------
(* The steps at a found slot.                                              *)

\* The AND of Delete drops a slot that has no entry.
LEMMA markSlotInvalidC ==
  ASSUME IInv, EntryType, IInv', RInv, LInv, SInv, CInv, NEW t \in Thread, markSlotInvalid(t), OthersSame(t)
  PROVE  CInv' /\ FindsNoMore
<1> USE DEF Goto
<1>1. /\ pc[t] = "mark" /\ pc'[t] = "idle" /\ UNCHANGED <<linkMeta, slotKey, slotVal, call, res, map, seen>>
      /\ pc \in [Thread -> PC] /\ header \in [BinId -> Header]
      /\ header' = [header EXCEPT ![Bin(t)].ss[scan[t].slot] = SlotInvalid]
  BY DEF markSlotInvalid, api, IInv, BaseType, BaseLocal, BaseMemory
<1>2. Bin(t) \in BinId /\ scan[t].slot \in SlotIdx /\ TargetInv(t)
  BY <1>1, AtTarget DEF SlotPC
<1>3. PICK b \in BinId, s \in SlotIdx : b = Bin(t) /\ s = scan[t].slot
  BY <1>2
<1>4. EntryAt(b, s) = Nil
  BY <1>1, <1>2, <1>3 DEF TargetInv, Marks
<1>5. \A bin \in BinId : /\ header'[bin].bs = header[bin].bs
                         /\ \A i \in SlotIdx : header'[bin].ss[i] = IF bin = b /\ i = s THEN SlotInvalid
                                                                   ELSE header[bin].ss[i]
  BY <1>1, <1>3 DEF Header
<1>6. \A bin \in BinId : \A i \in SlotIdx : EntryAt(bin, i)' = EntryAt(bin, i) /\ KeyAt(bin, i)' = KeyAt(bin, i)
  BY <1>1 DEF EntryAt, KeyAt, SlotLoc
<1>7. \A bin \in BinId : BinSame(bin)
  BY <1>4, <1>5, <1>6 DEF BinSame, SlotSame, EntrySame, Full
<1>8. LookInv(t)'
  BY <1>1, NoLook DEF HeadPC
<1>9. header' = header \/ Forward
  BY markSlotInvalidS
<1> QED
  BY <1>1, <1>5, <1>7, <1>8, <1>9, SteadyC DEF MovePC, TransferPC, Tells

\* The slot that the DWCAS hits has the hash of its key, so it has not been moved: it is
\* where the key is now.
LEMMA HitCurrent ==
  ASSUME IInv, RInv, SInv, CInv, NEW t \in Thread, DWCASHit(t), NEW b, b = Bin(t), NEW i, i = scan[t].slot
  PROVE  /\ b \in BinId /\ i \in SlotIdx /\ HasSlot(linkMeta[b], i) /\ pc[t] \in UsesPC
         /\ call[t].key \in Key /\ hash(t) = Hash[call[t].key]
         /\ Has(b, i, call[t].key) /\ EntryAt(b, i) = scan[t].ent
         /\ KeyMatches(b, i) /\ KeyAt(b, i) # Sentinel(b)
         /\ Current(b) /\ BinOf(b, call[t].key) /\ map[call[t].key] = scan[t].ent.val
<1>1. pc[t] = "dwcas" /\ pc[t] \in SlotPC /\ pc[t] \in UsesPC /\ KeyAt(b, i) = hash(t) /\ EntryAt(b, i) = scan[t].ent
  BY DEF DWCASHit, OpLoc, KeyAt, EntryAt, SlotPC, UsesPC
<1>2. b \in BinId /\ i \in SlotIdx /\ HasSlot(linkMeta[b], i) /\ TargetInv(t)
  BY <1>1, AtTarget
<1>3. /\ call[t].key \in Key /\ hash(t) = Hash[call[t].key] /\ BinOf(b, call[t].key) /\ pc[t] # "idle"
      /\ header[b].bs # BinDoneTransfer => Current(b)
  BY <1>1, UsesCurrent
<1>4. Has(b, i, call[t].key)
  <2>1. scan[t].ent # Nil
    BY <1>1, <1>3, Locals DEF ScanInv
  <2> QED BY <1>1, <1>2, <2>1 DEF TargetInv, AimPC, Has, Full
<1>5. KeyAt(b, i) # Sentinel(b)
  <2>1. b[1] \in Gen /\ b[2] = Hash[call[t].key] % NumBins[b[1]]
    BY <1>2, <1>3, BinIdGen DEF BinOf, getBin
  <2> QED BY <1>1, <1>3, <2>1, SentinelAssumption DEF Sentinel, GetTransferSentinel
<1>6. header[b].bs # BinDoneTransfer
  BY <1>2, <1>4, <1>5 DEF CInv, PlaceInv, Has
<1>7. map[call[t].key] = scan[t].ent.val
  BY <1>1, <1>2, <1>3, <1>4, <1>6 DEF CInv, CurrentInv, Has
<1> QED
  BY <1>1, <1>2, <1>3, <1>4, <1>5, <1>6, <1>7 DEF KeyMatches, Has

\* Slot i of bin b changes and no other: from now on it has value v for key k, or no entry
\* if v is Absent
Puts(b, i, k, v) ==
  /\ \A bin \in BinId : header'[bin].bs = header[bin].bs
  /\ \A bin \in BinId : \A j \in SlotIdx : (bin # b \/ j # i) => SlotSame(bin, j)
  /\ Full(b, i)' <=> v # Absent
  /\ Full(b, i)' => EntryAt(b, i)' = [key |-> k, val |-> v] /\ KeyMatches(b, i)'
  /\ map' = [map EXCEPT ![k] = v]

\* The bins when an operation takes effect in the current bin of its key: no other bin and
\* no other slot has the key.
LEMMA PutsBins ==
  ASSUME IInv, EntryType, RInv, CInv, NEW b \in BinId, NEW i \in SlotIdx, NEW k \in Key, NEW v, Puts(b, i, k, v),
         Current(b), BinOf(b, k), \A j \in SlotIdx : Has(b, j, k) => j = i,
         Full(b, i) => EntryAt(b, i).key = k
  PROVE  \A bin \in BinId : PlaceInv(bin)' /\ CurrentInv(bin)'
<1>1. /\ \A bin \in BinId : header'[bin].bs = header[bin].bs
      /\ Full(b, i)' <=> v # Absent
      /\ Full(b, i)' => EntryAt(b, i)' = [key |-> k, val |-> v] /\ KeyMatches(b, i)'
  BY DEF Puts
<1>2. \A bin \in BinId : \A j \in SlotIdx : (bin # b \/ j # i) =>
         /\ Full(bin, j)' <=> Full(bin, j)
         /\ Full(bin, j) => EntryAt(bin, j)' = EntryAt(bin, j) /\ KeyAt(bin, j)' = KeyAt(bin, j)
  BY DEF Puts, SlotSame, EntrySame
<1>3. map'[k] = v /\ \A c \in Key : c # k => map'[c] = map[c]
  BY DEF Puts, IInv, BaseType, ApiType
<1>4. \A bin \in BinId : Current(bin)' <=> Current(bin)
  <2> SUFFICES ASSUME NEW bin \in BinId PROVE Current(bin)' <=> Current(bin)
    OBVIOUS
  <2>1. bin[1] > 0 => header'[OldOf(bin)].bs = header[OldOf(bin)].bs
    BY <1>1, OldOfType
  <2> QED BY <1>1, <2>1 DEF Current
<1>5. ASSUME NEW bin \in BinId PROVE PlaceInv(bin)'
  <2> SUFFICES ASSUME NEW j \in SlotIdx, Full(bin, j)'
               PROVE  /\ BinOf(bin, EntryAt(bin, j)'.key)
                      /\ header'[bin].bs = BinNoTransfer => KeyMatches(bin, j)'
                      /\ header'[bin].bs = BinDoneTransfer => KeyAt(bin, j)' = Sentinel(bin)
    BY DEF PlaceInv, BinOf, Sentinel
  <2>1. CASE bin = b /\ j = i
    <3>1. EntryAt(bin, j)'.key = k /\ KeyMatches(bin, j)'
      BY <1>1, <2>1
    <3> QED BY <1>1, <2>1, <3>1 DEF Current
  <2>2. CASE bin # b \/ j # i
    <3>1. /\ Full(bin, j) /\ EntryAt(bin, j)' = EntryAt(bin, j) /\ KeyAt(bin, j)' = KeyAt(bin, j)
          /\ header'[bin].bs = header[bin].bs
      BY <1>1, <1>2, <2>2
    <3>2. PlaceInv(bin)
      BY DEF CInv
    <3> QED BY <3>1, <3>2 DEF PlaceInv, KeyMatches
  <2> QED BY <2>1, <2>2
<1>6. ASSUME NEW bin \in BinId, Current(bin)
      PROVE  /\ \A j \in SlotIdx : Full(bin, j)' => map'[EntryAt(bin, j)'.key] = EntryAt(bin, j)'.val
             /\ \A j, m \in SlotIdx : Full(bin, j)' /\ Full(bin, m)'
                                       /\ EntryAt(bin, j)'.key = EntryAt(bin, m)'.key => j = m
             /\ \A c \in Key : BinOf(bin, c) /\ map'[c] # Absent => \E j \in SlotIdx : Has(bin, j, c)'
  <2>1. /\ \A j \in SlotIdx : Full(bin, j) => map[EntryAt(bin, j).key] = EntryAt(bin, j).val
        /\ \A j, m \in SlotIdx : Full(bin, j) /\ Full(bin, m) /\ EntryAt(bin, j).key = EntryAt(bin, m).key => j = m
        /\ \A c \in Key : BinOf(bin, c) /\ map[c] # Absent => \E j \in SlotIdx : Has(bin, j, c)
    BY <1>6 DEF CInv, CurrentInv
  <2>2. \A j \in SlotIdx : Full(bin, j) => EntryAt(bin, j).key \in Key /\ BinOf(bin, EntryAt(bin, j).key)
    BY FullSlot DEF CInv, PlaceInv
  <2>3. BinOf(bin, k) => bin = b
    BY <1>6, CurrentOne
  <2>4. \A j \in SlotIdx : (bin # b \/ j # i) /\ Full(bin, j) => EntryAt(bin, j).key # k
    <3> SUFFICES ASSUME NEW j \in SlotIdx, bin # b \/ j # i, Full(bin, j), EntryAt(bin, j).key = k PROVE FALSE
      OBVIOUS
    <3>1. bin = b
      BY <2>2, <2>3
    <3>2. Has(b, j, k)
      BY <3>1 DEF Has
    <3> QED BY <3>1, <3>2
  <2>5. ASSUME NEW j \in SlotIdx, Full(bin, j)'
        PROVE  map'[EntryAt(bin, j)'.key] = EntryAt(bin, j)'.val
    <3>1. CASE bin = b /\ j = i
      <4>1. EntryAt(bin, j)' = [key |-> k, val |-> v]
        BY <1>1, <2>5, <3>1
      <4> QED BY <1>3, <4>1
    <3>2. CASE bin # b \/ j # i
      <4>1. Full(bin, j) /\ EntryAt(bin, j)' = EntryAt(bin, j)
        BY <1>2, <2>5, <3>2
      <4>2. EntryAt(bin, j).key \in Key /\ EntryAt(bin, j).key # k
        BY <2>2, <2>4, <3>2, <4>1
      <4> QED BY <1>3, <2>1, <4>1, <4>2
    <3> QED BY <3>1, <3>2
  <2>6. ASSUME NEW j \in SlotIdx, NEW m \in SlotIdx, Full(bin, j)', Full(bin, m)',
               EntryAt(bin, j)'.key = EntryAt(bin, m)'.key, j # m
        PROVE  FALSE
    <3>1. \A n \in SlotIdx : bin = b /\ n = i /\ Full(bin, n)' => EntryAt(bin, n)'.key = k
      BY <1>1
    <3>2. \A n \in SlotIdx : (bin # b \/ n # i) /\ Full(bin, n)' =>
             Full(bin, n) /\ EntryAt(bin, n)' = EntryAt(bin, n) /\ EntryAt(bin, n).key # k
      BY <1>2, <2>4
    <3>3. CASE bin = b /\ j = i
      BY <2>6, <3>1, <3>2, <3>3
    <3>4. CASE bin = b /\ m = i
      BY <2>6, <3>1, <3>2, <3>4
    <3>5. CASE bin # b \/ (j # i /\ m # i)
      <4>1. /\ Full(bin, j) /\ EntryAt(bin, j)' = EntryAt(bin, j)
            /\ Full(bin, m) /\ EntryAt(bin, m)' = EntryAt(bin, m)
        BY <2>6, <3>2, <3>5
      <4> QED BY <2>1, <2>6, <4>1
    <3> QED BY <3>3, <3>4, <3>5
  <2>7. ASSUME NEW c \in Key, BinOf(bin, c), map'[c] # Absent
        PROVE  \E j \in SlotIdx : Has(bin, j, c)'
    <3>1. CASE c = k
      <4>1. bin = b /\ v # Absent
        BY <1>3, <2>3, <2>7, <3>1
      <4>2. Full(b, i)' /\ EntryAt(b, i)'.key = k
        BY <1>1, <4>1
      <4> QED BY <3>1, <4>1, <4>2 DEF Has
    <3>2. CASE c # k
      <4>1. PICK j \in SlotIdx : Has(bin, j, c)
        BY <1>3, <2>1, <2>7, <3>2
      <4>2. Full(bin, j) /\ EntryAt(bin, j).key = c
        BY <4>1 DEF Has
      <4>3. bin # b \/ j # i
        BY <3>2, <4>2
      <4>4. Full(bin, j)' /\ EntryAt(bin, j)'.key = c
        BY <1>2, <4>2, <4>3
      <4> QED BY <4>4 DEF Has
    <3> QED BY <3>1, <3>2
  <2> QED BY <2>5, <2>6, <2>7
<1>7. ASSUME NEW bin \in BinId PROVE CurrentInv(bin)'
  <2>1. CASE Current(bin)
    BY <1>6, <2>1 DEF CurrentInv, BinOf
  <2>2. CASE ~Current(bin)
    BY <1>4, <2>2 DEF CurrentInv
  <2> QED BY <2>1, <2>2
<1> QED
  BY <1>5, <1>7

\* The transfers when an operation takes effect in a bin that is not being filled: if the
\* bin is being moved, the slot has not been.
LEMMA PutsMoves ==
  ASSUME IInv, EntryType, RInv, CInv, NEW b \in BinId, NEW i \in SlotIdx, NEW k \in Key, NEW v, Puts(b, i, k, v),
         ~Filling(b), header[b].bs = BinNoTransfer \/ (Full(b, i) /\ KeyAt(b, i) # Sentinel(b)),
         NEW u \in Thread, pc[u] \in MovePC, pc'[u] = pc[u], xfer'[u] = xfer[u]
  PROVE  FrozenInv(u)' /\ CopyInv(u)'
<1>1. PICK c : c = OldBin(u)
  OBVIOUS
<1>2. /\ OldBin(u)' = c
      /\ \A j \in SlotIdx : (Left(u, j)' <=> Left(u, j)) /\ (Mine(u, j)' <=> Mine(u, j))
  BY <1>1, SameLeft
<1>3. c \in BinId /\ c[1] \in Nat /\ header[c].bs = BinInTransfer
  BY <1>1, MoverBin DEF MovePC
<1>4. \A nb \in NewBins(c) : nb \in BinId /\ nb # b /\ nb # c
  <2> SUFFICES ASSUME NEW nb \in NewBins(c) PROVE nb # b /\ nb # c
    BY DEF NewBins
  <2>1. nb[1] = c[1] + 1 /\ OldOf(nb) = c
    BY DEF NewBins
  <2> QED BY <1>3, <2>1 DEF Filling
<1>5. \A nb \in NewBins(c) : \A j \in SlotIdx : EntrySame(nb, j)
  BY <1>4 DEF Puts, SlotSame
<1>6. CASE c # b
  <2>1. BinSame(c)
    BY <1>3, <1>6 DEF BinSame, Puts
  <2> QED BY <1>1, <1>2, <1>5, <2>1, SameMove
<1>7. CASE c = b
  <2>1. FrozenInv(u) /\ CopyInv(u)
    BY DEF CInv
  <2>2. Full(b, i) /\ KeyAt(b, i) # Sentinel(b)
    BY <1>3, <1>7 DEF BinNoTransfer, BinInTransfer
  <2>3. Left(u, i) /\ ~Mine(u, i)
    BY <1>1, <1>7, <2>1, <2>2 DEF FrozenInv, Left
  <2>4. \A j \in SlotIdx : j # i => /\ Full(b, j)' <=> Full(b, j)
                                    /\ Full(b, j) => EntryAt(b, j)' = EntryAt(b, j) /\ KeyAt(b, j)' = KeyAt(b, j)
    BY DEF Puts, SlotSame, EntrySame
  <2>5. \A j \in SlotIdx : Full(b, j)' =>
           /\ Left(u, j)' => KeyMatches(b, j)'
           /\ ~Left(u, j)' => KeyAt(b, j)' = Sentinel(b)
           /\ Mine(u, j)' => xfer'[u].key = Hash[EntryAt(b, j)'.key]
    <3> SUFFICES ASSUME NEW j \in SlotIdx, Full(b, j)'
                 PROVE  /\ Left(u, j)' => KeyMatches(b, j)'
                        /\ ~Left(u, j)' => KeyAt(b, j)' = Sentinel(b)
                        /\ Mine(u, j)' => xfer'[u].key = Hash[EntryAt(b, j)'.key]
      OBVIOUS
    <3>1. CASE j = i
      <4>1. KeyMatches(b, j)'
        BY <3>1 DEF Puts
      <4> QED BY <1>2, <2>3, <3>1, <4>1
    <3>2. CASE j # i
      <4>1. Full(b, j) /\ EntryAt(b, j)' = EntryAt(b, j) /\ KeyAt(b, j)' = KeyAt(b, j)
        BY <2>4, <3>2
      <4> QED BY <1>1, <1>2, <1>7, <2>1, <4>1 DEF FrozenInv, KeyMatches
    <3> QED BY <3>1, <3>2
  <2>6. FrozenInv(u)'
    BY <1>2, <1>7, <2>5 DEF FrozenInv, Sentinel, KeyMatches, Full, EntryAt, KeyAt, SlotLoc
  <2>7. \A j \in SlotIdx : /\ Full(b, j)' /\ Copied(u, j)' <=> Full(b, j) /\ Copied(u, j)
                           /\ Full(b, j) /\ Copied(u, j) => EntryAt(b, j)' = EntryAt(b, j)
    BY <1>2, <2>3, <2>4 DEF Copied
  <2> QED BY <1>1, <1>2, <1>5, <1>7, <2>6, <2>7, SameCopies
<1> QED
  BY <1>6, <1>7

\* The DWCAS of Put or Delete takes effect where the key is now; if the bin is being moved,
\* the slot has its turn later.
LEMMA DWCASHitC ==
  ASSUME IInv, EntryType, IInv', RInv, LInv, SInv, CInv, NEW t \in Thread, DWCASHit(t), OthersSame(t)
  PROVE  CInv' /\ FindsNoMore
<1> USE DEF Goto
<1>0. PICK b, i, k, e, v : /\ b = Bin(t) /\ i = scan[t].slot /\ k = call[t].key
                           /\ e = (IF call[t].kind = "Put" THEN NewEntry(t) ELSE Nil)
                           /\ v = (IF call[t].kind = "Put" THEN call[t].val ELSE Absent)
  OBVIOUS
<1>1. /\ pc[t] = "dwcas" /\ UNCHANGED <<header, linkMeta, slotKey>> /\ call' = call
      /\ slotVal' = [slotVal EXCEPT ![SlotLoc(b, i)] = e]
      /\ map' = [map EXCEPT ![k] = v] /\ Observe
      /\ \A u \in Thread \ {t} : res'[u] = res[u]
      /\ pc'[t] \in {"idle", "mark"}
  BY <1>0 DEF DWCASHit, OpLoc, Reply, Effect, IInv, BaseType, BaseLocal, ApiType
<1>2. /\ b \in BinId /\ i \in SlotIdx /\ HasSlot(linkMeta[b], i) /\ pc[t] \in UsesPC
      /\ k \in Key /\ hash(t) = Hash[k] /\ Has(b, i, k)
      /\ KeyMatches(b, i) /\ KeyAt(b, i) # Sentinel(b) /\ Current(b) /\ BinOf(b, k)
  BY <1>0, HitCurrent
<1>3. v \in Value \cup {Absent} /\ (v = Absent <=> e = Nil) /\ (e # Nil => e = [key |-> k, val |-> v])
  <2>1. call[t].val \in Value /\ NewEntry(t) = [key |-> k, val |-> call[t].val] /\ NewEntry(t) \in Entry
    <3>1. call[t] \in CallRec
      BY <1>1, BinType
    <3> QED BY <1>0, <3>1 DEF NewEntry, CallRec, Entry
  <2>2. call[t].val # Absent /\ NewEntry(t) # Nil
    BY <2>1, MarkerAssumption DEF Entry
  <2> QED BY <1>0, <2>1, <2>2
<1>4. \A bin \in BinId : \A j \in SlotIdx : HasSlot(linkMeta[bin], j) =>
         EntryAt(bin, j)' = IF bin = b /\ j = i THEN e ELSE EntryAt(bin, j)
  <2>1. SlotLoc(b, i) \in Loc
    BY <1>2, BinWords, LocType DEF SlotLoc
  <2>2. /\ slotVal'[SlotLoc(b, i)] = e
        /\ \A loc \in Loc : loc # SlotLoc(b, i) => slotVal'[loc] = slotVal[loc]
    BY <1>1, <2>1 DEF IInv, BaseType, BaseMemory
  <2> QED BY <1>1, <1>2, <2>2, ValWritten
<1>5. \A bin \in BinId : \A j \in SlotIdx : header[bin].ss[j] = SlotValid => HasSlot(linkMeta[bin], j)
  BY BinWords DEF Backed, SlotValid, SlotInvalid
<1>6. \A bin \in BinId : \A j \in SlotIdx : KeyAt(bin, j)' = KeyAt(bin, j)
  BY <1>1 DEF KeyAt, SlotLoc
<1>7. \A bin \in BinId : \A j \in SlotIdx : (bin # b \/ j # i) => SlotSame(bin, j)
  BY <1>1, <1>4, <1>5, <1>6 DEF SlotSame, EntrySame, Full
<1>8. Full(b, i) /\ EntryAt(b, i).key = k /\ header[b].ss[i] = SlotValid
  BY <1>2 DEF Has, Full
<1>9. EntryAt(b, i)' = e /\ (Full(b, i)' <=> e # Nil)
  BY <1>1, <1>2, <1>4, <1>8 DEF Full
<1>10. e # Nil => KeyMatches(b, i)'
  BY <1>2, <1>3, <1>6, <1>8, <1>9 DEF KeyMatches
<1>11. Puts(b, i, k, v)
  BY <1>1, <1>3, <1>7, <1>9, <1>10 DEF Puts
<1>12. \A j \in SlotIdx : Has(b, j, k) => j = i
  BY <1>2, <1>8 DEF CInv, CurrentInv, Has
<1>13. \A bin \in BinId : PlaceInv(bin)' /\ CurrentInv(bin)'
  BY <1>2, <1>8, <1>11, <1>12, PutsBins
<1>14. FindsNoMore
  <2> SUFFICES ASSUME NEW bin \in BinId, NEW j \in SlotIdx, NEW c \in Key, Has(bin, j, c)'
               PROVE  Has(bin, j, c)
    BY DEF FindsNoMore
  <2>1. Full(bin, j)' /\ EntryAt(bin, j)'.key = c
    BY DEF Has
  <2>2. CASE bin = b /\ j = i
    <3>1. e # Nil /\ EntryAt(bin, j)' = e
      BY <1>9, <2>1, <2>2
    <3>2. c = k
      BY <1>3, <2>1, <3>1
    <3> QED BY <1>2, <2>2, <3>2
  <2>3. CASE bin # b \/ j # i
    BY <1>7, <2>1, <2>3 DEF SlotSame, EntrySame, Has
  <2> QED BY <2>2, <2>3
<1>15. ASSUME NEW u \in Thread, pc'[u] \in MovePC PROVE FrozenInv(u)' /\ CopyInv(u)'
  <2>1. u # t
    BY <1>1, <1>15 DEF MovePC, TransferPC
  <2>2. pc'[u] = pc[u] /\ xfer'[u] = xfer[u]
    BY <2>1 DEF OthersSame
  <2>3. ~Filling(b)
    BY <1>0, <1>2, UsesFull
  <2> QED BY <1>2, <1>8, <1>11, <1>15, <2>2, <2>3, PutsMoves
<1>16. LookInv(t)'
  BY <1>1, NoLook DEF HeadPC
<1> QED
  BY <1>1, <1>13, <1>14, <1>15, <1>16, StepC DEF Tells

\* The call begins again: it has no header in hand.
LEMMA RetryLook ==
  ASSUME IInv, NEW t \in Thread, Retry(t) PROVE LookInv(t)' /\ pc'[t] \notin MovePC
<1>1. pc'[t] = "load" /\ scan'[t].grp = 0
  BY DEF Retry, Goto, FreshScan, IInv, BaseType, BaseLocal
<1> QED
  BY <1>1, NoLook DEF HeadPC, MovePC, TransferPC

\* The steps at a found slot.
LEMMA SlotC ==
  ASSUME IInv, EntryType, IInv', RInv, LInv, SInv, CInv, NEW t \in Thread, SlotStep(t)
  PROVE  CInv' /\ FindsNoMore
<1> USE DEF Goto
<1>0. /\ OthersSame(t) /\ pc \in [Thread -> PC] /\ scan \in [Thread -> BaseScan]
      /\ pc[t] \in SlotPC /\ pc[t] \notin MovePC
  <2>1. OthersSame(t)
    BY DEF SlotStep, DWCASHit, DWCASMiss, LoopHeader, LoopKey, LoopVal, LoopCheck, LoopTTAS, markSlotInvalid,
           Retry, KeepSlot, OthersSame, IInv, BaseType, BaseLocal
  <2>2. pc[t] \in SlotPC
    BY DEF SlotStep, DWCASHit, DWCASMiss, LoopHeader, LoopKey, LoopVal, LoopCheck, LoopTTAS, markSlotInvalid, SlotPC
  <2> QED BY <2>1, <2>2 DEF IInv, BaseType, BaseLocal, SlotPC, MovePC, TransferPC
<1>1. CASE DWCASHit(t)
  BY <1>0, <1>1, DWCASHitC
<1>2. CASE markSlotInvalid(t)
  BY <1>0, <1>2, markSlotInvalidC
<1>3. CASE DWCASMiss(t) \/ LoopHeader(t) \/ LoopKey(t) \/ LoopVal(t) \/ LoopCheck(t) \/ LoopTTAS(t)
  <2>1. UNCHANGED memory /\ UNCHANGED api
    BY <1>3 DEF DWCASMiss, LoopHeader, LoopKey, LoopVal, LoopCheck, LoopTTAS
  <2>2. pc'[t] \in SlotPC \/ Retry(t)
    BY <1>0, <1>3 DEF DWCASMiss, LoopHeader, LoopKey, LoopVal, LoopCheck, LoopTTAS, SlotPC
  <2>3. LookInv(t)' /\ pc'[t] \notin MovePC
    <3>1. CASE Retry(t)
      BY <3>1, RetryLook
    <3>2. CASE pc'[t] \in SlotPC
      <4>1. pc'[t] \notin HeadPC /\ pc'[t] \notin {"load", "load2"} /\ pc'[t] \notin MovePC
        BY <3>2 DEF SlotPC, HeadPC, MovePC, TransferPC
      <4> QED BY <4>1, NoLook
    <3> QED BY <2>2, <3>1, <3>2
  <2>4. Tells /\ map' = map /\ \A u \in Thread \ {t} : call'[u] = call[u] /\ res'[u] = res[u]
    BY <2>1 DEF api, Tells
  <2> QED BY <1>0, <2>1, <2>3, <2>4, IdleC
<1> QED
  BY <1>1, <1>2, <1>3 DEF SlotStep

-----------------------------------------------------------------------------
(* Insert.                                                                 *)

\* The places at which Insert has looked everywhere, its header still in hand
RestPC == ChoicePC \cup {"fillKey", "fillVal", "finalize"}

\* An Insert that answers nothing and changes no slot that holds an entry.
LEMMA InsertSteady ==
  ASSUME IInv, EntryType, IInv', RInv, SInv, CInv, NEW t \in Thread, InsertStep(t), UNCHANGED <<call, res, map, seen>>,
         header' = header \/ Forward, \A bin \in BinId : BinSame(bin), LookInv(t)'
  PROVE  CInv' /\ FindsNoMore
<1>1. /\ \A bin \in BinId : header'[bin].bs = header[bin].bs
      /\ pc[t] \in InsertPC /\ pc'[t] \in CallPC /\ OthersSame(t)
  BY InsertFrame DEF OthersSame
<1>2. pc[t] \notin MovePC /\ pc'[t] \notin MovePC
  BY <1>1 DEF InsertPC, OwnPC, CallPC, UsesPC, ScanPC, SlotPC, MovePC, TransferPC
<1> QED
  BY <1>1, <1>2, SteadyC DEF Tells

\* What Insert knows of its header when it has looked everywhere: the key is nowhere.
LEMMA AtRest ==
  ASSUME CInv, NEW t \in Thread, pc[t] \in RestPC
  PROVE  /\ pc[t] \in HeadPC /\ scan[t].ent = Nil /\ Remaining(t) = {}
         /\ Validated(t) => \A i \in SlotIdx : ~Has(Bin(t), i, call[t].key)
<1>1. pc[t] \in HeadPC \ {"check"} /\ pc[t] \notin {"match", "probe", "links"}
  BY DEF RestPC, ChoicePC, HeadPC
<1>2. LookInv(t)
  BY DEF CInv
<1> QED
  BY <1>1, <1>2 DEF LookInv, Remaining

\* It still is, while the slots that hold entries and the header stay.
LEMMA RestLook ==
  ASSUME IInv, CInv, NEW t \in Thread, pc[t] \in RestPC, pc'[t] \in RestPC, call' = call,
         scan'[t].idx = scan[t].idx, scan'[t].ent = scan[t].ent, \A bin \in BinId : BinSame(bin),
         Validated(t)' => Validated(t)
  PROVE  LookInv(t)'
<1>1. /\ scan'[t].ent = Nil /\ Bin(t)' = Bin(t) /\ pc[t] # "idle"
      /\ Validated(t)' => \A i \in SlotIdx : ~Has(Bin(t), i, call[t].key)
  BY AtRest DEF Bin, hash, RestPC, ChoicePC
<1>2. PICK b \in BinId : b = Bin(t)
  BY <1>1, BinType
<1>3. \A i \in SlotIdx : Has(b, i, call[t].key)' => Has(b, i, call[t].key)
  BY DEF BinSame, SlotSame, EntrySame, Has
<1>4. \A i \in SlotIdx : Has(Bin(t), i, call[t].key)' => Has(b, i, call[t].key)'
  BY <1>1, <1>2 DEF Has, Full, EntryAt, SlotLoc
<1>5. pc'[t] \in HeadPC /\ pc'[t] \notin {"match", "probe", "links", "check", "load", "load2"}
  BY DEF RestPC, ChoicePC, HeadPC
<1> QED
  BY <1>1, <1>2, <1>3, <1>4, <1>5 DEF LookInv

\* A slot that is not Valid is written.
LEMMA WordsWritten ==
  ASSUME IInv, LInv, NEW b \in BinId, NEW i \in SlotIdx, HasSlot(linkMeta[b], i), header[b].ss[i] # SlotValid,
         UNCHANGED <<header, linkMeta>>, NEW k, NEW e,
         slotKey' = slotKey \/ slotKey' = [slotKey EXCEPT ![SlotLoc(b, i)] = k],
         slotVal' = slotVal \/ slotVal' = [slotVal EXCEPT ![SlotLoc(b, i)] = e]
  PROVE  \A bin \in BinId : BinSame(bin)
<1>1. SlotLoc(b, i) \in Loc
  BY BinWords, LocType DEF SlotLoc
<1>2. slotKey \in [Loc -> Nat] /\ slotVal \in [Loc -> Content]
  BY DEF IInv, BaseType, BaseMemory
<1>3. \A bin \in BinId : \A j \in SlotIdx : HasSlot(linkMeta[bin], j) /\ (bin # b \/ j # i) =>
         KeyAt(bin, j)' = KeyAt(bin, j)
  <2>1. CASE slotKey' = slotKey
    BY <2>1 DEF KeyAt, SlotLoc
  <2>2. CASE slotKey' = [slotKey EXCEPT ![SlotLoc(b, i)] = k]
    <3>1. /\ slotKey'[SlotLoc(b, i)] = k
          /\ \A loc \in Loc : loc # SlotLoc(b, i) => slotKey'[loc] = slotKey[loc]
      BY <1>1, <1>2, <2>2
    <3>2. \A bin \in BinId : \A j \in SlotIdx : HasSlot(linkMeta[bin], j) =>
            slotKey'[SlotLoc(bin, j)] = IF bin = b /\ j = i THEN k ELSE slotKey[SlotLoc(bin, j)]
      BY <3>1, KeyWritten
    <3> QED BY <3>2 DEF KeyAt, SlotLoc
  <2> QED BY <2>1, <2>2
<1>4. \A bin \in BinId : \A j \in SlotIdx : HasSlot(linkMeta[bin], j) /\ (bin # b \/ j # i) =>
         EntryAt(bin, j)' = EntryAt(bin, j)
  <2>1. CASE slotVal' = slotVal
    BY <2>1 DEF EntryAt, SlotLoc
  <2>2. CASE slotVal' = [slotVal EXCEPT ![SlotLoc(b, i)] = e]
    <3>1. /\ slotVal'[SlotLoc(b, i)] = e
          /\ \A loc \in Loc : loc # SlotLoc(b, i) => slotVal'[loc] = slotVal[loc]
      BY <1>1, <1>2, <2>2
    <3> QED BY <3>1, ValWritten
  <2> QED BY <2>1, <2>2
<1>5. \A bin \in BinId : \A j \in SlotIdx : header[bin].ss[j] = SlotValid => HasSlot(linkMeta[bin], j)
  BY BinWords DEF Backed, SlotValid, SlotInvalid
<1>6. \A bin \in BinId : \A j \in SlotIdx : header[bin].ss[j] = SlotValid => bin # b \/ j # i
  OBVIOUS
<1> QED
  BY <1>3, <1>4, <1>5, <1>6 DEF BinSame, SlotSame, EntrySame, Full

\* The state of a slot that is not Valid is set, to one that is not Valid either.
LEMMA StateWritten ==
  ASSUME IInv, NEW b \in BinId, NEW i \in SlotIdx, NEW st, st # SlotValid, header[b].ss[i] # SlotValid,
         header' = [header EXCEPT ![b] = setSlotStateAndVersion(header[b], i, st)],
         UNCHANGED <<linkMeta, slotKey, slotVal>>
  PROVE  \A bin \in BinId : BinSame(bin)
<1>1. /\ header'[b] = setSlotStateAndVersion(header[b], i, st)
      /\ \A bin \in BinId : bin # b => header'[bin] = header[bin]
  BY DEF IInv, BaseType, BaseMemory
<1>2. \A j \in SlotIdx : header'[b].ss[j] = IF j = i THEN st ELSE header[b].ss[j]
  BY <1>1, SlotSet
<1>3. \A bin \in BinId : \A j \in SlotIdx : header'[bin].ss[j] = SlotValid <=> header[bin].ss[j] = SlotValid
  BY <1>1, <1>2
<1>4. \A bin \in BinId : \A j \in SlotIdx : EntryAt(bin, j)' = EntryAt(bin, j) /\ KeyAt(bin, j)' = KeyAt(bin, j)
  BY DEF EntryAt, KeyAt, SlotLoc
<1> QED
  BY <1>3, <1>4 DEF BinSame, SlotSame, EntrySame, Full

\* Insert chooses a slot: no word of a bin is written.
LEMMA ChooseC ==
  ASSUME IInv, EntryType, IInv', RInv, LInv, SInv, CInv, NEW t \in Thread,
         ChooseHeader(t) \/ ChooseLinks(t) \/ allocateLink(t) \/ allocateLinkPair(t)
  PROVE  CInv' /\ FindsNoMore
<1> USE DEF Goto
<1>1. UNCHANGED memory /\ UNCHANGED api /\ pc[t] \in ChoicePC /\ pc \in [Thread -> PC]
  BY DEF ChooseHeader, ChooseLinks, allocateLink, allocateLinkPair, Allocate, ChoicePC, IInv, BaseType, BaseLocal
<1>2. UNCHANGED <<call, res, map, seen>> /\ header' = header /\ call' = call
  BY <1>1 DEF api, memory
<1>3. \A bin \in BinId : BinSame(bin)
  BY <1>1 DEF memory, BinSame, SlotSame, EntrySame, Full, EntryAt, KeyAt, SlotLoc
<1>4. LookInv(t)'
  <2>1. CASE NoRoom(t)
    <3>1. pc'[t] = "trigger"
      BY <1>1, <2>1 DEF NoRoom
    <3> QED BY <3>1, NoLook DEF HeadPC
  <2>2. CASE ~NoRoom(t)
    <3>1. scan' = scan /\ pc'[t] \in ChoicePC
      BY <1>1, <2>2 DEF ChooseHeader, ChooseLinks, allocateLink, allocateLinkPair, Allocate, ChoicePC
    <3>2. Validated(t)' => Validated(t)
      BY <1>2, <3>1 DEF Validated, Bin, hash
    <3> QED BY <1>1, <1>2, <1>3, <3>1, <3>2, RestLook DEF RestPC
  <2> QED BY <2>1, <2>2
<1>5. InsertStep(t)
  BY DEF InsertStep
<1> QED
  BY <1>2, <1>3, <1>4, <1>5, InsertSteady

\* A link is attached: the slots that hold entries keep theirs.
LEMMA AttachC ==
  ASSUME IInv, EntryType, IInv', RInv, LInv, SInv, CInv, NEW t \in Thread, attachSingle(t) \/ attachPair(t)
  PROVE  CInv' /\ FindsNoMore
<1> USE DEF Goto
<1>1. /\ pc[t] \in ChoicePC /\ UNCHANGED <<header, slotKey, slotVal>> /\ UNCHANGED api /\ scan' = scan
      /\ pc \in [Thread -> PC] /\ linkMeta \in [BinId -> LinkMeta]
  BY DEF attachSingle, attachPair, ChoicePC, IInv, BaseType, BaseLocal, BaseMemory
<1>2. UNCHANGED <<call, res, map, seen>> /\ header' = header /\ call' = call
  BY <1>1 DEF api
<1>3. LinksKept
  BY <1>1 DEF attachSingle, attachPair, LinksKept, Keeps, LinkMeta
<1>4. ASSUME NEW bin \in BinId PROVE BinSame(bin)
  <2>1. linkMeta[bin] \in LinkMeta /\ linkMeta'[bin] \in LinkMeta
    BY <1>4 DEF IInv, BaseType, BaseMemory
  <2>2. \A i \in SlotIdx : HasSlot(linkMeta[bin], i) => LocVia(linkMeta'[bin], bin, i) = LocVia(linkMeta[bin], bin, i)
    BY <1>3, <2>1, SameLoc DEF LinksKept
  <2>3. \A i \in SlotIdx : HasSlot(linkMeta[bin], i) => EntryAt(bin, i)' = EntryAt(bin, i) /\ KeyAt(bin, i)' = KeyAt(bin, i)
    BY <1>1, <2>2 DEF EntryAt, KeyAt, SlotLoc
  <2>4. \A i \in SlotIdx : header[bin].ss[i] = SlotValid => HasSlot(linkMeta[bin], i)
    BY BinWords DEF Backed, SlotValid, SlotInvalid
  <2> QED
    BY <1>1, <2>3, <2>4 DEF BinSame, SlotSame, EntrySame, Full
<1>5. LookInv(t)'
  <2>1. pc'[t] = "reserve"
    BY <1>1 DEF attachSingle, attachPair
  <2>2. Validated(t)' => Validated(t)
    BY <1>1, <1>2 DEF Validated, Bin, hash
  <2> QED BY <1>1, <1>2, <1>4, <2>1, <2>2, RestLook DEF RestPC, ChoicePC
<1>6. InsertStep(t)
  BY DEF InsertStep
<1> QED
  BY <1>2, <1>4, <1>5, <1>6, InsertSteady

\* The CAS to Trying takes a slot that holds nothing.
LEMMA reserveSlotC ==
  ASSUME IInv, EntryType, IInv', RInv, LInv, SInv, CInv, NoWrap, NEW t \in Thread, reserveSlot(t), OthersSame(t)
  PROVE  CInv' /\ FindsNoMore
<1> USE DEF Goto
<1>0. PICK b, h0, i, h1 :
        /\ b = Bin(t) /\ h0 = scan[t].h
        /\ i = IF invalidMask(h0, 0) # {} THEN Lowest(invalidMask(h0, 0)) ELSE ins[t].pick
        /\ h1 = setSlotStateAndVersion(h0, i, SlotTrying)
  OBVIOUS
<1>1. /\ pc[t] = "reserve" /\ pc[t] \in ChoicePC /\ pc[t] \in RestPC
      /\ UNCHANGED <<linkMeta, slotKey, slotVal>> /\ UNCHANGED api
  BY DEF reserveSlot, ChoicePC, RestPC
<1>2. UNCHANGED <<call, res, map, seen>> /\ call' = call
  BY <1>1 DEF api
<1>3. /\ PickInv(t) /\ b \in BinId /\ h0 \in Header
      /\ pc \in [Thread -> PC] /\ scan \in [Thread -> BaseScan] /\ ins \in [Thread -> InsRec]
  BY <1>0, <1>1, AtPick
<1>4. header' = header \/ Forward
  BY reserveSlotS
<1>5. (\A bin \in BinId : BinSame(bin)) /\ LookInv(t)'
  <2>1. CASE ~Validated(t)
    <3>1. header' = header /\ Retry(t)
      BY <2>1 DEF reserveSlot
    <3>2. \A bin \in BinId : BinSame(bin)
      BY <1>1, <3>1 DEF BinSame, SlotSame, EntrySame, Full, EntryAt, KeyAt, SlotLoc
    <3> QED BY <3>1, <3>2, RetryLook
  <2>2. CASE Validated(t)
    <3>1. /\ header' = [header EXCEPT ![b] = h1] /\ pc'[t] = "fillKey"
          /\ scan'[t].idx = scan[t].idx /\ scan'[t].ent = scan[t].ent
      BY <1>0, <1>3, <2>2 DEF reserveSlot, BaseScan
    <3>2. h0 = header[b]
      BY <1>0, <2>2 DEF Validated
    <3>3. i \in SlotIdx /\ h0.ss[i] = SlotInvalid
      <4>1. CASE invalidMask(h0, 0) # {}
        <5>1. invalidMask(h0, 0) \subseteq SlotIdx
          BY <1>3, HeaderOps
        <5>2. i \in invalidMask(h0, 0)
          BY <1>0, <4>1, <5>1, LowestIn, SlotIdxNat
        <5> QED BY <5>1, <5>2 DEF invalidMask
      <4>2. CASE invalidMask(h0, 0) = {}
        <5>1. i = ins[t].pick /\ h0.ss[ins[t].pick] = SlotInvalid
          BY <1>0, <1>1, <1>3, <2>2, <4>2 DEF PickInv
        <5>2. InsInv(t) /\ ins[t] \in InsRec
          BY <1>3, Locals, <1>1
        <5>3. ins[t].pick \in SlotIdx
          BY <1>0, <1>1, <4>2, <5>2 DEF InsInv, InsRec
        <5> QED BY <5>1, <5>3
      <4> QED BY <4>1, <4>2
    <3>4. header[b].ss[i] # SlotValid /\ SlotTrying # SlotValid
      BY <3>2, <3>3 DEF SlotInvalid, SlotValid, SlotTrying
    <3>5. header' = [header EXCEPT ![b] = setSlotStateAndVersion(header[b], i, SlotTrying)]
      BY <1>0, <3>1, <3>2
    <3>6. \A bin \in BinId : BinSame(bin)
      BY <1>1, <1>3, <3>3, <3>4, <3>5, StateWritten
    <3>7. LookInv(t)'
      BY <1>1, <1>2, <2>2, <3>1, <3>6, RestLook DEF RestPC
    <3> QED BY <3>6, <3>7
  <2> QED BY <2>1, <2>2
<1>6. InsertStep(t)
  BY DEF InsertStep
<1> QED
  BY <1>2, <1>4, <1>5, <1>6, InsertSteady

\* The key and the entry go into a slot that holds nothing yet, and unreserveSlot takes the
\* entry out again.
LEMMA FillC ==
  ASSUME IInv, EntryType, IInv', RInv, LInv, SInv, CInv, NEW t \in Thread, FillKey(t) \/ FillVal(t) \/ UnreserveClear(t)
  PROVE  CInv' /\ FindsNoMore
<1> USE DEF Goto
<1>0. PICK b, i : b = Bin(t) /\ i = scan[t].slot
  OBVIOUS
<1>1. /\ pc[t] \in OwnPC /\ UNCHANGED <<header, linkMeta>> /\ UNCHANGED api /\ scan' = scan
  BY DEF FillKey, FillVal, UnreserveClear, OwnPC
<1>2. UNCHANGED <<call, res, map, seen>> /\ header' = header /\ call' = call
  BY <1>1 DEF api
<1>3. /\ b \in BinId /\ i \in SlotIdx /\ HasSlot(linkMeta[b], i) /\ header[b].ss[i] = SlotTrying
      /\ pc \in [Thread -> PC]
  BY <1>0, <1>1, AtOwn
<1>4. \/ pc[t] = "fillKey" /\ pc'[t] = "fillVal" /\ slotVal' = slotVal /\ slotKey' = [slotKey EXCEPT ![SlotLoc(b, i)] = hash(t)]
      \/ pc[t] = "fillVal" /\ pc'[t] = "finalize" /\ slotKey' = slotKey /\ slotVal' = [slotVal EXCEPT ![SlotLoc(b, i)] = NewEntry(t)]
      \/ pc[t] = "unresClear" /\ pc'[t] = "unresCAS" /\ slotKey' = slotKey /\ slotVal' = [slotVal EXCEPT ![SlotLoc(b, i)] = Nil]
  BY <1>0, <1>3 DEF FillKey, FillVal, UnreserveClear, OpLoc
<1>5. header[b].ss[i] # SlotValid
  BY <1>3 DEF SlotTrying, SlotValid
<1>6. \A bin \in BinId : BinSame(bin)
  BY <1>1, <1>3, <1>4, <1>5, WordsWritten
<1>7. LookInv(t)'
  <2>1. CASE pc[t] \in {"fillKey", "fillVal"}
    <3>1. pc[t] \in RestPC /\ pc'[t] \in RestPC
      BY <1>4, <2>1 DEF RestPC
    <3>2. Validated(t)' => Validated(t)
      BY <1>1, <1>2 DEF Validated, Bin, hash
    <3> QED BY <1>1, <1>2, <1>6, <3>1, <3>2, RestLook
  <2>2. CASE pc[t] = "unresClear"
    BY <1>4, <2>2, NoLook DEF HeadPC
  <2> QED BY <1>4, <2>1, <2>2
<1>8. InsertStep(t)
  BY DEF InsertStep
<1> QED
  BY <1>2, <1>6, <1>7, <1>8, InsertSteady

\* unreserveSlot has no header in hand to look with.
LEMMA UnresLook ==
  ASSUME IInv, NEW t \in Thread, UnreserveLoad(t) \/ UnreserveCAS(t)
  PROVE  LookInv(t)'
<1> USE DEF Goto
<1>1. pc \in [Thread -> PC] /\ scan \in [Thread -> BaseScan] /\ ins \in [Thread -> InsRec]
  BY DEF IInv, BaseType, BaseLocal
<1>2. CASE Unreserved(t)
  <2>1. pc'[t] \in {"idle", "load", "follow", "active"} /\ scan'[t].grp = 0
    BY <1>1, <1>2 DEF Unreserved, InsRec, FreshScan
  <2> QED BY <2>1, NoLook DEF HeadPC
<1>3. CASE ~Unreserved(t)
  <2>1. pc'[t] \in {"unresClear", "unres"}
    BY <1>1, <1>3 DEF UnreserveLoad, UnreserveCAS
  <2> QED BY <2>1, NoLook DEF HeadPC
<1> QED BY <1>2, <1>3

\* The lookup begins again, or unreserveSlot begins or ends.
LEMMA LoadHeader2C ==
  ASSUME IInv, EntryType, IInv', RInv, LInv, SInv, CInv, NEW t \in Thread, LoadHeader2(t) \/ UnreserveLoad(t)
  PROVE  CInv' /\ FindsNoMore
<1> USE DEF Goto
<1>1. pc[t] \in OwnPC /\ UNCHANGED memory /\ UNCHANGED api
  BY DEF LoadHeader2, UnreserveLoad, OwnPC
<1>2. UNCHANGED <<call, res, map, seen>> /\ header' = header
  BY <1>1 DEF api, memory
<1>3. \A bin \in BinId : BinSame(bin)
  BY <1>1 DEF memory, BinSame, SlotSame, EntrySame, Full, EntryAt, KeyAt, SlotLoc
<1>4. LookInv(t)'
  <2>1. CASE LoadHeader2(t)
    BY <2>1, LoadsLook
  <2>2. CASE UnreserveLoad(t)
    BY <2>2, UnresLook
  <2> QED BY <2>1, <2>2
<1>5. InsertStep(t)
  BY DEF InsertStep
<1> QED
  BY <1>2, <1>3, <1>4, <1>5, InsertSteady

\* The CAS to Invalid drops a slot that holds nothing.
LEMMA UnreserveCASC ==
  ASSUME IInv, EntryType, IInv', RInv, LInv, SInv, CInv, NoWrap, NEW t \in Thread, UnreserveCAS(t), OthersSame(t)
  PROVE  CInv' /\ FindsNoMore
<1>0. PICK b, i : b = Bin(t) /\ i = scan[t].slot
  OBVIOUS
<1>1. pc[t] \in OwnPC /\ UNCHANGED <<linkMeta, slotKey, slotVal>> /\ UNCHANGED api
  BY DEF UnreserveCAS, OwnPC
<1>2. UNCHANGED <<call, res, map, seen>>
  BY <1>1 DEF api
<1>3. /\ b \in BinId /\ i \in SlotIdx /\ header[b].ss[i] = SlotTrying
  BY <1>0, <1>1, AtOwn
<1>4. header' = header \/ Forward
  BY UnreserveCASS
<1>5. \A bin \in BinId : BinSame(bin)
  <2>1. CASE header' = header
    BY <1>1, <2>1 DEF BinSame, SlotSame, EntrySame, Full, EntryAt, KeyAt, SlotLoc
  <2>2. CASE header' # header
    <3>1. header' = [header EXCEPT ![b] = setSlotStateAndVersion(header[b], i, SlotInvalid)]
      BY <1>0, <2>2 DEF UnreserveCAS
    <3>2. header[b].ss[i] # SlotValid /\ SlotInvalid # SlotValid
      BY <1>3 DEF SlotInvalid, SlotValid, SlotTrying
    <3> QED BY <1>1, <1>3, <3>1, <3>2, StateWritten
  <2> QED BY <2>1, <2>2
<1>6. LookInv(t)'
  BY UnresLook
<1>7. InsertStep(t)
  BY DEF InsertStep
<1> QED
  BY <1>2, <1>4, <1>5, <1>6, <1>7, InsertSteady

\* The CAS to Valid takes effect where the key is now: nobody else has made a slot of the
\* bin Valid since the lookup began, because the header is the same.
LEMMA finalizeSlotC ==
  ASSUME IInv, EntryType, IInv', RInv, LInv, SInv, CInv, NoWrap, NEW t \in Thread, finalizeSlot(t), OthersSame(t)
  PROVE  CInv' /\ FindsNoMore
<1> USE DEF Goto
<1>0. PICK b, i, k, v : b = Bin(t) /\ i = scan[t].slot /\ k = call[t].key /\ v = call[t].val
  OBVIOUS
<1>1. /\ pc[t] = "finalize" /\ pc[t] \in OwnPC /\ pc[t] \in RestPC /\ call' = call
      /\ UNCHANGED <<linkMeta, slotKey, slotVal>>
  BY DEF finalizeSlot, OwnPC, RestPC, api, memory
<1>2. /\ b \in BinId /\ i \in SlotIdx /\ HasSlot(linkMeta[b], i) /\ header[b].ss[i] = SlotTrying
      /\ Owns(t, b, i) /\ OwnInv(t) /\ header[b] \in Header
      /\ pc \in [Thread -> PC] /\ scan \in [Thread -> BaseScan]
  BY <1>0, <1>1, AtOwn
<1>3. CASE ~Validated(t)
  <2>1. UNCHANGED memory /\ UNCHANGED api /\ pc'[t] = "load2" /\ scan'[t] = Kept(t)
    BY <1>2, <1>3 DEF finalizeSlot, KeepSlot
  <2>2. scan'[t].grp = 0
    BY <2>1 DEF Kept, FreshScan
  <2>3. LookInv(t)'
    BY <2>1, <2>2, NoLook DEF HeadPC
  <2>4. UNCHANGED <<call, res, map, seen>> /\ header' = header
    BY <2>1 DEF api, memory
  <2>5. \A bin \in BinId : BinSame(bin)
    BY <2>1 DEF memory, BinSame, SlotSame, EntrySame, Full, EntryAt, KeyAt, SlotLoc
  <2>6. InsertStep(t)
    BY DEF InsertStep
  <2> QED
    BY <2>3, <2>4, <2>5, <2>6, InsertSteady
<1>4. CASE Validated(t)
  <2>1. /\ header' = [header EXCEPT ![b] = setSlotStateAndVersion(header[b], i, SlotValid)]
        /\ map' = [map EXCEPT ![k] = v] /\ Observe /\ pc'[t] = "idle"
        /\ \A u \in Thread \ {t} : res'[u] = res[u]
    BY <1>0, <1>2, <1>4 DEF finalizeSlot, Validated, Reply, Effect, IInv, BaseType, ApiType
  <2>2. /\ pc[t] \in UsesPC /\ header[b].bs = BinNoTransfer /\ Current(b) /\ BinOf(b, k)
        /\ \A j \in SlotIdx : ~Has(b, j, k)
    <3>1. pc[t] \in HeadPC /\ \A j \in SlotIdx : ~Has(b, j, k)
      BY <1>0, <1>1, <1>4, AtRest
    <3> QED BY <1>0, <1>4, <3>1, LookCurrent
  <2>3. k \in Key /\ v \in Value /\ hash(t) = Hash[k] /\ v # Absent
    <3>1. call[t] \in CallRec
      BY <1>1, BinType
    <3> QED BY <1>0, <3>1, MarkerAssumption DEF CallRec, hash
  <2>4. KeyAt(b, i) = Hash[k] /\ EntryAt(b, i) = [key |-> k, val |-> v] /\ EntryAt(b, i) # Nil
    <3>1. KeyAt(b, i) = hash(t) /\ EntryAt(b, i) = NewEntry(t)
      BY <1>1, <1>2 DEF OwnInv, UnresPC
    <3>2. [key |-> k, val |-> v] \in [key : Key, val : Value]
      BY <2>3
    <3>3. [key |-> k, val |-> v] # Nil
      BY <3>2, MarkerAssumption
    <3> QED BY <1>0, <2>3, <3>1, <3>3 DEF NewEntry
  <2>5. \A bin \in BinId : \A j \in SlotIdx : EntryAt(bin, j)' = EntryAt(bin, j) /\ KeyAt(bin, j)' = KeyAt(bin, j)
    BY <1>1 DEF EntryAt, KeyAt, SlotLoc
  <2>6. /\ header'[b] = setSlotStateAndVersion(header[b], i, SlotValid)
        /\ \A bin \in BinId : bin # b => header'[bin] = header[bin]
    BY <1>2, <2>1 DEF IInv, BaseType, BaseMemory
  <2>7. /\ \A bin \in BinId : header'[bin].bs = header[bin].bs
        /\ \A j \in SlotIdx : header'[b].ss[j] = IF j = i THEN SlotValid ELSE header[b].ss[j]
    BY <1>2, <2>6, SetFields
  <2>8. \A bin \in BinId : \A j \in SlotIdx : (bin # b \/ j # i) => SlotSame(bin, j)
    BY <2>5, <2>6, <2>7 DEF SlotSame, EntrySame, Full
  <2>9. ~Full(b, i)
    BY <1>2 DEF Full, SlotTrying, SlotValid
  <2>10. Full(b, i)' /\ EntryAt(b, i)' = [key |-> k, val |-> v] /\ KeyMatches(b, i)'
    BY <1>2, <2>4, <2>5, <2>7 DEF Full, KeyMatches
  <2>11. Puts(b, i, k, v)
    BY <2>1, <2>3, <2>7, <2>8, <2>10 DEF Puts
  <2>12. \A bin \in BinId : PlaceInv(bin)' /\ CurrentInv(bin)'
    BY <1>2, <2>2, <2>3, <2>9, <2>11, PutsBins
  <2>13. FindsNoMore
    <3> SUFFICES ASSUME NEW bin \in BinId, header'[bin] = header[bin], NEW j \in SlotIdx, NEW c \in Key,
                        Has(bin, j, c)'
                 PROVE  Has(bin, j, c)
      BY DEF FindsNoMore
    <3>1. bin # b
      BY <1>2, <2>7 DEF SlotTrying, SlotValid
    <3> QED BY <2>8, <3>1 DEF SlotSame, EntrySame, Has
  <2>14. ASSUME NEW u \in Thread, pc'[u] \in MovePC PROVE FrozenInv(u)' /\ CopyInv(u)'
    <3>1. u # t
      BY <2>1, <2>14 DEF MovePC, TransferPC
    <3>2. pc'[u] = pc[u] /\ xfer'[u] = xfer[u]
      BY <3>1 DEF OthersSame
    <3>3. ~Filling(b)
      BY <1>0, <2>2, UsesFull
    <3> QED BY <1>2, <2>2, <2>3, <2>11, <2>14, <3>2, <3>3, PutsMoves
  <2>15. LookInv(t)'
    BY <2>1, NoLook DEF HeadPC
  <2>16. header' = header \/ Forward
    BY finalizeSlotS
  <2> QED
    BY <1>1, <2>1, <2>12, <2>13, <2>14, <2>15, <2>16, StepC DEF Tells
<1> QED
  BY <1>3, <1>4

\* The steps of Insert.
LEMMA InsertC ==
  ASSUME IInv, EntryType, IInv', RInv, LInv, SInv, CInv, NoWrap, NEW t \in Thread, InsertStep(t)
  PROVE  CInv' /\ FindsNoMore
<1>1. OthersSame(t)
  BY InsertFrame DEF OthersSame
<1> QED
  BY <1>1, ChooseC, AttachC, reserveSlotC, FillC, finalizeSlotC, LoadHeader2C, UnreserveCASC DEF InsertStep

-----------------------------------------------------------------------------
(* The resize.                                                             *)
\* The bins next to the one that is moved.
LEMMA NearBins ==
  ASSUME IInv, RInv, NEW t \in Thread, pc[t] \in TransferPC, NEW b, b = OldBin(t)
  PROVE  /\ b \in BinId /\ b[1] = xfer[t].gen /\ b[1] \in 0..(MaxGen - 1) /\ b[1] \in Nat
         /\ header[b].bs = (IF pc[t] = "or" THEN BinNoTransfer ELSE BinInTransfer) /\ Current(b)
         /\ \A nb \in NewBins(b) : /\ nb \in BinId /\ nb # b /\ nb[1] = b[1] + 1 /\ nb[1] > 0 /\ OldOf(nb) = b
                                   /\ header[nb].bs = BinNoTransfer
         /\ \A bin \in BinId : bin \notin NewBins(b) /\ bin[1] > 0 => OldOf(bin) # b
<1>1. /\ b \in BinId /\ b[1] = xfer[t].gen /\ b[1] \in 0..(MaxGen - 1) /\ ~(xfer[t].gen < active)
      /\ header[b].bs = (IF pc[t] = "or" THEN BinNoTransfer ELSE BinInTransfer)
      /\ b[1] > 0 => header[OldOf(b)].bs = BinDoneTransfer
  BY MoverBin
<1>2. b[1] \in Nat /\ active \in Nat
  BY <1>1, ResizeWords
<1>3. Current(b)
  BY <1>1 DEF Current, BinDoneTransfer, BinNoTransfer, BinInTransfer
<1>4. ASSUME NEW nb \in NewBins(b)
      PROVE  /\ nb \in BinId /\ nb # b /\ nb[1] = b[1] + 1 /\ nb[1] > 0 /\ OldOf(nb) = b
             /\ header[nb].bs = BinNoTransfer
  <2>1. nb \in BinId /\ nb[1] = b[1] + 1 /\ OldOf(nb) = b
    BY DEF NewBins
  <2>2. nb # b /\ nb[1] > 0
    BY <1>2, <2>1
  <2>3. ASSUME header[nb].bs # BinNoTransfer PROVE FALSE
    <3>1. Started(nb[1])
      BY <2>1, <2>3, MarkedStarted
    <3>2. nb[1] \in Gen
      BY <2>1, BinIdGen
    <3>3. resizeCtx \in Gen => active \in {resizeCtx, resizeCtx + 1}
      BY DEF RInv, RolesInv
    <3> QED BY <1>1, <1>2, <2>1, <3>1, <3>2, <3>3 DEF Started
  <2> QED BY <2>1, <2>2, <2>3
<1>5. \A bin \in BinId : bin \notin NewBins(b) /\ bin[1] > 0 => OldOf(bin) # b
  BY OldOfType
<1> QED
  BY <1>1, <1>2, <1>3, <1>4, <1>5

\* The other transfers, when only a bin that is moved and its new bins change: nobody else
\* moves them.
LEMMA OtherMoves ==
  ASSUME IInv, EntryType, RInv, CInv, NEW t \in Thread, pc[t] \in TransferPC, OthersSame(t), NEW b, b = OldBin(t),
         \A bin \in BinId : bin # b /\ bin \notin NewBins(b) => BinSame(bin),
         NEW u \in Thread, u # t, pc'[u] \in MovePC
  PROVE  FrozenInv(u)' /\ CopyInv(u)'
<1>1. pc'[u] = pc[u] /\ xfer'[u] = xfer[u] /\ pc[u] \in MovePC /\ pc[u] \in TransferPC
  BY DEF OthersSame, MovePC
<1>2. PICK c : c = OldBin(u)
  OBVIOUS
<1>3. /\ OldBin(u)' = c
      /\ \A i \in SlotIdx : (Left(u, i)' <=> Left(u, i)) /\ (Mine(u, i)' <=> Mine(u, i))
  BY <1>1, <1>2, SameLeft
<1>4. c # b
  BY <1>1, <1>2, MoverBin
<1>5. /\ c \in BinId /\ header[c].bs = BinInTransfer
      /\ \A nb \in NewBins(c) : nb \in BinId /\ OldOf(nb) = c /\ header[nb].bs = BinNoTransfer
      /\ c[1] > 0 => header[OldOf(c)].bs = BinDoneTransfer
  BY <1>1, <1>2, NearBins, MoverBin DEF MovePC
<1>6. /\ b \in BinId /\ header[b].bs # BinDoneTransfer /\ (b[1] > 0 => header[OldOf(b)].bs = BinDoneTransfer)
      /\ \A nb \in NewBins(b) : nb \in BinId /\ OldOf(nb) = b /\ header[nb].bs = BinNoTransfer /\ nb[1] > 0
  BY NearBins, MoverBin DEF Current
<1>7. c \notin NewBins(b)
  BY <1>5, <1>6 DEF BinInTransfer, BinNoTransfer
<1>8. \A nb \in NewBins(c) : nb # b /\ nb \notin NewBins(b)
  <2> SUFFICES ASSUME NEW nb \in NewBins(c) PROVE nb # b /\ nb \notin NewBins(b)
    OBVIOUS
  <2>1. nb \notin NewBins(b)
    BY <1>4, <1>5, <1>6
  <2>2. nb[1] > 0
    BY <1>1, <1>2, NearBins
  <2>3. nb # b
    BY <1>5, <1>6, <2>2 DEF BinInTransfer, BinDoneTransfer
  <2> QED BY <2>1, <2>3
<1>9. BinSame(c) /\ \A nb \in NewBins(c) : \A j \in SlotIdx : EntrySame(nb, j)
  <2>1. BinSame(c)
    BY <1>4, <1>5, <1>7
  <2>2. \A nb \in NewBins(c) : BinSame(nb)
    BY <1>5, <1>8
  <2> QED BY <2>1, <2>2 DEF BinSame, SlotSame
<1> QED
  BY <1>1, <1>2, <1>3, <1>9, SameMove

\* A goroutine that resizes answers no call and has no header in hand.
LEMMA ResizeLook ==
  ASSUME IInv, NEW t \in Thread, ResizeStep(t)
  PROVE  /\ OthersSame(t) /\ UNCHANGED <<map, call, res, seen>> /\ LookInv(t)' /\ Tells
<1>1. OthersSame(t) /\ pc'[t] \in ResizePC \cup {"active"}
  BY ResizeFrame
<1>2. UNCHANGED <<map, call, res, seen>>
  BY DEF ResizeStep, TriggerResize, PublishNext, SetResizeContext, HelpResize, HelpActive, ClaimChunk, TransferBin,
         TransferLinks, StoreSentinel, MoveEntry, FinishBin, ChunkDone, FinishCapacity, FinishActive, FinishInactive,
         FinishCtx, api
<1>3. pc'[t] \notin HeadPC \cup {"load", "load2"}
  BY <1>1 DEF ResizePC, ContextPC, TransferPC, HeadPC
<1>4. LookInv(t)'
  BY <1>3, NoLook
<1> QED
  BY <1>1, <1>2, <1>4 DEF Tells

\* A step of a transfer keeps the invariant if it keeps it in the bin that is moved and its
\* new bins.
LEMMA TransferC ==
  ASSUME IInv, EntryType, IInv', RInv, SInv, CInv, NEW t \in Thread, ResizeStep(t), pc[t] \in TransferPC,
         NEW b, b = OldBin(t), header' = header \/ Forward,
         \A bin \in BinId : bin # b => header'[bin].bs = header[bin].bs,
         \A bin \in BinId : bin # b /\ bin \notin NewBins(b) => BinSame(bin),
         FindsNoMore,
         pc'[t] \in MovePC => FrozenInv(t)' /\ CopyInv(t)',
         PlaceInv(b)' /\ CurrentInv(b)',
         \A nb \in NewBins(b) : PlaceInv(nb)' /\ CurrentInv(nb)'
  PROVE  CInv' /\ FindsNoMore
<1>1. OthersSame(t) /\ UNCHANGED <<map, call, res, seen>> /\ LookInv(t)' /\ Tells
  BY ResizeLook
<1>2. ASSUME NEW bin \in BinId PROVE PlaceInv(bin)' /\ CurrentInv(bin)'
  <2>1. CASE bin = b \/ bin \in NewBins(b)
    BY <2>1
  <2>2. CASE bin # b /\ bin \notin NewBins(b)
    <3>1. bin[1] > 0 => header'[OldOf(bin)].bs = header[OldOf(bin)].bs
      <4>1. bin[1] > 0 => OldOf(bin) \in BinId /\ OldOf(bin) # b
        BY <2>2, OldOfType, NearBins
      <4> QED BY <4>1
    <3> QED BY <1>1, <2>2, <3>1, SameContent
  <2> QED BY <2>1, <2>2
<1>3. ASSUME NEW u \in Thread, pc'[u] \in MovePC PROVE FrozenInv(u)' /\ CopyInv(u)'
  <2>1. CASE u = t
    BY <1>3, <2>1
  <2>2. CASE u # t
    BY <1>1, <1>3, <2>2, OtherMoves
  <2> QED BY <2>1, <2>2
<1> QED
  BY <1>1, <1>2, <1>3, StepC

\* A lookup finds no more where the entries are the same.
LEMMA SameFinds ==
  ASSUME \A bin \in BinId : \A i \in SlotIdx : EntrySame(bin, i)
  PROVE  FindsNoMore
  BY DEF FindsNoMore, EntrySame, Has

\* A bin that was current and has the same entries, the map being the same.
LEMMA StillCurrent ==
  ASSUME CInv, NEW b \in BinId, \A i \in SlotIdx : EntrySame(b, i), map' = map, Current(b)
  PROVE  CurrentInv(b)'
<1>1. CurrentInv(b)
  BY DEF CInv
<1>2. \A i \in SlotIdx : /\ Full(b, i)' <=> Full(b, i)
                         /\ Full(b, i) => EntryAt(b, i)' = EntryAt(b, i)
  BY DEF EntrySame
<1>3. /\ \A i \in SlotIdx : Full(b, i) => map[EntryAt(b, i).key] = EntryAt(b, i).val
      /\ \A i, j \in SlotIdx : Full(b, i) /\ Full(b, j) /\ EntryAt(b, i).key = EntryAt(b, j).key => i = j
      /\ \A k \in Key : BinOf(b, k) /\ map[k] # Absent => \E i \in SlotIdx : Has(b, i, k)
  BY <1>1 DEF CurrentInv
<1>4. \A i \in SlotIdx : Full(b, i)' => map'[EntryAt(b, i)'.key] = EntryAt(b, i)'.val
  BY <1>2, <1>3
<1>5. \A i, j \in SlotIdx : Full(b, i)' /\ Full(b, j)' /\ EntryAt(b, i)'.key = EntryAt(b, j)'.key => i = j
  BY <1>2, <1>3
<1>6. \A k \in Key : BinOf(b, k) /\ map'[k] # Absent => \E i \in SlotIdx : Has(b, i, k)'
  <2> SUFFICES ASSUME NEW k \in Key, BinOf(b, k), map'[k] # Absent
               PROVE  \E i \in SlotIdx : Has(b, i, k)'
    OBVIOUS
  <2>1. PICK i \in SlotIdx : Has(b, i, k)
    BY <1>3
  <2>2. Has(b, i, k)'
    BY <1>2, <2>1 DEF Has
  <2> QED BY <2>2
<1>7. \A k \in Key : BinOf(b, k)' <=> BinOf(b, k)
  BY DEF BinOf
<1> QED
  BY <1>4, <1>5, <1>6, <1>7 DEF CurrentInv

\* A bin that is in transfer and has the same entries.
LEMMA StillPlaced ==
  ASSUME CInv, NEW b \in BinId, \A i \in SlotIdx : EntrySame(b, i), header'[b].bs = BinInTransfer
  PROVE  PlaceInv(b)'
<1>1. PlaceInv(b)
  BY DEF CInv
<1>2. \A i \in SlotIdx : Full(b, i)' => Full(b, i) /\ EntryAt(b, i)' = EntryAt(b, i)
  BY DEF EntrySame
<1>3. header'[b].bs # BinNoTransfer /\ header'[b].bs # BinDoneTransfer
  BY DEF BinInTransfer, BinNoTransfer, BinDoneTransfer
<1>4. \A i \in SlotIdx : Full(b, i)' => BinOf(b, EntryAt(b, i).key)
  BY <1>1, <1>2 DEF PlaceInv
<1> QED
  BY <1>2, <1>3, <1>4 DEF PlaceInv, BinOf

\* A step of the mover that moves no entry: no key changes but those of its bin, which is
\* being moved when the step is done.
LEMMA MidwayC ==
  ASSUME IInv, EntryType, IInv', RInv, SInv, CInv, NEW t \in Thread, ResizeStep(t), pc[t] \in TransferPC,
         NEW b, b = OldBin(t), header' = header \/ Forward,
         header'[b].bs = BinInTransfer,
         \A bin \in BinId : bin # b => header'[bin].bs = header[bin].bs /\ BinSame(bin),
         \A i \in SlotIdx : EntrySame(b, i),
         pc'[t] \in MovePC => FrozenInv(t)' /\ CopyInv(t)'
  PROVE  CInv' /\ FindsNoMore
<1>1. /\ b \in BinId /\ Current(b)
      /\ \A nb \in NewBins(b) : nb \in BinId /\ nb # b /\ nb[1] > 0 /\ OldOf(nb) = b
  BY NearBins
<1>2. map' = map
  BY ResizeLook
<1>3. PlaceInv(b)' /\ CurrentInv(b)'
  BY <1>1, <1>2, StillPlaced, StillCurrent
<1>4. ASSUME NEW nb \in NewBins(b) PROVE PlaceInv(nb)' /\ CurrentInv(nb)'
  <2>1. nb \in BinId /\ nb # b /\ nb[1] > 0 /\ OldOf(nb) = b
    BY <1>1
  <2>2. PlaceInv(nb)'
    <3>1. PlaceInv(nb) /\ BinSame(nb) /\ header'[nb].bs = header[nb].bs
      BY <2>1 DEF CInv
    <3> QED BY <3>1 DEF PlaceInv, BinSame, SlotSame, EntrySame, BinOf, KeyMatches, Sentinel
  <2>3. ~Current(nb)'
    BY <2>1 DEF Current, OldOf, BinInTransfer, BinDoneTransfer
  <2> QED BY <2>2, <2>3 DEF CurrentInv
<1>5. FindsNoMore
  <2>1. \A bin \in BinId : \A i \in SlotIdx : EntrySame(bin, i)
    BY DEF BinSame, SlotSame
  <2> QED BY <2>1, SameFinds
<1> QED
  BY <1>3, <1>4, <1>5, TransferC

\* The steps between the transfers of bins.
LEMMA BetweenC ==
  ASSUME IInv, EntryType, IInv', RInv, SInv, CInv, NEW t \in Thread,
         \/ TriggerResize(t) \/ PublishNext(t) \/ SetResizeContext(t) \/ HelpResize(t) \/ HelpActive(t)
         \/ ClaimChunk(t) \/ ChunkDone(t) \/ FinishCapacity(t) \/ FinishActive(t) \/ FinishInactive(t)
         \/ FinishCtx(t)
  PROVE  CInv' /\ FindsNoMore
<1> USE DEF Goto
<1>1. ResizeStep(t) /\ UNCHANGED memory
  BY DEF ResizeStep, TriggerResize, PublishNext, SetResizeContext, HelpResize, HelpActive, ClaimChunk,
         ChunkDone, FinishCapacity, FinishActive, FinishInactive, FinishCtx
<1>2. pc \in [Thread -> PC]
  BY DEF IInv, BaseType, BaseLocal
<1>3. pc'[t] \in {"publish", "help", "setCtx", "claim", "active", "helpActive", "or", "finCapacity", "finActive",
                  "finInactive", "finCtx"}
  BY <1>2 DEF TriggerResize, PublishNext, SetResizeContext, HelpResize, HelpActive, ClaimChunk,
         ChunkDone, FinishCapacity, FinishActive, FinishInactive, FinishCtx
<1>4. pc[t] \notin MovePC
  BY DEF TriggerResize, PublishNext, SetResizeContext, HelpResize, HelpActive, ClaimChunk,
         ChunkDone, FinishCapacity, FinishActive, FinishInactive, FinishCtx, MovePC, TransferPC
<1>5. pc'[t] \notin MovePC
  BY <1>3 DEF MovePC, TransferPC
<1>6. OthersSame(t) /\ UNCHANGED <<map, call, res, seen>> /\ LookInv(t)' /\ Tells
  BY <1>1, ResizeLook
<1> QED
  BY <1>1, <1>4, <1>5, <1>6, IdleC

\* The mark: the entries in the primary slots are those to take first, all others are
\* still to be taken, and the new bins are empty.
LEMMA TransferBinC ==
  ASSUME IInv, EntryType, IInv', RInv, LInv, SInv, CInv, NEW t \in Thread, TransferBin(t),
         header' = header \/ Forward
  PROVE  CInv' /\ FindsNoMore
<1>0. PICK b, h, h1 : b = OldBin(t) /\ h = header[b] /\ h1 = orInTransfer(h)
  OBVIOUS
<1>1. /\ ResizeStep(t) /\ pc[t] = "or" /\ pc[t] \in TransferPC /\ UNCHANGED <<linkMeta, slotKey, slotVal>>
      /\ header' = [header EXCEPT ![b] = h1]
  BY <1>0 DEF TransferBin, ResizeStep, TransferPC
<1>2. b \in BinId /\ h \in Header /\ h.bs = BinNoTransfer
  BY <1>0, <1>1, MoverBin, BinWords
<1>3. h1.bs = BinInTransfer /\ h1.ss = h.ss
  BY <1>0, <1>2 DEF orInTransfer, setBinState, Header, BinNoTransfer, BinInTransfer
<1>4. header'[b] = h1 /\ \A bin \in BinId : bin # b => header'[bin] = header[bin]
  BY <1>1, <1>2 DEF IInv, BaseType, BaseMemory
<1>5. \A bin \in BinId : \A i \in SlotIdx : /\ header'[bin].ss[i] = header[bin].ss[i]
                                            /\ EntryAt(bin, i)' = EntryAt(bin, i) /\ KeyAt(bin, i)' = KeyAt(bin, i)
  BY <1>0, <1>1, <1>3, <1>4 DEF EntryAt, KeyAt, SlotLoc
<1>6. \A bin \in BinId : BinSame(bin)
  BY <1>5 DEF BinSame, SlotSame, EntrySame, Full
<1>7. PICK m : m = validMask(h, 0)
  OBVIOUS
<1>8. /\ xfer'[t].gen = xfer[t].gen /\ xfer'[t].bin = xfer[t].bin /\ xfer'[t].todo = m
      /\ pc'[t] = IF m = {} THEN "xlinks" ELSE "sentinel"
  BY <1>0, <1>7, <1>1, Locals DEF TransferBin, Goto, IInv, BaseType, BaseLocal, XferRec
<1>9. OldBin(t)' = b
  BY <1>0, <1>8 DEF OldBin
<1>10. \A i \in SlotIdx : ~Mine(t, i)'
  BY <1>8 DEF Mine
<1>11. AtPrimary(t)'
  <2>1. CASE m = {}
    BY <1>8, <2>1 DEF AtPrimary
  <2>2. CASE m # {}
    <3>1. PICK i : i \in m
      BY <2>2
    <3>2. i \in Bucket(0) /\ i \in SlotIdx
      BY <1>2, <1>7, <3>1, HeaderOps DEF validMask
    <3>3. i < PRIMARY_SLOTS
      BY <1>2, <3>2, BinWords, BucketSlots
    <3> QED BY <1>8, <3>1, <3>3 DEF AtPrimary
  <2> QED BY <2>1, <2>2
<1>12. ASSUME NEW i \in SlotIdx, Full(b, i)' PROVE Left(t, i)'
  <2>1. h.ss[i] = SlotValid
    BY <1>0, <1>2, <1>12, <1>5 DEF Full
  <2>2. i \in Bucket(0) => i \in m
    BY <1>7, <2>1 DEF validMask
  <2> QED BY <1>8, <1>10, <1>11, <2>2 DEF Left
<1>13. FrozenInv(t)'
  <2>1. PlaceInv(b)
    BY <1>2 DEF CInv
  <2>2. ASSUME NEW i \in SlotIdx, Full(b, i)' PROVE KeyMatches(b, i)'
    <3>1. Full(b, i)
      BY <1>2, <1>6, <2>2 DEF BinSame, SlotSame, EntrySame
    <3>2. KeyMatches(b, i)
      BY <1>0, <1>2, <2>1, <3>1 DEF PlaceInv
    <3> QED BY <1>2, <1>5, <3>2 DEF KeyMatches
  <2> QED BY <1>9, <1>10, <1>12, <2>2 DEF FrozenInv
<1>14. CopyInv(t)'
  <2>1. \A i \in SlotIdx : ~(Full(b, i)' /\ Copied(t, i)')
    BY <1>12 DEF Copied
  <2>2. ASSUME NEW nb \in NewBins(b), NEW j \in SlotIdx PROVE ~Full(nb, j)'
    <3>1. nb \in BinId /\ nb # b /\ nb[1] > 0 /\ OldOf(nb) = b
      BY <1>0, <1>1, NearBins
    <3>2. header[nb].ss[j] = SlotInvalid
      BY <1>0, <1>2, <3>1 DEF LInv, NewBinInv, EmptyBin
    <3> QED BY <1>5, <3>1, <3>2 DEF Full, SlotInvalid, SlotValid
  <2>3. NewBins(b)' = NewBins(b)
    BY DEF NewBins, OldOf
  <2> QED BY <1>9, <2>1, <2>2, <2>3 DEF CopyInv
<1>15. \A i \in SlotIdx : EntrySame(b, i)
  BY <1>2, <1>6 DEF BinSame, SlotSame
<1>16. \A bin \in BinId : bin # b => header'[bin].bs = header[bin].bs /\ BinSame(bin)
  BY <1>4, <1>6
<1> QED
  BY <1>0, <1>1, <1>3, <1>4, <1>13, <1>14, <1>15, <1>16, MidwayC

\* The mover goes on to the slots of the links: those of the snapshot that have a link are
\* all that are left.
LEMMA TransferLinksC ==
  ASSUME IInv, EntryType, IInv', RInv, LInv, SInv, CInv, NEW t \in Thread, TransferLinks(t)
  PROVE  CInv' /\ FindsNoMore
<1>0. PICK b, h, lm, todo : b = OldBin(t) /\ h = xfer[t].h /\ lm = linkMeta[b] /\ todo = linkSlots(h, lm)
  OBVIOUS
<1>1. /\ ResizeStep(t) /\ pc[t] = "xlinks" /\ pc[t] \in TransferPC /\ pc[t] \in MovePC
      /\ header' = header /\ UNCHANGED <<linkMeta, slotKey, slotVal>>
  BY DEF TransferLinks, ResizeStep, TransferPC, MovePC, memory
<1>2. /\ xfer'[t].gen = xfer[t].gen /\ xfer'[t].bin = xfer[t].bin /\ xfer'[t].todo = todo
      /\ pc'[t] \in {"xdone", "sentinel"}
  BY <1>0, Locals DEF TransferLinks, Goto, IInv, BaseType, BaseLocal, XferRec
<1>3. OldBin(t)' = b
  BY <1>0, <1>2 DEF OldBin
<1>4. b \in BinId /\ lm \in LinkMeta /\ h \in Header /\ header[b].bs = BinInTransfer
  BY <1>0, <1>1, MoverBin, BinWords, Locals DEF XferRec
<1>5. \A bin \in BinId : BinSame(bin)
  BY <1>1 DEF BinSame, SlotSame, EntrySame, Full, EntryAt, KeyAt, SlotLoc
<1>6. xfer[t].todo = {} /\ AtPrimary(t)
  BY <1>1 DEF LInv, MoverInv, AtPrimary
<1>7. \A i \in todo : i \notin Bucket(0) /\ i \in SlotIdx
  BY <1>0, <1>4, LinkSlotsCount
<1>8. ~AtPrimary(t)'
  <2>1. \A i \in todo : ~(i < PRIMARY_SLOTS)
    BY <1>7, <1>4, BucketSlots
  <2> QED BY <1>2, <2>1 DEF AtPrimary
<1>9. \A i \in SlotIdx : ~Mine(t, i) /\ ~Mine(t, i)'
  BY <1>1, <1>2 DEF Mine
<1>10. ASSUME NEW i \in SlotIdx, Full(b, i), i \notin Bucket(0) PROVE i \in todo
  <2>1. h.ss[i] = SlotValid /\ HasSlot(lm, i)
    <3>1. SnapInv(t)
      BY <1>1 DEF SInv
    <3>2. HasSlot(lm, i)
      BY <1>0, <1>4, <1>10, FullSlot
    <3> QED BY <1>0, <1>10, <3>1, <3>2 DEF SnapInv, Full
  <2>2. ~(i < PRIMARY_SLOTS)
    BY <1>4, <1>10, BucketSlots
  <2>3. PICK n \in 1..3 : i \in Bucket(n)
    BY <2>2, BucketRanges
  <2>4. resolveLink(lm, n) # NO_LINK
    BY <1>4, <2>1, <2>2, <2>3, BucketSlots DEF HasSlot
  <2>5. i \in validMask(h, n) /\ n \in attached(lm)
    BY <2>1, <2>3, <2>4 DEF validMask, attached
  <2> QED BY <1>0, <2>5 DEF linkSlots
<1>11. \A i \in SlotIdx : Full(b, i) => (Left(t, i)' <=> Left(t, i))
  BY <1>2, <1>6, <1>7, <1>8, <1>9, <1>10 DEF Left
<1>12. FrozenInv(t)' /\ CopyInv(t)'
  <2>1. BinSame(b) /\ \A nb \in NewBins(b) : \A j \in SlotIdx : EntrySame(nb, j)
    BY <1>4, <1>5 DEF NewBins, BinSame, SlotSame
  <2> QED BY <1>0, <1>1, <1>3, <1>9, <1>11, <2>1, SameMove
<1>13. \A i \in SlotIdx : EntrySame(b, i)
  BY <1>4, <1>5 DEF BinSame, SlotSame
<1>14. header'[b].bs = BinInTransfer /\ \A bin \in BinId : header'[bin].bs = header[bin].bs
  BY <1>1, <1>4
<1> QED
  BY <1>0, <1>1, <1>5, <1>12, <1>13, <1>14, MidwayC

\* The sentinel replaces the key of a slot, which is now being moved: the mover has its
\* hash.
LEMMA StoreSentinelC ==
  ASSUME IInv, EntryType, IInv', RInv, LInv, SInv, CInv, NEW t \in Thread, StoreSentinel(t)
  PROVE  CInv' /\ FindsNoMore
<1>0. PICK b, i, k, todo : /\ b = OldBin(t) /\ i = Lowest(xfer[t].todo) /\ k = GetTransferSentinel(xfer[t].bin)
                           /\ todo = xfer[t].todo
  OBVIOUS
<1>1. /\ ResizeStep(t) /\ pc[t] \in MovePC /\ pc[t] \in TransferPC /\ pc[t] = "sentinel"
      /\ UNCHANGED <<header, linkMeta, slotVal>> /\ header' = header
      /\ slotKey' = [slotKey EXCEPT ![SlotLoc(b, i)] = k]
  BY <1>0 DEF StoreSentinel, ResizeStep, MovePC, TransferPC
<1>2. /\ b \in BinId /\ i \in todo /\ i \in SlotIdx /\ HasSlot(linkMeta[b], i) /\ SlotLoc(b, i) \in Loc
      /\ header[b].bs = BinInTransfer
  BY <1>0, <1>1, AtMove, MoverBin
<1>3. /\ xfer'[t].gen = xfer[t].gen /\ xfer'[t].bin = xfer[t].bin /\ xfer'[t].todo = todo
      /\ xfer'[t].key = KeyAt(b, i) /\ pc'[t] = "move"
  BY <1>0, Locals DEF StoreSentinel, Goto, IInv, BaseType, BaseLocal, XferRec, KeyAt
<1>4. OldBin(t)' = b /\ k = Sentinel(b) /\ Sentinel(b)' = Sentinel(b)
  BY <1>0, <1>3 DEF OldBin, Sentinel, GetTransferSentinel
<1>5. AtPrimary(t)' <=> AtPrimary(t)
  BY <1>0, <1>1, <1>3 DEF AtPrimary
<1>6. /\ \A j \in SlotIdx : ~Mine(t, j) /\ (Mine(t, j)' <=> j = i)
      /\ \A j \in SlotIdx : Left(t, j)' <=> Left(t, j) /\ j # i
      /\ Left(t, i)
  BY <1>0, <1>1, <1>2, <1>3, <1>5 DEF Left, Mine
<1>7. \A bin \in BinId : \A j \in SlotIdx : HasSlot(linkMeta[bin], j) =>
        KeyAt(bin, j)' = IF bin = b /\ j = i THEN k ELSE KeyAt(bin, j)
  <2>1. slotKey'[SlotLoc(b, i)] = k /\ \A loc \in Loc : loc # SlotLoc(b, i) => slotKey'[loc] = slotKey[loc]
    BY <1>1, <1>2 DEF IInv, BaseType, BaseMemory
  <2>2. \A bin \in BinId : \A j \in SlotIdx : HasSlot(linkMeta[bin], j) =>
            slotKey'[SlotLoc(bin, j)] = IF bin = b /\ j = i THEN k ELSE slotKey[SlotLoc(bin, j)]
    BY <1>2, <2>1, KeyWritten
  <2> QED BY <1>1, <2>2 DEF KeyAt, SlotLoc
<1>8. \A bin \in BinId : \A j \in SlotIdx : EntrySame(bin, j) /\ EntryAt(bin, j)' = EntryAt(bin, j)
  BY <1>1 DEF EntrySame, Full, EntryAt, SlotLoc
<1>9. \A bin \in BinId : bin # b => BinSame(bin)
  BY <1>7, <1>8, FullSlot DEF BinSame, SlotSame
<1>10. FrozenInv(t) /\ CopyInv(t)
  BY <1>1 DEF CInv
<1>11. FrozenInv(t)'
  <2> SUFFICES ASSUME NEW j \in SlotIdx, Full(b, j)'
               PROVE  /\ Left(t, j)' => KeyMatches(b, j)'
                      /\ ~Left(t, j)' => KeyAt(b, j)' = Sentinel(b)
                      /\ Mine(t, j)' => xfer'[t].key = Hash[EntryAt(b, j)'.key]
    BY <1>4 DEF FrozenInv
  <2>1. Full(b, j) /\ HasSlot(linkMeta[b], j)
    BY <1>2, <1>8, FullSlot DEF EntrySame
  <2>2. /\ Left(t, j) => KeyMatches(b, j)
        /\ ~Left(t, j) => KeyAt(b, j) = Sentinel(b)
    BY <1>0, <1>10, <2>1 DEF FrozenInv
  <2>3. CASE j = i
    BY <1>2, <1>3, <1>4, <1>6, <1>7, <1>8, <2>1, <2>2, <2>3 DEF KeyMatches
  <2>4. CASE j # i
    BY <1>2, <1>4, <1>6, <1>7, <1>8, <2>1, <2>2, <2>4 DEF KeyMatches
  <2> QED BY <2>3, <2>4
<1>12. CopyInv(t)'
  <2>1. \A nb \in NewBins(b) : \A j \in SlotIdx : EntrySame(nb, j)
    BY <1>8 DEF NewBins
  <2>2. \A j \in SlotIdx : Copied(t, j)' <=> Copied(t, j)
    BY <1>6 DEF Copied
  <2>3. \A j \in SlotIdx : /\ Full(b, j)' /\ Copied(t, j)' <=> Full(b, j) /\ Copied(t, j)
                           /\ Full(b, j) /\ Copied(t, j) => EntryAt(b, j)' = EntryAt(b, j)
    BY <1>2, <1>8, <2>2 DEF EntrySame
  <2> QED BY <1>0, <1>1, <1>4, <2>1, <2>3, SameCopies
<1>13. header'[b].bs = BinInTransfer /\ \A bin \in BinId : header'[bin].bs = header[bin].bs
  BY <1>1, <1>2
<1> QED
  BY <1>0, <1>1, <1>2, <1>8, <1>9, <1>11, <1>12, <1>13, MidwayC

\* When a slot is dealt with, the same slots are left as while it was being moved.
LEMMA MoveLeft ==
  ASSUME IInv, LInv, NEW t \in Thread, MoveEntry(t), NEW i, i = Lowest(xfer[t].todo)
  PROVE  /\ pc[t] = "move" /\ OldBin(t)' = OldBin(t) /\ i \in SlotIdx
         /\ \A j \in SlotIdx : /\ Mine(t, j) <=> j = i
                               /\ ~Mine(t, j)'
                               /\ Left(t, j)' <=> Left(t, j)
                               /\ Copied(t, j)' <=> Copied(t, j) \/ j = i
         /\ ~Left(t, i)
<1>1. PICK todo, rest : todo = xfer[t].todo /\ rest = todo \ {i}
  OBVIOUS
<1>2. /\ pc[t] = "move" /\ xfer'[t].todo = rest /\ xfer'[t].gen = xfer[t].gen /\ xfer'[t].bin = xfer[t].bin
      /\ pc'[t] = IF rest # {} THEN "sentinel" ELSE IF i < PRIMARY_SLOTS THEN "xlinks" ELSE "xdone"
  <2>1. xfer[t] \in XferRec /\ pc \in [Thread -> PC] /\ xfer \in [Thread -> XferRec]
    BY DEF IInv, BaseType, BaseLocal
  <2>2. pc[t] = "move" /\ xfer' = [xfer EXCEPT ![t].todo = rest, ![t].key = 0]
    BY <1>1 DEF MoveEntry
  <2>3. pc' = [pc EXCEPT ![t] = IF rest # {} THEN "sentinel" ELSE IF i < PRIMARY_SLOTS THEN "xlinks" ELSE "xdone"]
    BY <1>1 DEF MoveEntry, Goto
  <2> QED BY <2>1, <2>2, <2>3 DEF XferRec
<1>3. OldBin(t)' = OldBin(t)
  BY <1>2 DEF OldBin
<1>4. i \in todo /\ todo \subseteq SlotIdx /\ MoverInv(t)
  BY <1>1, <1>2, AtMove DEF LInv, MovePC, TransferPC
<1>5. PICK lm \in LinkMeta : lm = linkMeta[OldBin(t)]
  BY <1>2, OldBinType DEF TransferPC
<1>6. \A j \in SlotIdx : j \in Bucket(0) <=> j < PRIMARY_SLOTS
  BY <1>5, BucketSlots
<1>7. AtPrimary(t) => todo \subseteq Bucket(0)
  BY <1>1, <1>4 DEF MoverInv
<1>8. AtPrimary(t) <=> \E j \in todo : j < PRIMARY_SLOTS
  BY <1>1, <1>2 DEF AtPrimary
<1>9. AtPrimary(t)' <=> AtPrimary(t)
  <2>1. CASE rest = {}
    <3>1. todo = {i}
      BY <1>1, <1>4, <2>1
    <3>2. AtPrimary(t)' <=> i < PRIMARY_SLOTS
      BY <1>2, <2>1 DEF AtPrimary
    <3> QED BY <1>8, <3>1, <3>2
  <2>2. CASE rest # {}
    <3>1. AtPrimary(t)' <=> \E j \in rest : j < PRIMARY_SLOTS
      BY <1>2, <2>2 DEF AtPrimary
    <3>2. AtPrimary(t) => \E j \in rest : j < PRIMARY_SLOTS
      BY <1>1, <1>4, <1>6, <1>7, <2>2
    <3> QED BY <1>1, <1>8, <3>1, <3>2
  <2> QED BY <2>1, <2>2
<1>10. AtPrimary(t) => i \in Bucket(0)
  BY <1>4, <1>7
<1>11. \A j \in SlotIdx : (Mine(t, j) <=> j = i) /\ ~Mine(t, j)'
  BY <1>1, <1>2 DEF Mine
<1>12. ~Left(t, i) /\ \A j \in SlotIdx : Left(t, j)' <=> Left(t, j)
  BY <1>1, <1>2, <1>4, <1>9, <1>10, <1>11 DEF Left
<1> QED
  BY <1>2, <1>3, <1>4, <1>11, <1>12 DEF Copied

\* The slot had no entry any more.
LEMMA MoveNilC ==
  ASSUME IInv, EntryType, IInv', RInv, LInv, SInv, CInv, NEW t \in Thread, MoveEntry(t),
         EntryAt(OldBin(t), Lowest(xfer[t].todo)) = Nil
  PROVE  CInv' /\ FindsNoMore
<1>0. PICK b, i : b = OldBin(t) /\ i = Lowest(xfer[t].todo)
  OBVIOUS
<1>1. /\ ResizeStep(t) /\ pc[t] = "move" /\ pc[t] \in TransferPC /\ pc[t] \in MovePC
  BY DEF MoveEntry, ResizeStep, TransferPC, MovePC
<1>2. UNCHANGED <<header, linkMeta, slotKey, slotVal>> /\ header' = header
  BY DEF MoveEntry, EntryAt, memory
<1>3. b \in BinId /\ header[b].bs = BinInTransfer
  BY <1>0, <1>1, MoverBin
<1>4. \A bin \in BinId : BinSame(bin)
  BY <1>2 DEF BinSame, SlotSame, EntrySame, Full, EntryAt, KeyAt, SlotLoc
<1>5. ~Full(b, i)
  BY <1>0 DEF Full
<1>6. /\ OldBin(t)' = b /\ i \in SlotIdx
      /\ \A j \in SlotIdx : Full(b, j) => ~Mine(t, j) /\ ~Mine(t, j)' /\ (Left(t, j)' <=> Left(t, j))
  BY <1>0, <1>5, MoveLeft
<1>7. FrozenInv(t)' /\ CopyInv(t)'
  <2>1. BinSame(b) /\ \A nb \in NewBins(b) : \A j \in SlotIdx : EntrySame(nb, j)
    BY <1>3, <1>4 DEF NewBins, BinSame, SlotSame
  <2> QED BY <1>0, <1>1, <1>6, <2>1, SameMove
<1>8. \A j \in SlotIdx : EntrySame(b, j)
  BY <1>3, <1>4 DEF BinSame, SlotSame
<1>9. header'[b].bs = BinInTransfer /\ \A bin \in BinId : header'[bin].bs = header[bin].bs
  BY <1>2, <1>3
<1> QED
  BY <1>0, <1>1, <1>2, <1>4, <1>7, <1>8, <1>9, MidwayC

\* A copy of an entry e of bin b, in slot s of the new bin new, in which it was not
CopyOf(b, new, s, e) ==
  /\ b \in BinId /\ new \in BinId /\ s \in SlotIdx /\ new # b
  /\ \A bin \in BinId : header'[bin].bs = header[bin].bs /\ (bin # new => header'[bin] = header[bin])
  /\ header'[new] # header[new] /\ ~Full(new, s) /\ Full(new, s)'
  /\ EntryAt(new, s)' = e /\ KeyMatches(new, s)' /\ new = getBin(b[1] + 1, Hash[e.key])
  /\ \A bin \in BinId : \A j \in SlotIdx : (bin # new \/ j # s) => SlotSame(bin, j)

\* The entry of the slot that is being moved has been copied, and no other.
LEMMA CopyMade ==
  ASSUME IInv, EntryType, RInv, CInv, NEW t \in Thread, pc[t] \in MovePC, NEW b, b = OldBin(t), OldBin(t)' = b,
         NEW i \in SlotIdx, Full(b, i), NEW e, e = EntryAt(b, i), NEW new, NEW s, CopyOf(b, new, s, e),
         ~Copied(t, i), \A j \in SlotIdx : Copied(t, j)' <=> Copied(t, j) \/ j = i
  PROVE  CopyInv(t)'
<1>1. /\ b \in BinId /\ new \in BinId /\ s \in SlotIdx /\ new # b
      /\ ~Full(new, s) /\ Full(new, s)' /\ EntryAt(new, s)' = e /\ new = getBin(b[1] + 1, Hash[e.key])
  BY DEF CopyOf
<1>2. \A bin \in BinId : \A j \in SlotIdx : (bin # new \/ j # s) =>
        /\ Full(bin, j)' <=> Full(bin, j)
        /\ Full(bin, j) => EntryAt(bin, j)' = EntryAt(bin, j)
  BY DEF CopyOf, SlotSame, EntrySame
<1>3. CopyInv(t) /\ CurrentInv(b) /\ Current(b)
  BY <1>1, NearBins DEF CInv, MovePC
<1>4. \A j, k \in SlotIdx : Full(b, j) /\ Full(b, k) /\ EntryAt(b, j).key = EntryAt(b, k).key => j = k
  BY <1>3 DEF CurrentInv
<1>5. \A j \in SlotIdx : (Full(b, j)' <=> Full(b, j)) /\ (Full(b, j) => EntryAt(b, j)' = EntryAt(b, j))
  BY <1>1, <1>2
<1>6. ASSUME NEW j \in SlotIdx, Full(b, j)', Copied(t, j)'
      PROVE  \E nb : /\ nb = getBin(b[1] + 1, Hash[EntryAt(b, j)'.key])
                     /\ \E k \in SlotIdx : Full(nb, k)' /\ EntryAt(nb, k)' = EntryAt(b, j)'
  <2>0. Full(b, j) /\ EntryAt(b, j)' = EntryAt(b, j)
    BY <1>5, <1>6
  <2>1. CASE j = i
    <3>1. EntryAt(b, j)' = e
      BY <2>0, <2>1
    <3> QED BY <1>1, <3>1
  <2>2. CASE j # i
    <3>1. Copied(t, j)
      BY <1>6, <2>2
    <3>2. PICK nb : nb = getBin(b[1] + 1, Hash[EntryAt(b, j).key])
      OBVIOUS
    <3>3. PICK k \in SlotIdx : Full(nb, k) /\ EntryAt(nb, k) = EntryAt(b, j)
      BY <1>3, <2>0, <3>1, <3>2 DEF CopyInv
    <3>4. nb \in BinId
      BY <2>0, <3>2, EntryGoes DEF NewBins
    <3>5. nb # new \/ k # s
      BY <1>1, <3>3
    <3>6. Full(nb, k)' /\ EntryAt(nb, k)' = EntryAt(b, j)'
      BY <1>2, <2>0, <3>3, <3>4, <3>5
    <3>7. getBin(b[1] + 1, Hash[EntryAt(b, j)'.key]) = nb
      BY <2>0, <3>2
    <3> QED BY <3>6, <3>7
  <2> QED BY <2>1, <2>2
<1>7. ASSUME NEW nb \in NewBins(b), NEW j \in SlotIdx, Full(nb, j)'
      PROVE  \E k \in SlotIdx : Full(b, k)' /\ Copied(t, k)' /\ EntryAt(b, k)' = EntryAt(nb, j)'
  <2>0. nb \in BinId
    BY DEF NewBins
  <2>1. CASE nb = new /\ j = s
    BY <1>1, <1>5, <2>1
  <2>2. CASE ~(nb = new /\ j = s)
    <3>1. Full(nb, j) /\ EntryAt(nb, j)' = EntryAt(nb, j)
      BY <1>2, <1>7, <2>0, <2>2
    <3>2. PICK k \in SlotIdx : Full(b, k) /\ Copied(t, k) /\ EntryAt(b, k) = EntryAt(nb, j)
      BY <1>3, <3>1 DEF CopyInv
    <3> QED BY <1>5, <3>1, <3>2
  <2> QED BY <2>1, <2>2
<1>8. ASSUME NEW nb \in NewBins(b), NEW j \in SlotIdx, Full(nb, j), EntryAt(nb, j).key = e.key PROVE FALSE
  <2>1. PICK k \in SlotIdx : Full(b, k) /\ Copied(t, k) /\ EntryAt(b, k) = EntryAt(nb, j)
    BY <1>3, <1>8 DEF CopyInv
  <2> QED BY <1>4, <1>8, <2>1
<1>9. ASSUME NEW nb \in NewBins(b), NEW j \in SlotIdx, NEW k \in SlotIdx, Full(nb, j)', Full(nb, k)',
             EntryAt(nb, j)'.key = EntryAt(nb, k)'.key
      PROVE  j = k
  <2>0. nb \in BinId
    BY DEF NewBins
  <2>1. CASE nb # new \/ (j # s /\ k # s)
    <3>1. Full(nb, j) /\ Full(nb, k) /\ EntryAt(nb, j).key = EntryAt(nb, k).key
      BY <1>2, <1>9, <2>0, <2>1
    <3> QED BY <1>3, <3>1 DEF CopyInv
  <2>2. CASE nb = new /\ j = s
    BY <1>1, <1>2, <1>8, <1>9, <2>0, <2>2
  <2>3. CASE nb = new /\ k = s
    BY <1>1, <1>2, <1>8, <1>9, <2>0, <2>3
  <2> QED BY <2>1, <2>2, <2>3
<1>10. \A j \in SlotIdx : Full(b, j)' /\ Copied(t, j)' =>
          \E k \in SlotIdx : (/\ Full(getBin(b[1] + 1, Hash[EntryAt(b, j).key]), k)
                              /\ EntryAt(getBin(b[1] + 1, Hash[EntryAt(b, j).key]), k) = EntryAt(b, j))'
  BY <1>6 DEF Full, EntryAt, SlotLoc
<1> QED
  BY <1>7, <1>9, <1>10 DEF CopyInv, NewBins

\* Where a copy is made, the bins hold their keys.
LEMMA CopyPlaced ==
  ASSUME IInv, RInv, CInv, NEW t \in Thread, pc[t] \in MovePC, NEW b, b = OldBin(t),
         NEW e, NEW new, NEW s, CopyOf(b, new, s, e), header'[b].bs = BinInTransfer,
         NEW nb \in NewBins(b)
  PROVE  PlaceInv(nb)' /\ CurrentInv(nb)'
<1>1. /\ new \in BinId /\ s \in SlotIdx /\ Full(new, s)' /\ EntryAt(new, s)' = e /\ KeyMatches(new, s)'
      /\ new = getBin(b[1] + 1, Hash[e.key])
      /\ \A bin \in BinId : header'[bin].bs = header[bin].bs
      /\ \A bin \in BinId : \A j \in SlotIdx : (bin # new \/ j # s) => SlotSame(bin, j)
  BY DEF CopyOf
<1>2. nb \in BinId /\ nb[1] > 0 /\ nb[1] = b[1] + 1 /\ OldOf(nb) = b /\ header[nb].bs = BinNoTransfer
  BY NearBins DEF MovePC
<1>3. header'[nb].bs # BinDoneTransfer
  BY <1>1, <1>2 DEF BinNoTransfer, BinDoneTransfer
<1>4. ASSUME NEW j \in SlotIdx, Full(nb, j)' PROVE BinOf(nb, EntryAt(nb, j)'.key) /\ KeyMatches(nb, j)'
  <2>1. CASE nb = new /\ j = s
    BY <1>1, <1>2, <2>1 DEF BinOf
  <2>2. CASE ~(nb = new /\ j = s)
    <3>1. Full(nb, j) /\ EntryAt(nb, j)' = EntryAt(nb, j) /\ KeyAt(nb, j)' = KeyAt(nb, j)
      BY <1>1, <1>2, <1>4, <2>2 DEF SlotSame, EntrySame
    <3>2. BinOf(nb, EntryAt(nb, j).key) /\ KeyMatches(nb, j)
      BY <1>2, <3>1 DEF CInv, PlaceInv
    <3> QED BY <3>1, <3>2 DEF KeyMatches
  <2> QED BY <2>1, <2>2
<1>5. PlaceInv(nb)'
  BY <1>3, <1>4 DEF PlaceInv, BinOf
<1>6. ~Current(nb)'
  BY <1>2 DEF Current, OldOf, BinInTransfer, BinDoneTransfer
<1> QED
  BY <1>5, <1>6 DEF CurrentInv

\* The entry goes to the new bin, in which its key was not.
LEMMA MoveSomeC ==
  ASSUME IInv, EntryType, IInv', RInv, LInv, LInv', SInv, CInv, NEW t \in Thread, MoveEntry(t),
         EntryAt(OldBin(t), Lowest(xfer[t].todo)) # Nil, header' = header \/ Forward
  PROVE  CInv' /\ FindsNoMore
<1>0. PICK b, i, e : b = OldBin(t) /\ i = Lowest(xfer[t].todo) /\ e = EntryAt(b, i)
  OBVIOUS
<1>1. /\ ResizeStep(t) /\ pc[t] = "move" /\ pc[t] \in TransferPC /\ pc[t] \in MovePC
  BY DEF MoveEntry, ResizeStep, TransferPC, MovePC
<1>2. /\ OldBin(t)' = b /\ i \in SlotIdx /\ ~Left(t, i)
      /\ \A j \in SlotIdx : /\ Mine(t, j) <=> j = i
                            /\ ~Mine(t, j)'
                            /\ Left(t, j)' <=> Left(t, j)
                            /\ Copied(t, j)' <=> Copied(t, j) \/ j = i
  BY <1>0, MoveLeft
<1>3. /\ b \in BinId /\ header[b].bs = BinInTransfer /\ b[1] = xfer[t].gen /\ Current(b)
      /\ i \in xfer[t].todo
  BY <1>0, <1>1, MoverBin, NearBins, AtMove
<1>4. PICK new \in BinId, s \in SlotIdx :
         /\ new # b /\ header[new].ss[s] = SlotInvalid
         /\ header' = [header EXCEPT ![new] = setSlotStateAndVersion(header[new], s, SlotValid)]
         /\ EntryAt(new, s)' = e
         /\ new = getBin(xfer[t].gen + 1, xfer[t].key) /\ KeyAt(new, s)' = xfer[t].key
         /\ \A bin \in BinId : \A j \in SlotIdx :
              HasSlot(linkMeta[bin], j) /\ ~(bin = new /\ j = s) =>
                 EntryAt(bin, j)' = EntryAt(bin, j) /\ KeyAt(bin, j)' = KeyAt(bin, j)
  <2>1. e # Nil
    BY <1>0
  <2> QED BY <1>0, <1>3, <2>1, EntryMoved
<1>5. Full(b, i)
  <2>1. SnapInv(t) /\ MoverInv(t)
    BY <1>1 DEF SInv, LInv
  <2>2. xfer[t].h.ss[i] = SlotValid
    BY <1>3, <2>1 DEF MoverInv, Valids
  <2> QED BY <1>0, <1>2, <2>1, <2>2 DEF SnapInv, Full
<1>6. header'[new] = setSlotStateAndVersion(header[new], s, SlotValid) /\ \A bin \in BinId : bin # new => header'[bin] = header[bin]
  BY <1>4 DEF IInv, BaseType, BaseMemory
<1>7. /\ header'[new].bs = header[new].bs
      /\ \A j \in SlotIdx : header'[new].ss[j] = IF j = s THEN SlotValid ELSE header[new].ss[j]
  <2>1. header[new] \in Header
    BY BinWords
  <2> QED BY <1>6, <2>1, SetFields
<1>8. xfer[t].key = Hash[e.key]
  <2>1. FrozenInv(t)
    BY <1>1 DEF CInv
  <2> QED BY <1>0, <1>2, <1>5, <2>1 DEF FrozenInv
<1>9. ASSUME NEW bin \in BinId, NEW j \in SlotIdx, bin # new \/ j # s PROVE SlotSame(bin, j)
  <2>1. header'[bin].ss[j] = header[bin].ss[j]
    BY <1>6, <1>7, <1>9
  <2>2. header[bin].ss[j] = SlotValid => EntryAt(bin, j)' = EntryAt(bin, j) /\ KeyAt(bin, j)' = KeyAt(bin, j)
    <3>1. header[bin].ss[j] = SlotValid => HasSlot(linkMeta[bin], j)
      BY BinWords DEF Backed, SlotValid, SlotInvalid
    <3> QED BY <1>4, <1>9, <3>1
  <2> QED BY <2>1, <2>2 DEF SlotSame, EntrySame, Full
<1>10. CopyOf(b, new, s, e)
  <2>1. header'[new].ss[s] = SlotValid /\ header[new].ss[s] # SlotValid /\ header'[new] # header[new]
    BY <1>4, <1>7 DEF SlotValid, SlotInvalid
  <2>2. ~Full(new, s) /\ Full(new, s)'
    BY <1>0, <1>4, <2>1 DEF Full
  <2>3. KeyMatches(new, s)'
    BY <1>4, <1>8 DEF KeyMatches
  <2>4. new = getBin(b[1] + 1, Hash[e.key])
    BY <1>3, <1>4, <1>8
  <2>5. \A bin \in BinId : header'[bin].bs = header[bin].bs /\ (bin # new => header'[bin] = header[bin])
    BY <1>6, <1>7
  <2> QED BY <1>3, <1>4, <1>9, <2>1, <2>2, <2>3, <2>4, <2>5 DEF CopyOf
<1>11. CopyInv(t)'
  <2>1. ~Copied(t, i)
    BY <1>2 DEF Copied
  <2> QED BY <1>0, <1>1, <1>2, <1>5, <1>10, <2>1, CopyMade
<1>12. BinSame(b)
  BY <1>3, <1>4, <1>9 DEF BinSame
<1>13. FrozenInv(t)'
  <2>1. FrozenInv(t)
    BY <1>1 DEF CInv
  <2>2. \A j \in SlotIdx : Full(b, j)' => /\ Full(b, j) /\ EntryAt(b, j)' = EntryAt(b, j)
                                          /\ KeyAt(b, j)' = KeyAt(b, j)
    BY <1>12 DEF BinSame, SlotSame, EntrySame
  <2>3. \A j \in SlotIdx : Full(b, j) => /\ Left(t, j) => KeyMatches(b, j)
                                         /\ ~Left(t, j) => KeyAt(b, j) = Sentinel(b)
    BY <1>0, <2>1 DEF FrozenInv
  <2>4. \A j \in SlotIdx : Full(b, j)' => /\ Left(t, j)' => KeyMatches(b, j)'
                                          /\ ~Left(t, j)' => KeyAt(b, j)' = Sentinel(b)
    BY <1>2, <2>2, <2>3 DEF KeyMatches
  <2> QED BY <1>2, <2>4 DEF FrozenInv, Sentinel
<1>14. header'[b].bs = BinInTransfer
  BY <1>3, <1>4, <1>6
<1>15. PlaceInv(b)' /\ CurrentInv(b)'
  <2>1. \A j \in SlotIdx : EntrySame(b, j)
    BY <1>12 DEF BinSame, SlotSame
  <2>2. map' = map
    BY <1>1, ResizeLook
  <2> QED BY <1>3, <1>14, <2>1, <2>2, StillPlaced, StillCurrent
<1>16. \A nb \in NewBins(b) : PlaceInv(nb)' /\ CurrentInv(nb)'
  BY <1>0, <1>1, <1>10, <1>14, CopyPlaced
<1>17. FindsNoMore
  <2>1. header'[new] # header[new]
    BY <1>10 DEF CopyOf
  <2> SUFFICES ASSUME NEW bin \in BinId, header'[bin] = header[bin], NEW j \in SlotIdx, NEW k \in Key, Has(bin, j, k)'
               PROVE  Has(bin, j, k)
    BY DEF FindsNoMore
  <2>2. SlotSame(bin, j)
    BY <1>9, <2>1
  <2> QED BY <2>2 DEF SlotSame, EntrySame, Has
<1>18. \A bin \in BinId : header'[bin].bs = header[bin].bs
  BY <1>6, <1>7
<1>19. \A bin \in BinId : bin # b /\ bin \notin NewBins(b) => BinSame(bin)
  <2>1. new \in NewBins(b)
    <3>1. pc[t] = "move" /\ xfer[t].gen \in 0..(MaxGen - 1)
      BY <1>1, MoverBin
    <3> QED BY <1>0, <1>3, <1>4, <3>1, AtEntry
  <2> QED BY <1>9, <2>1 DEF BinSame
<1> QED
  BY <1>0, <1>1, <1>11, <1>13, <1>15, <1>16, <1>17, <1>18, <1>19, TransferC

\* The move of an entry.
LEMMA MoveEntryC ==
  ASSUME IInv, EntryType, IInv', RInv, LInv, LInv', SInv, CInv, NoWrap, NEW t \in Thread, MoveEntry(t)
  PROVE  CInv' /\ FindsNoMore
<1>1. header' = header \/ Forward
  BY MoveEntryS
<1> QED
  BY <1>1, MoveNilC, MoveSomeC

\* Every entry has been copied: the new bins take over, and the old one holds sentinels.
LEMMA FinishBinC ==
  ASSUME IInv, EntryType, IInv', RInv, LInv, SInv, CInv, NEW t \in Thread, FinishBin(t), header' = header \/ Forward
  PROVE  CInv' /\ FindsNoMore
<1>0. PICK b, h, h1 : b = OldBin(t) /\ h = xfer[t].h /\ h1 = setBinState(h, BinDoneTransfer)
  OBVIOUS
<1>1. /\ ResizeStep(t) /\ pc[t] = "xdone" /\ pc[t] \in TransferPC /\ pc[t] \in MovePC
      /\ UNCHANGED <<linkMeta, slotKey, slotVal>>
      /\ header' = [header EXCEPT ![b] = h1]
  BY <1>0 DEF FinishBin, ResizeStep, TransferPC, MovePC
<1>2. /\ b \in BinId /\ h \in Header /\ Current(b) /\ header[b].bs = BinInTransfer
      /\ \A nb \in NewBins(b) : nb \in BinId /\ nb # b /\ nb[1] = b[1] + 1 /\ nb[1] > 0 /\ OldOf(nb) = b
  <2>1. h \in Header
    BY <1>0, <1>1, Locals DEF XferRec
  <2> QED BY <1>0, <1>1, <2>1, NearBins
<1>3. h1.bs = BinDoneTransfer /\ h1.ss = h.ss
  BY <1>0, <1>2 DEF setBinState, Header
<1>4. header'[b] = h1 /\ \A bin \in BinId : bin # b => header'[bin] = header[bin]
  BY <1>1, <1>2 DEF IInv, BaseType, BaseMemory
<1>5. \A i \in SlotIdx : \/ header[b].ss[i] = h.ss[i]
                         \/ h.ss[i] = SlotValid /\ header[b].ss[i] = SlotInvalid /\ EntryAt(b, i) = Nil
  BY <1>0, <1>1 DEF SInv, SnapInv
<1>6. \A bin \in BinId : \A i \in SlotIdx : EntryAt(bin, i)' = EntryAt(bin, i) /\ KeyAt(bin, i)' = KeyAt(bin, i)
  BY <1>1 DEF EntryAt, KeyAt, SlotLoc
<1>7. \A bin \in BinId : BinSame(bin)
  <2>1. \A i \in SlotIdx : Full(b, i)' <=> Full(b, i)
    BY <1>2, <1>3, <1>4, <1>5, <1>6 DEF Full, SlotValid, SlotInvalid
  <2>2. \A bin \in BinId : \A i \in SlotIdx : bin # b => (Full(bin, i)' <=> Full(bin, i))
    BY <1>4, <1>6 DEF Full
  <2> QED BY <1>6, <2>1, <2>2 DEF BinSame, SlotSame, EntrySame
<1>8. \A i \in SlotIdx : ~Left(t, i) /\ Copied(t, i)
  <2>1. xfer[t].todo = {} /\ ~AtPrimary(t)
    BY <1>1 DEF LInv, MoverInv, AtPrimary
  <2> QED BY <1>1, <2>1 DEF Left, Mine, Copied
<1>9. FrozenInv(t) /\ CopyInv(t) /\ CurrentInv(b) /\ PlaceInv(b)
  BY <1>1, <1>2 DEF CInv
<1>10. PlaceInv(b)'
  <2>1. header'[b].bs # BinNoTransfer
    BY <1>3, <1>4 DEF BinNoTransfer, BinDoneTransfer
  <2>2. \A i \in SlotIdx : Full(b, i) => KeyAt(b, i) = Sentinel(b) /\ BinOf(b, EntryAt(b, i).key)
    BY <1>0, <1>8, <1>9 DEF FrozenInv, PlaceInv
  <2>3. \A i \in SlotIdx : Full(b, i)' => Full(b, i) /\ EntryAt(b, i)' = EntryAt(b, i) /\ KeyAt(b, i)' = KeyAt(b, i)
    BY <1>2, <1>7 DEF BinSame, SlotSame, EntrySame
  <2>4. \A i \in SlotIdx : Full(b, i)' => KeyAt(b, i)' = Sentinel(b) /\ BinOf(b, EntryAt(b, i)'.key)
    BY <2>2, <2>3
  <2> QED BY <2>1, <2>4 DEF PlaceInv, BinOf, Sentinel
<1>11. CurrentInv(b)'
  BY <1>3, <1>4 DEF CurrentInv, Current
<1>12. map' = map
  BY <1>1, ResizeLook
<1>13. ASSUME NEW nb \in NewBins(b) PROVE PlaceInv(nb)' /\ CurrentInv(nb)'
  <2>1. nb \in BinId /\ nb # b /\ nb[1] = b[1] + 1 /\ nb[1] > 0 /\ OldOf(nb) = b
    BY <1>2
  <2>2. header'[nb].bs = header[nb].bs
    BY <1>4, <2>1
  <2>3. \A j \in SlotIdx : Full(nb, j)' <=> Full(nb, j)
    BY <1>7, <2>1 DEF BinSame, SlotSame, EntrySame
  <2>4. PlaceInv(nb)'
    <3>1. PlaceInv(nb)
      BY <2>1 DEF CInv
    <3> QED BY <1>6, <2>1, <2>2, <2>3, <3>1 DEF PlaceInv, BinOf, KeyMatches, Sentinel
  <2>5. ASSUME NEW j \in SlotIdx, Full(nb, j) PROVE map[EntryAt(nb, j).key] = EntryAt(nb, j).val
    <3>1. PICK i \in SlotIdx : Full(b, i) /\ EntryAt(b, i) = EntryAt(nb, j)
      BY <1>0, <1>9, <2>5 DEF CopyInv
    <3> QED BY <1>2, <1>9, <3>1 DEF CurrentInv
  <2>6. \A i, j \in SlotIdx : Full(nb, i) /\ Full(nb, j) /\ EntryAt(nb, i).key = EntryAt(nb, j).key => i = j
    BY <1>0, <1>9 DEF CopyInv
  <2>7. ASSUME NEW k \in Key, BinOf(nb, k), map[k] # Absent PROVE \E j \in SlotIdx : Has(nb, j, k)
    <3>1. BinOf(b, k) /\ nb = getBin(b[1] + 1, Hash[k])
      BY <2>1, <2>7, KeyBin
    <3>2. PICK i \in SlotIdx : Full(b, i) /\ EntryAt(b, i).key = k
      BY <1>2, <1>9, <2>7, <3>1 DEF CurrentInv, Has
    <3>3. PICK j \in SlotIdx : Full(nb, j) /\ EntryAt(nb, j) = EntryAt(b, i)
      BY <1>0, <1>8, <1>9, <3>1, <3>2 DEF CopyInv
    <3> QED BY <3>2, <3>3 DEF Has
  <2>8. /\ \A j \in SlotIdx : Full(nb, j)' => map'[EntryAt(nb, j)'.key] = EntryAt(nb, j)'.val
        /\ \A i, j \in SlotIdx : Full(nb, i)' /\ Full(nb, j)' /\ EntryAt(nb, i)'.key = EntryAt(nb, j)'.key => i = j
        /\ \A k \in Key : BinOf(nb, k) /\ map'[k] # Absent => \E j \in SlotIdx : Has(nb, j, k)'
    <3>1. \A j \in SlotIdx, k \in Key : Has(nb, j, k) => Has(nb, j, k)'
      BY <1>6, <2>1, <2>3 DEF Has
    <3>2. \A j \in SlotIdx : Full(nb, j)' => map'[EntryAt(nb, j)'.key] = EntryAt(nb, j)'.val
      BY <1>6, <1>12, <2>1, <2>3, <2>5
    <3>3. \A i, j \in SlotIdx : Full(nb, i)' /\ Full(nb, j)' /\ EntryAt(nb, i)'.key = EntryAt(nb, j)'.key => i = j
      BY <1>6, <2>1, <2>3, <2>6
    <3>4. \A k \in Key : BinOf(nb, k) /\ map'[k] # Absent => \E j \in SlotIdx : Has(nb, j, k)'
      BY <1>12, <2>7, <3>1
    <3> QED BY <3>2, <3>3, <3>4
  <2>9. CurrentInv(nb)'
    BY <2>8 DEF CurrentInv, BinOf
  <2> QED BY <2>4, <2>9
<1>14. pc'[t] \notin MovePC
  BY DEF FinishBin, Goto, IInv, BaseType, BaseLocal, MovePC, TransferPC
<1>15. FindsNoMore
  <2>1. \A bin \in BinId : \A i \in SlotIdx : EntrySame(bin, i)
    BY <1>7 DEF BinSame, SlotSame
  <2> QED BY <2>1, SameFinds
<1>16. \A bin \in BinId : bin # b => header'[bin].bs = header[bin].bs
  BY <1>4
<1> QED
  BY <1>0, <1>1, <1>7, <1>10, <1>11, <1>13, <1>14, <1>15, <1>16, TransferC

\* The steps of the resize.
LEMMA ResizeC ==
  ASSUME IInv, EntryType, IInv', RInv, LInv, LInv', SInv, CInv, NoWrap, NEW t \in Thread, ResizeStep(t)
  PROVE  CInv' /\ FindsNoMore
<1>1. CASE TransferBin(t)
  BY <1>1, TransferBinS, TransferBinC
<1>2. CASE FinishBin(t)
  BY <1>2, FinishBinS, FinishBinC
<1> QED
  BY <1>1, <1>2, BetweenC, TransferLinksC, StoreSentinelC, MoveEntryC DEF ResizeStep

-----------------------------------------------------------------------------
(* The invariant, and what it says.                                        *)

\* A new call has no header in hand, and has seen what its key has now.
LEMMA InvokeC ==
  ASSUME IInv, EntryType, IInv', RInv, LInv, SInv, CInv, NEW t \in Thread, Invoke(t)
  PROVE  CInv' /\ FindsNoMore
<1>1. /\ pc[t] = "idle" /\ UNCHANGED <<memory, scan, ins, xfer, map>> /\ Observe
      /\ pc' = [pc EXCEPT ![t] = "active"]
      /\ res' = [res EXCEPT ![t] = Pending]
      /\ \E c \in Calls[t] :
           call' = [call EXCEPT ![t] = [kind |-> c.kind, key |-> c.key, val |-> <<t, calls[t] + 1>>]]
  BY DEF Invoke, Goto
<1>2. /\ pc \in [Thread -> PC] /\ res \in [Thread -> Answer \cup {Pending}]
      /\ call \in [Thread -> CallRec \cup {NoCall}]
  BY DEF IInv, BaseType, ApiType, BaseLocal
<1>3. /\ OthersSame(t) /\ pc'[t] = "active"
      /\ \A u \in Thread \ {t} : call'[u] = call[u] /\ res'[u] = res[u]
  BY <1>1, <1>2 DEF OthersSame
<1>4. LookInv(t)'
  BY <1>3, NoLook DEF HeadPC
<1>5. pc[t] \notin MovePC /\ pc'[t] \notin MovePC
  BY <1>1, <1>3 DEF MovePC, TransferPC
<1>6. Tells /\ map' = map
  BY <1>1 DEF Tells
<1> QED
  BY <1>1, <1>3, <1>4, <1>5, <1>6, IdleC

\* Two numbers of a finite set that have as many of its numbers below them are the same.
LEMMA SameRank ==
  ASSUME NEW S, S \subseteq Nat, IsFiniteSet(S), NEW j \in S, NEW k \in S,
         Cardinality({x \in S : x < j}) = Cardinality({x \in S : x < k})
  PROVE  j = k
<1>1. ASSUME NEW p \in S, NEW q \in S, p < q
      PROVE  Cardinality({x \in S : x < p}) < Cardinality({x \in S : x < q})
  <2> DEFINE P == {x \in S : x < p}
  <2> DEFINE Q == {x \in S : x < q}
  <2>1. IsFiniteSet(P) /\ IsFiniteSet(Q)
    BY FS_Subset
  <2>2. p \in Q \ P /\ P \subseteq Q
    <3>1. p \in Nat /\ q \in Nat /\ \A x \in S : x \in Nat
      OBVIOUS
    <3>2. \A x \in S : x < p => x < q
      BY <1>1, <3>1
    <3>3. ~(p < p)
      BY <3>1
    <3> QED BY <1>1, <3>2, <3>3
  <2>3. IsFiniteSet(Q \ {p}) /\ Cardinality(Q \ {p}) = Cardinality(Q) - 1
    <3>1. Cardinality(Q \ {p}) = IF p \in Q THEN Cardinality(Q) - 1 ELSE Cardinality(Q)
      BY <2>1, FS_RemoveElement
    <3> QED BY <2>1, <2>2, <3>1, FS_RemoveElement
  <2>4. P \subseteq Q \ {p}
    BY <2>2
  <2>5. Cardinality(P) <= Cardinality(Q \ {p})
    BY <2>3, <2>4, FS_Subset
  <2>6. Cardinality(P) \in Nat /\ Cardinality(Q) \in Nat
    BY <2>1, FS_CardinalityType
  <2> QED BY <2>3, <2>5, <2>6
<1>2. IsFiniteSet({x \in S : x < j}) /\ Cardinality({x \in S : x < j}) \in Nat
  BY FS_Subset, FS_CardinalityType
<1>3. j \in Nat /\ k \in Nat /\ ~(j < k) /\ ~(k < j)
  BY <1>1, <1>2
<1> QED
  BY <1>3

\* At first the keys inserted before are in the bins of the first index, once each, and
\* they are what the map has.
LEMMA InitC == Init => CInv
<1> SUFFICES ASSUME Init PROVE CInv
  OBVIOUS
<1>1. \A t \in Thread : /\ pc[t] = "idle" /\ res[t] = [val |-> Absent, ok |-> FALSE] /\ seen[t] = {}
  BY DEF Init
<1>2. \A t \in Thread : SeenInv(t)
  <2>1. PICK r : r = [val |-> Absent, ok |-> FALSE]
    OBVIOUS
  <2>2. r \in [val : Value \cup {Absent}, ok : BOOLEAN]
    BY <2>1
  <2>3. r # Pending
    BY <2>2, MarkerAssumption
  <2> QED BY <1>1, <2>1, <2>3 DEF SeenInv
<1>3. \A t \in Thread : LookInv(t) /\ pc[t] \notin MovePC
  BY <1>1 DEF LookInv, HeadPC, MovePC, TransferPC
<1>4. \A bin \in BinId : header[bin].bs = BinNoTransfer
  BY DEF Init
<1>5. Len(Prefill) \in Nat /\ \A j \in 1..Len(Prefill) : Prefill[j] \in Key
  BY CallsAssumption
<1>6. \A k \in Key : map[k] = IF \E j \in 1..Len(Prefill) : Prefill[j] = k THEN InitVal ELSE Absent
  BY DEF Init
<1>7. ASSUME NEW bin \in BinId PROVE PlaceInv(bin) /\ CurrentInv(bin)
  <2>1. PrefillIn(bin) \subseteq Nat /\ IsFiniteSet(PrefillIn(bin))
    <3>1. IsFiniteSet(1..Len(Prefill))
      BY <1>5, FS_Interval
    <3> QED BY <1>5, <3>1, FS_Subset DEF PrefillIn
  <2>2. \A k \in PrefillIn(bin) : /\ k \in 1..Len(Prefill) /\ getBin(0, Hash[Prefill[k]]) = bin
                                  /\ Prefill[k] \in Key
    BY <1>5 DEF PrefillIn
  <2>3. ASSUME NEW i \in SlotIdx, Full(bin, i)
        PROVE  \E k \in PrefillIn(bin) : /\ Cardinality({x \in PrefillIn(bin) : x < k}) = i
                                         /\ KeyAt(bin, i) = Hash[Prefill[k]]
                                         /\ EntryAt(bin, i).key = Prefill[k]
                                         /\ EntryAt(bin, i).val = InitVal
    <3>1. header[bin].ss[i] = SlotValid
      BY <2>3 DEF Full
    <3>2. PICK k \in PrefillIn(bin) :
             /\ Cardinality({x \in PrefillIn(bin) : x < k}) = i
             /\ slotKey[SlotLoc(bin, i)] = Hash[Prefill[k]]
             /\ slotVal[SlotLoc(bin, i)] = [key |-> Prefill[k], val |-> InitVal]
      BY <3>1, PrefillSlot
    <3>3. KeyAt(bin, i) = Hash[Prefill[k]] /\ EntryAt(bin, i) = [key |-> Prefill[k], val |-> InitVal]
      BY <3>2 DEF KeyAt, EntryAt
    <3> QED BY <3>2, <3>3
  <2>4. PlaceInv(bin)
    <3> SUFFICES ASSUME NEW i \in SlotIdx, Full(bin, i)
                 PROVE  BinOf(bin, EntryAt(bin, i).key) /\ KeyMatches(bin, i)
      BY <1>4 DEF PlaceInv, BinNoTransfer, BinDoneTransfer
    <3>1. PICK k \in PrefillIn(bin) : KeyAt(bin, i) = Hash[Prefill[k]] /\ EntryAt(bin, i).key = Prefill[k]
      BY <2>3
    <3>2. getBin(0, Hash[Prefill[k]]) = bin
      BY <2>2
    <3> QED BY <3>1, <3>2 DEF BinOf, KeyMatches, getBin
  <2>5. ASSUME NEW i \in SlotIdx, Full(bin, i) PROVE map[EntryAt(bin, i).key] = EntryAt(bin, i).val
    <3>1. PICK k \in PrefillIn(bin) : EntryAt(bin, i).key = Prefill[k] /\ EntryAt(bin, i).val = InitVal
      BY <2>3, <2>5
    <3>2. k \in 1..Len(Prefill) /\ Prefill[k] \in Key
      BY <2>2
    <3> QED BY <1>6, <3>1, <3>2
  <2>6. ASSUME NEW i \in SlotIdx, NEW j \in SlotIdx, Full(bin, i), Full(bin, j),
               EntryAt(bin, i).key = EntryAt(bin, j).key
        PROVE  i = j
    <3>1. PICK k \in PrefillIn(bin) : /\ Cardinality({x \in PrefillIn(bin) : x < k}) = i
                                      /\ EntryAt(bin, i).key = Prefill[k]
      BY <2>3, <2>6
    <3>2. PICK m \in PrefillIn(bin) : /\ Cardinality({x \in PrefillIn(bin) : x < m}) = j
                                      /\ EntryAt(bin, j).key = Prefill[m]
      BY <2>3, <2>6
    <3>3. k = m
      BY <2>2, <2>6, <3>1, <3>2, PrefillAssumption
    <3> QED BY <3>1, <3>2, <3>3
  <2>7. ASSUME Current(bin), NEW k \in Key, BinOf(bin, k), map[k] # Absent
        PROVE  \E i \in SlotIdx : Has(bin, i, k)
    <3>1. PICK j \in 1..Len(Prefill) : Prefill[j] = k
      BY <1>6, <2>7
    <3>2. bin[1] = 0
      <4>1. bin[1] \in Nat
        BY BinIdGen DEF Gen
      <4>2. ~(bin[1] > 0)
        BY <1>4, <2>7, OldOfType DEF Current, BinNoTransfer, BinDoneTransfer
      <4> QED BY <4>1, <4>2
    <3>3. j \in PrefillIn(bin)
      BY <2>7, <3>1, <3>2 DEF PrefillIn, BinOf
    <3>4. PICK i : i = Cardinality({x \in PrefillIn(bin) : x < j})
      OBVIOUS
    <3>5. i \in SlotIdx /\ i < Cardinality(PrefillIn(bin))
      <4> DEFINE B == {x \in PrefillIn(bin) : x < j}
      <4>1. B \subseteq PrefillIn(bin) \ {j}
        BY <2>1, <3>3
      <4>2. IsFiniteSet(PrefillIn(bin) \ {j}) /\ Cardinality(PrefillIn(bin) \ {j}) = Cardinality(PrefillIn(bin)) - 1
        <5>1. Cardinality(PrefillIn(bin) \ {j}) =
                IF j \in PrefillIn(bin) THEN Cardinality(PrefillIn(bin)) - 1 ELSE Cardinality(PrefillIn(bin))
          BY <2>1, FS_RemoveElement
        <5> QED BY <2>1, <3>3, <5>1, FS_RemoveElement
      <4>3. IsFiniteSet(B) /\ Cardinality(B) <= Cardinality(PrefillIn(bin) \ {j})
        BY <4>1, <4>2, FS_Subset
      <4>4. Cardinality(B) \in Nat /\ Cardinality(PrefillIn(bin)) \in Nat
        BY <2>1, <4>3, FS_CardinalityType
      <4>5. MaxSlots \in Nat /\ Cardinality(PrefillIn(bin)) <= MaxSlots
        BY SizeAssumption, PrefillAssumption DEF MaxSlots
      <4> QED BY <3>4, <4>2, <4>3, <4>4, <4>5 DEF SlotIdx
    <3>6. header[bin].ss[i] = SlotValid
      BY <3>5 DEF Init
    <3>7. PICK m \in PrefillIn(bin) : /\ Cardinality({x \in PrefillIn(bin) : x < m}) = i
                                      /\ EntryAt(bin, i) = [key |-> Prefill[m], val |-> InitVal]
      BY <3>5, <3>6, PrefillSlot DEF EntryAt
    <3>8. m = j
      BY <2>1, <3>3, <3>4, <3>7, SameRank
    <3>9. EntryAt(bin, i) # Nil
      <4>1. EntryAt(bin, i) \in [key : Key, val : Value]
        BY <2>2, <3>7 DEF Value
      <4> QED BY <4>1, MarkerAssumption
    <3> QED BY <3>1, <3>5, <3>6, <3>7, <3>8, <3>9 DEF Has, Full
  <2> QED BY <2>4, <2>5, <2>6, <2>7 DEF CurrentInv
<1> QED
  BY <1>2, <1>3, <1>7 DEF CInv

\* Every step keeps the invariant of the contents, as long as no version wraps.
LEMMA NextC ==
  ASSUME IInv, EntryType, IInv', RInv, LInv, LInv', SInv, CInv, NoWrap, [Next]_vars
  PROVE  CInv' /\ FindsNoMore
<1>1. CASE UNCHANGED vars
  <2>1. UNCHANGED <<header, linkMeta, slotKey, slotVal, pc, call, res, map, seen, scan, xfer>>
    BY <1>1 DEF vars
  <2>2. \A bin \in BinId : BinSame(bin) /\ header'[bin] = header[bin]
    BY <2>1 DEF BinSame, SlotSame, EntrySame, Full, EntryAt, KeyAt, SlotLoc
  <2>3. \A bin \in BinId : PlaceInv(bin)' /\ CurrentInv(bin)'
    BY <2>1, <2>2, SameContent
  <2>4. ASSUME NEW t \in Thread, pc'[t] \in MovePC PROVE FrozenInv(t)' /\ CopyInv(t)'
    <3>1. PICK b : b = OldBin(t)
      OBVIOUS
    <3>2. pc[t] \in MovePC /\ pc'[t] = pc[t] /\ xfer'[t] = xfer[t]
      BY <2>1, <2>4
    <3>3. b \in BinId
      BY <3>1, <3>2, MoverBin DEF MovePC
    <3>4. OldBin(t)' = b /\ \A i \in SlotIdx : (Left(t, i)' <=> Left(t, i)) /\ (Mine(t, i)' <=> Mine(t, i))
      BY <3>1, <3>2, SameLeft
    <3>5. BinSame(b) /\ \A nb \in NewBins(b) : \A j \in SlotIdx : EntrySame(nb, j)
      BY <2>2, <3>3 DEF NewBins, BinSame, SlotSame
    <3> QED BY <3>1, <3>2, <3>4, <3>5, SameMove
  <2>5. ASSUME NEW t \in Thread PROVE SeenInv(t)' /\ LookInv(t)'
    <3>1. SeenInv(t) /\ LookInv(t)
      BY DEF CInv
    <3>2. SeenInv(t)'
      BY <2>1, <3>1 DEF SeenInv
    <3>3. /\ Validated(t)' <=> Validated(t)
          /\ Remaining(t)' = Remaining(t)
          /\ \A i, k : Has(Bin(t), i, k)' <=> Has(Bin(t), i, k)
      BY <2>1 DEF Validated, Remaining, Has, Full, EntryAt, SlotLoc, Bin, hash
    <3>4. LookInv(t)'
      BY <2>1, <3>1, <3>3 DEF LookInv
    <3> QED BY <3>2, <3>4
  <2>6. FindsNoMore
    BY <2>2, SameFinds DEF BinSame, SlotSame
  <2> QED BY <2>3, <2>4, <2>5, <2>6 DEF CInv
<1>2. ASSUME NEW t \in Thread, Invoke(t) PROVE CInv' /\ FindsNoMore
  BY <1>2, InvokeC
<1>3. ASSUME NEW t \in Thread, Step(t) PROVE CInv' /\ FindsNoMore
  BY <1>3, ScanC, SlotC, InsertC, ResizeC DEF Step
<1>4. CASE Finished
  BY <1>1, <1>4 DEF Finished
<1> QED
  BY <1>1, <1>2, <1>3, <1>4 DEF Next

\* CInv is an invariant of the map for as long as no version wraps: the entries of a key
\* are where the map has them, the transfer has copied what it has taken, and a lookup
\* that can still validate its header knows where its key is.
THEOREM ContentsInductive == Spec /\ []NoWrap => []CInv
<1>1. Init => CInv
  BY InitC
<1>2. IInv /\ EntryType /\ IInv' /\ RInv /\ LInv /\ LInv' /\ SInv /\ NoWrap /\ CInv /\ [Next]_vars => CInv'
  BY NextC
<1> QED
  BY <1>1, <1>2, Inductive, ResizeInductive, LinksInductive, SlotsInductive, PTL DEF Spec

\* There is a first generation in which the bin of a key is not done, because that of the
\* last generation never is: this bin is current.
LEMMA AuthorityCurrent ==
  ASSUME IInv, RInv, NEW k \in Key
  PROVE  Authority(k) \in BinId /\ Current(Authority(k)) /\ BinOf(Authority(k), k)
<1>1. PICK done : done = {g \in Gen : header[getBin(g, Hash[k])].bs = BinDoneTransfer}
  OBVIOUS
<1>2. Hash[k] \in Nat /\ MaxGen \in Nat /\ MaxGen \in Gen /\ Gen = 0..MaxGen
  BY SizeAssumption DEF Gen
<1>3. MaxGen \notin done
  <2> SUFFICES ASSUME MaxGen \in done PROVE FALSE
    OBVIOUS
  <2>1. getBin(MaxGen, Hash[k]) \in BinId /\ getBin(MaxGen, Hash[k])[1] = MaxGen
    BY <1>2, GetBinType
  <2>2. MaxGen \in 0..(MaxGen - 1)
    BY <1>1, <2>1, MarkedStarted DEF BinDoneTransfer, BinNoTransfer
  <2> QED BY <1>2, <2>2
<1>4. \E g \in Gen \ done : 0..(g - 1) \subseteq done
  <2>1. Gen \ done \subseteq Nat /\ Gen \ done # {}
    BY <1>2, <1>3
  <2>2. PICK g \in Gen \ done : \A f \in Gen \ done : g <= f
    BY <2>1, HasLeast
  <2>3. ASSUME NEW f \in 0..(g - 1) PROVE f \in done
    <3>1. g \in 0..MaxGen
      BY <1>2
    <3>2. f \in Gen /\ ~(g <= f)
      BY <1>2, <3>1
    <3> QED BY <2>2, <3>2
  <2> QED BY <2>3
<1>5. PICK g \in Gen \ done : 0..(g - 1) \subseteq done /\ Authority(k) = getBin(g, Hash[k])
  BY <1>1, <1>4 DEF Authority
<1>6. PICK bin \in BinId : bin = getBin(g, Hash[k]) /\ bin[1] = g
  BY <1>2, <1>5, GetBinType
<1>7. BinOf(bin, k)
  BY <1>6 DEF BinOf
<1>8. header[bin].bs # BinDoneTransfer
  BY <1>1, <1>5, <1>6
<1>9. ASSUME bin[1] > 0 PROVE header[OldOf(bin)].bs = BinDoneTransfer
  <2>1. OldOf(bin) = getBin(g - 1, Hash[k])
    BY <1>6, <1>7, <1>9, KeyBin
  <2>2. g - 1 \in 0..(g - 1)
    BY <1>2, <1>6, <1>9
  <2>3. g - 1 \in done
    BY <1>5, <2>2
  <2> QED BY <1>1, <2>1, <2>3
<1> QED
  BY <1>5, <1>6, <1>7, <1>8, <1>9 DEF Current

\* The slots in which a key is found are those of its current bin that have it.
LEMMA CopiesHas ==
  ASSUME NEW k \in Key, NEW bin, bin = Authority(k)
  PROVE  /\ \A loc \in Copies(k) : \E i \in SlotIdx : loc = SlotLoc(bin, i) /\ Has(bin, i, k)
         /\ \A i \in SlotIdx : Has(bin, i, k) => SlotLoc(bin, i) \in Copies(k)
<1>1. Copies(k) = {loc \in {LocVia(linkMeta[bin], bin, i) : i \in {j \in SlotIdx : header[bin].ss[j] = SlotValid}} :
                     slotVal[loc] # Nil /\ slotVal[loc].key = k}
  BY DEF Copies
<1> QED
  BY <1>1 DEF Has, Full, EntryAt, SlotLoc

\* A key is in at most one slot of its bin, in every interleaving of Inserts with each
\* other, with deletes and with a transfer.
THEOREM KeysNeverDuplicate == Spec /\ []NoWrap => []NoDuplicateKeys
<1>1. ASSUME IInv, EntryType, RInv, CInv PROVE NoDuplicateKeys
  <2> SUFFICES ASSUME NEW k \in Key, NEW loc \in Copies(k), NEW other \in Copies(k) PROVE loc = other
    BY DEF NoDuplicateKeys
  <2>1. PICK bin : bin = Authority(k)
    OBVIOUS
  <2>2. CurrentInv(bin) /\ Current(bin)
    BY <1>1, <2>1, AuthorityCurrent DEF CInv
  <2>3. PICK i \in SlotIdx : loc = SlotLoc(bin, i) /\ Has(bin, i, k)
    BY <2>1, CopiesHas
  <2>4. PICK j \in SlotIdx : other = SlotLoc(bin, j) /\ Has(bin, j, k)
    BY <2>1, CopiesHas
  <2>5. i = j
    BY <2>2, <2>3, <2>4 DEF CurrentInv, Has
  <2> QED BY <2>3, <2>4, <2>5
<1> QED
  BY <1>1, Inductive, ResizeInductive, ContentsInductive, PTL

\* What the memory holds is the abstract map, at every moment of every transfer.
THEOREM MemoryAlwaysHoldsMap == Spec /\ []NoWrap => []MemoryHoldsMap
<1>1. ASSUME IInv, EntryType, RInv, CInv PROVE MemoryHoldsMap
  <2>1. ASSUME NEW k \in Key PROVE Lookup(k) = map[k]
    <3>1. PICK bin : bin = Authority(k)
      OBVIOUS
    <3>2. CurrentInv(bin) /\ Current(bin) /\ BinOf(bin, k)
      BY <1>1, <3>1, AuthorityCurrent DEF CInv
    <3>3. CASE Copies(k) = {}
      <4>1. \A i \in SlotIdx : ~Has(bin, i, k)
        BY <3>1, <3>3, CopiesHas
      <4>2. map[k] = Absent
        BY <3>2, <4>1 DEF CurrentInv
      <4> QED BY <3>3, <4>2 DEF Lookup
    <3>4. CASE Copies(k) # {}
      <4>1. PICK loc \in Copies(k) : Lookup(k) = slotVal[loc].val
        BY <3>4 DEF Lookup
      <4>2. PICK i \in SlotIdx : loc = SlotLoc(bin, i) /\ Has(bin, i, k)
        BY <3>1, <4>1, CopiesHas
      <4>3. map[EntryAt(bin, i).key] = EntryAt(bin, i).val /\ EntryAt(bin, i).key = k
        BY <3>2, <4>2 DEF CurrentInv, Has
      <4> QED BY <4>1, <4>2, <4>3 DEF EntryAt
    <3> QED BY <3>3, <3>4
  <2>2. map \in [Key -> Value \cup {Absent}]
    BY <1>1 DEF IInv, BaseType, ApiType
  <2>3. \A k \in Key : Contents[k] = map[k]
    BY <2>1 DEF Contents
  <2>4. Contents = [k \in Key |-> Contents[k]] /\ map = [k \in Key |-> map[k]]
    BY <2>2 DEF Contents
  <2> QED BY <2>3, <2>4 DEF MemoryHoldsMap
<1> QED
  BY <1>1, Inductive, ResizeInductive, ContentsInductive, PTL

-----------------------------------------------------------------------------
(* The operations implement AtomicMap.                                     *)

\* Where the map stays, the other calls have seen what they will.
LEMMA SeenStays ==
  ASSUME IInv, CInv, NEW t \in Thread, map' = map, Observe,
         \A u \in Thread \ {t} : call'[u] = call[u] /\ res'[u] = res[u],
         NEW S, S = IF res'[t] # Pending THEN {} ELSE seen[t] \cup {map[call'[t].key]}
  PROVE  seen' = [seen EXCEPT ![t] = S]
<1>1. \A u \in Thread : seen'[u] = IF res'[u] # Pending THEN {} ELSE seen[u] \cup {map'[call'[u].key]}
  BY DEF Observe
<1>2. ASSUME NEW u \in Thread \ {t} PROVE seen'[u] = seen[u]
  <2>1. SeenInv(u) /\ res'[u] = res[u] /\ map'[call'[u].key] = map[call[u].key]
    BY DEF CInv
  <2>2. CASE res[u] = Pending
    <3>1. map[call[u].key] \in seen[u]
      BY <2>1, <2>2 DEF SeenInv
    <3>2. seen'[u] = seen[u] \cup {map[call[u].key]}
      BY <1>1, <2>1, <2>2
    <3> QED BY <3>1, <3>2
  <2>3. CASE res[u] # Pending
    BY <1>1, <2>1, <2>3 DEF SeenInv
  <2> QED BY <2>2, <2>3
<1>3. seen'[t] = S
  BY <1>1
<1>4. seen' = [u \in Thread |-> seen'[u]]
  BY DEF Observe
<1>5. [seen EXCEPT ![t] = S] = [u \in Thread |-> IF u = t THEN S ELSE seen[u]]
  BY DEF IInv, BaseType, ApiType
<1> QED
  BY <1>2, <1>3, <1>4, <1>5

\* An answer is not the marker of a call that is running.
LEMMA AnswerDone ==
  ASSUME NEW v \in Value \cup {Absent}, NEW ok \in BOOLEAN
  PROVE  [val |-> v, ok |-> ok] # Pending
<1>1. PICK r : r = [val |-> v, ok |-> ok]
  OBVIOUS
<1>2. r \in [val : Value \cup {Absent}, ok : BOOLEAN]
  BY <1>1
<1> QED
  BY <1>1, <1>2, MarkerAssumption

\* A call begins.
LEMMA InvokeA ==
  ASSUME IInv, IInv', SInv, CInv, NEW t \in Thread, Invoke(t)
  PROVE  A!Invoke(t)
<1>1. /\ pc[t] = "idle" /\ Observe /\ map' = map
      /\ pc' = [pc EXCEPT ![t] = "active"]
      /\ res' = [res EXCEPT ![t] = Pending]
      /\ \E c \in Calls[t] :
           call' = [call EXCEPT ![t] = [kind |-> c.kind, key |-> c.key, val |-> <<t, calls[t] + 1>>]]
  BY DEF Invoke, Goto
<1>2. PICK c : call' = [call EXCEPT ![t] = c]
  BY <1>1
<1>3. /\ pc'[t] = "active" /\ call'[t] = c /\ res'[t] = Pending
      /\ \A u \in Thread \ {t} : call'[u] = call[u] /\ res'[u] = res[u]
  BY <1>1, <1>2 DEF IInv, BaseType, BaseLocal, ApiType
<1>4. c \in A!Call
  <2>1. call'[t] \in CallRec
    BY <1>3 DEF IInv, ThreadInv
  <2> QED BY <1>3, <2>1 DEF CallRec, Kind, A!Call, A!Kind
<1>5. res[t] # Pending /\ seen[t] = {}
  BY <1>1 DEF SInv, CallInv, Returned, CInv, SeenInv
<1>6. seen' = [seen EXCEPT ![t] = {map[c.key]}]
  <2>1. PICK S : S = {map[c.key]}
    OBVIOUS
  <2>2. S = IF res'[t] # Pending THEN {} ELSE seen[t] \cup {map[call'[t].key]}
    BY <1>3, <1>5, <2>1
  <2> QED BY <1>1, <1>3, <2>1, <2>2, SeenStays
<1> QED
  BY <1>1, <1>2, <1>4, <1>5, <1>6 DEF A!Invoke

\* The validation that confirms an answer: the value found is one that the key had while
\* the call was running, or the key was absent then.
LEMMA CheckAnswerA ==
  ASSUME IInv, EntryType, RInv, LInv, SInv, CInv, NEW t \in Thread, CheckAnswer(t)
  PROVE  A!Observe(t)
<1>0. PICK e, v, r : /\ e = scan[t].ent /\ v = (IF e = Nil THEN Absent ELSE e.val)
                     /\ r = [val |-> v, ok |-> (call[t].kind = "Get" /\ e # Nil)]
  OBVIOUS
<1>1. /\ pc[t] = "check" /\ Validated(t) /\ Observe /\ map' = map /\ call' = call
      /\ res' = [res EXCEPT ![t] = r]
      /\ call[t].kind \in {"Get", "Insert"} \/ e = Nil
  BY <1>0 DEF CheckAnswer, Reply
<1>2. /\ call[t] \in CallRec /\ call[t].key \in Key /\ res[t] = Pending
      /\ res \in [Thread -> Answer \cup {Pending}] /\ scan[t] \in BaseScan
  <2>1. call[t] \in CallRec
    BY <1>1, BinType
  <2>2. res[t] = Pending
    BY <1>1 DEF SInv, CallInv, Returned, UnresPC
  <2> QED BY <2>1, <2>2, Locals DEF IInv, BaseType, ApiType, CallRec
<1>3. v \in Value \cup {Absent} /\ (v = Absent <=> e = Nil)
  <2>1. e \in Entry \cup {Nil}
    BY <1>0 DEF EntryType
  <2>2. e # Nil => e.val \in Value
    BY <2>1 DEF Entry
  <2> QED BY <1>0, <2>2, MarkerAssumption
<1>4. r # Pending /\ res'[t] = r
  BY <1>0, <1>1, <1>2, <1>3, AnswerDone
<1>5. v \in seen[t]
  <2>1. LookInv(t) /\ SeenInv(t) /\ pc[t] \in HeadPC
    BY <1>1 DEF CInv, HeadPC
  <2>2. CASE e # Nil
    BY <1>0, <1>1, <2>1, <2>2 DEF LookInv
  <2>3. CASE e = Nil
    <3>1. Remaining(t) = {}
      BY <1>1 DEF Remaining
    <3>2. \A i \in SlotIdx : ~Has(Bin(t), i, call[t].key)
      BY <1>0, <1>1, <2>1, <2>3, <3>1 DEF LookInv
    <3>3. Bin(t) \in BinId /\ Current(Bin(t)) /\ BinOf(Bin(t), call[t].key) /\ CurrentInv(Bin(t))
      BY <1>1, <2>1, LookCurrent
    <3>4. map[call[t].key] = Absent
      BY <1>2, <3>2, <3>3 DEF CurrentInv
    <3> QED BY <1>0, <1>2, <2>1, <2>3, <3>4 DEF SeenInv
  <2> QED BY <2>2, <2>3
<1>6. call[t].kind = "Insert" => e # Nil
  <2>1. LookInv(t)
    BY DEF CInv
  <2> QED BY <1>0, <1>1, <2>1 DEF LookInv
<1>7. r \in A!Unchanging(call[t], v)
  <2>1. CASE call[t].kind = "Get"
    BY <1>0, <1>3, <2>1 DEF A!Unchanging
  <2>2. CASE call[t].kind = "Insert"
    BY <1>0, <1>3, <1>6, <2>2 DEF A!Unchanging
  <2>3. CASE call[t].kind \notin {"Get", "Insert"}
    BY <1>0, <1>1, <1>3, <2>3 DEF A!Unchanging, A!Failed
  <2> QED BY <2>1, <2>2, <2>3
<1>8. seen' = [seen EXCEPT ![t] = {}]
  <2>1. \A u \in Thread \ {t} : call'[u] = call[u] /\ res'[u] = res[u]
    BY <1>1, <1>2
  <2>2. PICK S : S = {}
    OBVIOUS
  <2>3. S = IF res'[t] # Pending THEN {} ELSE seen[t] \cup {map[call'[t].key]}
    BY <1>4, <2>2
  <2> QED BY <1>1, <2>1, <2>2, <2>3, SeenStays
<1> QED
  BY <1>1, <1>2, <1>4, <1>5, <1>7, <1>8 DEF A!Observe, A!Answered

\* What an operation that changes the map does, if its call is effective then.
LEMMA UpdateA ==
  ASSUME IInv, CInv, NEW t \in Thread, res[t] = Pending, call' = call, Observe,
         NEW v \in Value \cup {Absent}, v = map[call[t].key], Reply(t, v, TRUE),
         Effect(t, IF call[t].kind = "Delete" THEN Absent ELSE call[t].val),
         \/ call[t].kind = "Insert" /\ v = Absent
         \/ call[t].kind \in {"Put", "Delete"} /\ v # Absent
  PROVE  A!Update(t)
<1>1. /\ res' = [res EXCEPT ![t] = [val |-> v, ok |-> TRUE]]
      /\ map' = [map EXCEPT ![call[t].key] = IF call[t].kind = "Delete" THEN Absent ELSE call[t].val]
      /\ seen' = [u \in Thread |-> IF res'[u] # Pending THEN {} ELSE seen[u] \cup {map'[call'[u].key]}]
  BY DEF Reply, Effect, Observe
<1>2. res'[t] = [val |-> v, ok |-> TRUE] /\ res'[t] # Pending
  BY <1>1, AnswerDone DEF IInv, BaseType, ApiType
<1>3. A!Answered(t)
  BY <1>2 DEF A!Answered
<1>4. A!Effective(call[t])
  BY DEF A!Effective
<1>5. map' = A!After(call[t])
  BY <1>1 DEF A!After
<1>6. res' = [res EXCEPT ![t] = [val |-> map[call[t].key], ok |-> TRUE]]
  BY <1>1
<1>7. seen' = [u \in Thread |-> IF res'[u] # Pending THEN {} ELSE seen[u] \cup {map'[call[u].key]}]
  BY <1>1
<1> QED
  BY <1>3, <1>4, <1>5, <1>6, <1>7 DEF A!Update

\* The DWCAS of Put or Delete: the entry that it replaces is what the map has.
LEMMA DWCASHitA ==
  ASSUME IInv, EntryType, RInv, LInv, SInv, CInv, NEW t \in Thread, DWCASHit(t)
  PROVE  A!Update(t)
<1>0. PICK b, i, v : b = Bin(t) /\ i = scan[t].slot /\ v = scan[t].ent.val
  OBVIOUS
<1>1. pc[t] = "dwcas" /\ call' = call /\ Observe /\ Reply(t, v, TRUE)
  BY <1>0 DEF DWCASHit
<1>2. res[t] = Pending /\ call[t].kind \in {"Put", "Delete"}
  BY <1>1 DEF SInv, CallInv, Returned, UnresPC, SlotPC
<1>3. /\ b \in BinId /\ i \in SlotIdx /\ Has(b, i, call[t].key) /\ EntryAt(b, i) = scan[t].ent
      /\ map[call[t].key] = v
  BY <1>0, HitCurrent
<1>4. v \in Value /\ v # Absent
  BY <1>0, <1>3, FullSlot, MarkerAssumption DEF Has
<1>5. Effect(t, IF call[t].kind = "Delete" THEN Absent ELSE call[t].val)
  <2>1. (IF call[t].kind = "Put" THEN call[t].val ELSE Absent)
          = IF call[t].kind = "Delete" THEN Absent ELSE call[t].val
    BY <1>2
  <2> QED BY <2>1 DEF DWCASHit
<1> QED
  BY <1>1, <1>2, <1>3, <1>4, <1>5, UpdateA

\* The CAS to Valid of Insert: the key is absent then.
LEMMA finalizeSlotA ==
  ASSUME IInv, RInv, LInv, SInv, CInv, NEW t \in Thread, finalizeSlot(t), Validated(t)
  PROVE  A!Update(t)
<1>1. /\ pc[t] = "finalize" /\ call' = call /\ Observe /\ Reply(t, Absent, TRUE)
      /\ Effect(t, call[t].val)
  BY DEF finalizeSlot
<1>2. res[t] = Pending /\ call[t].kind = "Insert" /\ call[t].key \in Key
  <2>1. call[t] \in CallRec
    BY <1>1, BinType
  <2>2. res[t] = Pending /\ call[t].kind = "Insert"
    BY <1>1, AtOwn DEF OwnPC, UnresPC
  <2> QED BY <2>1, <2>2 DEF CallRec
<1>3. map[call[t].key] = Absent
  <2>1. pc[t] \in HeadPC /\ \A j \in SlotIdx : ~Has(Bin(t), j, call[t].key)
    BY <1>1, AtRest DEF RestPC
  <2>2. Bin(t) \in BinId /\ Current(Bin(t)) /\ BinOf(Bin(t), call[t].key) /\ CurrentInv(Bin(t))
    BY <2>1, LookCurrent
  <2> QED BY <1>2, <2>1, <2>2 DEF CurrentInv
<1>4. Effect(t, IF call[t].kind = "Delete" THEN Absent ELSE call[t].val)
  BY <1>1, <1>2
<1> QED
  BY <1>1, <1>2, <1>3, <1>4, UpdateA

\* Every other step is of no concern to the callers.
LEMMA SilentA ==
  ASSUME IInv, NEW t \in Thread, Step(t), ~CheckAnswer(t), ~DWCASHit(t), ~(finalizeSlot(t) /\ Validated(t))
  PROVE  UNCHANGED <<map, call, res, seen>>
<1>1. CASE ScanStep(t)
  BY <1>1 DEF ScanStep, LoadActive, LoadHeader, Follow, MatchKeys, Probe, LoadLinks, CheckStale, CheckTarget, api
<1>2. CASE SlotStep(t)
  BY <1>2 DEF SlotStep, DWCASMiss, LoopHeader, LoopKey, LoopVal, LoopCheck, LoopTTAS, markSlotInvalid, api
<1>3. CASE InsertStep(t)
  <2>1. CASE finalizeSlot(t)
    BY <2>1 DEF finalizeSlot, api
  <2>2. CASE ~finalizeSlot(t)
    BY <1>3, <2>2 DEF InsertStep, ChooseHeader, ChooseLinks, allocateLink, allocateLinkPair, Allocate, attachSingle,
       attachPair, reserveSlot, FillKey, FillVal, LoadHeader2, UnreserveLoad, UnreserveClear, UnreserveCAS, api
  <2> QED BY <2>1, <2>2
<1>4. CASE ResizeStep(t)
  BY <1>4, ResizeLook
<1> QED
  BY <1>1, <1>2, <1>3, <1>4 DEF Step

\* The map is linearizable: its calls and answers are those of AtomicMap, in which every
\* operation takes effect in one step between its call and its return.  Put, Delete and
\* Insert do so with the DWCAS or the CAS to Valid, any other call at some moment before
\* it validates its header.
THEOREM AlwaysLinearizable == Spec /\ []NoWrap => Linearizable
<1>1. Init => A!Init
  BY DEF Init, A!Init, A!Failed
<1>2. ASSUME IInv, EntryType, IInv', RInv, LInv, SInv, CInv, [Next]_vars
      PROVE  [A!Next]_(A!vars)
  <2>1. ASSUME NEW t \in Thread, Invoke(t) PROVE A!Next
    BY <1>2, <2>1, InvokeA DEF A!Next
  <2>2. ASSUME NEW t \in Thread, Step(t) PROVE A!Next \/ UNCHANGED <<map, call, res, seen>>
    <3>1. CASE CheckAnswer(t)
      BY <1>2, <3>1, CheckAnswerA DEF A!Next
    <3>2. CASE DWCASHit(t)
      BY <1>2, <3>2, DWCASHitA DEF A!Next
    <3>3. CASE finalizeSlot(t) /\ Validated(t)
      BY <1>2, <3>3, finalizeSlotA DEF A!Next
    <3>4. CASE ~CheckAnswer(t) /\ ~DWCASHit(t) /\ ~(finalizeSlot(t) /\ Validated(t))
      BY <1>2, <2>2, <3>4, SilentA
    <3> QED BY <3>1, <3>2, <3>3, <3>4
  <2>3. CASE Finished \/ UNCHANGED vars
    BY <2>3 DEF Finished, vars, A!vars
  <2> QED BY <1>2, <2>1, <2>2, <2>3 DEF Next, A!vars
<1>3. IInv /\ EntryType /\ IInv' /\ RInv /\ LInv /\ SInv /\ CInv /\ [Next]_vars => [A!Next]_(A!vars)
  BY <1>2
<1> QED
  BY <1>1, <1>3, Inductive, ResizeInductive, LinksInductive, SlotsInductive, ContentsInductive, PTL
  DEF Spec, Linearizable, A!Spec
=============================================================================
