----------------------------- MODULE SlotProofs -----------------------------
(***************************************************************************)
(* Theorems about the headers and slots of AllocatorMap: no header comes   *)
(* back, and a slot that is Trying belongs to one Insert.  The invariant   *)
(* SInv is inductive relative to IInv, RInv and LInv, for as long as no    *)
(* version wraps: every claim that rests on comparing whole header words   *)
(* does.                                                                   *)
(***************************************************************************)
EXTENDS LinkProofs

-----------------------------------------------------------------------------
(* The inductive invariant of headers and slots.                           *)

\* The changes of a header go one way: the version counts up, or the bin state does,
\* or Valid slots are dropped
Before(old, new) ==
  \/ old.ver < new.ver
  \/ old.ver = new.ver /\ old.bs < new.bs
  \/ /\ old.ver = new.ver /\ old.bs = new.bs
     /\ \A i \in SlotIdx : \/ new.ss[i] = old.ss[i]
                           \/ old.ss[i] = SlotValid /\ new.ss[i] = SlotInvalid

\* No header has been changed 2^32 times
NoWrap == \A bin \in BinId : header[bin].ver < VersionMod - 1

\* The places at which a goroutine holds a header to compare with
SeqPC == HeadPC \cup {"loopKey", "loopVal", "loopCheck"}
HeadInv(t) ==
  /\ pc[t] \in SeqPC => Before(scan[t].h, header[Bin(t)])
  /\ pc[t] \in {"unresClear", "unresCAS"} => ins[t].h.bs = BinNoTransfer
  /\ pc[t] \in {"load", "follow"} => scan[t].slot = NoSlot

\* The slot that Insert is about to reserve is free in the header it compares with,
\* if that header is still there
PickInv(t) ==
  pc[t] \in ChoicePC /\ Validated(t) =>
    /\ pc[t] = "chooseLinks" => ins[t].h = scan[t].h
    /\ pc[t] \in {"allocLink", "attachSingle"} => scan[t].h.ss[PRIMARY_SLOTS] = SlotInvalid
    /\ pc[t] \in {"allocPair", "attachPair"} => scan[t].h.ss[firstPairSlot] = SlotInvalid
    /\ pc[t] = "reserve" /\ invalidMask(scan[t].h, 0) = {} => scan[t].h.ss[ins[t].pick] = SlotInvalid

\* The call of t is answered, though it may have to tidy up
Returned(t) == pc[t] \in {"idle", "mark"} \/ (pc[t] \in UnresPC /\ ins[t].cont = "idle")
CallInv(t) ==
  /\ res[t] = Pending <=> ~Returned(t)
  /\ pc[t] # "idle" => call[t].val = <<t, calls[t]>> /\ calls[t] \in 1..MaxCalls[t]
  /\ pc[t] \in SlotPC => call[t].kind \in {"Put", "Delete"}
  /\ pc[t] = "mark" => call[t].kind = "Delete"
  /\ pc[t] \in InsertPC => call[t].kind = "Insert"

\* The value is not one that a running or a future call brings
Settled(v) == \/ v = InitVal
              \/ v[2] < calls[v[1]]
              \/ v[2] = calls[v[1]] /\ res[v[1]] # Pending

EntryAt(bin, i) == slotVal[SlotLoc(bin, i)]
KeyAt(bin, i) == slotKey[SlotLoc(bin, i)]

\* Put and Delete: the slot to which their DWCAS and Delete's AND go
LoopPC == {"loopKey", "loopVal", "loopCheck"}
AimPC == {"dwcas", "loopTTAS"}
Marks(t, bin, i) == pc[t] = "mark" /\ Bin(t) = bin /\ scan[t].slot = i
Aims(t) == pc[t] = "check" /\ call[t].kind \in {"Put", "Delete"} /\ scan[t].ent # Nil
TargetInv(t) ==
  /\ pc[t] \in LoopPC \/ Aims(t) => scan[t].h.ss[scan[t].slot] = SlotValid
  /\ pc[t] \in {"check", "loopCheck"} /\ scan[t].ent # Nil =>
       scan[t].ent.key = call[t].key /\ (Validated(t) => Settled(scan[t].ent.val))
  /\ pc[t] \in AimPC =>
       /\ scan[t].ent.key = call[t].key /\ Settled(scan[t].ent.val)
       /\ EntryAt(Bin(t), scan[t].slot) = scan[t].ent => header[Bin(t)].ss[scan[t].slot] = SlotValid
  /\ \A bin \in BinId, i \in SlotIdx : Marks(t, bin, i) => header[bin].ss[i] = SlotValid /\ EntryAt(bin, i) = Nil

\* Insert: the slot it reserved
OwnInv(t) ==
  \A bin \in BinId, i \in SlotIdx : Owns(t, bin, i) =>
    /\ header[bin].ss[i] = SlotTrying
    /\ pc[t] \notin UnresPC \cup {"fillKey"} => KeyAt(bin, i) = hash(t)
    /\ pc[t] \notin UnresPC \cup {"fillKey", "fillVal"} => EntryAt(bin, i) = NewEntry(t)
ApartInv ==
  \A t, u \in Thread : \A bin \in BinId, i \in SlotIdx :
     (Owns(t, bin, i) /\ Owns(u, bin, i)) \/ (Marks(t, bin, i) /\ Marks(u, bin, i)) => t = u

\* The transfer: its snapshot differs from the header only in slots deleted meanwhile
SnapInv(t) ==
  /\ header[OldBin(t)].ver = xfer[t].h.ver
  /\ \A i \in SlotIdx :
       \/ header[OldBin(t)].ss[i] = xfer[t].h.ss[i]
       \/ /\ xfer[t].h.ss[i] = SlotValid /\ header[OldBin(t)].ss[i] = SlotInvalid
          /\ EntryAt(OldBin(t), i) = Nil

EntryInv(bin) ==
  \A i \in SlotIdx : header[bin].ss[i] = SlotValid /\ EntryAt(bin, i) # Nil => Settled(EntryAt(bin, i).val)
TryInv(bin) ==
  header[bin].bs = BinNoTransfer =>
    \A i \in SlotIdx : header[bin].ss[i] = SlotTrying => \E t \in Thread : Owns(t, bin, i)

SInv == /\ \A t \in Thread : HeadInv(t) /\ PickInv(t) /\ CallInv(t) /\ TargetInv(t) /\ OwnInv(t)
        /\ \A t \in Thread : pc[t] \in MovePC => SnapInv(t)
        /\ \A bin \in BinId : EntryInv(bin) /\ TryInv(bin)
        /\ ApartInv

-----------------------------------------------------------------------------
(* Headers go one way.                                                     *)

\* The order of headers is one: what comes back has not changed.
LEMMA BeforeOrder ==
  ASSUME NEW a \in Header, NEW b \in Header
  PROVE  /\ Before(a, a)
         /\ Before(a, b) /\ Before(b, a) => a = b
         /\ \A c \in Header : Before(a, b) /\ Before(b, c) => Before(a, c)
<1> USE DEF SlotValid, SlotInvalid
<1>1. /\ a.ver \in Int /\ b.ver \in Int /\ a.bs \in Int /\ b.bs \in Int
      /\ \A c \in Header : c.ver \in Int /\ c.bs \in Int
  BY SizeAssumption DEF Header, BinState
<1>2. Before(a, a)
  BY DEF Before
<1>3. Before(a, b) /\ Before(b, a) => a = b
  <2> SUFFICES ASSUME Before(a, b), Before(b, a) PROVE a = b
    OBVIOUS
  <2>1. a.ver = b.ver /\ a.bs = b.bs
    BY <1>1 DEF Before
  <2>2. \A i \in SlotIdx : a.ss[i] = b.ss[i]
    BY <1>1, <2>1 DEF Before
  <2>3. a.ss = b.ss
    BY <2>2 DEF Header
  <2> QED
    BY <2>1, <2>3 DEF Header
<1>4. ASSUME NEW c \in Header, Before(a, b), Before(b, c) PROVE Before(a, c)
  <2>1. CASE a.ver < b.ver \/ b.ver < c.ver
    BY <1>1, <1>4, <2>1 DEF Before
  <2>2. CASE a.ver = b.ver /\ b.ver = c.ver /\ (a.bs < b.bs \/ b.bs < c.bs)
    BY <1>1, <1>4, <2>2 DEF Before
  <2>3. CASE a.ver = b.ver /\ b.ver = c.ver /\ a.bs = b.bs /\ b.bs = c.bs
    <3>1. \A i \in SlotIdx : \/ c.ss[i] = a.ss[i]
                             \/ a.ss[i] = SlotValid /\ c.ss[i] = SlotInvalid
      <4> SUFFICES ASSUME NEW i \in SlotIdx
                   PROVE  c.ss[i] = a.ss[i] \/ (a.ss[i] = SlotValid /\ c.ss[i] = SlotInvalid)
        OBVIOUS
      <4>1. b.ss[i] = a.ss[i] \/ (a.ss[i] = SlotValid /\ b.ss[i] = SlotInvalid)
        BY <1>1, <1>4, <2>3 DEF Before
      <4>2. c.ss[i] = b.ss[i] \/ (b.ss[i] = SlotValid /\ c.ss[i] = SlotInvalid)
        BY <1>1, <1>4, <2>3 DEF Before
      <4> QED
        BY <4>1, <4>2
    <3> QED
      BY <2>3, <3>1 DEF Before
  <2> QED
    BY <1>1, <1>4, <2>1, <2>2, <2>3 DEF Before
<1> QED
  BY <1>2, <1>3, <1>4

\* A header that a step changes in this order is not the one before: the version
\* counts up, the bin state does, or a Valid slot is dropped.
LEMMA BeforeStrict ==
  ASSUME NEW a \in Header, NEW b \in Header, Before(a, b), a # b
  PROVE  \/ b.ver > a.ver
         \/ b.ver = a.ver /\ b.bs > a.bs
         \/ /\ b.ver = a.ver /\ b.bs = a.bs
            /\ Valids(b) \subseteq Valids(a) /\ Valids(b) # Valids(a)
<1> USE DEF SlotValid, SlotInvalid
<1>1. /\ a.ver \in Int /\ b.ver \in Int /\ a.bs \in Int /\ b.bs \in Int
  BY SizeAssumption DEF Header, BinState
<1>2. CASE a.ver = b.ver /\ a.bs = b.bs
  <2>1. \A i \in SlotIdx : b.ss[i] = a.ss[i] \/ (a.ss[i] = SlotValid /\ b.ss[i] = SlotInvalid)
    BY <1>1, <1>2 DEF Before
  <2>2. a.ss # b.ss
    BY <1>2 DEF Header
  <2>3. PICK i \in SlotIdx : a.ss[i] # b.ss[i]
    BY <2>2 DEF Header
  <2>4. i \in Valids(a) /\ i \notin Valids(b)
    BY <2>1, <2>3 DEF Valids
  <2>5. Valids(b) \subseteq Valids(a)
    BY <2>1 DEF Valids
  <2> QED
    BY <1>2, <2>4, <2>5
<1> QED
  BY <1>1, <1>2 DEF Before

\* The header after the CAS on a slot: below the wrap its version is higher.
LEMMA BeforeSet ==
  ASSUME NEW h \in Header, h.ver < VersionMod - 1, NEW i \in SlotIdx, NEW st
  PROVE  /\ setSlotStateAndVersion(h, i, st).ver = h.ver + 1
         /\ Before(h, setSlotStateAndVersion(h, i, st))
<1>1. h.ver \in Nat /\ VersionMod \in Nat
  BY SizeAssumption DEF Header
<1>2. (h.ver + 1) % VersionMod = h.ver + 1
  BY <1>1
<1> QED
  BY <1>1, <1>2 DEF setSlotStateAndVersion, Before

-----------------------------------------------------------------------------
(* What a step of t may do to headers and slots.                           *)

Filling(bin) == bin[1] > 0 /\ header[OldOf(bin)].bs = BinInTransfer

Forward ==
  \A bin \in BinId :
    /\ Before(header[bin], header'[bin])
    /\ header'[bin].bs = BinNoTransfer => header[bin].bs = BinNoTransfer
    /\ header'[bin].ver = header[bin].ver \/ header[bin].bs = BinNoTransfer \/ Filling(bin)
StateStep(t, bin, i) ==
  LET old == header[bin].ss[i]
      new == header'[bin].ss[i]
  IN  \/ new = old
      \/ old = SlotInvalid /\ new = SlotTrying /\ header[bin].bs = BinNoTransfer
      \/ old = SlotTrying /\ new # SlotTrying /\ header[bin].bs = BinNoTransfer /\ Owns(t, bin, i)
      \/ old = SlotValid /\ new = SlotInvalid /\ Marks(t, bin, i)
      \/ old = SlotInvalid /\ new = SlotValid /\ Filling(bin)
      \/ old = SlotInvalid /\ new = SlotValid /\ pc[t] \in MovePC /\ bin = OldBin(t)
Hits(t, bin, i) ==
  /\ pc[t] = "dwcas" /\ Bin(t) = bin /\ scan[t].slot = i
  /\ EntryAt(bin, i) = scan[t].ent /\ EntryAt(bin, i)' \in {Nil, NewEntry(t)}
Fills(t, bin, i) ==
  /\ Owns(t, bin, i)
  /\ EntryAt(bin, i)' = Nil \/ (EntryAt(bin, i)' = NewEntry(t) /\ pc[t] = "fillVal")
ValStep(t, bin, i) == \/ EntryAt(bin, i)' = EntryAt(bin, i)
                      \/ Fills(t, bin, i) \/ Hits(t, bin, i) \/ Filling(bin)
KeyStep(t, bin, i) == \/ KeyAt(bin, i)' = KeyAt(bin, i)
                      \/ Owns(t, bin, i) \/ Filling(bin)
                      \/ pc[t] \in MovePC /\ bin = OldBin(t) /\ i \in xfer[t].todo
EntryStep(bin, i) ==
  header'[bin].ss[i] = SlotValid /\ EntryAt(bin, i)' # Nil =>
    \/ header[bin].ss[i] = SlotValid /\ EntryAt(bin, i)' = EntryAt(bin, i)
    \/ Settled(EntryAt(bin, i).val)'
OwnStep(t, bin, i) ==
  /\ Owns(t, bin, i)' => Owns(t, bin, i) \/ header[bin].ss[i] = SlotInvalid
  /\ Owns(t, bin, i) /\ header'[bin].bs = BinNoTransfer /\ header'[bin].ss[i] = SlotTrying => Owns(t, bin, i)'
  /\ header[bin].ss[i] = SlotInvalid /\ header'[bin].ss[i] = SlotTrying => Owns(t, bin, i)'
  /\ Marks(t, bin, i)' => EntryAt(bin, i) # Nil
ApiStep(t) ==
  /\ \A u \in Thread \ {t} : call'[u] = call[u] /\ calls'[u] = calls[u] /\ res'[u] = res[u]
  /\ \A v \in Value : Settled(v) => Settled(v)'
Change(t) ==
  /\ OthersSame(t) /\ ApiStep(t) /\ LinksKept /\ Forward
  /\ \A bin \in BinId, i \in SlotIdx :
       /\ StateStep(t, bin, i) /\ EntryStep(bin, i) /\ OwnStep(t, bin, i)
       /\ HasSlot(linkMeta[bin], i) => ValStep(t, bin, i) /\ KeyStep(t, bin, i)

\* The bin of a thread that does not move, and its header, if it is the same again.
LEMMA SameBin ==
  ASSUME IInv, IInv', SInv, NEW t \in Thread, Change(t), NEW u \in Thread, u # t, pc[u] # "idle"
  PROVE  /\ pc'[u] = pc[u] /\ scan'[u] = scan[u] /\ ins'[u] = ins[u] /\ xfer'[u] = xfer[u]
         /\ call'[u] = call[u] /\ calls'[u] = calls[u] /\ res'[u] = res[u]
         /\ Bin(u)' = Bin(u) /\ Bin(u) \in BinId /\ hash(u)' = hash(u) /\ NewEntry(u)' = NewEntry(u)
         /\ header[Bin(u)] \in Header /\ header'[Bin(u)] \in Header
         /\ Before(header[Bin(u)], header'[Bin(u)])
         /\ pc[u] \in SeqPC /\ Validated(u)' => Validated(u)
<1>1. /\ pc'[u] = pc[u] /\ scan'[u] = scan[u] /\ ins'[u] = ins[u] /\ xfer'[u] = xfer[u]
      /\ call'[u] = call[u] /\ calls'[u] = calls[u] /\ res'[u] = res[u]
  BY DEF Change, OthersSame, ApiStep
<1>2. Bin(u)' = Bin(u) /\ hash(u)' = hash(u) /\ NewEntry(u)' = NewEntry(u)
  BY <1>1 DEF Bin, hash, NewEntry, getBin
<1>3. Bin(u) \in BinId
  BY BinType
<1>4. header[Bin(u)] \in Header /\ header'[Bin(u)] \in Header
  BY <1>3, BinWords DEF IInv, BaseType, BaseMemory
<1>5. Before(header[Bin(u)], header'[Bin(u)])
  BY <1>3 DEF Change, Forward
<1>6. ASSUME pc[u] \in SeqPC, Validated(u)' PROVE Validated(u)
  <2>1. header'[Bin(u)] = scan[u].h
    BY <1>1, <1>2, <1>6 DEF Validated
  <2>2. Before(scan[u].h, header[Bin(u)])
    BY <1>6 DEF SInv, HeadInv
  <2>3. header'[Bin(u)] = header[Bin(u)]
    BY <1>4, <1>5, <2>1, <2>2, BeforeOrder
  <2> QED
    BY <2>1, <2>3 DEF Validated
<1> QED
  BY <1>1, <1>2, <1>3, <1>4, <1>5, <1>6

\* The headers that others hold, and the slots they are about to reserve.
LEMMA OtherHeads ==
  ASSUME IInv, IInv', SInv, NEW t \in Thread, Change(t), NEW u \in Thread, u # t
  PROVE  HeadInv(u)' /\ PickInv(u)' /\ CallInv(u)'
<1>1. CASE pc[u] = "idle"
  <2>1. /\ pc'[u] = pc[u] /\ scan'[u] = scan[u] /\ ins'[u] = ins[u] /\ res'[u] = res[u]
    BY DEF Change, OthersSame, ApiStep
  <2>2. CallInv(u)
    BY DEF SInv
  <2> QED
    BY <1>1, <2>1, <2>2 DEF HeadInv, PickInv, CallInv, Returned, SeqPC, HeadPC, ChoicePC, SlotPC, InsertPC, OwnPC, UnresPC
<1>2. CASE pc[u] # "idle"
  <2>1. /\ pc'[u] = pc[u] /\ scan'[u] = scan[u] /\ ins'[u] = ins[u] /\ res'[u] = res[u]
        /\ call'[u] = call[u] /\ calls'[u] = calls[u] /\ Bin(u)' = Bin(u)
        /\ header[Bin(u)] \in Header /\ header'[Bin(u)] \in Header
        /\ Before(header[Bin(u)], header'[Bin(u)])
        /\ pc[u] \in SeqPC /\ Validated(u)' => Validated(u)
    BY <1>2, SameBin
  <2>2. scan[u].h \in Header
    BY Locals DEF BaseScan
  <2>3. HeadInv(u)'
    <3>1. HeadInv(u)
      BY DEF SInv
    <3>2. ASSUME pc[u] \in SeqPC PROVE Before(scan[u].h, header'[Bin(u)])
      BY <2>1, <2>2, <3>1, <3>2, BeforeOrder DEF HeadInv
    <3> QED
      BY <2>1, <3>1, <3>2 DEF HeadInv
  <2>4. PickInv(u)'
    <3>1. PickInv(u)
      BY DEF SInv
    <3>2. pc[u] \in ChoicePC => pc[u] \in SeqPC
      BY DEF ChoicePC, SeqPC, HeadPC
    <3> QED
      BY <2>1, <3>1, <3>2 DEF PickInv, invalidMask
  <2>5. CallInv(u)'
    <3>1. CallInv(u)
      BY DEF SInv
    <3> QED
      BY <2>1, <3>1 DEF CallInv, Returned
  <2> QED
    BY <2>3, <2>4, <2>5
<1> QED
  BY <1>1, <1>2

\* A call's bin is not being filled.
LEMMA UsesFull ==
  ASSUME IInv, RInv, NEW u \in Thread, pc[u] \in UsesPC
  PROVE  ~Filling(Bin(u))
<1>1. SUFFICES ASSUME Filling(Bin(u)) PROVE FALSE
  OBVIOUS
<1>2. pc[u] # "idle"
  BY DEF UsesPC, ScanPC, SlotPC, InsertPC, OwnPC
<1>3. Bin(u)[1] = scan[u].idx
  BY <1>2, BinType
<1> QED
  BY <1>1, <1>3, UsesNew DEF Filling, BinInTransfer, BinDoneTransfer

\* A bin that is being moved is not being filled.
LEMMA MovedFull ==
  ASSUME IInv, RInv, NEW u \in Thread, pc[u] \in TransferPC
  PROVE  ~Filling(OldBin(u))
BY MoverBin DEF Filling, BinInTransfer, BinDoneTransfer

\* An entry that a running call brings is not one that was found.
LEMMA NewUnsettled ==
  ASSUME IInv, SInv, NEW t \in Thread, pc[t] # "idle", res[t] = Pending
  PROVE  /\ ~Settled(NewEntry(t).val)
         /\ NewEntry(t) \in Entry /\ NewEntry(t) # Nil
<1>1. call[t] \in CallRec /\ call[t].val = <<t, calls[t]>>
  BY Locals DEF SInv, CallInv, ThreadInv
<1>2. NewEntry(t).val = <<t, calls[t]>> /\ NewEntry(t).val \in Value
  BY <1>1 DEF NewEntry, CallRec
<1>3. calls[t] \in Nat
  BY DEF IInv, BaseType, ApiType
<1>4. PICK v : v = <<t, calls[t]>>
  OBVIOUS
<1>5. v[1] = t /\ v[2] = calls[t] /\ v = NewEntry(t).val
  BY <1>2, <1>4
<1>6. v # InitVal
  <2>1. calls[t] \in 1..MaxCalls[t]
    BY DEF SInv, CallInv
  <2> QED
    BY <1>4, <2>1, MarkerAssumption
<1>7. ~Settled(v)
  BY <1>3, <1>5, <1>6 DEF Settled
<1>8. NewEntry(t) \in Entry
  BY <1>1 DEF NewEntry, Entry, CallRec
<1> QED
  BY <1>5, <1>7, <1>8, MarkerAssumption DEF Entry

\* The owner of a slot is in its bin.
LEMMA OwnsBin ==
  ASSUME IInv, NEW u \in Thread, NEW bin, NEW i, Owns(u, bin, i) \/ Marks(u, bin, i)
  PROVE  /\ pc[u] # "idle" /\ pc[u] \in UsesPC /\ bin = Bin(u) /\ i = scan[u].slot
         /\ bin \in BinId /\ i \in SlotIdx /\ HasSlot(linkMeta[bin], i)
<1>1. pc[u] # "idle" /\ pc[u] \in UsesPC /\ bin = Bin(u) /\ i = scan[u].slot
  BY DEF Owns, Marks, UsesPC, ScanPC, SlotPC, InsertPC, OwnPC
<1>2. bin \in BinId
  BY <1>1, BinType
<1>3. scan[u].slot # NoSlot
  <2>1. CASE pc[u] \in OwnPC \/ pc[u] = "mark"
    BY <2>1, <1>1, Locals DEF ScanInv, NeedsSlot, SlotPC
  <2>2. CASE Reserved(u)
    BY <2>2 DEF Reserved
  <2> QED
    BY <2>1, <2>2 DEF Owns, Marks
<1>4. scan[u].slot \in SlotIdx \cup {NoSlot}
  BY Locals DEF BaseScan
<1>5. HasSlot(linkMeta[bin], i)
  BY <1>1, <1>3, Locals DEF ScanInv
<1> QED
  BY <1>1, <1>2, <1>3, <1>4, <1>5

\* The slot that a DWCAS hits is Valid and holds an entry.
LEMMA HitsValid ==
  ASSUME IInv, SInv, NEW t \in Thread, NEW bin, NEW i, Hits(t, bin, i)
  PROVE  /\ header[bin].ss[i] = SlotValid /\ EntryAt(bin, i) # Nil
         /\ res[t] = Pending /\ pc[t] # "idle"
         /\ bin \in BinId /\ i \in SlotIdx /\ HasSlot(linkMeta[bin], i)
<1>1. pc[t] = "dwcas" /\ Bin(t) = bin /\ scan[t].slot = i /\ EntryAt(bin, i) = scan[t].ent
  BY DEF Hits
<1>2. scan[t].ent # Nil
  BY <1>1, Locals DEF ScanInv
<1>3. header[bin].ss[i] = SlotValid
  BY <1>1 DEF SInv, TargetInv, AimPC
<1>4. res[t] = Pending
  BY <1>1 DEF SInv, CallInv, Returned, UnresPC
<1>5. NeedsSlot(t)
  BY <1>1 DEF NeedsSlot, SlotPC
<1> QED
  BY <1>1, <1>2, <1>3, <1>4, <1>5, AtSlot, BinType

\* The slots at which others aim: only an entry that was not there before comes to a
\* slot that is not Valid.
LEMMA OtherTargets ==
  ASSUME IInv, EntryType, IInv', RInv, SInv, NEW t \in Thread, Change(t), NEW u \in Thread, u # t
  PROVE  TargetInv(u)'
<1>1. CASE pc[u] = "idle"
  <2>1. pc'[u] = pc[u]
    BY DEF Change, OthersSame
  <2> QED
    BY <1>1, <2>1 DEF TargetInv, LoopPC, Aims, AimPC, Marks
<1>2. CASE pc[u] # "idle"
  <2>1. /\ pc'[u] = pc[u] /\ scan'[u] = scan[u] /\ call'[u] = call[u] /\ Bin(u)' = Bin(u) /\ Bin(u) \in BinId
        /\ pc[u] \in SeqPC /\ Validated(u)' => Validated(u)
    BY <1>2, SameBin
  <2>2. TargetInv(u) /\ scan[u].ent \in Entry \cup {Nil}
    BY DEF SInv, EntryType
  <2>3. pc[u] \in LoopPC \/ Aims(u)' => scan[u].h.ss[scan[u].slot] = SlotValid
    BY <2>1, <2>2 DEF TargetInv, Aims
  <2>4. \A e \in Entry : Settled(e.val) => Settled(e.val)'
    BY DEF Change, ApiStep, Entry
  <2>5. ASSUME pc[u] \in {"check", "loopCheck"}, scan[u].ent # Nil
        PROVE  scan[u].ent.key = call[u].key /\ (Validated(u)' => Settled(scan[u].ent.val)')
    <3>1. pc[u] \in SeqPC
      BY <2>5 DEF SeqPC, HeadPC
    <3> QED
      BY <2>1, <2>2, <2>4, <2>5, <3>1 DEF TargetInv
  <2>6. ASSUME pc[u] \in AimPC
        PROVE  /\ scan[u].ent.key = call[u].key /\ Settled(scan[u].ent.val)'
               /\ EntryAt(Bin(u), scan[u].slot)' = scan[u].ent => header'[Bin(u)].ss[scan[u].slot] = SlotValid
    <3>1. scan[u].ent # Nil /\ NeedsSlot(u) /\ pc[u] \in UsesPC
      BY <2>6, <1>2, Locals DEF ScanInv, AimPC, NeedsSlot, SlotPC, UsesPC
    <3>2. PICK b, i : b = Bin(u) /\ i = scan[u].slot
      OBVIOUS
    <3>3. b \in BinId /\ i \in SlotIdx /\ HasSlot(linkMeta[b], i) /\ ~Filling(b)
      BY <2>1, <3>1, <3>2, AtSlot, UsesFull
    <3>4. /\ scan[u].ent.key = call[u].key /\ Settled(scan[u].ent.val)
          /\ EntryAt(b, i) = scan[u].ent => header[b].ss[i] = SlotValid
      BY <2>2, <2>6, <3>2 DEF TargetInv
    <3>5. ValStep(t, b, i) /\ StateStep(t, b, i)
      BY <3>3 DEF Change
    <3>6. ASSUME EntryAt(b, i)' = scan[u].ent PROVE EntryAt(b, i) = scan[u].ent
      <4>1. CASE Fills(t, b, i) \/ Hits(t, b, i)
        <5>1. EntryAt(b, i)' = NewEntry(t)
          BY <4>1, <3>1, <3>6 DEF Fills, Hits
        <5>2. pc[t] # "idle" /\ res[t] = Pending
          <6>1. CASE Hits(t, b, i)
            BY <6>1, HitsValid
          <6>2. CASE Fills(t, b, i)
            <7>1. pc[t] = "fillVal"
              BY <6>2, <3>1, <3>6 DEF Fills
            <7> QED
              BY <7>1 DEF SInv, CallInv, Returned, UnresPC
          <6> QED
            BY <4>1, <6>1, <6>2
        <5> QED
          BY <5>1, <5>2, <3>4, <3>6, NewUnsettled
      <4> QED
        BY <3>3, <3>5, <3>6, <4>1 DEF ValStep
    <3>7. ASSUME EntryAt(b, i)' = scan[u].ent PROVE header'[b].ss[i] = SlotValid
      <4>1. EntryAt(b, i) # Nil /\ header[b].ss[i] = SlotValid
        BY <3>1, <3>4, <3>6, <3>7
      <4>2. ~Marks(t, b, i)
        BY <3>3, <4>1 DEF SInv, TargetInv
      <4> QED
        BY <3>5, <4>1, <4>2 DEF StateStep, SlotValid, SlotInvalid, SlotTrying
    <3> QED
      BY <2>2, <2>4, <3>1, <3>2, <3>4, <3>7, <2>1
  <2>7. ASSUME NEW b \in BinId, NEW i \in SlotIdx, Marks(u, b, i)'
        PROVE  header'[b].ss[i] = SlotValid /\ EntryAt(b, i)' = Nil
    <3>1. Marks(u, b, i)
      BY <2>1, <2>7 DEF Marks
    <3>2. HasSlot(linkMeta[b], i) /\ ~Filling(b)
      BY <3>1, OwnsBin, UsesFull
    <3>3. header[b].ss[i] = SlotValid /\ EntryAt(b, i) = Nil
      BY <2>2, <3>1 DEF TargetInv
    <3>4. ValStep(t, b, i) /\ StateStep(t, b, i)
      BY <3>2 DEF Change
    <3>5. ~Marks(t, b, i)
      BY <3>1 DEF SInv, ApartInv
    <3>6. ~Hits(t, b, i)
      BY <3>3, HitsValid
    <3>7. ~Fills(t, b, i)
      BY <3>3 DEF SInv, OwnInv, Fills, SlotValid, SlotTrying
    <3> QED
      BY <3>2, <3>3, <3>4, <3>5, <3>6, <3>7 DEF ValStep, StateStep, SlotValid, SlotInvalid, SlotTrying
  <2> QED
    BY <2>1, <2>3, <2>5, <2>6, <2>7 DEF TargetInv
<1> QED
  BY <1>1, <1>2

\* The slots that others have reserved stay theirs, with what they wrote.
LEMMA OtherOwners ==
  ASSUME IInv, IInv', RInv, LInv, SInv, NEW t \in Thread, Change(t), NEW u \in Thread, u # t
  PROVE  OwnInv(u)'
<1> SUFFICES ASSUME NEW b \in BinId, NEW i \in SlotIdx, Owns(u, b, i)'
             PROVE  /\ header'[b].ss[i] = SlotTrying
                    /\ pc'[u] \notin UnresPC \cup {"fillKey"} => KeyAt(b, i)' = hash(u)'
                    /\ pc'[u] \notin UnresPC \cup {"fillKey", "fillVal"} => EntryAt(b, i)' = NewEntry(u)'
  BY DEF OwnInv
<1>1. pc[u] # "idle"
  <2>1. pc'[u] = pc[u] /\ pc'[u] # "idle"
    BY DEF Change, OthersSame, Owns, OwnPC, ScanPC
  <2> QED
    BY <2>1
<1>2. /\ pc'[u] = pc[u] /\ scan'[u] = scan[u] /\ call'[u] = call[u] /\ Bin(u)' = Bin(u)
      /\ hash(u)' = hash(u) /\ NewEntry(u)' = NewEntry(u)
  BY <1>1, SameBin
<1>3. Owns(u, b, i)
  BY <1>2 DEF Owns, Reserved
<1>4. HasSlot(linkMeta[b], i) /\ ~Filling(b)
  BY <1>3, OwnsBin, UsesFull
<1>5. /\ header[b].ss[i] = SlotTrying
      /\ pc[u] \notin UnresPC \cup {"fillKey"} => KeyAt(b, i) = hash(u)
      /\ pc[u] \notin UnresPC \cup {"fillKey", "fillVal"} => EntryAt(b, i) = NewEntry(u)
  BY <1>3 DEF SInv, OwnInv
<1>6. ~Owns(t, b, i)
  BY <1>3 DEF SInv, ApartInv
<1>7. ValStep(t, b, i) /\ StateStep(t, b, i) /\ KeyStep(t, b, i)
  BY <1>4 DEF Change
<1>8. header'[b].ss[i] = SlotTrying
  BY <1>5, <1>6, <1>7 DEF StateStep, SlotValid, SlotInvalid, SlotTrying
<1>9. EntryAt(b, i)' = EntryAt(b, i)
  <2>1. ~Hits(t, b, i)
    BY <1>5, HitsValid DEF SlotValid, SlotTrying
  <2> QED
    BY <1>4, <1>6, <1>7, <2>1 DEF ValStep, Fills
<1>10. KeyAt(b, i)' = KeyAt(b, i)
  <2>1. ASSUME pc[t] \in MovePC, b = OldBin(t), i \in xfer[t].todo PROVE FALSE
    <3>1. xfer[t].h.ss[i] = SlotValid
      BY <2>1 DEF LInv, MoverInv, Valids
    <3>2. header[b].ss[i] \in {SlotValid, SlotInvalid}
      BY <2>1, <3>1 DEF SInv, SnapInv
    <3> QED
      BY <1>5, <3>2 DEF SlotValid, SlotInvalid, SlotTrying
  <2> QED
    BY <1>4, <1>6, <1>7, <2>1 DEF KeyStep
<1> QED
  BY <1>2, <1>5, <1>8, <1>9, <1>10

\* The snapshots of other transfers.
LEMMA OtherSnaps ==
  ASSUME IInv, IInv', RInv, SInv, NEW t \in Thread, Change(t), NEW u \in Thread, u # t, pc'[u] \in MovePC
  PROVE  SnapInv(u)'
<1>1. pc'[u] = pc[u] /\ xfer'[u] = xfer[u] /\ pc[u] \in MovePC /\ pc[u] \in TransferPC
  BY DEF Change, OthersSame, MovePC
<1>2. PICK b : b = OldBin(u)
  OBVIOUS
<1>3. OldBin(u)' = b
  BY <1>1, <1>2 DEF OldBin
<1>4. b \in BinId /\ ~Filling(b) /\ header[b].bs = BinInTransfer
  BY <1>1, <1>2, MoverBin, MovedFull DEF MovePC
<1>5. ~(pc[t] \in MovePC /\ b = OldBin(t))
  BY <1>1, <1>2, MoverBin DEF MovePC
<1>6. SnapInv(u)
  BY <1>1 DEF SInv
<1>7. header'[b].ver = xfer[u].h.ver
  <2>1. header'[b].ver = header[b].ver
    BY <1>4 DEF Change, Forward, BinInTransfer, BinNoTransfer
  <2> QED
    BY <1>2, <1>6, <2>1 DEF SnapInv
<1>8. ASSUME NEW i \in SlotIdx
      PROVE  \/ header'[b].ss[i] = xfer[u].h.ss[i]
             \/ /\ xfer[u].h.ss[i] = SlotValid /\ header'[b].ss[i] = SlotInvalid
                /\ EntryAt(b, i)' = Nil
  <2>1. StateStep(t, b, i)
    BY <1>4 DEF Change
  <2>2. \/ header[b].ss[i] = xfer[u].h.ss[i]
        \/ /\ xfer[u].h.ss[i] = SlotValid /\ header[b].ss[i] = SlotInvalid
           /\ EntryAt(b, i) = Nil
    BY <1>2, <1>6 DEF SnapInv
  <2>3. ASSUME xfer[u].h.ss[i] = SlotValid, EntryAt(b, i) = Nil, header[b].ss[i] # SlotTrying
        PROVE  EntryAt(b, i)' = Nil
    <3>1. HasSlot(linkMeta[b], i)
      <4>1. Backed(linkMeta[b], xfer[u].h)
        BY <1>1, <1>2, Locals DEF XferInv, MovePC, TransferPC
      <4> QED
        BY <2>3, <4>1 DEF Backed, SlotValid, SlotInvalid
    <3>2. ValStep(t, b, i)
      BY <1>4, <3>1 DEF Change
    <3>3. ~Hits(t, b, i)
      BY <2>3, HitsValid
    <3>4. ~Owns(t, b, i)
      BY <1>4, <2>3 DEF SInv, OwnInv
    <3> QED
      BY <1>4, <2>3, <3>2, <3>3, <3>4 DEF ValStep, Fills
  <2>4. CASE header'[b].ss[i] = header[b].ss[i]
    BY <2>2, <2>3, <2>4 DEF SlotTrying, SlotInvalid
  <2>5. CASE header[b].ss[i] = SlotValid /\ header'[b].ss[i] = SlotInvalid /\ Marks(t, b, i)
    <3>1. EntryAt(b, i) = Nil
      BY <1>4, <2>5 DEF SInv, TargetInv
    <3>2. xfer[u].h.ss[i] = SlotValid
      BY <2>2, <2>5
    <3> QED
      BY <2>3, <2>5, <3>1, <3>2 DEF SlotValid, SlotTrying
  <2> QED
    BY <1>4, <1>5, <2>1, <2>4, <2>5 DEF StateStep, BinInTransfer, BinNoTransfer
<1> QED
  BY <1>1, <1>3, <1>7, <1>8 DEF SnapInv

\* The bins: Valid slots have settled entries, slots that are Trying have their owner.
LEMMA OtherBins ==
  ASSUME IInv, EntryType, IInv', SInv, NEW t \in Thread, Change(t)
  PROVE  /\ \A bin \in BinId : EntryInv(bin)' /\ TryInv(bin)'
         /\ ApartInv'
<1>1. ASSUME NEW u \in Thread, u # t, NEW b, NEW i
      PROVE  (Owns(u, b, i)' <=> Owns(u, b, i)) /\ (Marks(u, b, i)' <=> Marks(u, b, i))
  <2>1. pc'[u] = pc[u] /\ scan'[u] = scan[u] /\ call'[u] = call[u]
    BY <1>1 DEF Change, OthersSame, ApiStep
  <2> QED
    BY <2>1 DEF Owns, Marks, Bin, hash, getBin, Reserved
<1>2. ASSUME NEW bin \in BinId PROVE EntryInv(bin)'
  <2> SUFFICES ASSUME NEW i \in SlotIdx, header'[bin].ss[i] = SlotValid, EntryAt(bin, i)' # Nil
               PROVE  Settled(EntryAt(bin, i).val)'
    BY DEF EntryInv
  <2>1. EntryStep(bin, i)
    BY <1>2 DEF Change
  <2>2. CASE header[bin].ss[i] = SlotValid /\ EntryAt(bin, i)' = EntryAt(bin, i)
    <3>1. Settled(EntryAt(bin, i).val)
      BY <1>2, <2>2 DEF SInv, EntryInv
    <3>2. EntryAt(bin, i) \in Entry
      <4>1. HasSlot(linkMeta[bin], i)
        BY <1>2, <2>2, BinWords DEF Backed, SlotValid, SlotInvalid
      <4>2. SlotLoc(bin, i) \in Loc
        BY <1>2, <4>1, BinWords, LocType DEF SlotLoc
      <4> QED
        BY <2>2, <4>2 DEF EntryType, EntryAt
    <3>3. PICK v \in Value : v = EntryAt(bin, i).val
      BY <3>2 DEF Entry
    <3>4. Settled(v)'
      BY <3>1, <3>3 DEF Change, ApiStep
    <3>5. v = EntryAt(bin, i)'.val
      BY <2>2, <3>3
    <3> QED
      BY <3>4, <3>5 DEF Settled
  <2> QED
    BY <2>1, <2>2 DEF EntryStep
<1>3. ASSUME NEW bin \in BinId PROVE TryInv(bin)'
  <2> SUFFICES ASSUME header'[bin].bs = BinNoTransfer, NEW i \in SlotIdx, header'[bin].ss[i] = SlotTrying
               PROVE  \E u \in Thread : Owns(u, bin, i)'
    BY DEF TryInv
  <2>1. header[bin].bs = BinNoTransfer /\ OwnStep(t, bin, i) /\ StateStep(t, bin, i)
    BY <1>3 DEF Change, Forward
  <2>2. CASE header[bin].ss[i] = SlotTrying
    <3>1. PICK u \in Thread : Owns(u, bin, i)
      BY <1>3, <2>1, <2>2 DEF SInv, TryInv
    <3> QED
      BY <1>1, <2>1, <3>1 DEF OwnStep
  <2>3. CASE header[bin].ss[i] = SlotInvalid
    BY <2>1, <2>3 DEF OwnStep
  <2> QED
    BY <2>1, <2>2, <2>3 DEF StateStep, SlotValid, SlotInvalid, SlotTrying
<1>4. ASSUME NEW u \in Thread, u # t, NEW b \in BinId, NEW i \in SlotIdx
      PROVE  ~(Owns(t, b, i)' /\ Owns(u, b, i)') /\ ~(Marks(t, b, i)' /\ Marks(u, b, i)')
  <2>1. OwnStep(t, b, i)
    BY DEF Change
  <2>2. ASSUME Owns(t, b, i)', Owns(u, b, i)' PROVE FALSE
    <3>1. Owns(u, b, i)
      BY <1>1, <1>4, <2>2
    <3>2. header[b].ss[i] = SlotTrying
      BY <3>1 DEF SInv, OwnInv
    <3>3. Owns(t, b, i)
      BY <2>1, <2>2, <3>2 DEF OwnStep, SlotTrying, SlotInvalid
    <3> QED
      BY <1>4, <3>1, <3>3 DEF SInv, ApartInv
  <2>3. ASSUME Marks(t, b, i)', Marks(u, b, i)' PROVE FALSE
    <3>1. Marks(u, b, i)
      BY <1>1, <1>4, <2>3
    <3> QED
      BY <2>1, <2>3, <3>1 DEF OwnStep, SInv, TargetInv
  <2> QED
    BY <2>2, <2>3
<1>5. ApartInv'
  <2> SUFFICES ASSUME NEW a \in Thread, NEW u \in Thread, NEW b \in BinId, NEW i \in SlotIdx,
                      \/ Owns(a, b, i)' /\ Owns(u, b, i)'
                      \/ Marks(a, b, i)' /\ Marks(u, b, i)'
               PROVE  a = u
    BY DEF ApartInv
  <2>1. CASE a # t /\ u # t
    BY <1>1, <2>1 DEF SInv, ApartInv
  <2> QED
    BY <1>4, <2>1
<1> QED
  BY <1>2, <1>3, <1>5

\* A step keeps the invariant if it keeps what t knows.
Own(t) == HeadInv(t) /\ PickInv(t) /\ CallInv(t) /\ TargetInv(t) /\ OwnInv(t)
LEMMA StepS ==
  ASSUME IInv, EntryType, IInv', RInv, LInv, SInv, NEW t \in Thread, Change(t), Own(t)',
         pc'[t] \in MovePC => SnapInv(t)'
  PROVE  SInv'
<1>1. \A u \in Thread : HeadInv(u)' /\ PickInv(u)' /\ CallInv(u)'
  BY OtherHeads DEF Own
<1>2. \A u \in Thread : TargetInv(u)' /\ OwnInv(u)'
  BY OtherTargets, OtherOwners DEF Own
<1>3. \A u \in Thread : pc'[u] \in MovePC => SnapInv(u)'
  BY OtherSnaps
<1> QED
  BY <1>1, <1>2, <1>3, OtherBins DEF SInv

-----------------------------------------------------------------------------
(* Steps that write no word of the bins.                                   *)

\* Insert holds a slot that it has reserved
Holds(t) == pc[t] \in OwnPC \/ (pc[t] \in ScanPC /\ Reserved(t))

\* A value that was settled stays so when t's call is answered.
LEMMA ApiSame ==
  ASSUME IInv, NEW t \in Thread, UNCHANGED <<call, calls>>,
         res' = res \/ \E r : r # Pending /\ res' = [res EXCEPT ![t] = r]
  PROVE  ApiStep(t)
<1>1. res \in [Thread -> Answer \cup {Pending}]
  BY DEF IInv, BaseType, ApiType
<1>2. \A u \in Thread : res'[u] = res[u] \/ (u = t /\ res'[u] # Pending)
  BY <1>1
<1>3. ASSUME NEW v \in Value, Settled(v) PROVE Settled(v)'
  <2>1. v = InitVal \/ v[1] \in Thread
    BY DEF Value
  <2> QED
    BY <1>2, <1>3, <2>1 DEF Settled
<1> QED
  BY <1>2, <1>3 DEF ApiStep

\* The slot that t holds is the same one.
LEMMA OwnsKept ==
  ASSUME NEW t \in Thread, call'[t] = call[t], scan'[t].idx = scan[t].idx,
         Holds(t)' <=> Holds(t), Holds(t) => scan'[t].slot = scan[t].slot
  PROVE  \A bin, i : Owns(t, bin, i)' <=> Owns(t, bin, i)
<1>1. Bin(t)' = Bin(t)
  BY DEF Bin, getBin, hash
<1> QED
  BY <1>1 DEF Owns, Holds

\* A step that writes no word of a bin, and keeps the slot t has reserved or leaves it
\* to the transfer.
LEMMA MemorySame ==
  ASSUME IInv, NEW t \in Thread, UNCHANGED memory, OthersSame(t), ApiStep(t), pc'[t] # "mark",
         \A bin \in BinId, i \in SlotIdx :
           /\ Owns(t, bin, i)' => Owns(t, bin, i)
           /\ Owns(t, bin, i) /\ header[bin].bs = BinNoTransfer /\ header[bin].ss[i] = SlotTrying
                => Owns(t, bin, i)'
  PROVE  Change(t)
<1>1. header' = header /\ linkMeta' = linkMeta /\ slotKey' = slotKey /\ slotVal' = slotVal
  BY DEF memory
<1>2. LinksKept
  BY <1>1, SameLinks DEF LinksKept
<1>3. Forward
  <2>1. \A bin \in BinId : header[bin] \in Header
    BY BinWords
  <2> QED
    BY <1>1, <2>1, BeforeOrder DEF Forward
<1>4. ASSUME NEW bin \in BinId, NEW i \in SlotIdx
      PROVE  /\ StateStep(t, bin, i) /\ EntryStep(bin, i) /\ OwnStep(t, bin, i)
             /\ ValStep(t, bin, i) /\ KeyStep(t, bin, i)
  <2>1. EntryAt(bin, i)' = EntryAt(bin, i) /\ KeyAt(bin, i)' = KeyAt(bin, i)
    BY <1>1 DEF EntryAt, KeyAt, SlotLoc
  <2>2. StateStep(t, bin, i) /\ ValStep(t, bin, i) /\ KeyStep(t, bin, i)
    BY <1>1, <2>1 DEF StateStep, ValStep, KeyStep
  <2>3. EntryStep(bin, i)
    BY <1>1, <2>1 DEF EntryStep
  <2>4. OwnStep(t, bin, i)
    BY <1>1 DEF OwnStep, Marks, SlotInvalid, SlotTrying
  <2> QED
    BY <2>2, <2>3, <2>4
<1> QED
  BY <1>2, <1>3, <1>4 DEF Change

\* A goroutine that looks at no bin, or has not begun to, knows only its call.
LEMMA PlainOwn ==
  ASSUME NEW t \in Thread, pc'[t] \in PlainPC \cup ContextPC,
         pc'[t] \in {"load", "follow"} => scan'[t].slot = NoSlot, CallInv(t)'
  PROVE  Own(t)' /\ ~Holds(t)' /\ \A bin, i : ~Owns(t, bin, i)'
<1> USE DEF PlainPC, ContextPC, TransferPC, SeqPC, HeadPC, ChoicePC, LoopPC, AimPC, OwnPC, ScanPC
<1>1. HeadInv(t)' /\ PickInv(t)'
  BY DEF HeadInv, PickInv
<1>2. TargetInv(t)'
  BY DEF TargetInv, Aims, Marks
<1>3. ~Holds(t)' /\ \A bin, i : ~Owns(t, bin, i)'
  BY DEF Owns, Reserved, Holds
<1>4. OwnInv(t)'
  BY <1>3 DEF OwnInv
<1> QED
  BY <1>1, <1>2, <1>3, <1>4 DEF Own

\* A call that is not answered by a step that only goes on.
LEMMA CallOn ==
  ASSUME SInv, NEW t \in Thread, pc[t] # "idle", UNCHANGED <<call, res, calls>>,
         ~Returned(t), ~Returned(t)',
         pc'[t] \in SlotPC => call[t].kind \in {"Put", "Delete"},
         pc'[t] \in InsertPC => call[t].kind = "Insert"
  PROVE  CallInv(t)'
<1>1. CallInv(t)
  BY DEF SInv
<1> QED
  BY <1>1 DEF CallInv, Returned

\* The call forgets its lookup and its slot, which it has not reserved or which the
\* transfer has taken over.
LEMMA ForgetS ==
  ASSUME IInv, EntryType, IInv', RInv, LInv, SInv, NEW t \in Thread, pc[t] # "idle", UNCHANGED memory,
         OthersSame(t), UNCHANGED <<call, res, calls>>, ~Returned(t),
         pc'[t] \in (PlainPC \ {"idle"}) \cup ContextPC,
         pc'[t] \in {"load", "follow"} => scan'[t].slot = NoSlot,
         \A bin \in BinId, i \in SlotIdx :
            Owns(t, bin, i) => ~(header[bin].bs = BinNoTransfer /\ header[bin].ss[i] = SlotTrying),
         pc'[t] \in MovePC => SnapInv(t)'
  PROVE  SInv'
<1>1. pc'[t] \notin SlotPC /\ pc'[t] \notin InsertPC /\ ~Returned(t)' /\ pc'[t] # "mark"
  BY DEF PlainPC, ContextPC, TransferPC, SlotPC, InsertPC, OwnPC, Returned, UnresPC
<1>2. CallInv(t)'
  BY <1>1, CallOn
<1>3. Own(t)' /\ \A bin, i : ~Owns(t, bin, i)'
  BY <1>2, PlainOwn
<1>4. ApiStep(t)
  BY ApiSame
<1>5. Change(t)
  BY <1>1, <1>3, <1>4, MemorySame
<1> QED
  BY <1>3, <1>5, StepS

\* The slot that t holds is as it was, in a step that writes no word of a bin.
LEMMA OwnSame ==
  ASSUME SInv, NEW t \in Thread, UNCHANGED memory, call'[t] = call[t],
         \A bin, i : Owns(t, bin, i)' => Owns(t, bin, i),
         pc'[t] \in UnresPC \cup {"fillKey"} \/ pc[t] \notin UnresPC \cup {"fillKey", "fillVal"}
  PROVE  OwnInv(t)'
<1>1. OwnInv(t)
  BY DEF SInv
<1>2. header' = header /\ linkMeta' = linkMeta /\ slotKey' = slotKey /\ slotVal' = slotVal
  BY DEF memory
<1>3. hash(t)' = hash(t) /\ NewEntry(t)' = NewEntry(t)
  BY DEF hash, NewEntry
<1>4. ASSUME NEW bin \in BinId, NEW i \in SlotIdx, Owns(t, bin, i)'
      PROVE  /\ header'[bin].ss[i] = SlotTrying
             /\ pc'[t] \notin UnresPC \cup {"fillKey"} => KeyAt(bin, i)' = hash(t)'
             /\ pc'[t] \notin UnresPC \cup {"fillKey", "fillVal"} => EntryAt(bin, i)' = NewEntry(t)'
  <2>1. EntryAt(bin, i)' = EntryAt(bin, i) /\ KeyAt(bin, i)' = KeyAt(bin, i)
    BY <1>2 DEF EntryAt, KeyAt, SlotLoc
  <2>2. Owns(t, bin, i)
    BY <1>4
  <2>3. /\ header[bin].ss[i] = SlotTrying
        /\ pc[t] \notin UnresPC \cup {"fillKey"} => KeyAt(bin, i) = hash(t)
        /\ pc[t] \notin UnresPC \cup {"fillKey", "fillVal"} => EntryAt(bin, i) = NewEntry(t)
    BY <1>1, <2>2 DEF OwnInv
  <2> QED
    BY <1>2, <1>3, <2>1, <2>3
<1> QED
  BY <1>4 DEF OwnInv

-----------------------------------------------------------------------------
(* The lookup.                                                             *)

\* Where the lookup goes on: in the same bin, with the same header and slot.
LEMMA ScanOnTo ==
  ASSUME IInv, NEW t \in Thread, pc[t] \in {"match", "probe", "links"}, NEW rest, NEW lm, ScanOn(t, rest, lm)
  PROVE  /\ pc'[t] \in {"probe", "links", "match", "check", "finalize", "reserve", "choose"}
         /\ pc'[t] \in {"finalize", "reserve", "choose"} =>
              call[t].kind = "Insert" /\ (pc'[t] = "finalize" <=> Reserved(t))
         /\ pc'[t] = "reserve" => invalidMask(scan[t].h, 0) # {}
         /\ scan'[t].slot = scan[t].slot /\ scan'[t].idx = scan[t].idx /\ scan'[t].h = scan[t].h
         /\ scan'[t].ent = Nil
<1> USE DEF Goto
<1>1. pc \in [Thread -> PC] /\ scan \in [Thread -> BaseScan] /\ scan[t].ent = Nil
  BY Locals DEF IInv, BaseType, BaseLocal, ScanInv
<1>2. CASE rest # {}
  BY <1>1, <1>2 DEF ScanOn, BaseScan
<1>3. CASE rest = {} /\ scan[t].grp = 0 /\ pc[t] # "links"
  BY <1>1, <1>3 DEF ScanOn, BaseScan
<1>4. CASE rest = {} /\ ~(scan[t].grp = 0 /\ pc[t] # "links")
  <2>1. CASE LaterBuckets(t, scan[t].grp, lm) # {}
    BY <1>1, <1>4, <2>1 DEF ScanOn, BaseScan
  <2>2. CASE LaterBuckets(t, scan[t].grp, lm) = {}
    <3>1. /\ NotFound(t) \in {"check", "finalize", "reserve", "choose"}
          /\ NotFound(t) \in {"finalize", "reserve", "choose"} =>
               call[t].kind = "Insert" /\ (NotFound(t) = "finalize" <=> Reserved(t))
          /\ NotFound(t) = "reserve" => invalidMask(scan[t].h, 0) # {}
      BY DEF NotFound
    <3>2. pc'[t] = NotFound(t)
      BY <1>1, <1>4, <2>2 DEF ScanOn
    <3>3. /\ scan'[t].slot = scan[t].slot /\ scan'[t].idx = scan[t].idx /\ scan'[t].h = scan[t].h
          /\ scan'[t].ent = scan[t].ent
      BY <1>1, <1>4, <2>2 DEF ScanOn, BaseScan
    <3> QED
      BY <1>1, <3>1, <3>2, <3>3
  <2> QED
    BY <2>1, <2>2
<1> QED
  BY <1>2, <1>3, <1>4

\* What a call that goes on in its bin with the same header knows of it.
LEMMA SameHead ==
  ASSUME SInv, NEW t \in Thread, pc[t] \in SeqPC, UNCHANGED memory, call'[t] = call[t],
         scan'[t].idx = scan[t].idx, scan'[t].h = scan[t].h,
         pc'[t] \notin {"load", "follow", "unresClear", "unresCAS"}
  PROVE  HeadInv(t)' /\ (Validated(t)' <=> Validated(t)) /\ Bin(t)' = Bin(t)
<1>1. Bin(t)' = Bin(t)
  BY DEF Bin, getBin, hash
<1>2. HeadInv(t) /\ header' = header
  BY DEF SInv, memory
<1> QED
  BY <1>1, <1>2 DEF HeadInv, Validated

\* The lookup goes on.
LEMMA ScanOnS ==
  ASSUME IInv, EntryType, IInv', RInv, LInv, SInv, NEW t \in Thread, pc[t] \in {"match", "probe", "links"},
         OthersSame(t), UNCHANGED <<memory, api>>, NEW rest, NEW lm, ScanOn(t, rest, lm)
  PROVE  SInv'
<1>1. /\ pc'[t] \in {"probe", "links", "match", "check", "finalize", "reserve", "choose"}
      /\ pc'[t] \in {"finalize", "reserve", "choose"} =>
           call[t].kind = "Insert" /\ (pc'[t] = "finalize" <=> Reserved(t))
      /\ pc'[t] = "reserve" => invalidMask(scan[t].h, 0) # {}
      /\ scan'[t].slot = scan[t].slot /\ scan'[t].idx = scan[t].idx /\ scan'[t].h = scan[t].h
      /\ scan'[t].ent = Nil
  BY ScanOnTo
<1>2. call' = call /\ res' = res /\ calls' = calls
  BY DEF api
<1>3. pc'[t] \notin SlotPC /\ (pc'[t] \in InsertPC => pc'[t] \in {"finalize", "reserve", "choose"})
      /\ ~Returned(t) /\ ~Returned(t)' /\ pc[t] # "idle" /\ pc'[t] \notin MovePC
  BY <1>1 DEF SlotPC, InsertPC, OwnPC, Returned, UnresPC, MovePC, TransferPC
<1>4. CallInv(t)'
  BY <1>1, <1>2, <1>3, CallOn
<1>5. HeadInv(t)'
  BY <1>1, <1>2, SameHead DEF SeqPC, HeadPC
<1>6. PickInv(t)'
  BY <1>1 DEF PickInv, invalidMask
<1>7. TargetInv(t)'
  BY <1>1 DEF TargetInv, Aims, LoopPC, AimPC, Marks
<1>8. Reserved(t)' <=> Reserved(t)
  BY <1>1, <1>2 DEF Reserved
<1>9. Holds(t)' <=> Holds(t)
  BY <1>1, <1>8 DEF Holds, OwnPC, ScanPC
<1>10. \A bin, i : Owns(t, bin, i)' <=> Owns(t, bin, i)
  BY <1>1, <1>2, <1>9, OwnsKept
<1>11. OwnInv(t)'
  BY <1>2, <1>10, OwnSame DEF UnresPC
<1>12. Change(t)
  <2>1. ApiStep(t)
    BY <1>2, ApiSame
  <2> QED
    BY <1>1, <1>10, <2>1, MemorySame
<1> QED
  BY <1>3, <1>4, <1>5, <1>6, <1>7, <1>11, <1>12, StepS DEF Own

\* The entry that a probe finds was put there by a call that is over, unless the header
\* has changed since the lookup began.
LEMMA FoundS ==
  ASSUME IInv, EntryType, IInv', RInv, LInv, SInv, NEW t \in Thread, Probe(t), OthersSame(t),
         pc'[t] = "check", NEW i, i = Lowest(scan[t].bm), NEW e, e = EntryAt(Bin(t), i),
         e # Nil, e.key = call[t].key, scan'[t] = Found(t, i, e)
  PROVE  SInv'
<1>1. pc[t] = "probe" /\ pc[t] # "idle" /\ call' = call /\ res' = res /\ calls' = calls /\ UNCHANGED memory
  BY DEF Probe, api
<1>2. scan[t] \in BaseScan /\ ScanInv(t) /\ scan[t].bm # {} /\ scan[t].bm \subseteq SlotIdx
  BY <1>1, Locals DEF ScanInv, BaseScan
<1>3. i \in scan[t].bm /\ i \in SlotIdx /\ scan[t].h.ss[i] = SlotValid
  BY <1>2, LowestIn, SlotIdxNat DEF ScanInv
<1>4. /\ scan'[t].idx = scan[t].idx /\ scan'[t].h = scan[t].h /\ scan'[t].ent = e
      /\ scan'[t].slot = IF call[t].kind \in {"Put", "Delete"} THEN i ELSE scan[t].slot
  BY <1>2 DEF Found, BaseScan
<1>5. /\ ~Returned(t) /\ ~Returned(t)' /\ pc'[t] \notin MovePC \cup SlotPC \cup InsertPC
  BY <1>1 DEF SlotPC, InsertPC, OwnPC, Returned, UnresPC, MovePC, TransferPC
<1>6. CallInv(t)'
  BY <1>1, <1>5, CallOn
<1>7. HeadInv(t)' /\ (Validated(t)' <=> Validated(t)) /\ Bin(t)' = Bin(t)
  BY <1>1, <1>4, SameHead DEF SeqPC, HeadPC
<1>8. PickInv(t)'
  BY DEF PickInv, ChoicePC
<1>9. TargetInv(t)'
  <2>1. Aims(t)' => scan'[t].h.ss[scan'[t].slot] = SlotValid
    BY <1>1, <1>3, <1>4 DEF Aims
  <2>2. ASSUME Validated(t) PROVE Settled(e.val)'
    <3>1. header[Bin(t)].ss[i] = SlotValid /\ Bin(t) \in BinId
      BY <1>1, <1>3, <2>2, BinType DEF Validated
    <3>2. Settled(e.val)
      BY <1>3, <3>1 DEF SInv, EntryInv
    <3> QED
      BY <1>1, <3>2 DEF Settled
  <2> QED
    BY <1>1, <1>4, <1>7, <2>1, <2>2 DEF TargetInv, LoopPC, AimPC, Marks, Settled
<1>10. call[t].kind = "Insert" => scan'[t].slot = scan[t].slot
  BY <1>4
<1>11. Holds(t)' <=> Holds(t)
  BY <1>1, <1>10 DEF Holds, OwnPC, ScanPC, Reserved
<1>12. \A bin, j : Owns(t, bin, j)' <=> Owns(t, bin, j)
  BY <1>1, <1>4, <1>10, <1>11, OwnsKept DEF Holds, Reserved, OwnPC
<1>13. OwnInv(t)'
  BY <1>1, <1>12, OwnSame DEF UnresPC
<1>14. Change(t)
  <2>1. ApiStep(t)
    BY <1>1, ApiSame
  <2> QED
    BY <1>1, <1>12, <2>1, MemorySame
<1> QED
  BY <1>5, <1>6, <1>7, <1>8, <1>9, <1>13, <1>14, StepS DEF Own

\* The slot that is kept when a lookup is forgotten.
LEMMA KeptFields ==
  ASSUME IInv, NEW t \in Thread
  PROVE  /\ Kept(t).idx = scan[t].idx /\ Kept(t).h = ZeroHeader /\ Kept(t).bm = {}
         /\ Kept(t).slot = scan[t].slot /\ Kept(t).ent = Nil
  BY Locals DEF Kept, FreshScan

\* A step that leaves the words of the bins alone and in which the call keeps the
\* slot it has, if it has one.
LEMMA KeepS ==
  ASSUME IInv, EntryType, IInv', RInv, LInv, SInv, NEW t \in Thread, OthersSame(t), UNCHANGED <<memory, call, res, calls>>,
         pc[t] # "idle", ~Returned(t), ~Returned(t)',
         pc'[t] \in SlotPC => call[t].kind \in {"Put", "Delete"},
         pc'[t] \in InsertPC => call[t].kind = "Insert",
         pc'[t] \notin MovePC \cup {"mark", "load", "follow", "unresClear", "unresCAS"},
         scan'[t].idx = scan[t].idx, Holds(t)' <=> Holds(t), Holds(t) => scan'[t].slot = scan[t].slot,
         pc'[t] \in SeqPC => \/ pc[t] \in SeqPC /\ scan'[t].h = scan[t].h
                             \/ scan'[t].h = header[Bin(t)],
         pc'[t] \in UnresPC \cup {"fillKey"} \/ pc[t] \notin UnresPC \cup {"fillKey", "fillVal"} \/ ~Holds(t),
         PickInv(t)', TargetInv(t)'
  PROVE  SInv'
<1>1. CallInv(t)'
  BY CallOn
<1>2. \A bin, i : Owns(t, bin, i)' <=> Owns(t, bin, i)
  BY OwnsKept
<1>3. OwnInv(t)'
  <2>1. CASE Holds(t)
    BY <1>2, <2>1, OwnSame
  <2>2. CASE ~Holds(t)
    BY <1>2, <2>2 DEF OwnInv, Owns, Holds
  <2> QED
    BY <2>1, <2>2
<1>4. HeadInv(t)'
  <2>1. Bin(t)' = Bin(t) /\ header' = header /\ HeadInv(t)
    BY DEF Bin, getBin, hash, SInv, memory
  <2>2. header[Bin(t)] \in Header
    BY BinType
  <2>3. Before(header[Bin(t)], header[Bin(t)])
    BY <2>2, BeforeOrder
  <2> QED
    BY <2>1, <2>3 DEF HeadInv
<1>5. Change(t)
  <2>1. ApiStep(t)
    BY ApiSame
  <2> QED
    BY <1>2, <2>1, MemorySame
<1> QED
  BY <1>1, <1>3, <1>4, <1>5, StepS DEF Own

\* The loads at retry: no header in hand, no slot reserved.
LEMMA LoadsS ==
  ASSUME IInv, EntryType, IInv', RInv, LInv, SInv, NEW t \in Thread, LoadActive(t) \/ LoadHeader(t) \/ Follow(t),
         OthersSame(t)
  PROVE  SInv'
<1> USE DEF Goto
<1>1. /\ pc \in [Thread -> PC] /\ scan \in [Thread -> BaseScan] /\ UNCHANGED <<memory, call, res, calls>>
      /\ HeadInv(t)
  BY DEF IInv, BaseType, BaseLocal, SInv, LoadActive, LoadHeader, Follow, api
<1>2. pc[t] \in {"active", "load", "follow"} /\ pc[t] # "idle" /\ ~Returned(t)
  BY DEF LoadActive, LoadHeader, Follow, Returned, UnresPC
<1>3. ~Holds(t) /\ \A bin, i : ~Owns(t, bin, i)
  BY <1>1, <1>2 DEF HeadInv, Holds, Owns, OwnPC, ScanPC, Reserved
<1>4. CASE LoadActive(t) \/ Follow(t)
  <2>1. pc'[t] = "load" /\ scan'[t].slot = NoSlot
    BY <1>1, <1>4 DEF LoadActive, Follow, FreshScan
  <2> QED
    BY <1>1, <1>2, <1>3, <2>1, ForgetS DEF PlainPC, MovePC, TransferPC
<1>5. CASE LoadHeader(t) /\ header[Bin(t)].bs # BinNoTransfer
  <2>1. pc'[t] \in {"follow", "active"} /\ scan' = scan /\ pc[t] = "load"
    BY <1>1, <1>5 DEF LoadHeader
  <2>2. scan'[t].slot = NoSlot
    BY <1>1, <2>1 DEF HeadInv
  <2> QED
    BY <1>1, <1>2, <1>3, <2>1, <2>2, ForgetS DEF PlainPC, MovePC, TransferPC
<1>6. CASE LoadHeader(t) /\ header[Bin(t)].bs = BinNoTransfer
  <2>1. pc'[t] = "match" /\ pc[t] = "load"
    BY <1>1, <1>6 DEF LoadHeader
  <2>2. /\ scan'[t].h = header[Bin(t)] /\ scan'[t].slot = scan[t].slot /\ scan'[t].idx = scan[t].idx
    BY <1>1, <1>6 DEF LoadHeader, BaseScan
  <2>3. scan[t].slot = NoSlot
    BY <1>1, <2>1 DEF HeadInv
  <2>4. ~Holds(t)'
    BY <2>1, <2>2, <2>3 DEF Holds, OwnPC, Reserved
  <2>5. PickInv(t)' /\ TargetInv(t)'
    BY <2>1 DEF PickInv, TargetInv, ChoicePC, LoopPC, AimPC, Aims, Marks
  <2> QED
    BY <1>1, <1>2, <1>3, <2>1, <2>2, <2>4, <2>5, KeepS
       DEF SlotPC, InsertPC, OwnPC, MovePC, TransferPC, Returned, UnresPC
<1> QED
  BY <1>4, <1>5, <1>6

\* The header has changed since the lookup began: Insert keeps its slot.
LEMMA CheckStaleS ==
  ASSUME IInv, EntryType, IInv', RInv, LInv, SInv, NEW t \in Thread, CheckStale(t), OthersSame(t)
  PROVE  SInv'
<1> USE DEF Goto
<1>1. /\ pc \in [Thread -> PC] /\ scan \in [Thread -> BaseScan] /\ UNCHANGED <<memory, call, res, calls>>
      /\ pc[t] = "check" /\ ~Returned(t) /\ CallInv(t)
  BY DEF IInv, BaseType, BaseLocal, SInv, CheckStale, api, Returned, UnresPC
<1>2. CASE Reserved(t)
  <2>1. pc'[t] = "load2" /\ scan'[t] = Kept(t)
    BY <1>1, <1>2 DEF CheckStale, KeepSlot
  <2>2. scan'[t].idx = scan[t].idx /\ scan'[t].slot = scan[t].slot
    BY <2>1, KeptFields
  <2>3. Holds(t) /\ Holds(t)' /\ call[t].kind = "Insert"
    BY <1>1, <1>2, <2>1 DEF Holds, OwnPC, ScanPC, Reserved
  <2>4. PickInv(t)' /\ TargetInv(t)'
    BY <2>1 DEF PickInv, TargetInv, ChoicePC, LoopPC, AimPC, Aims, Marks
  <2> QED
    BY <1>1, <2>1, <2>2, <2>3, <2>4, KeepS
       DEF SlotPC, InsertPC, OwnPC, MovePC, TransferPC, Returned, UnresPC, SeqPC, HeadPC
<1>3. CASE ~Reserved(t)
  <2>1. pc'[t] = "load" /\ scan'[t].slot = NoSlot
    BY <1>1, <1>3 DEF CheckStale, Retry, FreshScan
  <2>2. \A bin, i : ~Owns(t, bin, i)
    BY <1>1, <1>3 DEF Owns, OwnPC
  <2> QED
    BY <1>1, <2>1, <2>2, ForgetS DEF PlainPC, MovePC, TransferPC
<1> QED
  BY <1>2, <1>3

\* The slot to which Put and Delete go is Valid, and its entry that of a call that is over.
LEMMA CheckTargetS ==
  ASSUME IInv, EntryType, IInv', RInv, LInv, SInv, NEW t \in Thread, CheckTarget(t), OthersSame(t)
  PROVE  SInv'
<1> USE DEF Goto
<1>1. /\ pc \in [Thread -> PC] /\ scan' = scan /\ UNCHANGED <<memory, call, res, calls>>
      /\ pc[t] = "check" /\ ~Returned(t) /\ TargetInv(t) /\ Validated(t)
      /\ call[t].kind \in {"Put", "Delete"} /\ scan[t].ent # Nil
  BY DEF IInv, BaseType, BaseLocal, SInv, CheckTarget, api, Returned, UnresPC
<1>2. pc'[t] = "dwcas"
  BY <1>1 DEF CheckTarget
<1>3. /\ scan[t].h.ss[scan[t].slot] = SlotValid /\ scan[t].ent.key = call[t].key
      /\ Settled(scan[t].ent.val) /\ header[Bin(t)].ss[scan[t].slot] = SlotValid
  BY <1>1 DEF TargetInv, Aims, Validated
<1>4. Bin(t)' = Bin(t) /\ header' = header
  BY <1>1 DEF Bin, getBin, hash, memory
<1>5. TargetInv(t)'
  BY <1>1, <1>2, <1>3, <1>4 DEF TargetInv, LoopPC, AimPC, Aims, Marks, Settled
<1>6. PickInv(t)' /\ ~Holds(t) /\ ~Holds(t)'
  BY <1>1, <1>2 DEF PickInv, ChoicePC, Holds, OwnPC, ScanPC, Reserved
<1> QED
  BY <1>1, <1>2, <1>5, <1>6, KeepS
     DEF SlotPC, InsertPC, OwnPC, MovePC, TransferPC, Returned, UnresPC, SeqPC, HeadPC

\* The answer of a lookup: an Insert that found its key gives up the slot it had reserved.
LEMMA CheckAnswerS ==
  ASSUME IInv, EntryType, IInv', RInv, LInv, SInv, NEW t \in Thread, CheckAnswer(t), OthersSame(t)
  PROVE  SInv'
<1> USE DEF Goto
<1>1. /\ pc \in [Thread -> PC] /\ scan \in [Thread -> BaseScan] /\ res \in [Thread -> Answer \cup {Pending}]
      /\ UNCHANGED <<memory, call, calls>> /\ ins' = ins /\ res' \in [Thread -> Answer \cup {Pending}]
      /\ pc[t] = "check" /\ CallInv(t) /\ scan[t] \in BaseScan /\ ins[t].cont = "idle"
  BY Locals DEF IInv, BaseType, BaseLocal, ApiType, SInv, CheckAnswer, memory, InsInv, UnresPC
<1> DEFINE r == [val |-> IF scan[t].ent = Nil THEN Absent ELSE scan[t].ent.val,
                 ok |-> call[t].kind = "Get" /\ scan[t].ent # Nil]
<1>2. r # Pending /\ res' = [res EXCEPT ![t] = r]
  <2>1. (IF scan[t].ent = Nil THEN Absent ELSE scan[t].ent.val) \in Value \cup {Absent}
    BY DEF EntryType, Entry
  <2>2. r \in [val : Value \cup {Absent}, ok : BOOLEAN]
    BY <2>1
  <2>3. r # Pending
    <3> HIDE DEF r
    <3> QED BY <2>2, MarkerAssumption
  <2> QED
    BY <2>3 DEF CheckAnswer, Reply
<1> HIDE DEF r
<1>3. ApiStep(t) /\ res'[t] # Pending
  BY <1>1, <1>2, ApiSame
<1>4. CASE Reserved(t)
  <2>1. pc'[t] = "unres" /\ scan'[t] = Kept(t)
    BY <1>1, <1>4 DEF CheckAnswer, KeepSlot
  <2>2. scan'[t].idx = scan[t].idx /\ scan'[t].slot = scan[t].slot /\ call[t].kind = "Insert"
    BY <1>4, <2>1, KeptFields DEF Reserved
  <2>3. Holds(t) /\ Holds(t)'
    BY <1>1, <1>4, <2>1 DEF Holds, OwnPC, ScanPC, Reserved
  <2>4. \A bin, i : Owns(t, bin, i)' <=> Owns(t, bin, i)
    BY <1>1, <2>2, <2>3, OwnsKept
  <2>5. CallInv(t)'
    BY <1>1, <1>3, <2>1, <2>2 DEF CallInv, Returned, UnresPC, SlotPC
  <2>6. HeadInv(t)' /\ PickInv(t)' /\ TargetInv(t)'
    BY <2>1 DEF HeadInv, SeqPC, HeadPC, PickInv, TargetInv, ChoicePC, LoopPC, AimPC, Aims, Marks
  <2>7. OwnInv(t)'
    BY <1>1, <2>1, <2>4, OwnSame DEF UnresPC
  <2>8. Change(t)
    BY <1>1, <1>3, <2>1, <2>4, MemorySame
  <2> QED
    BY <2>1, <2>5, <2>6, <2>7, <2>8, StepS DEF Own, MovePC, TransferPC
<1>5. CASE ~Reserved(t)
  <2>1. pc'[t] = "idle"
    BY <1>1, <1>5 DEF CheckAnswer
  <2>2. \A bin, i : ~Owns(t, bin, i)
    BY <1>1, <1>5 DEF Owns, OwnPC
  <2>3. CallInv(t)'
    BY <1>3, <2>1 DEF CallInv, Returned, SlotPC, InsertPC, OwnPC
  <2>4. Own(t)' /\ \A bin, i : ~Owns(t, bin, i)'
    BY <2>1, <2>3, PlainOwn DEF PlainPC
  <2>5. Change(t)
    BY <1>1, <1>3, <2>1, <2>2, <2>4, MemorySame
  <2> QED
    BY <2>1, <2>4, <2>5, StepS DEF MovePC, TransferPC
<1> QED
  BY <1>4, <1>5

\* The lookup writes no word of a bin; what it finds was settled.
LEMMA ScanS ==
  ASSUME IInv, EntryType, IInv', RInv, LInv, SInv, NEW t \in Thread, ScanStep(t)
  PROVE  SInv'
<1>1. OthersSame(t)
  BY ScanFrame DEF Quiet
<1>2. CASE MatchKeys(t)
  BY <1>1, <1>2, ScanOnS DEF MatchKeys
<1>3. CASE LoadLinks(t)
  BY <1>1, <1>3, ScanOnS DEF LoadLinks
<1>4. CASE Probe(t)
  <2>1. pc[t] = "probe" /\ pc \in [Thread -> PC] /\ scan \in [Thread -> BaseScan] /\ UNCHANGED <<memory, api>>
    BY <1>4 DEF Probe, IInv, BaseType, BaseLocal
  <2>2. CASE ScanOn(t, scan[t].bm \ {Lowest(scan[t].bm)}, scan[t].lm)
    BY <1>1, <2>1, <2>2, ScanOnS
  <2>3. CASE ~ScanOn(t, scan[t].bm \ {Lowest(scan[t].bm)}, scan[t].lm)
    <3> DEFINE i == Lowest(scan[t].bm)
               e == slotVal[SlotLoc(Bin(t), i)]
    <3>1. e # Nil /\ e.key = call[t].key /\ pc'[t] = "check" /\ scan'[t] = Found(t, i, e)
      BY <1>4, <2>1, <2>3 DEF Probe, Goto
    <3>2. e = EntryAt(Bin(t), i)
      BY DEF EntryAt
    <3> HIDE DEF i, e
    <3>3. i = Lowest(scan[t].bm)
      BY DEF i
    <3> QED
      BY <1>1, <1>4, <3>1, <3>2, <3>3, FoundS
  <2> QED
    BY <2>2, <2>3
<1> QED
  BY <1>1, <1>2, <1>3, <1>4, LoadsS, CheckStaleS, CheckTargetS, CheckAnswerS DEF ScanStep

-----------------------------------------------------------------------------
(* The steps at a found slot.                                              *)

\* What a call at a found slot has: a target, and no slot of its own.
LEMMA AtTarget ==
  ASSUME IInv, SInv, NEW t \in Thread, pc[t] \in SlotPC
  PROVE  /\ pc[t] # "idle" /\ TargetInv(t) /\ CallInv(t) /\ call[t].kind \in {"Put", "Delete"}
         /\ ~Holds(t) /\ \A bin, i : ~Owns(t, bin, i)
         /\ pc[t] # "mark" => ~Returned(t) /\ res[t] = Pending
         /\ scan[t].slot \in SlotIdx /\ HasSlot(linkMeta[Bin(t)], scan[t].slot)
         /\ Bin(t) \in BinId /\ pc \in [Thread -> PC] /\ scan \in [Thread -> BaseScan]
<1>1. pc[t] # "idle" /\ pc[t] \notin OwnPC \cup ScanPC \cup UnresPC
  BY DEF SlotPC, OwnPC, ScanPC, UnresPC
<1>2. CallInv(t) /\ TargetInv(t)
  BY DEF SInv
<1>3. pc[t] # "mark" => ~Returned(t) /\ res[t] = Pending
  BY <1>1, <1>2 DEF CallInv, Returned
<1>4. scan[t].slot \in SlotIdx /\ HasSlot(linkMeta[Bin(t)], scan[t].slot)
  BY AtSlot DEF NeedsSlot
<1>5. Bin(t) \in BinId
  BY <1>1, BinType
<1> QED
  BY <1>1, <1>2, <1>3, <1>4, <1>5 DEF CallInv, Holds, Owns, IInv, BaseType, BaseLocal

\* The slot turned out to be another's: the call begins again.
LEMMA RetryS ==
  ASSUME IInv, EntryType, IInv', RInv, LInv, SInv, NEW t \in Thread, pc[t] \in SlotPC, pc[t] # "mark", Retry(t),
         OthersSame(t), UNCHANGED <<memory, call, res, calls>>
  PROVE  SInv'
<1>1. pc'[t] = "load" /\ scan'[t].slot = NoSlot
  BY AtTarget DEF Retry, Goto, FreshScan
<1>2. \A bin, i : ~Owns(t, bin, i)
  BY AtTarget
<1> QED
  BY <1>1, <1>2, AtTarget, ForgetS DEF PlainPC, MovePC, TransferPC

\* The call goes on at the slot.
LEMMA TargetS ==
  ASSUME IInv, EntryType, IInv', RInv, LInv, SInv, NEW t \in Thread, pc[t] \in SlotPC, pc[t] # "mark",
         OthersSame(t), UNCHANGED <<memory, call, res, calls>>, scan'[t].idx = scan[t].idx,
         pc'[t] \in SlotPC, pc'[t] # "mark",
         pc'[t] \in SeqPC => \/ pc[t] \in SeqPC /\ scan'[t].h = scan[t].h
                             \/ scan'[t].h = header[Bin(t)],
         TargetInv(t)'
  PROVE  SInv'
<1>1. /\ pc[t] # "idle" /\ call[t].kind \in {"Put", "Delete"} /\ ~Holds(t) /\ ~Returned(t)
  BY AtTarget
<1>2. ~Holds(t)' /\ PickInv(t)'
  BY DEF Holds, SlotPC, OwnPC, ScanPC, PickInv, ChoicePC
<1>3. pc'[t] \notin MovePC \cup {"mark", "load", "follow", "unresClear", "unresCAS"} \cup InsertPC /\ ~Returned(t)'
  BY DEF SlotPC, InsertPC, OwnPC, MovePC, TransferPC, Returned, UnresPC
<1> QED
  BY <1>1, <1>2, <1>3, KeepS

\* The loop in which the slot is validated again after a failed DWCAS.
LEMMA LoopS ==
  ASSUME IInv, EntryType, IInv', RInv, LInv, SInv, NEW t \in Thread, OthersSame(t),
         DWCASMiss(t) \/ LoopHeader(t) \/ LoopKey(t) \/ LoopVal(t) \/ LoopCheck(t) \/ LoopTTAS(t)
  PROVE  SInv'
<1> USE DEF Goto
<1>1. UNCHANGED <<memory, call, res, calls>> /\ pc[t] \in SlotPC /\ pc[t] # "mark"
  BY DEF DWCASMiss, LoopHeader, LoopKey, LoopVal, LoopCheck, LoopTTAS, api, SlotPC
<1>2. /\ TargetInv(t) /\ Bin(t) \in BinId /\ pc \in [Thread -> PC] /\ scan \in [Thread -> BaseScan]
      /\ scan[t].slot \in SlotIdx /\ header' = header /\ slotVal' = slotVal /\ linkMeta' = linkMeta
  BY <1>1, AtTarget DEF memory
<1>3. \A v : Settled(v)' <=> Settled(v)
  BY <1>1 DEF Settled
<1>4. scan'[t].idx = scan[t].idx => Bin(t)' = Bin(t)
  BY <1>1 DEF Bin, getBin, hash
<1>5. ASSUME pc'[t] = "loop", scan' = [scan EXCEPT ![t] = Kept(t)] PROVE SInv'
  <2>1. scan'[t] = Kept(t) /\ scan'[t].idx = scan[t].idx
    BY <1>2, <1>5, KeptFields
  <2>2. TargetInv(t)'
    BY <1>5 DEF TargetInv, LoopPC, AimPC, Aims, Marks
  <2> QED
    BY <1>1, <1>5, <2>1, <2>2, TargetS DEF SlotPC, SeqPC, HeadPC
<1>6. CASE DWCASMiss(t)
  BY <1>2, <1>5, <1>6 DEF DWCASMiss, KeepSlot
<1>7. CASE LoopHeader(t)
  <2>1. CASE Retry(t)
    BY <1>1, <2>1, RetryS
  <2>2. CASE ~Retry(t)
    <3>1. /\ pc'[t] = "loopKey" /\ header[Bin(t)].ss[scan[t].slot] = SlotValid
          /\ scan' = [scan EXCEPT ![t].h = header[Bin(t)]]
      BY <1>2, <1>7, <2>2 DEF LoopHeader
    <3>2. scan'[t].h = header[Bin(t)] /\ scan'[t].slot = scan[t].slot /\ scan'[t].idx = scan[t].idx
      BY <1>2, <3>1 DEF BaseScan
    <3>3. TargetInv(t)'
      BY <3>1, <3>2 DEF TargetInv, LoopPC, AimPC, Aims, Marks
    <3> QED
      BY <1>1, <3>1, <3>2, <3>3, TargetS DEF SlotPC
  <2> QED
    BY <2>1, <2>2
<1>8. CASE LoopKey(t)
  <2>1. CASE Retry(t)
    BY <1>1, <2>1, RetryS
  <2>2. CASE ~Retry(t)
    <3>1. pc'[t] = "loopVal" /\ scan' = scan /\ pc[t] = "loopKey"
      BY <1>2, <1>8, <2>2 DEF LoopKey
    <3>2. TargetInv(t)'
      BY <1>2, <3>1 DEF TargetInv, LoopPC, AimPC, Aims, Marks
    <3> QED
      BY <1>1, <3>1, <3>2, TargetS DEF SlotPC, SeqPC
  <2> QED
    BY <2>1, <2>2
<1>9. CASE LoopVal(t)
  <2>1. CASE Retry(t)
    BY <1>1, <2>1, RetryS
  <2>2. CASE ~Retry(t)
    <3> DEFINE e == slotVal[OpLoc(t)]
    <3>1. /\ pc'[t] = "loopCheck" /\ pc[t] = "loopVal" /\ e # Nil /\ e.key = call[t].key
          /\ scan' = [scan EXCEPT ![t].ent = e]
      BY <1>2, <1>9, <2>2 DEF LoopVal
    <3>2. /\ scan'[t].ent = e /\ scan'[t].h = scan[t].h /\ scan'[t].slot = scan[t].slot
          /\ scan'[t].idx = scan[t].idx
      BY <1>2, <3>1 DEF BaseScan
    <3>3. e = EntryAt(Bin(t), scan[t].slot)
      BY DEF EntryAt, OpLoc
    <3>4. scan[t].h.ss[scan[t].slot] = SlotValid
      BY <1>2, <3>1 DEF TargetInv, LoopPC
    <3> HIDE DEF e
    <3>5. Validated(t)' => Settled(e.val)
      BY <1>2, <1>4, <3>1, <3>2, <3>3, <3>4 DEF Validated, SInv, EntryInv
    <3>6. TargetInv(t)'
      BY <1>1, <1>3, <3>1, <3>2, <3>4, <3>5 DEF TargetInv, LoopPC, AimPC, Aims, Marks
    <3> QED
      BY <1>1, <3>1, <3>2, <3>6, TargetS DEF SlotPC, SeqPC
  <2> QED
    BY <2>1, <2>2
<1>10. CASE LoopCheck(t)
  <2>1. CASE Validated(t)
    <3>1. pc'[t] = "loopTTAS" /\ scan' = scan /\ pc[t] = "loopCheck"
      BY <1>2, <1>10, <2>1 DEF LoopCheck
    <3>2. scan[t].ent # Nil
      BY <3>1, Locals DEF ScanInv
    <3>3. /\ header[Bin(t)].ss[scan[t].slot] = SlotValid
          /\ scan[t].ent.key = call[t].key /\ Settled(scan[t].ent.val)
      BY <1>2, <2>1, <3>1, <3>2 DEF TargetInv, LoopPC, Validated
    <3>4. TargetInv(t)'
      BY <1>1, <1>2, <1>3, <1>4, <3>1, <3>3 DEF TargetInv, LoopPC, AimPC, Aims, Marks
    <3> QED
      BY <1>1, <3>1, <3>4, TargetS DEF SlotPC, SeqPC, HeadPC
  <2>2. CASE ~Validated(t)
    BY <1>2, <1>5, <1>10, <2>2 DEF LoopCheck, KeepSlot
  <2> QED
    BY <2>1, <2>2
<1>11. CASE LoopTTAS(t)
  <2>1. CASE slotVal[OpLoc(t)] = scan[t].ent
    <3>1. pc'[t] = "dwcas" /\ scan' = scan /\ pc[t] = "loopTTAS"
      BY <1>2, <1>11, <2>1 DEF LoopTTAS
    <3>2. /\ scan[t].ent.key = call[t].key /\ Settled(scan[t].ent.val)
          /\ EntryAt(Bin(t), scan[t].slot) = scan[t].ent => header[Bin(t)].ss[scan[t].slot] = SlotValid
      BY <1>2, <3>1 DEF TargetInv, AimPC
    <3>3. EntryAt(Bin(t), scan[t].slot)' = EntryAt(Bin(t), scan[t].slot)
      BY <1>2, <1>4, <3>1 DEF EntryAt, SlotLoc
    <3>4. TargetInv(t)'
      BY <1>1, <1>2, <1>3, <1>4, <3>1, <3>2, <3>3 DEF TargetInv, LoopPC, AimPC, Aims, Marks
    <3> QED
      BY <1>1, <3>1, <3>4, TargetS DEF SlotPC, SeqPC, HeadPC
  <2>2. CASE slotVal[OpLoc(t)] # scan[t].ent
    BY <1>2, <1>5, <1>11, <2>2 DEF LoopTTAS, KeepSlot
  <2> QED
    BY <2>1, <2>2
<1> QED
  BY <1>6, <1>7, <1>8, <1>9, <1>10, <1>11

\* An entry that is written to a slot is written to that slot only.
LEMMA ValWritten ==
  ASSUME IInv, LInv, NEW b \in BinId, NEW i \in SlotIdx, HasSlot(linkMeta[b], i), NEW e,
         linkMeta' = linkMeta, slotVal'[SlotLoc(b, i)] = e,
         \A loc \in Loc : loc # SlotLoc(b, i) => slotVal'[loc] = slotVal[loc]
  PROVE  \A bin \in BinId : \A j \in SlotIdx : HasSlot(linkMeta[bin], j) =>
            EntryAt(bin, j)' = IF bin = b /\ j = i THEN e ELSE EntryAt(bin, j)
<1>1. SUFFICES ASSUME NEW bin \in BinId, NEW j \in SlotIdx, HasSlot(linkMeta[bin], j)
               PROVE  EntryAt(bin, j)' = IF bin = b /\ j = i THEN e ELSE EntryAt(bin, j)
  OBVIOUS
<1>2. SlotLoc(b, i) \in Loc /\ SlotLoc(bin, j) \in Loc
  BY <1>1, BinWords, LocType DEF SlotLoc
<1>3. SlotLoc(b, i) = SlotLoc(bin, j) => bin = b /\ j = i
  <2>1. LinksInv
    BY DEF LInv
  <2>2. bin[1] = b[1] => OneOwner(bin, b)
    BY <2>1 DEF LinksInv
  <2>3. linkMeta[b] \in LinkMeta /\ linkMeta[bin] \in LinkMeta
    BY BinWords
  <2>4. bin[1] = b[1] =>
          \A n, m \in LinkNo : resolveLink(linkMeta[bin], n) = resolveLink(linkMeta[b], m)
                               /\ resolveLink(linkMeta[bin], n) # NO_LINK => bin = b /\ n = m
    BY <2>2 DEF OneOwner
  <2> QED
    BY <1>1, <2>3, <2>4, LocApart DEF SlotLoc
<1>5. EntryAt(bin, j)' = slotVal'[SlotLoc(bin, j)] /\ EntryAt(bin, j) = slotVal[SlotLoc(bin, j)]
  BY DEF EntryAt, SlotLoc
<1>6. CASE bin = b /\ j = i
  BY <1>5, <1>6
<1>7. CASE ~(bin = b /\ j = i)
  <2>1. SlotLoc(b, i) # SlotLoc(bin, j)
    BY <1>3, <1>7
  <2>2. slotVal'[SlotLoc(bin, j)] = slotVal[SlotLoc(bin, j)]
    BY <1>2, <2>1
  <2> QED
    BY <1>5, <1>7, <2>2
<1> QED
  BY <1>6, <1>7

\* The entry of one slot is written, the headers and links stay.
LEMMA ChangeVal ==
  ASSUME IInv, LInv, SInv, NEW t \in Thread, OthersSame(t), ApiStep(t), UNCHANGED <<header, linkMeta, slotKey>>,
         NEW b \in BinId, NEW i \in SlotIdx, HasSlot(linkMeta[b], i), NEW e,
         slotVal' = [slotVal EXCEPT ![SlotLoc(b, i)] = e],
         EntryAt(b, i)' = e => ValStep(t, b, i) /\ EntryStep(b, i),
         \A bin \in BinId, j \in SlotIdx : OwnStep(t, bin, j)
  PROVE  Change(t) /\ EntryAt(b, i)' = e
<1>1. \A bin \in BinId : \A j \in SlotIdx : HasSlot(linkMeta[bin], j) =>
            EntryAt(bin, j)' = IF bin = b /\ j = i THEN e ELSE EntryAt(bin, j)
  <2>1. SlotLoc(b, i) \in Loc /\ linkMeta' = linkMeta
    BY BinWords, LocType DEF SlotLoc
  <2>2. slotVal \in [Loc -> Content]
    BY DEF IInv, BaseType, BaseMemory
  <2>3. /\ slotVal'[SlotLoc(b, i)] = e
        /\ \A loc \in Loc : loc # SlotLoc(b, i) => slotVal'[loc] = slotVal[loc]
    BY <2>1, <2>2
  <2> QED
    BY <2>1, <2>3, ValWritten
<1>2. LinksKept
  BY SameLinks DEF LinksKept
<1>3. Forward
  <2>1. \A bin \in BinId : header[bin] \in Header
    BY BinWords
  <2> QED
    BY <2>1, BeforeOrder DEF Forward
<1>4. ASSUME NEW bin \in BinId, NEW j \in SlotIdx
      PROVE  /\ StateStep(t, bin, j) /\ EntryStep(bin, j)
             /\ HasSlot(linkMeta[bin], j) => ValStep(t, bin, j) /\ KeyStep(t, bin, j)
  <2>1. StateStep(t, bin, j) /\ KeyStep(t, bin, j)
    BY DEF StateStep, KeyStep, KeyAt, SlotLoc
  <2>2. CASE bin = b /\ j = i
    BY <1>1, <2>1, <2>2
  <2>3. CASE ~(bin = b /\ j = i)
    <3>1. HasSlot(linkMeta[bin], j) => EntryAt(bin, j)' = EntryAt(bin, j)
      BY <1>1, <2>3
    <3>2. header[bin].ss[j] = SlotValid => HasSlot(linkMeta[bin], j)
      BY BinWords DEF Backed, SlotValid, SlotInvalid
    <3>3. EntryStep(bin, j)
      BY <3>1, <3>2 DEF EntryStep
    <3> QED
      BY <2>1, <3>1, <3>3 DEF ValStep
  <2> QED
    BY <2>2, <2>3
<1> QED
  BY <1>1, <1>2, <1>3, <1>4 DEF Change

\* The header of one bin is written, the slots and links stay.
LEMMA ChangeHeader ==
  ASSUME IInv, NEW t \in Thread, OthersSame(t), ApiStep(t), UNCHANGED <<linkMeta, slotKey, slotVal>>,
         NEW b \in BinId, NEW h, header' = [header EXCEPT ![b] = h],
         Before(header[b], h), h.bs = BinNoTransfer => header[b].bs = BinNoTransfer,
         h.ver = header[b].ver \/ header[b].bs = BinNoTransfer \/ Filling(b),
         \A i \in SlotIdx : StateStep(t, b, i) /\ EntryStep(b, i),
         \A bin \in BinId, i \in SlotIdx : OwnStep(t, bin, i)
  PROVE  Change(t)
<1>1. header \in [BinId -> Header]
  BY DEF IInv, BaseType, BaseMemory
<1>2. LinksKept
  BY SameLinks DEF LinksKept
<1>3. \A bin \in BinId : bin # b => header'[bin] = header[bin]
  BY <1>1
<1>4. header'[b] = h
  BY <1>1
<1>5. Forward
  <2>1. \A bin \in BinId : Before(header[bin], header[bin])
    BY <1>1, BeforeOrder
  <2> QED
    BY <1>3, <1>4, <2>1 DEF Forward
<1>6. ASSUME NEW bin \in BinId, NEW i \in SlotIdx
      PROVE  /\ StateStep(t, bin, i) /\ EntryStep(bin, i)
             /\ ValStep(t, bin, i) /\ KeyStep(t, bin, i)
  <2>1. EntryAt(bin, i)' = EntryAt(bin, i) /\ KeyAt(bin, i)' = KeyAt(bin, i)
    BY DEF EntryAt, KeyAt, SlotLoc
  <2>2. ValStep(t, bin, i) /\ KeyStep(t, bin, i)
    BY <2>1 DEF ValStep, KeyStep
  <2>3. bin # b => StateStep(t, bin, i) /\ EntryStep(bin, i)
    BY <1>3, <2>1 DEF StateStep, EntryStep
  <2> QED
    BY <2>2, <2>3
<1> QED
  BY <1>2, <1>5, <1>6 DEF Change

\* The DWCAS of Put or Delete succeeds: the entry it replaces was settled, in a slot that
\* is Valid, and the new one is settled from now on.
LEMMA DWCASHitS ==
  ASSUME IInv, EntryType, IInv', RInv, LInv, SInv, NEW t \in Thread, DWCASHit(t), OthersSame(t)
  PROVE  SInv'
<1> USE DEF Goto
<1> DEFINE r == [val |-> scan[t].ent.val, ok |-> TRUE]
<1>0. PICK b, s, e : b = Bin(t) /\ s = scan[t].slot
                     /\ e = IF call[t].kind = "Put" THEN NewEntry(t) ELSE Nil
  OBVIOUS
<1>1. /\ pc[t] = "dwcas" /\ UNCHANGED <<header, linkMeta, slotKey>> /\ call' = call /\ calls' = calls
      /\ slotVal[OpLoc(t)] = scan[t].ent /\ slotVal' = [slotVal EXCEPT ![SlotLoc(b, s)] = e]
      /\ res' = [res EXCEPT ![t] = r]
  BY <1>0 DEF DWCASHit, OpLoc, Reply
<1>2. /\ b \in BinId /\ s \in SlotIdx /\ HasSlot(linkMeta[b], s) /\ pc[t] # "idle"
      /\ CallInv(t) /\ call[t].kind \in {"Put", "Delete"} /\ \A bin, i : ~Owns(t, bin, i)
      /\ pc \in [Thread -> PC] /\ scan \in [Thread -> BaseScan]
  BY <1>0, <1>1, AtTarget DEF SlotPC
<1>3. EntryAt(b, s) = scan[t].ent /\ scan[t].ent # Nil
  <2>1. ScanInv(t)
    BY <1>2, Locals
  <2> QED
    BY <1>0, <1>1, <2>1 DEF ScanInv, EntryAt, OpLoc
<1>4. res' \in [Thread -> Answer \cup {Pending}] /\ res \in [Thread -> Answer \cup {Pending}]
  BY DEF IInv, BaseType, ApiType
<1>5. r # Pending /\ res'[t] # Pending
  <2>1. scan[t].ent.val \in Value
    BY <1>2, <1>3 DEF EntryType, Entry
  <2>2. r \in [val : Value \cup {Absent}, ok : BOOLEAN]
    BY <2>1
  <2>3. r # Pending
    <3> HIDE DEF r
    <3> QED BY <2>2, MarkerAssumption
  <2> QED
    BY <1>1, <1>4, <2>3
<1> HIDE DEF r
<1>6. ApiStep(t)
  BY <1>1, <1>5, ApiSame
<1>7. e # Nil => Settled(e.val)'
  <2>1. call[t].val = <<t, calls[t]>>
    BY <1>2 DEF CallInv
  <2>2. e # Nil => e.val = <<t, calls[t]>>
    BY <1>0, <2>1 DEF NewEntry
  <2> QED
    BY <1>1, <1>5, <2>2 DEF Settled
<1>8. \/ pc'[t] = "idle" /\ call[t].kind = "Put"
      \/ pc'[t] = "mark" /\ scan'[t] = Kept(t) /\ call[t].kind = "Delete"
  BY <1>2 DEF DWCASHit, KeepSlot
<1>9. ~Holds(t)'
  BY <1>8 DEF Holds, OwnPC, ScanPC
<1>10. \A bin, i : Marks(t, bin, i)' => bin = b /\ i = s
  <2>1. CASE pc'[t] = "idle"
    BY <2>1 DEF Marks
  <2>2. CASE scan'[t] = Kept(t)
    <3>1. scan'[t].slot = s /\ scan'[t].idx = scan[t].idx
      BY <1>0, <2>2, KeptFields
    <3>2. Bin(t)' = b
      BY <1>0, <1>1, <3>1 DEF Bin, getBin, hash
    <3> QED
      BY <3>1, <3>2 DEF Marks
  <2> QED
    BY <1>8, <2>1, <2>2
<1>11. \A bin \in BinId, i \in SlotIdx : OwnStep(t, bin, i)
  BY <1>1, <1>2, <1>3, <1>9, <1>10 DEF OwnStep, Owns, Holds, SlotInvalid, SlotTrying
<1>12. ASSUME EntryAt(b, s)' = e PROVE ValStep(t, b, s) /\ EntryStep(b, s)
  <2>1. Hits(t, b, s)
    BY <1>0, <1>1, <1>3, <1>12 DEF Hits
  <2>2. EntryStep(b, s)
    BY <1>7, <1>12 DEF EntryStep
  <2> QED
    BY <2>1, <2>2 DEF ValStep
<1>13. Change(t) /\ EntryAt(b, s)' = e
  BY <1>1, <1>2, <1>6, <1>11, <1>12, ChangeVal
<1>14. Own(t)'
  <2>1. CallInv(t)'
    BY <1>1, <1>2, <1>5, <1>8 DEF CallInv, Returned, SlotPC, InsertPC, OwnPC
  <2>2. CASE pc'[t] = "idle"
    BY <2>1, <2>2, PlainOwn DEF PlainPC
  <2>3. CASE pc'[t] = "mark" /\ call[t].kind = "Delete"
    <3>1. HeadInv(t)' /\ PickInv(t)'
      BY <2>3 DEF HeadInv, SeqPC, HeadPC, PickInv, ChoicePC
    <3>2. OwnInv(t)'
      BY <1>9 DEF OwnInv, Owns, Holds
    <3>3. header'[b].ss[s] = SlotValid /\ EntryAt(b, s)' = Nil
      <4>1. header[b].ss[s] = SlotValid
        BY <1>0, <1>1, <1>2, <1>3 DEF SInv, TargetInv, AimPC
      <4> QED
        BY <1>0, <1>1, <1>13, <2>3, <4>1
    <3>4. TargetInv(t)'
      BY <1>10, <2>3, <3>3 DEF TargetInv, LoopPC, AimPC, Aims
    <3> QED
      BY <2>1, <3>1, <3>2, <3>4 DEF Own
  <2> QED
    BY <1>8, <2>2, <2>3
<1> QED
  BY <1>8, <1>13, <1>14, StepS DEF MovePC, TransferPC

\* The AND of Delete: the slot is Valid until then, and empty.
LEMMA markSlotInvalidS ==
  ASSUME IInv, EntryType, IInv', RInv, LInv, SInv, NEW t \in Thread, markSlotInvalid(t), OthersSame(t)
  PROVE  SInv' /\ (header' = header \/ Forward)
<1> USE DEF Goto
<1>0. PICK b, s, h : b = Bin(t) /\ s = scan[t].slot /\ h = [header[b] EXCEPT !.ss[s] = SlotInvalid]
  OBVIOUS
<1>1. /\ pc[t] = "mark" /\ UNCHANGED <<linkMeta, slotKey, slotVal, call, calls, res>>
      /\ header' = [header EXCEPT ![b].ss[s] = SlotInvalid]
  BY <1>0 DEF markSlotInvalid, api
<1>2. /\ b \in BinId /\ s \in SlotIdx /\ pc[t] # "idle" /\ TargetInv(t) /\ CallInv(t)
      /\ \A bin, i : ~Owns(t, bin, i)
      /\ pc \in [Thread -> PC] /\ scan \in [Thread -> BaseScan] /\ header[b] \in Header
  BY <1>0, <1>1, AtTarget, BinWords DEF SlotPC
<1>3. header' = [header EXCEPT ![b] = h]
  BY <1>0, <1>1
<1>4. /\ Marks(t, b, s) /\ header[b].ss[s] = SlotValid
  BY <1>0, <1>1, <1>2 DEF TargetInv, Marks
<1>5. h.ver = header[b].ver /\ h.bs = header[b].bs
      /\ \A i \in SlotIdx : h.ss[i] = IF i = s THEN SlotInvalid ELSE header[b].ss[i]
  BY <1>0, <1>2 DEF Header
<1>6. header'[b] = h
  BY <1>2, <1>3 DEF IInv, BaseType, BaseMemory
<1>7. pc'[t] = "idle"
  BY <1>2 DEF markSlotInvalid
<1>8. CallInv(t)'
  BY <1>1, <1>2, <1>7 DEF CallInv, Returned, SlotPC, InsertPC, OwnPC
<1>9. Own(t)' /\ \A bin, i : ~Owns(t, bin, i)'
  BY <1>7, <1>8, PlainOwn DEF PlainPC
<1>10. ApiStep(t)
  BY <1>1, ApiSame
<1>11. \A i \in SlotIdx : StateStep(t, b, i) /\ EntryStep(b, i)
  <2>1. \A i \in SlotIdx : StateStep(t, b, i)
    BY <1>4, <1>5, <1>6 DEF StateStep
  <2>2. \A i \in SlotIdx : EntryAt(b, i)' = EntryAt(b, i)
    BY <1>1 DEF EntryAt, SlotLoc
  <2>3. \A i \in SlotIdx : EntryStep(b, i)
    BY <1>5, <1>6, <2>2 DEF EntryStep, SlotInvalid, SlotValid
  <2> QED
    BY <2>1, <2>3
<1>12. \A bin \in BinId, i \in SlotIdx : OwnStep(t, bin, i)
  <2>1. \A bin \in BinId, i \in SlotIdx : header[bin].ss[i] = SlotInvalid => header'[bin].ss[i] # SlotTrying
    BY <1>2, <1>3, <1>5, <1>6 DEF IInv, BaseType, BaseMemory, SlotInvalid, SlotTrying
  <2> QED
    BY <1>2, <1>7, <1>9, <2>1 DEF OwnStep, Marks
<1>13. Before(header[b], h)
  BY <1>4, <1>5 DEF Before
<1>14. Change(t)
  BY <1>1, <1>2, <1>3, <1>5, <1>10, <1>11, <1>12, <1>13, ChangeHeader
<1> QED
  BY <1>7, <1>9, <1>14, StepS DEF MovePC, TransferPC, Change

\* The steps at a found slot change only entries and states of Valid slots.
LEMMA SlotS ==
  ASSUME IInv, EntryType, IInv', RInv, LInv, SInv, NEW t \in Thread, SlotStep(t)
  PROVE  SInv'
<1>1. OthersSame(t)
  <2>1. pc \in [Thread -> PC] /\ scan \in [Thread -> BaseScan]
    BY DEF IInv, BaseType, BaseLocal
  <2> QED
    BY <2>1 DEF SlotStep, DWCASHit, DWCASMiss, LoopHeader, LoopKey, LoopVal, LoopCheck, LoopTTAS, markSlotInvalid,
                KeepSlot, Retry, Goto, OthersSame
<1> QED
  BY <1>1, DWCASHitS, markSlotInvalidS, LoopS DEF SlotStep

-----------------------------------------------------------------------------
(* Insert: the choice of a slot.                                           *)

\* While Insert looks for a slot it has none.
LEMMA AtPick ==
  ASSUME IInv, LInv, SInv, NEW t \in Thread, pc[t] \in ChoicePC
  PROVE  /\ pc[t] # "idle" /\ ~Returned(t) /\ ~Holds(t) /\ \A bin, i : ~Owns(t, bin, i)
         /\ call[t].kind = "Insert" /\ PickInv(t) /\ Bin(t) \in BinId /\ scan[t].h \in Header
         /\ header[Bin(t)] \in Header
         /\ Backed(linkMeta[Bin(t)], scan[t].h) /\ scan[t].h.bs = BinNoTransfer
         /\ pc \in [Thread -> PC] /\ scan \in [Thread -> BaseScan] /\ ins \in [Thread -> InsRec]
<1>1. pc[t] # "idle" /\ ~Returned(t) /\ ~Holds(t) /\ pc[t] \in InsertPC /\ pc[t] \in HeadPC
  BY DEF ChoicePC, Returned, UnresPC, Holds, OwnPC, ScanPC, InsertPC, HeadPC
<1>2. CallInv(t) /\ PickInv(t) /\ OwnerInv(t)
  BY DEF SInv, LInv
<1>3. ScanInv(t) /\ scan[t] \in BaseScan
  BY <1>1, Locals
<1>4. Bin(t) \in BinId /\ header[Bin(t)] \in Header
  BY <1>1, BinType
<1> QED
  BY <1>1, <1>2, <1>3, <1>4 DEF CallInv, OwnerInv, ScanInv, BaseScan, Holds, Owns, IInv, BaseType, BaseLocal

\* Insert goes on looking for a slot.
LEMMA PickS ==
  ASSUME IInv, EntryType, IInv', RInv, LInv, SInv, NEW t \in Thread, pc[t] \in ChoicePC, pc'[t] \in ChoicePC,
         OthersSame(t), UNCHANGED <<memory, call, res, calls>>, scan'[t] = scan[t], PickInv(t)'
  PROVE  SInv'
<1>1. /\ pc[t] # "idle" /\ ~Returned(t) /\ ~Holds(t) /\ call[t].kind = "Insert"
  BY AtPick
<1>2. /\ ~Returned(t)' /\ ~Holds(t)' /\ pc'[t] \notin SlotPC /\ pc[t] \in SeqPC
      /\ pc'[t] \notin MovePC \cup {"mark", "load", "follow", "unresClear", "unresCAS"}
  BY DEF ChoicePC, Returned, UnresPC, Holds, OwnPC, ScanPC, SlotPC, SeqPC, HeadPC, MovePC, TransferPC
<1>3. TargetInv(t)'
  BY DEF TargetInv, LoopPC, AimPC, Aims, Marks, ChoicePC
<1> QED
  BY <1>1, <1>2, <1>3, KeepS

\* There is no room: the lookup is forgotten.
LEMMA NoRoomS ==
  ASSUME IInv, EntryType, IInv', RInv, LInv, SInv, NEW t \in Thread, pc[t] \in ChoicePC, NoRoom(t),
         OthersSame(t), UNCHANGED <<memory, call, res, calls>>
  PROVE  SInv'
<1>1. pc[t] # "idle" /\ ~Returned(t) /\ (\A bin, i : ~Owns(t, bin, i)) /\ pc \in [Thread -> PC]
  BY AtPick
<1>2. pc'[t] = "trigger"
  BY <1>1 DEF NoRoom, Goto
<1> QED
  BY <1>1, <1>2, ForgetS DEF PlainPC, MovePC, TransferPC

\* The first slots of the single link and of the pair.
LEMMA FirstSlots ==
  ASSUME NEW lm \in LinkMeta
  PROVE  /\ PRIMARY_SLOTS \in SlotIdx /\ firstPairSlot \in SlotIdx
         /\ lm.single = NO_LINK => ~HasSlot(lm, PRIMARY_SLOTS)
         /\ lm.pair = NO_LINK => ~HasSlot(lm, firstPairSlot)
<1>1. PRIMARY_SLOTS \in SlotIdx /\ firstPairSlot \in SlotIdx
  BY BucketRanges
<1>2. PRIMARY_SLOTS \in Bucket(1) /\ firstPairSlot \in Bucket(2)
  BY SizeAssumption DEF Bucket, firstPairSlot
<1>3. PRIMARY_SLOTS >= PRIMARY_SLOTS /\ LinkOf(lm, PRIMARY_SLOTS) = resolveLink(lm, 1)
  BY <1>1, <1>2, BucketSlots
<1>4. firstPairSlot >= PRIMARY_SLOTS /\ LinkOf(lm, firstPairSlot) = resolveLink(lm, 2)
  BY <1>1, <1>2, BucketSlots
<1>5. resolveLink(lm, 1) = lm.single /\ resolveLink(lm, 2) = lm.pair
  BY DEF resolveLink
<1>6. PRIMARY_SLOTS \in Nat /\ firstPairSlot \in Nat
  BY SizeAssumption DEF firstPairSlot
<1> QED
  BY <1>1, <1>3, <1>4, <1>5, <1>6 DEF HasSlot

\* A newer header is looked at: if it is the one in hand, it has no free primary slot.
LEMMA ChooseHeaderS ==
  ASSUME IInv, EntryType, IInv', RInv, LInv, SInv, NEW t \in Thread, ChooseHeader(t), OthersSame(t)
  PROVE  SInv'
<1> DEFINE h == header[Bin(t)]
           free == invalidMask(h, 0)
<1>1. /\ pc[t] = "choose" /\ pc[t] \in ChoicePC /\ UNCHANGED <<memory, call, res, calls>> /\ scan' = scan
      /\ header' = header
  BY DEF ChooseHeader, api, memory, ChoicePC
<1>2. pc \in [Thread -> PC] /\ ins \in [Thread -> InsRec]
  BY <1>1, AtPick
<1>3. Bin(t)' = Bin(t)
  BY <1>1 DEF Bin, getBin, hash
<1>4. CASE free # {}
  <2>1. pc'[t] = "reserve"
    BY <1>2, <1>4 DEF ChooseHeader, Goto
  <2>2. PickInv(t)'
    BY <1>1, <1>3, <1>4, <2>1 DEF PickInv, Validated, invalidMask
  <2> QED
    BY <1>1, <2>1, <2>2, PickS DEF ChoicePC
<1>5. CASE free = {}
  <2>1. pc'[t] = "chooseLinks" /\ ins'[t].h = h
    BY <1>2, <1>5 DEF ChooseHeader, Goto, InsRec
  <2>2. PickInv(t)'
    BY <1>1, <1>3, <2>1 DEF PickInv, Validated
  <2> QED
    BY <1>1, <2>1, <2>2, PickS DEF ChoicePC
<1> QED
  BY <1>4, <1>5

\* A slot of an attached link that is free in the header in hand, or a link whose slots
\* are all free because nobody has attached it.
LEMMA ChooseLinksS ==
  ASSUME IInv, EntryType, IInv', RInv, LInv, SInv, NEW t \in Thread, ChooseLinks(t), OthersSame(t)
  PROVE  SInv'
<1> DEFINE lm == linkMeta[Bin(t)]
           free == UNION {invalidMask(ins[t].h, n) : n \in attached(lm)}
<1>1. /\ pc[t] = "chooseLinks" /\ pc[t] \in ChoicePC /\ UNCHANGED <<memory, call, res, calls>>
      /\ header' = header
  BY DEF ChooseLinks, api, memory, ChoicePC
<1>2. /\ pc \in [Thread -> PC] /\ ins \in [Thread -> InsRec] /\ PickInv(t) /\ Backed(lm, scan[t].h)
      /\ Bin(t) \in BinId
  BY <1>1, AtPick
<1>3. lm \in LinkMeta /\ ins[t].h \in Header
  BY <1>2, BinWords DEF InsRec
<1>4. scan' = scan => Bin(t)' = Bin(t)
  BY <1>1 DEF Bin, getBin, hash
<1>5. CASE free # {}
  <2>1. pc'[t] = "reserve" /\ scan' = scan /\ ins'[t].pick = Lowest(free)
    BY <1>2, <1>5 DEF ChooseLinks, Goto, InsRec
  <2>2. free \subseteq SlotIdx /\ \A i \in free : ins[t].h.ss[i] = SlotInvalid
    BY <1>3, HeaderOps DEF invalidMask, attached
  <2>3. Lowest(free) \in free
    BY <1>5, <2>2, LowestIn, SlotIdxNat
  <2> HIDE DEF free
  <2>4. PickInv(t)'
    BY <1>1, <1>2, <1>4, <2>1, <2>2, <2>3 DEF PickInv, Validated
  <2> QED
    BY <1>1, <2>1, <2>4, PickS DEF ChoicePC
<1>6. CASE free = {} /\ (lm.single = NO_LINK \/ lm.pair = NO_LINK)
  <2>1. /\ pc'[t] = IF lm.single = NO_LINK THEN "allocLink" ELSE "allocPair"
        /\ scan' = scan
    BY <1>2, <1>6 DEF ChooseLinks, Goto
  <2>2. /\ lm.single = NO_LINK => scan[t].h.ss[PRIMARY_SLOTS] = SlotInvalid
        /\ lm.pair = NO_LINK => scan[t].h.ss[firstPairSlot] = SlotInvalid
    BY <1>2, <1>3, FirstSlots DEF Backed
  <2>3. PickInv(t)'
    BY <1>6, <2>1, <2>2 DEF PickInv
  <2> QED
    BY <1>1, <2>1, <2>3, PickS DEF ChoicePC
<1>7. CASE free = {} /\ ~(lm.single = NO_LINK \/ lm.pair = NO_LINK)
  <2>1. NoRoom(t)
    BY <1>7 DEF ChooseLinks
  <2> QED
    BY <1>1, <2>1, NoRoomS
<1> QED
  BY <1>5, <1>6, <1>7

\* The allocation of a link changes nothing that is known of the slot.
LEMMA AllocateS ==
  ASSUME IInv, EntryType, IInv', RInv, LInv, SInv, NEW t \in Thread, OthersSame(t),
         allocateLink(t) \/ allocateLinkPair(t)
  PROVE  SInv'
<1>1. pc[t] \in ChoicePC /\ UNCHANGED <<memory, call, res, calls>> /\ header' = header
  BY DEF allocateLink, allocateLinkPair, Allocate, api, memory, ChoicePC
<1>2. pc \in [Thread -> PC] /\ PickInv(t)
  BY <1>1, AtPick
<1>3. CASE NoRoom(t)
  BY <1>1, <1>3, NoRoomS
<1>4. CASE ~NoRoom(t)
  <2>1. /\ scan' = scan
        /\ \/ pc[t] = "allocLink" /\ pc'[t] = "attachSingle"
           \/ pc[t] = "allocPair" /\ pc'[t] = "attachPair"
    BY <1>2, <1>4 DEF allocateLink, allocateLinkPair, Allocate, Goto
  <2>2. Bin(t)' = Bin(t)
    BY <1>1, <2>1 DEF Bin, getBin, hash
  <2>3. PickInv(t)'
    BY <1>1, <1>2, <2>1, <2>2 DEF PickInv, Validated, ChoicePC
  <2> QED
    BY <1>1, <2>1, <2>3, PickS DEF ChoicePC
<1> QED
  BY <1>3, <1>4

\* A link is attached: the slots that had a bucket keep it, those that have none hold nothing.
LEMMA AttachS ==
  ASSUME IInv, EntryType, IInv', RInv, LInv, SInv, NEW t \in Thread, OthersSame(t), attachSingle(t) \/ attachPair(t)
  PROVE  SInv'
<1>1. /\ pc[t] \in ChoicePC /\ UNCHANGED <<header, slotKey, slotVal, call, res, calls>> /\ scan' = scan
      /\ pc[t] \in {"attachSingle", "attachPair"}
  BY DEF attachSingle, attachPair, api, ChoicePC
<1>2. /\ pc \in [Thread -> PC] /\ PickInv(t) /\ ins \in [Thread -> InsRec] /\ Bin(t) \in BinId
      /\ pc[t] # "idle" /\ ~Returned(t) /\ ~Holds(t) /\ \A bin, i : ~Owns(t, bin, i)
      /\ call[t].kind = "Insert" /\ HeadInv(t)
  BY <1>1, AtPick DEF SInv
<1>3. /\ pc'[t] = "reserve"
      /\ ins'[t].pick = IF pc[t] = "attachSingle" THEN PRIMARY_SLOTS ELSE firstPairSlot
  BY <1>2 DEF attachSingle, attachPair, Goto, FreshIns
<1>4. Bin(t)' = Bin(t)
  BY <1>1 DEF Bin, getBin, hash
<1>5. LinksKept
  <2>1. linkMeta \in [BinId -> LinkMeta]
    BY DEF IInv, BaseType, BaseMemory
  <2> QED
    BY <2>1 DEF attachSingle, attachPair, LinksKept, Keeps, LinkMeta
<1>6. ApiStep(t)
  BY <1>1, ApiSame
<1>7. Own(t)'
  <2>1. ~Returned(t)' /\ ~Holds(t)' /\ pc'[t] \notin SlotPC
    BY <1>3 DEF Returned, UnresPC, Holds, OwnPC, ScanPC, SlotPC
  <2>2. CallInv(t)'
    BY <1>1, <1>2, <2>1, CallOn
  <2>3. OwnInv(t)'
    BY <2>1 DEF OwnInv, Owns, Holds
  <2>4. TargetInv(t)'
    BY <1>3 DEF TargetInv, LoopPC, AimPC, Aims, Marks
  <2>5. PickInv(t)'
    BY <1>1, <1>2, <1>3, <1>4 DEF PickInv, Validated
  <2>6. HeadInv(t)'
    BY <1>1, <1>2, <1>3, <1>4 DEF HeadInv, SeqPC, HeadPC
  <2> QED
    BY <2>2, <2>3, <2>4, <2>5, <2>6 DEF Own
<1>8. Forward
  <2>1. \A bin \in BinId : header[bin] \in Header
    BY BinWords
  <2> QED
    BY <1>1, <2>1, BeforeOrder DEF Forward
<1>9. ASSUME NEW bin \in BinId, NEW i \in SlotIdx
      PROVE  /\ StateStep(t, bin, i) /\ EntryStep(bin, i) /\ OwnStep(t, bin, i)
             /\ HasSlot(linkMeta[bin], i) => ValStep(t, bin, i) /\ KeyStep(t, bin, i)
  <2>1. linkMeta[bin] \in LinkMeta /\ linkMeta'[bin] \in LinkMeta
    BY DEF IInv, BaseType, BaseMemory
  <2>2. HasSlot(linkMeta[bin], i) => LocVia(linkMeta'[bin], bin, i) = LocVia(linkMeta[bin], bin, i)
    BY <1>5, <2>1, SameLoc DEF LinksKept
  <2>3. HasSlot(linkMeta[bin], i) => EntryAt(bin, i)' = EntryAt(bin, i) /\ KeyAt(bin, i)' = KeyAt(bin, i)
    BY <1>1, <2>2 DEF EntryAt, KeyAt, SlotLoc
  <2>4. header[bin].ss[i] = SlotValid => HasSlot(linkMeta[bin], i)
    BY BinWords DEF Backed, SlotValid, SlotInvalid
  <2>5. StateStep(t, bin, i)
    BY <1>1 DEF StateStep
  <2>6. EntryStep(bin, i)
    BY <1>1, <2>3, <2>4 DEF EntryStep
  <2>7. OwnStep(t, bin, i)
    BY <1>1, <1>2, <1>3 DEF OwnStep, Owns, OwnPC, ScanPC, Marks, SlotInvalid, SlotTrying
  <2> QED
    BY <2>3, <2>5, <2>6, <2>7 DEF ValStep, KeyStep
<1>10. Change(t)
  BY <1>5, <1>6, <1>8, <1>9 DEF Change
<1> QED
  BY <1>3, <1>7, <1>10, StepS DEF MovePC, TransferPC

-----------------------------------------------------------------------------
(* Insert: the reserved slot.                                              *)

\* What an Insert that has a slot knows of it.
LEMMA AtOwn ==
  ASSUME IInv, LInv, SInv, NEW t \in Thread, pc[t] \in OwnPC
  PROVE  /\ pc[t] # "idle" /\ call[t].kind = "Insert" /\ Holds(t)
         /\ scan[t].slot \in SlotIdx /\ HasSlot(linkMeta[Bin(t)], scan[t].slot)
         /\ Bin(t) \in BinId /\ header[Bin(t)] \in Header
         /\ header[Bin(t)].ss[scan[t].slot] = SlotTrying
         /\ \A bin, i : Owns(t, bin, i) <=> (bin = Bin(t) /\ i = scan[t].slot)
         /\ pc[t] \notin UnresPC => ~Returned(t) /\ res[t] = Pending
         /\ CallInv(t) /\ OwnInv(t) /\ HeadInv(t)
         /\ pc \in [Thread -> PC] /\ scan \in [Thread -> BaseScan] /\ ins \in [Thread -> InsRec]
<1>1. pc[t] # "idle" /\ pc[t] \in InsertPC /\ Holds(t) /\ NeedsSlot(t)
  BY DEF OwnPC, InsertPC, Holds, NeedsSlot
<1>2. CallInv(t) /\ OwnInv(t) /\ HeadInv(t)
  BY DEF SInv
<1>3. ScanInv(t) /\ scan[t] \in BaseScan
  BY <1>1, Locals
<1>4. Bin(t) \in BinId /\ header[Bin(t)] \in Header
  BY <1>1, BinType
<1>5. scan[t].slot \in SlotIdx /\ HasSlot(linkMeta[Bin(t)], scan[t].slot)
  BY <1>1, <1>3 DEF ScanInv, BaseScan
<1>6. \A bin, i : Owns(t, bin, i) <=> (bin = Bin(t) /\ i = scan[t].slot)
  BY DEF Owns
<1>7. header[Bin(t)].ss[scan[t].slot] = SlotTrying
  BY <1>2, <1>4, <1>5, <1>6 DEF OwnInv
<1>8. pc[t] \notin UnresPC => ~Returned(t) /\ res[t] = Pending
  BY <1>2 DEF Returned, OwnPC, CallInv
<1>9. call[t].kind = "Insert"
  BY <1>1, <1>2 DEF CallInv
<1>10. pc \in [Thread -> PC] /\ scan \in [Thread -> BaseScan] /\ ins \in [Thread -> InsRec]
  BY DEF IInv, BaseType, BaseLocal
<1> QED
  BY <1>1, <1>2, <1>4, <1>5, <1>6, <1>7, <1>8, <1>9, <1>10

\* What setting one slot of a header does.
LEMMA SetFields ==
  ASSUME NEW h \in Header, NEW i \in SlotIdx, NEW st
  PROVE  LET h1 == setSlotStateAndVersion(h, i, st) IN
         /\ h1.bs = h.bs
         /\ \A j \in SlotIdx : h1.ss[j] = IF j = i THEN st ELSE h.ss[j]
  BY DEF setSlotStateAndVersion, Header

\* The CAS to Trying: the slot was free, and from now on it is t's.
LEMMA reserveSlotS ==
  ASSUME IInv, EntryType, IInv', RInv, LInv, SInv, NoWrap, NEW t \in Thread, reserveSlot(t), OthersSame(t)
  PROVE  SInv' /\ (header' = header \/ Forward)
<1> USE DEF Goto
<1>0. PICK b, h0, i, h1 :
        /\ b = Bin(t) /\ h0 = scan[t].h
        /\ i = IF invalidMask(h0, 0) # {} THEN Lowest(invalidMask(h0, 0)) ELSE ins[t].pick
        /\ h1 = setSlotStateAndVersion(h0, i, SlotTrying)
  OBVIOUS
<1>1. /\ pc[t] = "reserve" /\ pc[t] \in ChoicePC
      /\ UNCHANGED <<linkMeta, slotKey, slotVal, call, calls, res>>
  BY DEF reserveSlot, api, ChoicePC
<1>2. /\ pc[t] # "idle" /\ ~Returned(t) /\ (\A bin, j : ~Owns(t, bin, j)) /\ call[t].kind = "Insert"
      /\ PickInv(t) /\ b \in BinId /\ h0 \in Header /\ header[b] \in Header
      /\ h0.bs = BinNoTransfer
      /\ pc \in [Thread -> PC] /\ scan \in [Thread -> BaseScan] /\ ins \in [Thread -> InsRec]
  BY <1>0, <1>1, AtPick
<1>3. CASE ~Validated(t)
  <2>1. header' = header /\ pc'[t] = "load" /\ scan'[t] = FreshScan(scan[t].idx)
    BY <1>2, <1>3 DEF reserveSlot, Retry
  <2>2. UNCHANGED memory
    BY <1>1, <2>1 DEF memory
  <2>3. scan'[t].slot = NoSlot
    BY <2>1 DEF FreshScan
  <2> QED
    BY <1>1, <1>2, <2>1, <2>2, <2>3, ForgetS DEF PlainPC, MovePC, TransferPC
<1>4. CASE Validated(t)
  <2>1. /\ header' = [header EXCEPT ![b] = h1] /\ pc'[t] = "fillKey"
        /\ scan'[t].h = h1 /\ scan'[t].slot = i /\ scan'[t].idx = scan[t].idx
    BY <1>0, <1>2, <1>4 DEF reserveSlot, BaseScan
  <2>2. h0 = header[b]
    BY <1>0, <1>4 DEF Validated
  <2>3. i \in SlotIdx /\ h0.ss[i] = SlotInvalid
    <3>1. CASE invalidMask(h0, 0) # {}
      <4>1. invalidMask(h0, 0) \subseteq SlotIdx
        BY <1>2, HeaderOps
      <4>2. i \in invalidMask(h0, 0)
        BY <1>0, <3>1, <4>1, LowestIn, SlotIdxNat
      <4> QED
        BY <4>1, <4>2 DEF invalidMask
    <3>2. CASE invalidMask(h0, 0) = {}
      <4>1. i = ins[t].pick /\ h0.ss[ins[t].pick] = SlotInvalid
        BY <1>0, <1>1, <1>2, <1>4, <3>2 DEF PickInv
      <4>2. InsInv(t) /\ ins[t] \in InsRec
        BY <1>2, Locals
      <4>3. ins[t].pick \in SlotIdx
        BY <1>0, <1>1, <3>2, <4>2 DEF InsInv, InsRec
      <4> QED
        BY <4>1, <4>3
    <3> QED
      BY <3>1, <3>2
  <2>4. h1.bs = h0.bs /\ \A j \in SlotIdx : h1.ss[j] = IF j = i THEN SlotTrying ELSE h0.ss[j]
    BY <1>0, <1>2, <2>3, SetFields
  <2>5. Before(header[b], h1)
    BY <1>0, <1>2, <2>2, <2>3, BeforeSet DEF NoWrap
  <2>6. header'[b] = h1 /\ \A bin \in BinId : bin # b => header'[bin] = header[bin]
    BY <1>2, <2>1 DEF IInv, BaseType, BaseMemory
  <2>7. Bin(t)' = b
    BY <1>0, <1>1, <2>1 DEF Bin, getBin, hash
  <2>8. \A bin, j : Owns(t, bin, j)' <=> (bin = b /\ j = i)
    BY <2>1, <2>7 DEF Owns, OwnPC
  <2>9. \A j \in SlotIdx : StateStep(t, b, j) /\ EntryStep(b, j)
    <3>1. \A j \in SlotIdx : StateStep(t, b, j)
      BY <1>2, <2>2, <2>3, <2>4, <2>6 DEF StateStep
    <3>2. \A j \in SlotIdx : EntryAt(b, j)' = EntryAt(b, j)
      BY <1>1 DEF EntryAt, SlotLoc
    <3>3. \A j \in SlotIdx : EntryStep(b, j)
      BY <2>2, <2>4, <2>6, <3>2 DEF EntryStep, SlotTrying, SlotValid
    <3> QED
      BY <3>1, <3>3
  <2>10. \A bin \in BinId, j \in SlotIdx : OwnStep(t, bin, j)
    <3>1. \A bin \in BinId, j \in SlotIdx :
            header[bin].ss[j] = SlotInvalid /\ header'[bin].ss[j] = SlotTrying => bin = b /\ j = i
      BY <2>2, <2>4, <2>6 DEF SlotInvalid, SlotTrying
    <3>2. \A bin, j : ~Marks(t, bin, j)'
      BY <2>1 DEF Marks
    <3> QED
      BY <1>2, <2>2, <2>3, <2>8, <3>1, <3>2 DEF OwnStep
  <2>11. Change(t)
    BY <1>1, <1>2, <2>1, <2>2, <2>4, <2>5, <2>9, <2>10, ApiSame, ChangeHeader
  <2>12. ~Returned(t)' /\ pc'[t] \notin SlotPC
    BY <2>1 DEF Returned, UnresPC, SlotPC
  <2>13. CallInv(t)'
    BY <1>1, <1>2, <2>12, CallOn
  <2>14. HeadInv(t)'
    <3>1. Before(h1, h1)
      <4>1. h1 \in Header
        BY <1>2, <2>6 DEF IInv, BaseType, BaseMemory
      <4> QED
        BY <4>1, BeforeOrder
    <3> QED
      BY <2>1, <2>6, <2>7, <3>1 DEF HeadInv
  <2>15. PickInv(t)' /\ TargetInv(t)'
    BY <2>1 DEF PickInv, ChoicePC, TargetInv, LoopPC, AimPC, Aims, Marks
  <2>16. OwnInv(t)'
    BY <2>1, <2>3, <2>4, <2>6, <2>8 DEF OwnInv
  <2> QED
    BY <2>1, <2>11, <2>13, <2>14, <2>15, <2>16, StepS DEF Own, MovePC, TransferPC, Change
<1> QED
  BY <1>3, <1>4

\* The key of one slot is written, the headers, links and entries stay.
LEMMA ChangeKey ==
  ASSUME IInv, LInv, SInv, NEW t \in Thread, OthersSame(t), ApiStep(t), UNCHANGED <<header, linkMeta, slotVal>>,
         NEW b \in BinId, NEW i \in SlotIdx, HasSlot(linkMeta[b], i), NEW k,
         slotKey' = [slotKey EXCEPT ![SlotLoc(b, i)] = k],
         KeyStep(t, b, i),
         \A bin \in BinId, j \in SlotIdx : OwnStep(t, bin, j)
  PROVE  Change(t) /\ KeyAt(b, i)' = k
<1>1. \A bin \in BinId : \A j \in SlotIdx : HasSlot(linkMeta[bin], j) =>
            KeyAt(bin, j)' = IF bin = b /\ j = i THEN k ELSE KeyAt(bin, j)
  <2>1. SlotLoc(b, i) \in Loc /\ linkMeta' = linkMeta
    BY BinWords, LocType DEF SlotLoc
  <2>2. slotKey \in [Loc -> Nat]
    BY DEF IInv, BaseType, BaseMemory
  <2>3. /\ slotKey'[SlotLoc(b, i)] = k
        /\ \A loc \in Loc : loc # SlotLoc(b, i) => slotKey'[loc] = slotKey[loc]
    BY <2>1, <2>2
  <2>4. \A bin \in BinId : \A j \in SlotIdx : HasSlot(linkMeta[bin], j) =>
            slotKey'[SlotLoc(bin, j)] = IF bin = b /\ j = i THEN k ELSE slotKey[SlotLoc(bin, j)]
    BY <2>3, KeyWritten
  <2>5. \A bin, j : KeyAt(bin, j)' = slotKey'[SlotLoc(bin, j)]
    BY <2>1 DEF KeyAt, SlotLoc
  <2> QED
    BY <2>4, <2>5 DEF KeyAt
<1>2. LinksKept
  BY SameLinks DEF LinksKept
<1>3. Forward
  <2>1. \A bin \in BinId : header[bin] \in Header
    BY BinWords
  <2> QED
    BY <2>1, BeforeOrder DEF Forward
<1>4. ASSUME NEW bin \in BinId, NEW j \in SlotIdx
      PROVE  /\ StateStep(t, bin, j) /\ EntryStep(bin, j)
             /\ HasSlot(linkMeta[bin], j) => ValStep(t, bin, j) /\ KeyStep(t, bin, j)
  <2>1. EntryAt(bin, j)' = EntryAt(bin, j)
    BY DEF EntryAt, SlotLoc
  <2>2. StateStep(t, bin, j) /\ EntryStep(bin, j) /\ ValStep(t, bin, j)
    BY <2>1 DEF StateStep, EntryStep, ValStep
  <2>3. HasSlot(linkMeta[bin], j) /\ ~(bin = b /\ j = i) => KeyAt(bin, j)' = KeyAt(bin, j)
    BY <1>1
  <2>4. HasSlot(linkMeta[bin], j) => KeyStep(t, bin, j)
    BY <2>3 DEF KeyStep
  <2> QED
    BY <2>2, <2>4
<1> QED
  BY <1>1, <1>2, <1>3, <1>4 DEF Change

\* An Insert that stays with its slot and writes no header.
LEMMA StaysS ==
  ASSUME IInv, LInv, SInv, NEW t \in Thread, pc[t] \in OwnPC, pc'[t] \in OwnPC,
         header' = header, call' = call, scan' = scan
  PROVE  /\ Bin(t)' = Bin(t) /\ hash(t)' = hash(t) /\ NewEntry(t)' = NewEntry(t)
         /\ \A bin, i : Owns(t, bin, i)' <=> Owns(t, bin, i)
         /\ \A bin \in BinId, i \in SlotIdx : OwnStep(t, bin, i)
         /\ PickInv(t)' /\ TargetInv(t)'
<1>1. Bin(t)' = Bin(t) /\ hash(t)' = hash(t) /\ NewEntry(t)' = NewEntry(t)
  BY DEF Bin, getBin, hash, NewEntry
<1>2. \A bin, i : Owns(t, bin, i)' <=> Owns(t, bin, i)
  BY <1>1 DEF Owns
<1>3. \A bin, i : ~Marks(t, bin, i)'
  BY DEF Marks, OwnPC
<1>4. \A bin \in BinId, i \in SlotIdx : OwnStep(t, bin, i)
  BY <1>2, <1>3 DEF OwnStep, SlotInvalid, SlotTrying
<1>5. PickInv(t)' /\ TargetInv(t)'
  BY <1>3 DEF PickInv, ChoicePC, TargetInv, LoopPC, AimPC, Aims, OwnPC
<1> QED
  BY <1>1, <1>2, <1>4, <1>5

\* The key goes into the reserved slot, which has a bucket.
LEMMA FillKeyS ==
  ASSUME IInv, EntryType, IInv', RInv, LInv, SInv, NEW t \in Thread, FillKey(t), OthersSame(t)
  PROVE  SInv'
<1> USE DEF Goto
<1>0. PICK b, i, k : b = Bin(t) /\ i = scan[t].slot /\ k = hash(t)
  OBVIOUS
<1>1. /\ pc[t] = "fillKey" /\ pc[t] \in OwnPC /\ header' = header /\ call' = call /\ scan' = scan
      /\ UNCHANGED <<linkMeta, slotVal, calls, res>>
  BY DEF FillKey, api, OwnPC
<1>2. /\ pc[t] # "idle" /\ call[t].kind = "Insert" /\ b \in BinId /\ i \in SlotIdx
      /\ HasSlot(linkMeta[b], i) /\ header[b].ss[i] = SlotTrying /\ Owns(t, b, i)
      /\ (\A bin, j : Owns(t, bin, j) => bin = b /\ j = i)
      /\ ~Returned(t) /\ HeadInv(t) /\ pc \in [Thread -> PC]
  BY <1>0, <1>1, AtOwn DEF UnresPC
<1>3. pc'[t] = "fillVal" /\ slotKey' = [slotKey EXCEPT ![SlotLoc(b, i)] = k]
  BY <1>0, <1>2 DEF FillKey, OpLoc
<1>4. /\ Bin(t)' = b /\ hash(t)' = k
      /\ (\A bin, j : Owns(t, bin, j)' <=> Owns(t, bin, j))
      /\ (\A bin \in BinId, j \in SlotIdx : OwnStep(t, bin, j))
      /\ PickInv(t)' /\ TargetInv(t)'
  BY <1>0, <1>1, <1>3, StaysS DEF OwnPC
<1>5. Change(t) /\ KeyAt(b, i)' = k
  BY <1>1, <1>2, <1>3, <1>4, ApiSame, ChangeKey DEF KeyStep
<1>6. OwnInv(t)'
  BY <1>1, <1>2, <1>3, <1>4, <1>5 DEF OwnInv
<1>7. CallInv(t)'
  <2>1. ~Returned(t)' /\ pc'[t] \notin SlotPC
    BY <1>3 DEF Returned, UnresPC, SlotPC
  <2> QED
    BY <1>1, <1>2, <2>1, CallOn
<1>8. HeadInv(t)'
  BY <1>0, <1>1, <1>2, <1>3, <1>4 DEF HeadInv, SeqPC, HeadPC
<1> QED
  BY <1>3, <1>4, <1>5, <1>6, <1>7, <1>8, StepS DEF Own, MovePC, TransferPC

\* The entry goes into the reserved slot.
LEMMA FillValS ==
  ASSUME IInv, EntryType, IInv', RInv, LInv, SInv, NEW t \in Thread, FillVal(t), OthersSame(t)
  PROVE  SInv'
<1> USE DEF Goto
<1>0. PICK b, i, e : b = Bin(t) /\ i = scan[t].slot /\ e = NewEntry(t)
  OBVIOUS
<1>1. /\ pc[t] = "fillVal" /\ pc[t] \in OwnPC /\ header' = header /\ call' = call /\ scan' = scan
      /\ UNCHANGED <<linkMeta, slotKey, calls, res>>
      /\ slotVal' = [slotVal EXCEPT ![SlotLoc(b, i)] = e]
  BY <1>0 DEF FillVal, api, OwnPC, OpLoc
<1>2. /\ pc[t] # "idle" /\ call[t].kind = "Insert" /\ b \in BinId /\ i \in SlotIdx
      /\ HasSlot(linkMeta[b], i) /\ header[b].ss[i] = SlotTrying /\ Owns(t, b, i)
      /\ (\A bin, j : Owns(t, bin, j) => bin = b /\ j = i)
      /\ ~Returned(t) /\ HeadInv(t) /\ OwnInv(t) /\ pc \in [Thread -> PC]
  BY <1>0, <1>1, AtOwn DEF UnresPC
<1>3. pc'[t] = "finalize"
  BY <1>2 DEF FillVal
<1>4. /\ Bin(t)' = b /\ hash(t)' = hash(t) /\ NewEntry(t)' = e
      /\ (\A bin, j : Owns(t, bin, j)' <=> Owns(t, bin, j))
      /\ (\A bin \in BinId, j \in SlotIdx : OwnStep(t, bin, j))
      /\ PickInv(t)' /\ TargetInv(t)'
  BY <1>0, <1>1, <1>3, StaysS DEF OwnPC
<1>5. ASSUME EntryAt(b, i)' = e PROVE ValStep(t, b, i) /\ EntryStep(b, i)
  BY <1>0, <1>1, <1>2, <1>5 DEF ValStep, Fills, EntryStep, SlotTrying, SlotValid
<1>6. Change(t) /\ EntryAt(b, i)' = e
  BY <1>1, <1>2, <1>4, <1>5, ApiSame, ChangeVal
<1>7. OwnInv(t)'
  <2>1. KeyAt(b, i) = hash(t)
    BY <1>1, <1>2 DEF OwnInv, UnresPC
  <2>2. KeyAt(b, i)' = hash(t)
    BY <1>1, <2>1 DEF KeyAt, SlotLoc
  <2> QED
    BY <1>1, <1>2, <1>4, <1>6, <2>2 DEF OwnInv
<1>8. CallInv(t)'
  <2>1. ~Returned(t)' /\ pc'[t] \notin SlotPC
    BY <1>3 DEF Returned, UnresPC, SlotPC
  <2> QED
    BY <1>1, <1>2, <2>1, CallOn
<1>9. HeadInv(t)'
  BY <1>0, <1>1, <1>2, <1>3, <1>4 DEF HeadInv, SeqPC, HeadPC
<1> QED
  BY <1>3, <1>4, <1>6, <1>7, <1>8, <1>9, StepS DEF Own, MovePC, TransferPC

\* The CAS to Valid: the entry is settled, because the call is answered with it.
LEMMA finalizeSlotS ==
  ASSUME IInv, EntryType, IInv', RInv, LInv, SInv, NoWrap, NEW t \in Thread, finalizeSlot(t), OthersSame(t)
  PROVE  SInv' /\ (header' = header \/ Forward)
<1> USE DEF Goto
<1> DEFINE r == [val |-> Absent, ok |-> TRUE]
<1>0. PICK b, i, h0, h1 : /\ b = Bin(t) /\ i = scan[t].slot /\ h0 = scan[t].h
                          /\ h1 = setSlotStateAndVersion(h0, i, SlotValid)
  OBVIOUS
<1>1. /\ pc[t] = "finalize" /\ pc[t] \in OwnPC /\ call' = call
      /\ UNCHANGED <<linkMeta, slotKey, slotVal, calls>>
  BY DEF finalizeSlot, api, memory, OwnPC
<1>2. /\ pc[t] # "idle" /\ call[t].kind = "Insert" /\ b \in BinId /\ i \in SlotIdx
      /\ header[b].ss[i] = SlotTrying /\ Owns(t, b, i) /\ Holds(t)
      /\ (\A bin, j : Owns(t, bin, j) => bin = b /\ j = i)
      /\ ~Returned(t) /\ CallInv(t) /\ OwnInv(t) /\ pc \in [Thread -> PC]
      /\ scan \in [Thread -> BaseScan] /\ header[b] \in Header
  BY <1>0, <1>1, AtOwn DEF UnresPC
<1>3. CASE ~Validated(t)
  <2>1. /\ pc'[t] = "load2" /\ scan'[t] = Kept(t) /\ UNCHANGED <<memory, call, res, calls>>
        /\ header' = header
    BY <1>2, <1>3 DEF finalizeSlot, KeepSlot, api, memory
  <2>2. scan'[t].slot = scan[t].slot /\ scan'[t].idx = scan[t].idx
    BY <2>1, KeptFields
  <2>3. /\ ~Returned(t)' /\ Holds(t)' /\ PickInv(t)' /\ TargetInv(t)'
        /\ pc'[t] \notin SlotPC \cup SeqPC
        /\ pc'[t] \notin MovePC \cup {"mark", "load", "follow", "unresClear", "unresCAS"}
    BY <2>1 DEF Returned, UnresPC, Holds, OwnPC, PickInv, ChoicePC, TargetInv, LoopPC, AimPC, Aims,
                Marks, SlotPC, SeqPC, HeadPC, MovePC, TransferPC
  <2>4. pc[t] \notin UnresPC \cup {"fillKey", "fillVal"}
    BY <1>1 DEF UnresPC
  <2> QED
    BY <1>2, <2>1, <2>2, <2>3, <2>4, KeepS
<1>4. CASE Validated(t)
  <2>1. /\ header' = [header EXCEPT ![b] = h1] /\ pc'[t] = "idle" /\ res' = [res EXCEPT ![t] = r]
    BY <1>0, <1>2, <1>4 DEF finalizeSlot, Reply
  <2>2. r # Pending
    <3>1. r \in [val : Value \cup {Absent}, ok : BOOLEAN]
      OBVIOUS
    <3> HIDE DEF r
    <3> QED BY <3>1, MarkerAssumption
  <2> HIDE DEF r
  <2>3. res'[t] # Pending
    BY <2>1, <2>2 DEF IInv, BaseType, ApiType
  <2>4. ApiStep(t)
    BY <1>1, <2>1, <2>2, ApiSame
  <2>5. h0 = header[b] /\ h0.bs = BinNoTransfer
    <3>1. OwnerInv(t)
      BY DEF LInv
    <3> QED
      BY <1>0, <1>1, <1>4, <3>1 DEF Validated, OwnerInv, HeadPC
  <2>6. h1.bs = h0.bs /\ \A j \in SlotIdx : h1.ss[j] = IF j = i THEN SlotValid ELSE h0.ss[j]
    BY <1>0, <1>2, <2>5, SetFields
  <2>7. Before(header[b], h1)
    BY <1>0, <1>2, <2>5, BeforeSet DEF NoWrap
  <2>8. header'[b] = h1 /\ \A bin \in BinId : bin # b => header'[bin] = header[bin]
    BY <1>2, <2>1 DEF IInv, BaseType, BaseMemory
  <2>9. CallInv(t)'
    BY <1>1, <1>2, <2>1, <2>3 DEF CallInv, Returned, SlotPC, InsertPC, OwnPC
  <2>10. Own(t)' /\ \A bin, j : ~Owns(t, bin, j)'
    BY <2>1, <2>9, PlainOwn DEF PlainPC
  <2>11. Settled(EntryAt(b, i).val)'
    <3>1. EntryAt(b, i) = NewEntry(t)
      BY <1>1, <1>2 DEF OwnInv, UnresPC
    <3>2. EntryAt(b, i)' = EntryAt(b, i)
      BY <1>1 DEF EntryAt, SlotLoc
    <3>3. EntryAt(b, i)'.val = <<t, calls[t]>>
      BY <1>2, <3>1, <3>2 DEF NewEntry, CallInv
    <3> QED
      BY <1>1, <2>3, <3>3 DEF Settled
  <2>12. \A j \in SlotIdx : StateStep(t, b, j) /\ EntryStep(b, j)
    <3>1. \A j \in SlotIdx : StateStep(t, b, j)
      BY <1>2, <2>5, <2>6, <2>8 DEF StateStep, SlotTrying, SlotValid
    <3>2. \A j \in SlotIdx : EntryAt(b, j)' = EntryAt(b, j)
      BY <1>1 DEF EntryAt, SlotLoc
    <3>3. \A j \in SlotIdx : EntryStep(b, j)
      BY <2>5, <2>6, <2>8, <2>11, <3>2 DEF EntryStep
    <3> QED
      BY <3>1, <3>3
  <2>13. \A bin \in BinId, j \in SlotIdx : OwnStep(t, bin, j)
    <3>1. \A bin \in BinId, j \in SlotIdx :
            header[bin].ss[j] = SlotInvalid => header'[bin].ss[j] # SlotTrying
      BY <2>5, <2>6, <2>8 DEF SlotInvalid, SlotTrying, SlotValid
    <3>2. header'[b].ss[i] # SlotTrying
      BY <1>2, <2>6, <2>8 DEF SlotTrying, SlotValid
    <3>3. \A bin, j : ~Marks(t, bin, j)'
      BY <2>1 DEF Marks
    <3> QED
      BY <1>2, <2>10, <3>1, <3>2, <3>3 DEF OwnStep
  <2>14. Change(t)
    BY <1>1, <1>2, <2>1, <2>4, <2>5, <2>6, <2>7, <2>12, <2>13, ChangeHeader
  <2> QED
    BY <2>1, <2>10, <2>14, StepS DEF MovePC, TransferPC, Change
<1> QED
  BY <1>3, <1>4

\* retryWithSlot: the lookup begins again with the slot, or the slot is given up.
LEMMA LoadHeader2S ==
  ASSUME IInv, EntryType, IInv', RInv, LInv, SInv, NEW t \in Thread, LoadHeader2(t), OthersSame(t)
  PROVE  SInv'
<1> USE DEF Goto
<1>1. pc[t] = "load2" /\ pc[t] \in OwnPC /\ UNCHANGED <<memory, call, res, calls>>
  BY DEF LoadHeader2, api, OwnPC
<1>2. /\ pc[t] # "idle" /\ call[t].kind = "Insert" /\ scan[t].slot \in SlotIdx /\ Holds(t)
      /\ ~Returned(t) /\ pc \in [Thread -> PC] /\ scan \in [Thread -> BaseScan] /\ ins \in [Thread -> InsRec]
  BY <1>1, AtOwn DEF UnresPC
<1>3. pc[t] \notin UnresPC \cup {"fillKey", "fillVal"}
  BY <1>1 DEF UnresPC
<1>4. CASE header[Bin(t)].bs = BinNoTransfer
  <2>1. /\ pc'[t] = "match" /\ scan'[t].h = header[Bin(t)] /\ scan'[t].slot = scan[t].slot
        /\ scan'[t].idx = scan[t].idx
    BY <1>2, <1>4 DEF LoadHeader2, BaseScan
  <2>2. scan'[t].slot # NoSlot
    BY <1>2, <2>1 DEF NoSlot, SlotIdx
  <2>3. /\ ~Returned(t)' /\ Holds(t)' /\ PickInv(t)' /\ TargetInv(t)'
        /\ pc'[t] \notin SlotPC
        /\ pc'[t] \notin MovePC \cup {"mark", "load", "follow", "unresClear", "unresCAS"}
    BY <1>1, <1>2, <2>1, <2>2 DEF Returned, UnresPC, Holds, Reserved, ScanPC, PickInv, ChoicePC, TargetInv,
             LoopPC, AimPC, Aims, Marks, SlotPC, MovePC, TransferPC
  <2> QED
    BY <1>1, <1>2, <1>3, <2>1, <2>3, KeepS
<1>5. CASE header[Bin(t)].bs # BinNoTransfer
  <2>1. pc'[t] = "unres" /\ scan' = scan /\ ins'[t].cont \in {"follow", "active"}
    BY <1>2, <1>5 DEF LoadHeader2, InsRec
  <2>2. /\ ~Returned(t)' /\ Holds(t)' /\ PickInv(t)' /\ TargetInv(t)'
        /\ pc'[t] \notin SlotPC \cup SeqPC
        /\ pc'[t] \notin MovePC \cup {"mark", "load", "follow", "unresClear", "unresCAS"}
    BY <2>1 DEF Returned, UnresPC, Holds, OwnPC, PickInv, ChoicePC, TargetInv, LoopPC, AimPC, Aims,
                Marks, SlotPC, SeqPC, HeadPC, MovePC, TransferPC
  <2> QED
    BY <1>1, <1>2, <1>3, <2>1, <2>2, KeepS
<1> QED
  BY <1>4, <1>5

\* unreserveSlot has returned: there is no slot any more.
LEMMA UnreservedOwn ==
  ASSUME IInv, LInv, SInv, NEW t \in Thread, pc[t] \in UnresPC, Unreserved(t), UNCHANGED <<call, calls, res>>
  PROVE  /\ Own(t)' /\ \A bin, i : ~Owns(t, bin, i)'
         /\ pc'[t] \notin MovePC \cup {"mark"}
<1>1. /\ pc[t] \in OwnPC /\ CallInv(t) /\ pc \in [Thread -> PC] /\ scan \in [Thread -> BaseScan]
      /\ ins \in [Thread -> InsRec] /\ call[t].kind = "Insert"
  BY AtOwn DEF OwnPC, UnresPC
<1>2. /\ pc'[t] = ins[t].cont /\ pc'[t] \in {"idle", "load", "follow", "active"}
      /\ scan'[t].slot = NoSlot
  BY <1>1 DEF Unreserved, Goto, FreshScan, InsRec
<1>3. Returned(t)' <=> Returned(t)
  BY <1>2 DEF Returned, UnresPC
<1>4. CallInv(t)'
  BY <1>1, <1>2, <1>3 DEF CallInv, SlotPC, InsertPC, OwnPC, UnresPC
<1>5. Own(t)' /\ \A bin, i : ~Owns(t, bin, i)'
  BY <1>2, <1>4, PlainOwn DEF PlainPC
<1> QED
  BY <1>2, <1>5 DEF MovePC, TransferPC

\* The call of an Insert that gives its slot up is where it was.
LEMMA GivesUp ==
  ASSUME SInv, NEW t \in Thread, pc[t] \in UnresPC, pc'[t] \in UnresPC, ins'[t].cont = ins[t].cont,
         UNCHANGED <<call, calls, res>>
  PROVE  CallInv(t)'
<1>1. CallInv(t)
  BY DEF SInv
<1>2. Returned(t)' <=> Returned(t)
  BY DEF Returned, UnresPC
<1> QED
  BY <1>1, <1>2 DEF CallInv, UnresPC, SlotPC, InsertPC, OwnPC

\* unreserveSlot loads the header: its slot is Trying still, unless the transfer has
\* taken the bin over.
LEMMA UnreserveLoadS ==
  ASSUME IInv, EntryType, IInv', RInv, LInv, SInv, NEW t \in Thread, UnreserveLoad(t), OthersSame(t)
  PROVE  SInv'
<1> USE DEF Goto
<1>1. /\ pc[t] = "unres" /\ pc[t] \in OwnPC /\ pc[t] \in UnresPC /\ UNCHANGED <<memory, call, res, calls>>
      /\ header' = header
  BY DEF UnreserveLoad, api, memory, OwnPC, UnresPC
<1>2. /\ Bin(t) \in BinId /\ header[Bin(t)].ss[scan[t].slot] = SlotTrying
      /\ (\A bin, i : Owns(t, bin, i) <=> (bin = Bin(t) /\ i = scan[t].slot))
      /\ pc \in [Thread -> PC] /\ scan \in [Thread -> BaseScan] /\ ins \in [Thread -> InsRec]
  BY <1>1, AtOwn
<1>3. ApiStep(t)
  BY <1>1, ApiSame
<1>4. CASE header[Bin(t)].bs = BinNoTransfer
  <2>1. /\ pc'[t] = "unresClear" /\ scan' = scan /\ ins'[t].h.bs = BinNoTransfer
        /\ ins'[t].cont = ins[t].cont
    BY <1>2, <1>4 DEF UnreserveLoad, InsRec
  <2>2. /\ (\A bin, i : Owns(t, bin, i)' <=> Owns(t, bin, i))
        /\ PickInv(t)' /\ TargetInv(t)'
    BY <1>1, <2>1, StaysS DEF OwnPC
  <2>3. Change(t)
    BY <1>1, <1>3, <2>1, <2>2, MemorySame
  <2>4. OwnInv(t)'
    BY <1>1, <2>1, <2>2, OwnSame DEF UnresPC
  <2>5. CallInv(t)'
    BY <1>1, <2>1, GivesUp DEF UnresPC
  <2>6. HeadInv(t)'
    BY <2>1 DEF HeadInv, SeqPC, HeadPC
  <2> QED
    BY <2>1, <2>2, <2>3, <2>4, <2>5, <2>6, StepS DEF Own, MovePC, TransferPC
<1>5. CASE header[Bin(t)].bs # BinNoTransfer
  <2>1. Unreserved(t)
    BY <1>5 DEF UnreserveLoad
  <2>2. /\ Own(t)' /\ \A bin, i : ~Owns(t, bin, i)'
        /\ pc'[t] \notin MovePC \cup {"mark"}
    BY <1>1, <2>1, UnreservedOwn
  <2>3. Change(t)
    BY <1>1, <1>2, <1>3, <1>5, <2>2, MemorySame
  <2> QED
    BY <2>2, <2>3, StepS
<1> QED
  BY <1>4, <1>5

\* The entry of the slot is cleared: it is still Trying, and t's.
LEMMA UnreserveClearS ==
  ASSUME IInv, EntryType, IInv', RInv, LInv, SInv, NEW t \in Thread, UnreserveClear(t), OthersSame(t)
  PROVE  SInv'
<1> USE DEF Goto
<1>0. PICK b, i : b = Bin(t) /\ i = scan[t].slot
  OBVIOUS
<1>1. /\ pc[t] = "unresClear" /\ pc[t] \in OwnPC /\ pc[t] \in UnresPC
      /\ header' = header /\ call' = call /\ scan' = scan /\ ins' = ins
      /\ UNCHANGED <<linkMeta, slotKey, calls, res>>
  BY DEF UnreserveClear, api, OwnPC, UnresPC
<1>2. /\ b \in BinId /\ i \in SlotIdx
      /\ HasSlot(linkMeta[b], i) /\ header[b].ss[i] = SlotTrying /\ Owns(t, b, i)
      /\ (\A bin, j : Owns(t, bin, j) => bin = b /\ j = i)
      /\ HeadInv(t) /\ pc \in [Thread -> PC]
  BY <1>0, <1>1, AtOwn
<1>3. pc'[t] = "unresCAS" /\ slotVal' = [slotVal EXCEPT ![SlotLoc(b, i)] = Nil]
  BY <1>0, <1>2 DEF UnreserveClear, OpLoc
<1>4. /\ (\A bin, j : Owns(t, bin, j)' <=> Owns(t, bin, j))
      /\ (\A bin \in BinId, j \in SlotIdx : OwnStep(t, bin, j))
      /\ PickInv(t)' /\ TargetInv(t)'
  BY <1>0, <1>1, <1>3, StaysS DEF OwnPC
<1>5. ASSUME EntryAt(b, i)' = Nil PROVE ValStep(t, b, i) /\ EntryStep(b, i)
  BY <1>2, <1>5 DEF ValStep, Fills, EntryStep
<1>6. Change(t) /\ EntryAt(b, i)' = Nil
  BY <1>1, <1>2, <1>3, <1>4, <1>5, ApiSame, ChangeVal
<1>7. OwnInv(t)'
  BY <1>1, <1>2, <1>3, <1>4 DEF OwnInv, UnresPC
<1>8. CallInv(t)'
  BY <1>1, <1>3, GivesUp DEF UnresPC
<1>9. HeadInv(t)'
  BY <1>1, <1>2, <1>3 DEF HeadInv, SeqPC, HeadPC
<1> QED
  BY <1>3, <1>4, <1>6, <1>7, <1>8, <1>9, StepS DEF Own, MovePC, TransferPC

\* The CAS to Invalid, in a bin that is not in transfer; if it fails the header is
\* loaded again.
LEMMA UnreserveCASS ==
  ASSUME IInv, EntryType, IInv', RInv, LInv, SInv, NoWrap, NEW t \in Thread, UnreserveCAS(t), OthersSame(t)
  PROVE  SInv' /\ (header' = header \/ Forward)
<1> USE DEF Goto
<1>0. PICK b, i, h0, h1 : /\ b = Bin(t) /\ i = scan[t].slot /\ h0 = ins[t].h
                          /\ h1 = setSlotStateAndVersion(h0, i, SlotInvalid)
  OBVIOUS
<1>1. /\ pc[t] = "unresCAS" /\ pc[t] \in OwnPC /\ pc[t] \in UnresPC
      /\ UNCHANGED <<linkMeta, slotKey, slotVal, call, calls, res>>
  BY DEF UnreserveCAS, api, OwnPC, UnresPC
<1>2. /\ b \in BinId /\ i \in SlotIdx /\ header[b] \in Header
      /\ header[b].ss[i] = SlotTrying /\ Owns(t, b, i)
      /\ (\A bin, j : Owns(t, bin, j) => bin = b /\ j = i)
      /\ HeadInv(t) /\ pc \in [Thread -> PC] /\ ins \in [Thread -> InsRec]
  BY <1>0, <1>1, AtOwn
<1>3. ApiStep(t)
  BY <1>1, ApiSame
<1>4. CASE header[b] = h0
  <2>1. header' = [header EXCEPT ![b] = h1] /\ Unreserved(t)
    BY <1>0, <1>4 DEF UnreserveCAS
  <2>2. /\ Own(t)' /\ (\A bin, j : ~Owns(t, bin, j)')
        /\ pc'[t] \notin MovePC \cup {"mark"}
    BY <1>1, <2>1, UnreservedOwn
  <2>3. h0.bs = BinNoTransfer
    BY <1>0, <1>1, <1>2 DEF HeadInv
  <2>4. h1.bs = h0.bs /\ \A j \in SlotIdx : h1.ss[j] = IF j = i THEN SlotInvalid ELSE h0.ss[j]
    BY <1>0, <1>2, <1>4, SetFields
  <2>5. Before(header[b], h1)
    BY <1>0, <1>2, <1>4, BeforeSet DEF NoWrap
  <2>6. header'[b] = h1 /\ \A bin \in BinId : bin # b => header'[bin] = header[bin]
    BY <1>2, <2>1 DEF IInv, BaseType, BaseMemory
  <2>7. \A j \in SlotIdx : StateStep(t, b, j) /\ EntryStep(b, j)
    <3>1. \A j \in SlotIdx : StateStep(t, b, j)
      BY <1>2, <1>4, <2>3, <2>4, <2>6 DEF StateStep, SlotTrying, SlotInvalid
    <3>2. \A j \in SlotIdx : EntryAt(b, j)' = EntryAt(b, j)
      BY <1>1 DEF EntryAt, SlotLoc
    <3>3. \A j \in SlotIdx : EntryStep(b, j)
      BY <1>4, <2>4, <2>6, <3>2 DEF EntryStep, SlotValid, SlotInvalid
    <3> QED
      BY <3>1, <3>3
  <2>8. \A bin \in BinId, j \in SlotIdx : OwnStep(t, bin, j)
    <3>1. \A bin \in BinId, j \in SlotIdx :
            header[bin].ss[j] = SlotInvalid => header'[bin].ss[j] # SlotTrying
      BY <1>4, <2>4, <2>6 DEF SlotInvalid, SlotTrying
    <3>2. header'[b].ss[i] # SlotTrying
      BY <1>2, <2>4, <2>6 DEF SlotTrying, SlotInvalid
    <3>3. \A bin, j : ~Marks(t, bin, j)'
      BY <2>2 DEF Marks
    <3> QED
      BY <1>2, <2>2, <3>1, <3>2, <3>3 DEF OwnStep
  <2>9. Change(t)
    BY <1>1, <1>2, <1>3, <1>4, <2>1, <2>3, <2>4, <2>5, <2>7, <2>8, ChangeHeader
  <2> QED
    BY <2>2, <2>9, StepS DEF Change
<1>5. CASE header[b] # h0
  <2>1. /\ pc'[t] = "unres" /\ header' = header /\ scan' = scan /\ ins'[t].cont = ins[t].cont
    BY <1>0, <1>2, <1>5 DEF UnreserveCAS, InsRec
  <2>2. UNCHANGED memory
    BY <1>1, <2>1 DEF memory
  <2>3. /\ (\A bin, j : Owns(t, bin, j)' <=> Owns(t, bin, j))
        /\ PickInv(t)' /\ TargetInv(t)'
    BY <1>1, <2>1, StaysS DEF OwnPC
  <2>4. Change(t)
    BY <1>1, <1>3, <2>1, <2>2, <2>3, MemorySame
  <2>5. OwnInv(t)'
    BY <1>1, <2>1, <2>2, <2>3, OwnSame DEF UnresPC
  <2>6. CallInv(t)'
    BY <1>1, <2>1, GivesUp DEF UnresPC
  <2>7. HeadInv(t)'
    BY <2>1 DEF HeadInv, SeqPC, HeadPC
  <2> QED
    BY <2>1, <2>3, <2>4, <2>5, <2>6, <2>7, StepS DEF Own, MovePC, TransferPC, Change
<1> QED
  BY <1>4, <1>5

\* The steps of Insert.
LEMMA InsertS ==
  ASSUME IInv, EntryType, IInv', RInv, LInv, SInv, NoWrap, NEW t \in Thread, InsertStep(t)
  PROVE  SInv'
<1>1. OthersSame(t)
  BY InsertFrame DEF OthersSame
<1> QED
  BY <1>1, ChooseHeaderS, ChooseLinksS, AllocateS, AttachS, reserveSlotS, FillKeyS, FillValS, finalizeSlotS,
     LoadHeader2S, UnreserveLoadS, UnreserveClearS, UnreserveCASS DEF InsertStep

-----------------------------------------------------------------------------
(* The resize.                                                             *)

\* A goroutine in a resize has no slot and no header in hand; its call is not answered.
LEMMA ResizeOwn ==
  ASSUME IInv, SInv, NEW t \in Thread, ResizeStep(t)
  PROVE  /\ OthersSame(t) /\ ApiStep(t) /\ Own(t)' /\ pc'[t] # "mark"
         /\ \A bin, i : ~Owns(t, bin, i) /\ ~Owns(t, bin, i)' /\ ~Marks(t, bin, i)'
<1>1. /\ OthersSame(t) /\ UNCHANGED <<call, scan, ins>> /\ pc[t] \in ResizePC /\ pc[t] # "idle"
      /\ pc'[t] \in ResizePC \cup {"active"}
  BY ResizeFrame
<1>2. UNCHANGED <<calls, res>>
  BY DEF ResizeStep, TriggerResize, PublishNext, SetResizeContext, HelpResize, HelpActive, ClaimChunk, TransferBin,
         TransferLinks, StoreSentinel, MoveEntry, FinishBin, ChunkDone, FinishCapacity, FinishActive, FinishInactive,
         FinishCtx, api
<1>3. /\ ~Returned(t) /\ ~Returned(t)' /\ pc'[t] \notin SlotPC \cup InsertPC \cup {"load", "follow", "mark"}
      /\ pc'[t] \in PlainPC \cup ContextPC /\ ~Holds(t)
  BY <1>1 DEF Returned, ResizePC, ContextPC, TransferPC, UnresPC, SlotPC, InsertPC, OwnPC, PlainPC, Holds, ScanPC
<1>4. CallInv(t)'
  BY <1>1, <1>2, <1>3, CallOn
<1>5. Own(t)' /\ \A bin, i : ~Owns(t, bin, i)'
  BY <1>3, <1>4, PlainOwn
<1>6. \A bin, i : ~Owns(t, bin, i) /\ ~Marks(t, bin, i)'
  BY <1>3 DEF Owns, Holds, Marks
<1>7. ApiStep(t)
  BY <1>1, <1>2, ApiSame
<1> QED
  BY <1>1, <1>3, <1>5, <1>6, <1>7

\* A step of the resize that writes no word of a bin.
LEMMA ControlS ==
  ASSUME IInv, EntryType, IInv', RInv, LInv, SInv, NEW t \in Thread, ResizeStep(t), UNCHANGED memory,
         pc'[t] \in MovePC => SnapInv(t)'
  PROVE  SInv'
<1>1. /\ OthersSame(t) /\ ApiStep(t) /\ Own(t)' /\ pc'[t] # "mark"
      /\ \A bin, i : ~Owns(t, bin, i) /\ ~Owns(t, bin, i)' /\ ~Marks(t, bin, i)'
  BY ResizeOwn
<1>2. Change(t)
  BY <1>1, MemorySame
<1> QED
  BY <1>1, <1>2, StepS

\* The steps between the transfers of bins.
LEMMA BetweenS ==
  ASSUME IInv, EntryType, IInv', RInv, LInv, SInv, NEW t \in Thread,
         \/ TriggerResize(t) \/ PublishNext(t) \/ SetResizeContext(t) \/ HelpResize(t) \/ HelpActive(t)
         \/ ClaimChunk(t) \/ ChunkDone(t) \/ FinishCapacity(t) \/ FinishActive(t) \/ FinishInactive(t)
         \/ FinishCtx(t)
  PROVE  SInv'
<1> USE DEF Goto
<1>1. ResizeStep(t) /\ UNCHANGED memory
  BY DEF ResizeStep, TriggerResize, PublishNext, SetResizeContext, HelpResize, HelpActive, ClaimChunk,
         ChunkDone, FinishCapacity, FinishActive, FinishInactive, FinishCtx
<1>2. pc \in [Thread -> PC]
  BY DEF IInv, BaseType, BaseLocal
<1>3. pc'[t] \in {"publish", "help", "setCtx", "claim", "active", "helpActive", "or", "finCapacity", "finActive",
                  "finInactive", "finCtx"}
  BY <1>2 DEF TriggerResize, PublishNext, SetResizeContext, HelpResize, HelpActive, ClaimChunk,
         ChunkDone, FinishCapacity, FinishActive, FinishInactive, FinishCtx
<1> QED
  BY <1>1, <1>3, ControlS DEF MovePC, TransferPC

\* The snapshot, in a step of the mover that writes neither headers nor entries.
LEMMA SnapKept ==
  ASSUME SInv, NEW t \in Thread, pc[t] \in MovePC, UNCHANGED <<header, linkMeta, slotVal>>,
         xfer'[t].gen = xfer[t].gen, xfer'[t].bin = xfer[t].bin, xfer'[t].h = xfer[t].h
  PROVE  SnapInv(t)'
<1>1. SnapInv(t)
  BY DEF SInv
<1>2. OldBin(t)' = OldBin(t)
  BY DEF OldBin
<1> QED
  BY <1>1, <1>2 DEF SnapInv, EntryAt, SlotLoc

\* The mark: the snapshot is the header of before.
LEMMA TransferBinS ==
  ASSUME IInv, EntryType, IInv', RInv, LInv, SInv, NEW t \in Thread, TransferBin(t)
  PROVE  SInv' /\ (header' = header \/ Forward)
<1>0. PICK b, h, h1 : b = OldBin(t) /\ h = header[b] /\ h1 = orInTransfer(h)
  OBVIOUS
<1>1. /\ ResizeStep(t) /\ pc[t] = "or" /\ pc[t] \in TransferPC /\ UNCHANGED <<linkMeta, slotKey, slotVal>>
      /\ header' = [header EXCEPT ![b] = h1]
  BY <1>0 DEF TransferBin, ResizeStep, TransferPC
<1>2. /\ OthersSame(t) /\ ApiStep(t) /\ Own(t)'
      /\ \A bin, i : ~Owns(t, bin, i) /\ ~Owns(t, bin, i)' /\ ~Marks(t, bin, i)'
  BY <1>1, ResizeOwn
<1>3. b \in BinId /\ h \in Header /\ h.bs = BinNoTransfer
  BY <1>0, <1>1, MoverBin, BinWords
<1>4. h1.ver = h.ver /\ h1.bs = BinInTransfer /\ h1.ss = h.ss
  BY <1>0, <1>3 DEF orInTransfer, setBinState, Header, BinNoTransfer, BinInTransfer
<1>5. header'[b] = h1 /\ \A bin \in BinId : bin # b => header'[bin] = header[bin]
  BY <1>1, <1>3 DEF IInv, BaseType, BaseMemory
<1>6. Before(h, h1)
  BY <1>3, <1>4 DEF Before, BinNoTransfer, BinInTransfer
<1>7. \A bin \in BinId, i \in SlotIdx : header'[bin].ss[i] = header[bin].ss[i]
  BY <1>0, <1>4, <1>5
<1>8. \A i \in SlotIdx : StateStep(t, b, i) /\ EntryStep(b, i)
  <2>1. \A i \in SlotIdx : EntryAt(b, i)' = EntryAt(b, i)
    BY <1>1 DEF EntryAt, SlotLoc
  <2> QED
    BY <1>3, <1>7, <2>1 DEF StateStep, EntryStep
<1>9. \A bin \in BinId, i \in SlotIdx : OwnStep(t, bin, i)
  BY <1>2, <1>7 DEF OwnStep, SlotInvalid, SlotTrying
<1>10. Change(t)
  BY <1>0, <1>1, <1>2, <1>3, <1>4, <1>6, <1>8, <1>9, ChangeHeader
<1>11. SnapInv(t)'
  <2>1. xfer'[t].gen = xfer[t].gen /\ xfer'[t].bin = xfer[t].bin /\ xfer'[t].h = h
    BY <1>0 DEF TransferBin, IInv, BaseType, BaseLocal, XferRec
  <2>2. OldBin(t)' = b
    BY <1>0, <2>1 DEF OldBin
  <2> QED
    BY <1>0, <1>4, <1>5, <1>3, <2>1, <2>2 DEF SnapInv
<1> QED
  BY <1>2, <1>10, <1>11, StepS DEF Change

\* The mover goes on to the slots of the links.
LEMMA TransferLinksS ==
  ASSUME IInv, EntryType, IInv', RInv, LInv, SInv, NEW t \in Thread, TransferLinks(t) PROVE SInv'
<1>1. /\ ResizeStep(t) /\ UNCHANGED memory /\ pc[t] \in MovePC
      /\ header' = header /\ linkMeta' = linkMeta /\ slotVal' = slotVal
  BY DEF TransferLinks, ResizeStep, MovePC, TransferPC, memory
<1>2. xfer'[t].gen = xfer[t].gen /\ xfer'[t].bin = xfer[t].bin /\ xfer'[t].h = xfer[t].h
  BY DEF TransferLinks, IInv, BaseType, BaseLocal, XferRec
<1> QED
  BY <1>1, <1>2, SnapKept, ControlS

\* The sentinel replaces the key of a slot that is being moved.
LEMMA StoreSentinelS ==
  ASSUME IInv, EntryType, IInv', RInv, LInv, SInv, NEW t \in Thread, StoreSentinel(t) PROVE SInv'
<1>0. PICK b, i, k : b = OldBin(t) /\ i = Lowest(xfer[t].todo) /\ k = GetTransferSentinel(xfer[t].bin)
  OBVIOUS
<1>1. /\ ResizeStep(t) /\ pc[t] \in MovePC /\ pc[t] \in TransferPC /\ pc[t] = "sentinel"
      /\ UNCHANGED <<header, linkMeta, slotVal>> /\ header' = header
      /\ slotKey' = [slotKey EXCEPT ![SlotLoc(b, i)] = k]
  BY <1>0 DEF StoreSentinel, ResizeStep, MovePC, TransferPC
<1>2. /\ OthersSame(t) /\ ApiStep(t) /\ Own(t)'
      /\ \A bin, j : ~Owns(t, bin, j) /\ ~Owns(t, bin, j)' /\ ~Marks(t, bin, j)'
  BY <1>1, ResizeOwn
<1>3. b \in BinId /\ i \in xfer[t].todo /\ i \in SlotIdx /\ HasSlot(linkMeta[b], i)
  BY <1>0, <1>1, AtMove, MoverBin
<1>4. \A bin \in BinId, j \in SlotIdx : OwnStep(t, bin, j)
  BY <1>1, <1>2 DEF OwnStep, SlotInvalid, SlotTrying
<1>5. KeyStep(t, b, i)
  BY <1>0, <1>1, <1>3 DEF KeyStep
<1>6. Change(t)
  BY <1>1, <1>2, <1>3, <1>4, <1>5, ChangeKey
<1>7. xfer'[t].gen = xfer[t].gen /\ xfer'[t].bin = xfer[t].bin /\ xfer'[t].h = xfer[t].h
  BY DEF StoreSentinel, IInv, BaseType, BaseLocal, XferRec
<1> QED
  BY <1>1, <1>2, <1>6, <1>7, SnapKept, StepS

\* The header of the snapshot comes back, done: a Delete that was in between has left its
\* slot empty.
LEMMA FinishBinS ==
  ASSUME IInv, EntryType, IInv', RInv, LInv, SInv, NEW t \in Thread, FinishBin(t)
  PROVE  SInv' /\ (header' = header \/ Forward)
<1>0. PICK b, h, h1 : b = OldBin(t) /\ h = xfer[t].h /\ h1 = setBinState(h, BinDoneTransfer)
  OBVIOUS
<1>1. /\ ResizeStep(t) /\ pc[t] = "xdone" /\ pc[t] \in TransferPC /\ pc[t] \in MovePC
      /\ UNCHANGED <<linkMeta, slotKey, slotVal>>
      /\ header' = [header EXCEPT ![b] = h1]
  BY <1>0 DEF FinishBin, ResizeStep, TransferPC, MovePC
<1>2. /\ OthersSame(t) /\ ApiStep(t) /\ Own(t)'
      /\ \A bin, i : ~Owns(t, bin, i) /\ ~Owns(t, bin, i)' /\ ~Marks(t, bin, i)'
  BY <1>1, ResizeOwn
<1>3. /\ b \in BinId /\ header[b] \in Header /\ header[b].bs = BinInTransfer
      /\ h \in Header
  BY <1>0, <1>1, MoverBin, BinWords, Locals DEF XferRec
<1>4. h1.ver = h.ver /\ h1.bs = BinDoneTransfer /\ h1.ss = h.ss
  BY <1>0, <1>3 DEF setBinState, Header
<1>5. header'[b] = h1 /\ \A bin \in BinId : bin # b => header'[bin] = header[bin]
  BY <1>1, <1>3 DEF IInv, BaseType, BaseMemory
<1>6. /\ header[b].ver = h.ver
      /\ \A i \in SlotIdx : \/ header[b].ss[i] = h.ss[i]
                            \/ h.ss[i] = SlotValid /\ header[b].ss[i] = SlotInvalid /\ EntryAt(b, i) = Nil
  BY <1>0, <1>1 DEF SInv, SnapInv
<1>7. Before(header[b], h1)
  BY <1>3, <1>4, <1>6 DEF Before, BinInTransfer, BinDoneTransfer
<1>8. \A i \in SlotIdx : StateStep(t, b, i) /\ EntryStep(b, i)
  <2>1. \A i \in SlotIdx : EntryAt(b, i)' = EntryAt(b, i)
    BY <1>1 DEF EntryAt, SlotLoc
  <2>2. \A i \in SlotIdx : StateStep(t, b, i)
    BY <1>0, <1>1, <1>4, <1>5, <1>6 DEF StateStep
  <2>3. \A i \in SlotIdx : EntryStep(b, i)
    BY <1>3, <1>4, <1>5, <1>6, <2>1 DEF EntryStep
  <2> QED
    BY <2>2, <2>3
<1>9. \A bin \in BinId, i \in SlotIdx : OwnStep(t, bin, i)
  <2>1. \A bin \in BinId, i \in SlotIdx : header[bin].ss[i] = SlotInvalid => header'[bin].ss[i] # SlotTrying
    BY <1>3, <1>4, <1>5, <1>6 DEF SlotInvalid, SlotTrying, SlotValid
  <2> QED
    BY <1>2, <2>1 DEF OwnStep
<1>10. Change(t)
  <2>1. h1.bs # BinNoTransfer /\ h1.ver = header[b].ver
    BY <1>4, <1>6 DEF BinDoneTransfer, BinNoTransfer
  <2> QED
    BY <1>1, <1>2, <1>3, <1>7, <1>8, <1>9, <2>1, ChangeHeader
<1>11. pc'[t] \notin MovePC
  BY DEF FinishBin, Goto, IInv, BaseType, BaseLocal, MovePC, TransferPC
<1> QED
  BY <1>2, <1>10, <1>11, StepS DEF Change

\* Where the entry goes: into a free slot of a bin that is being filled, and nowhere else.
LEMMA EntryMoved ==
  ASSUME IInv, IInv', RInv, LInv, LInv', NEW t \in Thread, MoveEntry(t),
         NEW b \in BinId, b = OldBin(t), NEW e, e = EntryAt(b, Lowest(xfer[t].todo)), e # Nil
  PROVE  \E new \in BinId, s \in SlotIdx :
           /\ new # b /\ Filling(new) /\ header[new].ss[s] = SlotInvalid
           /\ header' = [header EXCEPT ![new] = setSlotStateAndVersion(header[new], s, SlotValid)]
           /\ LinksKept /\ EntryAt(new, s)' = e
           /\ new = getBin(xfer[t].gen + 1, xfer[t].key) /\ KeyAt(new, s)' = xfer[t].key
           /\ \A bin \in BinId : \A j \in SlotIdx :
                HasSlot(linkMeta[bin], j) /\ ~(bin = new /\ j = s) =>
                   EntryAt(bin, j)' = EntryAt(bin, j) /\ KeyAt(bin, j)' = KeyAt(bin, j)
<1>1. pc[t] = "move" /\ pc[t] \in TransferPC
  BY DEF MoveEntry, TransferPC
<1>2. PICK g \in 0..(MaxGen - 1) : g = xfer[t].gen /\ g \in Gen /\ g + 1 \in Gen
  BY <1>1, MoverBin, CtxType
<1>3. PICK new : new = getBin(g + 1, xfer[t].key)
  OBVIOUS
<1>4. PICK n \in Nat : n = ctx[g].linkNextResize
  BY <1>1, <1>2, <1>3, AtEntry
<1>5. PICK r : r = findFreeSlotOrChain(g, new)
  OBVIOUS
<1>6. PICK k : k = xfer[t].key
  OBVIOUS
<1>7. /\ header[b].bs = BinInTransfer /\ new \in BinId /\ new[1] = g + 1 /\ OldOf(new) = b /\ new # b
      /\ new \in NewBins(b)
  BY <1>1, <1>2, <1>3, AtEntry
<1>8. PackedBin(new)
  BY <1>1, <1>2, <1>3, <1>7, AtEntry
<1>9. GoodSlot(new, n, r)
  BY <1>1, <1>2, <1>3, <1>4, <1>5, EntryFits
<1>10. PICK s \in SlotIdx : s = r.slot
  BY <1>9 DEF GoodSlot
<1>10a. PICK loc : loc = LocVia(r.lm, new, s)
  OBVIOUS
<1>11. Filling(new)
  <2>1. new[1] > 0
    BY <1>2, <1>7
  <2> QED
    BY <1>7, <2>1 DEF Filling
<1>12. header[new].ss[s] = SlotInvalid
  <2>1. header[new].ss[s] # SlotTrying /\ header[new].ss[s] # SlotValid
    BY <1>8, <1>9, <1>10, <1>10a DEF PackedBin, GoodSlot
  <2>2. header[new].ss[s] \in SlotState
    BY <1>7, BinWords
  <2> QED
    BY <2>1, <2>2 DEF SlotState, SlotTrying, SlotValid, SlotInvalid
<1>13. /\ header' = [header EXCEPT ![new] = setSlotStateAndVersion(header[new], s, SlotValid)]
       /\ linkMeta' = [linkMeta EXCEPT ![new] = r.lm]
       /\ slotKey' = [slotKey EXCEPT ![loc] = k] /\ slotVal' = [slotVal EXCEPT ![loc] = e]
  BY <1>1, <1>2, <1>3, <1>5, <1>6, <1>10, <1>10a DEF MoveEntry, EntryAt
<1>14. /\ linkMeta \in [BinId -> LinkMeta] /\ slotKey \in [Loc -> Nat] /\ slotVal \in [Loc -> Content]
       /\ linkMeta' \in [BinId -> LinkMeta]
  BY DEF IInv, BaseType, BaseMemory
<1>15. linkMeta'[new] = r.lm /\ \A bin \in BinId : bin # new => linkMeta'[bin] = linkMeta[bin]
  BY <1>7, <1>13, <1>14
<1>16. loc \in Loc
  <2>1. LinkMetaOK(r.lm, NumLinks[new[1]])
    BY <1>7, <1>15 DEF IInv, SharedInv, BinInv
  <2> QED
    BY <1>7, <1>9, <1>10, <1>10a, <2>1, LocType DEF GoodSlot
<1>17. /\ slotKey'[loc] = k /\ slotVal'[loc] = e
       /\ \A x \in Loc : x # loc => slotKey'[x] = slotKey[x] /\ slotVal'[x] = slotVal[x]
  BY <1>13, <1>14, <1>16
<1>18. LinksKept
  <2>1. Keeps(linkMeta[new], r.lm)
    BY <1>9 DEF GoodSlot
  <2> QED
    BY <1>15, <2>1 DEF LinksKept, Keeps
<1>19. EntryAt(new, s)' = e /\ KeyAt(new, s)' = k
  BY <1>10, <1>10a, <1>15, <1>17 DEF EntryAt, KeyAt, SlotLoc
<1>20. ASSUME NEW bin \in BinId, NEW j \in SlotIdx, HasSlot(linkMeta[bin], j), ~(bin = new /\ j = s)
       PROVE  EntryAt(bin, j)' = EntryAt(bin, j) /\ KeyAt(bin, j)' = KeyAt(bin, j)
  <2>1. PICK lm \in LinkMeta : lm = linkMeta'[bin]
    BY <1>14
  <2>2. HasSlot(lm, j) /\ LocVia(lm, bin, j) = SlotLoc(bin, j)
    <3>1. linkMeta[bin] \in LinkMeta /\ Keeps(linkMeta[bin], lm)
      BY <1>18, <2>1, BinWords DEF LinksKept
    <3> QED
      BY <1>20, <3>1, SameLoc DEF SlotLoc
  <2>3. SlotLoc(bin, j) \in Loc
    BY <1>20, BinWords, LocType DEF SlotLoc
  <2>4. LocVia(lm, bin, j) # loc
    <3> SUFFICES ASSUME LocVia(lm, bin, j) = loc PROVE FALSE
      OBVIOUS
    <3>1. ASSUME bin[1] = new[1]
          PROVE  \A m, q \in LinkNo : resolveLink(lm, m) = resolveLink(r.lm, q) /\ resolveLink(lm, m) # NO_LINK
                                => bin = new /\ m = q
      <4>1. OneOwner(bin, new)'
        BY <1>7, <3>1 DEF LInv, LinksInv
      <4> QED
        BY <1>15, <2>1, <4>1 DEF OneOwner
    <3>2. r.lm \in LinkMeta /\ HasSlot(r.lm, s)
      BY <1>9, <1>10, <1>10a DEF GoodSlot
    <3> QED
      BY <1>7, <1>10, <1>10a, <1>20, <2>1, <2>2, <3>1, <3>2, LocApart
  <2>5. slotVal'[LocVia(lm, bin, j)] = slotVal[SlotLoc(bin, j)] /\ slotKey'[LocVia(lm, bin, j)] = slotKey[SlotLoc(bin, j)]
    BY <1>17, <2>2, <2>3, <2>4
  <2> QED
    BY <2>1, <2>5 DEF EntryAt, KeyAt, SlotLoc
<1>21. new = getBin(xfer[t].gen + 1, xfer[t].key) /\ KeyAt(new, s)' = xfer[t].key
  BY <1>2, <1>3, <1>6, <1>19
<1>22. header' = [header EXCEPT ![new] = setSlotStateAndVersion(header[new], s, SlotValid)]
  BY <1>13
<1>23. EntryAt(new, s)' = e
  BY <1>19
<1> QED
  BY <1>7, <1>11, <1>12, <1>18, <1>20, <1>21, <1>22, <1>23

\* The move of an entry: what was found in a slot that is Valid, or was when the bin was
\* marked, is settled.
LEMMA MoveEntryS ==
  ASSUME IInv, EntryType, IInv', RInv, LInv, LInv', SInv, NoWrap, NEW t \in Thread, MoveEntry(t)
  PROVE  SInv' /\ (header' = header \/ Forward)
<1>0. PICK b, i, e : b = OldBin(t) /\ i = Lowest(xfer[t].todo) /\ e = EntryAt(b, i)
  OBVIOUS
<1>1. /\ ResizeStep(t) /\ pc[t] = "move" /\ pc[t] \in TransferPC /\ pc[t] \in MovePC
  BY DEF MoveEntry, ResizeStep, TransferPC, MovePC
<1>2. /\ OthersSame(t) /\ ApiStep(t) /\ Own(t)'
      /\ \A bin, j : ~Owns(t, bin, j) /\ ~Owns(t, bin, j)' /\ ~Marks(t, bin, j)'
  BY <1>1, ResizeOwn
<1>3. xfer'[t].gen = xfer[t].gen /\ xfer'[t].bin = xfer[t].bin /\ xfer'[t].h = xfer[t].h
  <2>1. PICK a, c : xfer' = [xfer EXCEPT ![t].todo = a, ![t].key = c]
    BY DEF MoveEntry
  <2>2. xfer \in [Thread -> XferRec]
    BY DEF IInv, BaseType, BaseLocal
  <2> QED BY <2>1, <2>2 DEF XferRec
<1>4. b \in BinId /\ i \in SlotIdx /\ i \in xfer[t].todo
  BY <1>0, <1>1, AtMove, MoverBin
<1>5. CASE e = Nil
  <2>1. UNCHANGED memory
    BY <1>0, <1>5 DEF MoveEntry, EntryAt
  <2>2. header' = header /\ linkMeta' = linkMeta /\ slotVal' = slotVal
    BY <2>1 DEF memory
  <2>3. SnapInv(t)'
    BY <1>1, <1>3, <2>2, SnapKept
  <2> QED
    BY <1>1, <2>1, <2>2, <2>3, ControlS
<1>6. CASE e # Nil
  <2>1. PICK new \in BinId, s \in SlotIdx :
           /\ new # b /\ Filling(new) /\ header[new].ss[s] = SlotInvalid
           /\ header' = [header EXCEPT ![new] = setSlotStateAndVersion(header[new], s, SlotValid)]
           /\ LinksKept /\ EntryAt(new, s)' = e
           /\ \A bin \in BinId : \A j \in SlotIdx :
                HasSlot(linkMeta[bin], j) /\ ~(bin = new /\ j = s) =>
                   EntryAt(bin, j)' = EntryAt(bin, j) /\ KeyAt(bin, j)' = KeyAt(bin, j)
    BY <1>0, <1>4, <1>6, EntryMoved
  <2>2. PICK h1 : h1 = setSlotStateAndVersion(header[new], s, SlotValid)
    OBVIOUS
  <2>3. \A bin \in BinId : header[bin] \in Header /\ \A j \in SlotIdx :
                              header[bin].ss[j] = SlotValid => HasSlot(linkMeta[bin], j)
    BY BinWords DEF Backed, SlotValid, SlotInvalid
  <2>4. header'[new] = h1 /\ \A bin \in BinId : bin # new => header'[bin] = header[bin]
    BY <2>1, <2>2 DEF IInv, BaseType, BaseMemory
  <2>5. h1.bs = header[new].bs /\ \A j \in SlotIdx : h1.ss[j] = IF j = s THEN SlotValid ELSE header[new].ss[j]
    BY <2>2, <2>3, SetFields
  <2>6. Before(header[new], h1)
    BY <2>2, <2>3, BeforeSet DEF NoWrap
  <2>7. Forward
    BY <2>1, <2>3, <2>4, <2>5, <2>6, BeforeOrder DEF Forward
  <2>8. Settled(e.val)'
    <3>1. SnapInv(t) /\ MoverInv(t)
      BY <1>1 DEF SInv, LInv
    <3>2. xfer[t].h.ss[i] = SlotValid
      BY <1>4, <3>1 DEF MoverInv, Valids
    <3>3. header[b].ss[i] = SlotValid
      BY <1>0, <1>4, <1>6, <3>1, <3>2 DEF SnapInv
    <3>4. Settled(e.val)
      BY <1>0, <1>4, <1>6, <3>3 DEF SInv, EntryInv
    <3>5. e.val \in Value
      <4>1. HasSlot(linkMeta[b], i)
        BY <1>4, <2>3, <3>3
      <4>2. SlotLoc(b, i) \in Loc
        BY <1>4, <4>1, BinWords, LocType DEF SlotLoc
      <4>3. e \in Entry \cup {Nil}
        BY <1>0, <4>2 DEF EntryAt, EntryType
      <4> QED
        BY <1>6, <4>3 DEF Entry
    <3> QED
      BY <1>2, <3>4, <3>5 DEF ApiStep
  <2>9. ASSUME NEW bin \in BinId, NEW j \in SlotIdx
        PROVE  /\ StateStep(t, bin, j) /\ EntryStep(bin, j) /\ OwnStep(t, bin, j)
               /\ HasSlot(linkMeta[bin], j) => ValStep(t, bin, j) /\ KeyStep(t, bin, j)
    <3>1. CASE bin = new /\ j = s
      <4>1. header'[bin].ss[j] = SlotValid /\ header[bin].ss[j] = SlotInvalid /\ EntryAt(bin, j)' = e
        BY <2>1, <2>4, <2>5, <3>1
      <4>2. StateStep(t, bin, j)
        BY <2>1, <3>1, <4>1 DEF StateStep
      <4>3. EntryStep(bin, j)
        BY <2>8, <4>1 DEF EntryStep
      <4>4. OwnStep(t, bin, j)
        BY <1>2, <4>1 DEF OwnStep, SlotTrying, SlotValid
      <4> QED
        BY <2>1, <3>1, <4>2, <4>3, <4>4 DEF ValStep, KeyStep
    <3>2. CASE ~(bin = new /\ j = s)
      <4>1. header'[bin].ss[j] = header[bin].ss[j]
        BY <2>4, <2>5, <3>2
      <4>2. HasSlot(linkMeta[bin], j) => EntryAt(bin, j)' = EntryAt(bin, j) /\ KeyAt(bin, j)' = KeyAt(bin, j)
        BY <2>1, <3>2
      <4>3. EntryStep(bin, j)
        BY <2>3, <4>1, <4>2 DEF EntryStep
      <4>4. OwnStep(t, bin, j)
        BY <1>2, <4>1 DEF OwnStep, SlotTrying, SlotInvalid
      <4> QED
        BY <4>1, <4>2, <4>3, <4>4 DEF StateStep, ValStep, KeyStep
    <3> QED
      BY <3>1, <3>2
  <2>10. Change(t)
    BY <1>2, <2>1, <2>7, <2>9 DEF Change
  <2>11. SnapInv(t)'
    <3>1. SnapInv(t) /\ OldBin(t)' = b
      BY <1>0, <1>1, <1>3 DEF SInv, OldBin
    <3>2. header'[b] = header[b]
      BY <1>4, <2>1, <2>4
    <3>3. \A j \in SlotIdx : xfer[t].h.ss[j] = SlotValid => HasSlot(linkMeta[b], j)
      <4>1. XferInv(t)
        BY <1>1, Locals
      <4> QED
        BY <1>0, <1>1, <4>1 DEF XferInv, Backed, SlotValid, SlotInvalid
    <3>4. \A j \in SlotIdx : xfer[t].h.ss[j] = SlotValid => EntryAt(b, j)' = EntryAt(b, j)
      BY <1>4, <2>1, <3>3
    <3> QED
      BY <1>0, <1>3, <3>1, <3>2, <3>4 DEF SnapInv
  <2> QED
    BY <1>2, <2>7, <2>10, <2>11, StepS
<1> QED
  BY <1>5, <1>6

\* The steps of the resize.
LEMMA ResizeS ==
  ASSUME IInv, EntryType, IInv', RInv, LInv, LInv', SInv, NoWrap, NEW t \in Thread, ResizeStep(t)
  PROVE  SInv'
  BY BetweenS, TransferBinS, TransferLinksS, StoreSentinelS, MoveEntryS, FinishBinS DEF ResizeStep
-----------------------------------------------------------------------------
(* The theorems.                                                           *)

\* A new call: no value that was settled is its value.
LEMMA InvokeS ==
  ASSUME IInv, EntryType, IInv', RInv, LInv, SInv, NEW t \in Thread, Invoke(t)
  PROVE  SInv'
<1>1. /\ pc[t] = "idle" /\ calls[t] < MaxCalls[t] /\ UNCHANGED <<memory, scan, ins, xfer>>
      /\ pc' = [pc EXCEPT ![t] = "active"] /\ calls' = [calls EXCEPT ![t] = @ + 1]
      /\ res' = [res EXCEPT ![t] = Pending]
      /\ \E c \in Calls[t] :
           call' = [call EXCEPT ![t] = [kind |-> c.kind, key |-> c.key, val |-> <<t, calls[t] + 1>>]]
  BY DEF Invoke, Goto
<1>2. /\ pc \in [Thread -> PC] /\ calls \in [Thread -> Nat] /\ res \in [Thread -> Answer \cup {Pending}]
      /\ call \in [Thread -> CallRec \cup {NoCall}]
  BY DEF IInv, BaseType, ApiType, BaseLocal
<1>3. /\ OthersSame(t) /\ pc'[t] = "active" /\ calls'[t] = calls[t] + 1 /\ res'[t] = Pending
      /\ call'[t].val = <<t, calls[t] + 1>>
      /\ \A u \in Thread \ {t} : call'[u] = call[u] /\ calls'[u] = calls[u] /\ res'[u] = res[u]
  BY <1>1, <1>2 DEF OthersSame
<1>4. calls[t] + 1 \in 1..MaxCalls[t]
  BY <1>1, <1>2, SizeAssumption
<1>5. ASSUME NEW v \in Value, Settled(v) PROVE Settled(v)'
  <2>1. CASE v = InitVal
    BY <2>1 DEF Settled
  <2>2. CASE v # InitVal
    <3>1. PICK u \in Thread : v \in {u} \X (1..MaxCalls[u])
      BY <2>2 DEF Value
    <3>2. v[1] = u /\ v[2] \in Int
      BY <3>1
    <3>3. v[2] < calls[u] \/ (v[2] = calls[u] /\ res[u] # Pending)
      BY <1>5, <2>2, <3>2 DEF Settled
    <3>4. CASE u = t
      <4>1. calls[t] \in Nat
        BY <1>2
      <4>2. v[2] < calls'[t]
        BY <1>3, <3>2, <3>3, <3>4, <4>1
      <4> QED BY <3>2, <3>4, <4>2 DEF Settled
    <3>5. CASE u # t
      BY <1>3, <3>2, <3>3, <3>5 DEF Settled
    <3> QED BY <3>4, <3>5
  <2> QED BY <2>1, <2>2
<1>6. ApiStep(t)
  BY <1>3, <1>5 DEF ApiStep
<1>7. CallInv(t)'
  BY <1>3, <1>4 DEF CallInv, Returned, UnresPC, SlotPC, InsertPC, OwnPC
<1>8. Own(t)' /\ \A bin, i : ~Owns(t, bin, i)'
  BY <1>3, <1>7, PlainOwn DEF PlainPC
<1>9. \A bin, i : ~Owns(t, bin, i)
  BY <1>1 DEF Owns, OwnPC, ScanPC
<1>10. Change(t)
  BY <1>1, <1>3, <1>6, <1>8, <1>9, MemorySame
<1>11. pc'[t] \notin MovePC
  BY <1>3 DEF MovePC, TransferPC
<1> QED
  BY <1>8, <1>10, <1>11, StepS

\* At first no call is running, and every entry is one that was there from the beginning.
LEMMA InitS == Init => SInv
<1> SUFFICES ASSUME Init PROVE SInv
  OBVIOUS
<1>1. \A t \in Thread : pc[t] = "idle" /\ res[t] = [val |-> Absent, ok |-> FALSE]
  BY DEF Init
<1>2. ASSUME NEW t \in Thread
      PROVE  /\ pc[t] \notin SeqPC \cup ChoicePC \cup SlotPC \cup InsertPC \cup ScanPC \cup MovePC \cup LoopPC \cup AimPC
             /\ \A bin, i : ~Owns(t, bin, i) /\ ~Marks(t, bin, i)
  BY <1>1 DEF SeqPC, HeadPC, ChoicePC, SlotPC, InsertPC, OwnPC, ScanPC, MovePC, TransferPC, LoopPC, AimPC, Owns, Marks
<1>3. ASSUME NEW t \in Thread PROVE HeadInv(t) /\ PickInv(t) /\ OwnInv(t)
  BY <1>1, <1>2 DEF HeadInv, PickInv, OwnInv
<1>4. ASSUME NEW t \in Thread PROVE CallInv(t)
  <2>1. res[t] # Pending
    <3>1. PICK r : r = [val |-> Absent, ok |-> FALSE]
      OBVIOUS
    <3>2. r \in [val : Value \cup {Absent}, ok : BOOLEAN]
      BY <3>1
    <3> QED BY <1>1, <3>1, <3>2, MarkerAssumption
  <2> QED BY <1>1, <1>2, <2>1 DEF CallInv, Returned
<1>5. ASSUME NEW t \in Thread PROVE TargetInv(t)
  BY <1>1, <1>2 DEF TargetInv, Aims
<1>6. ASSUME NEW bin \in BinId, NEW i \in SlotIdx
      PROVE  /\ header[bin].ss[i] # SlotTrying
             /\ header[bin].ss[i] = SlotValid /\ EntryAt(bin, i) # Nil => Settled(EntryAt(bin, i).val)
  <2>1. header[bin].ss[i] \in {SlotValid, SlotInvalid}
    BY DEF Init
  <2>2. ASSUME header[bin].ss[i] = SlotValid, EntryAt(bin, i) # Nil PROVE EntryAt(bin, i).val = InitVal
    <3>1. IInv
      BY InitInv
    <3>2. SlotLoc(bin, i) \in Loc
      <4>1. /\ HasSlot(linkMeta[bin], i) /\ LinkMetaOK(linkMeta[bin], NumLinks[bin[1]])
            /\ linkMeta[bin] \in LinkMeta
        BY <2>2, <3>1 DEF IInv, SharedInv, BinInv, Backed, BaseType, BaseMemory, SlotValid, SlotInvalid
      <4> QED BY <4>1, LocType DEF SlotLoc
    <3>3. \A loc \in Loc : slotVal[loc] # Nil => slotVal[loc].val = InitVal
      BY DEF Init
    <3> QED BY <2>2, <3>2, <3>3 DEF EntryAt
  <2> QED BY <2>1, <2>2 DEF SlotValid, SlotInvalid, SlotTrying, Settled
<1> QED
  BY <1>2, <1>3, <1>4, <1>5, <1>6 DEF SInv, EntryInv, TryInv, ApartInv

\* What a step does to the headers goes one way.
LEMMA StepForward ==
  ASSUME IInv, EntryType, IInv', RInv, LInv, LInv', SInv, NoWrap, NEW t \in Thread, Step(t)
  PROVE  header' = header \/ Forward
<1>1. CASE ScanStep(t)
  BY <1>1 DEF ScanStep, LoadActive, LoadHeader, Follow, MatchKeys, Probe, LoadLinks, CheckStale, CheckAnswer,
              CheckTarget, memory
<1>2. CASE SlotStep(t)
  <2>1. CASE markSlotInvalid(t)
    <3>1. OthersSame(t)
      BY <2>1 DEF IInv, BaseType, BaseLocal, markSlotInvalid, Goto, OthersSame
    <3> QED BY <2>1, <3>1, markSlotInvalidS
  <2>2. CASE DWCASHit(t)
    BY <2>2 DEF DWCASHit
  <2>3. CASE DWCASMiss(t) \/ LoopHeader(t)
    BY <2>3 DEF DWCASMiss, LoopHeader, memory
  <2>4. CASE LoopKey(t) \/ LoopVal(t) \/ LoopCheck(t) \/ LoopTTAS(t)
    BY <2>4 DEF LoopKey, LoopVal, LoopCheck, LoopTTAS, memory
  <2> QED
    BY <1>2, <2>1, <2>2, <2>3, <2>4 DEF SlotStep
<1>3. CASE InsertStep(t)
  <2>1. OthersSame(t)
    BY <1>3, InsertFrame DEF OthersSame
  <2>2. CASE reserveSlot(t)
    BY <2>1, <2>2, reserveSlotS
  <2>3. CASE finalizeSlot(t)
    BY <2>1, <2>3, finalizeSlotS
  <2>4. CASE UnreserveCAS(t)
    BY <2>1, <2>4, UnreserveCASS
  <2>5. CASE ChooseHeader(t) \/ ChooseLinks(t) \/ allocateLink(t) \/ allocateLinkPair(t)
    BY <2>5 DEF ChooseHeader, ChooseLinks, allocateLink, allocateLinkPair, Allocate, memory
  <2>6. CASE attachSingle(t) \/ attachPair(t) \/ FillKey(t) \/ FillVal(t)
    BY <2>6 DEF attachSingle, attachPair, FillKey, FillVal, memory
  <2>7. CASE LoadHeader2(t) \/ UnreserveLoad(t) \/ UnreserveClear(t)
    BY <2>7 DEF LoadHeader2, UnreserveLoad, UnreserveClear, memory
  <2> QED
    BY <1>3, <2>2, <2>3, <2>4, <2>5, <2>6, <2>7 DEF InsertStep
<1>4. CASE ResizeStep(t)
  <2>1. CASE TransferBin(t)
    BY <2>1, TransferBinS
  <2>2. CASE MoveEntry(t)
    BY <2>2, MoveEntryS
  <2>3. CASE FinishBin(t)
    BY <2>3, FinishBinS
  <2> QED
    BY <1>4, <2>1, <2>2, <2>3
    DEF ResizeStep, TriggerResize, PublishNext, SetResizeContext, HelpResize, HelpActive, ClaimChunk, TransferLinks,
        StoreSentinel, ChunkDone, FinishCapacity, FinishActive, FinishInactive, FinishCtx, memory
<1> QED
  BY <1>1, <1>2, <1>3, <1>4 DEF Step

\* Every step keeps the invariant of headers and slots, as long as no version wraps.
LEMMA NextS ==
  ASSUME IInv, EntryType, IInv', RInv, LInv, LInv', SInv, NoWrap, [Next]_vars
  PROVE  SInv'
<1>1. CASE UNCHANGED vars
  <2>1. UNCHANGED <<header, linkMeta, slotKey, slotVal, pc, call, res, calls, scan, ins, xfer>>
    BY <1>1 DEF vars
  <2>2. \A t \in Thread : Bin(t)' = Bin(t) /\ hash(t)' = hash(t) /\ OldBin(t)' = OldBin(t) /\ NewEntry(t)' = NewEntry(t)
    BY <2>1 DEF Bin, hash, OldBin, NewEntry
  <2>3. \A v : Settled(v)' <=> Settled(v)
    BY <2>1 DEF Settled
  <2>4. \A bin, i : EntryAt(bin, i)' = EntryAt(bin, i) /\ KeyAt(bin, i)' = KeyAt(bin, i)
    BY <2>1 DEF EntryAt, KeyAt, SlotLoc
  <2>5. \A t \in Thread : /\ Validated(t)' <=> Validated(t)
                          /\ \A bin, i : (Owns(t, bin, i)' <=> Owns(t, bin, i)) /\ (Marks(t, bin, i)' <=> Marks(t, bin, i))
    BY <2>1, <2>2 DEF Validated, Owns, Reserved, Marks
  <2>6. ASSUME NEW t \in Thread PROVE (HeadInv(t) /\ PickInv(t) /\ CallInv(t))'
    <3>1. HeadInv(t) /\ PickInv(t) /\ CallInv(t)
      BY DEF SInv
    <3>2. HeadInv(t)'
      BY <2>1, <2>2, <3>1 DEF HeadInv
    <3>3. PickInv(t)'
      BY <2>1, <2>5, <3>1 DEF PickInv
    <3>4. CallInv(t)'
      BY <2>1, <3>1 DEF CallInv, Returned
    <3> QED BY <3>2, <3>3, <3>4
  <2>7. ASSUME NEW t \in Thread PROVE TargetInv(t)'
    <3>1. TargetInv(t)
      BY DEF SInv
    <3> QED BY <2>1, <2>2, <2>3, <2>4, <2>5, <3>1 DEF TargetInv, Aims
  <2>8. ASSUME NEW t \in Thread PROVE OwnInv(t)'
    <3>1. OwnInv(t)
      BY DEF SInv
    <3> QED BY <2>1, <2>2, <2>4, <2>5, <3>1 DEF OwnInv
  <2>9. ASSUME NEW t \in Thread, pc'[t] \in MovePC PROVE SnapInv(t)'
    <3>1. SnapInv(t)
      BY <2>1, <2>9 DEF SInv
    <3> QED BY <2>1, <2>2, <2>4, <3>1 DEF SnapInv
  <2>10. ASSUME NEW bin \in BinId PROVE (EntryInv(bin) /\ TryInv(bin))'
    <3>1. EntryInv(bin) /\ TryInv(bin)
      BY DEF SInv
    <3> QED BY <2>1, <2>3, <2>4, <2>5, <3>1 DEF EntryInv, TryInv
  <2>11. ApartInv'
    <3>1. ApartInv
      BY DEF SInv
    <3> QED BY <2>5, <3>1 DEF ApartInv
  <2> QED BY <2>6, <2>7, <2>8, <2>9, <2>10, <2>11 DEF SInv
<1>2. ASSUME NEW t \in Thread, Invoke(t) PROVE SInv'
  BY <1>2, InvokeS
<1>3. ASSUME NEW t \in Thread, Step(t) PROVE SInv'
  BY <1>3, ScanS, SlotS, InsertS, ResizeS DEF Step
<1>4. CASE Finished
  BY <1>1, <1>4 DEF Finished
<1> QED
  BY <1>1, <1>2, <1>3, <1>4 DEF Next

\* SInv is an invariant of the map for as long as no version wraps: what a goroutine knows
\* of the header and the slot it found stays true until the header says otherwise.
THEOREM SlotsInductive == Spec /\ []NoWrap => []SInv
<1>1. Init => SInv
  BY InitS
<1>2. IInv /\ EntryType /\ IInv' /\ RInv /\ LInv /\ LInv' /\ NoWrap /\ SInv /\ [Next]_vars => SInv'
  BY NextS
<1> QED
  BY <1>1, <1>2, Inductive, ResizeInductive, LinksInductive, PTL DEF Spec

\* No header comes back: a CAS or a validation that compares a header with the one loaded
\* before is not fooled by changes in between, though Delete's AND, the OR and the store of
\* DoneTransfer do not count the version up.
THEOREM HeaderNeverComesBack == Spec /\ []NoWrap => HeaderNeverRepeats
<1> DEFINE Steady(bin) ==
       header'[bin] # header[bin] =>
         LET old == header[bin]
             new == header'[bin]
         IN  \/ new.ver > old.ver
             \/ new.ver = old.ver /\ new.bs > old.bs
             \/ /\ new.ver = old.ver /\ new.bs = old.bs
                /\ Valids(new) \subseteq Valids(old) /\ Valids(new) # Valids(old)
<1>1. ASSUME IInv, EntryType, IInv', RInv, LInv, LInv', SInv, NoWrap, [Next]_vars
      PROVE  [\A bin \in BinId : Steady(bin)]_vars
  <2> HIDE DEF Steady
  <2>1. ASSUME NEW t \in Thread, Invoke(t) \/ Step(t), NEW bin \in BinId PROVE Steady(bin)
    <3>1. header' = header \/ Forward
      <4>1. CASE Invoke(t)
        BY <4>1 DEF Invoke, memory
      <4>2. CASE Step(t)
        BY <1>1, <4>2, StepForward
      <4> QED BY <2>1, <4>1, <4>2
    <3>2. header[bin] \in Header /\ header'[bin] \in Header
      BY <1>1 DEF IInv, BaseType, BaseMemory
    <3>3. header'[bin] = header[bin] \/ Before(header[bin], header'[bin])
      BY <3>1 DEF Forward
    <3> QED BY <3>2, <3>3, BeforeStrict DEF Steady
  <2>2. CASE Finished
    BY <2>2 DEF Finished
  <2> QED BY <1>1, <2>1, <2>2 DEF Next
<1>2. IInv /\ EntryType /\ IInv' /\ RInv /\ LInv /\ LInv' /\ SInv /\ NoWrap /\ [Next]_vars => [\A bin \in BinId : Steady(bin)]_vars
  BY <1>1
<1> QED
  BY <1>2, Inductive, ResizeInductive, LinksInductive, SlotsInductive, PTL DEF Spec, HeaderNeverRepeats

\* A slot that is Trying, in a bin that is not in transfer, belongs to exactly one Insert: no
\* two fill the same slot, and an Insert that gives up leaves no slot reserved.
THEOREM ReservationAlwaysOwned == Spec /\ []NoWrap => []ReservationOwned
<1>1. ASSUME IInv, SInv PROVE ReservationOwned
  <2> SUFFICES ASSUME NEW bin \in BinId, NEW i \in SlotIdx, header[bin].bs = BinNoTransfer
               PROVE  LET owners == {t \in Thread : Owns(t, bin, i)} IN
                      IF header[bin].ss[i] = SlotTrying THEN Cardinality(owners) = 1 ELSE owners = {}
    BY DEF ReservationOwned
  <2>1. CASE header[bin].ss[i] = SlotTrying
    <3>1. PICK t \in Thread : Owns(t, bin, i)
      BY <1>1, <2>1 DEF SInv, TryInv
    <3>2. \A u \in Thread : Owns(u, bin, i) => u = t
      BY <1>1, <3>1 DEF SInv, ApartInv
    <3>3. {u \in Thread : Owns(u, bin, i)} = {t}
      BY <3>1, <3>2
    <3>4. Cardinality({t}) = 1
      BY FS_Singleton
    <3> QED BY <2>1, <3>3, <3>4
  <2>2. CASE header[bin].ss[i] # SlotTrying
    BY <1>1, <2>2 DEF SInv, OwnInv
  <2> QED BY <2>1, <2>2
<1> QED
  BY <1>1, Inductive, SlotsInductive, PTL
=============================================================================
