----------------------------- MODULE HeaderWord -----------------------------
(***************************************************************************)
(* The two packed words of a bin as header.go and linkmeta.go compute them *)
(* (src/allocator and src/inline have the same), next to the records that  *)
(* AllocatorMap has in their place.  A word is the set of its bits that    *)
(* are 1, so | & &^ are union, intersection and difference; the header is  *)
(*   [63:32] version | [31:30] bin state | [29:0] 15 slot states of 2 bits *)
(* and LinkMeta [63:32] pairStart | [31:0] single.  The words go through   *)
(* every sequence of transitions that the protocol makes.                  *)
(***************************************************************************)
EXTENDS Integers, FiniteSets, FiniteSetsExt

CONSTANTS FieldBits,        \* 32: the bits of the version, of pairStart and of single
          Touched           \* bound: the slots that change, a subset of 0..14

PRIMARY_SLOTS == 3
LINK_SLOTS == 4
SlotIdx == 0..(PRIMARY_SLOTS + 3 * LINK_SLOTS - 1)
NO_LINK == 0
BinNoTransfer == 0
BinInTransfer == 1
BinDoneTransfer == 2
SlotInvalid == 0
SlotTrying == 1
SlotValid == 2

versionShift == 32
binStateShift == 30
ASSUME WordAssumption == FieldBits \in 2..32 /\ Touched \subseteq SlotIdx

Bits == 0..(versionShift + FieldBits - 1)
Low(n) == 0..(n - 1)                                   \* (1 << n) - 1
Shl(w, n) == {b + n : b \in w} \cap Bits               \* w << n in a word of this width
Shr(w, n) == {b - n : b \in w \ Low(n)}                \* w >> n
uint32(w) == w \cap Low(32)
\* Numbers and words
Word(n) == {b \in Low(FieldBits) : (n \div 2^b) % 2 = 1}
Num(w) == MapThenSumSet(LAMBDA b : 2^b, w)
\* raw + 1 << versionShift: the carry stops at the lowest 0 or leaves the word
AddVersion(w) ==
  LET zero == (Bits \ Low(versionShift)) \ w
      carry == IF zero = {} THEN Bits \ Low(versionShift) ELSE versionShift..(Min(zero) - 1)
  IN  (w \ carry) \cup (IF zero = {} THEN {} ELSE {Min(zero)})

-----------------------------------------------------------------------------
(* header.go                                                               *)

binStateMask == Shl(Low(2), binStateShift)
slotStatesMask == Low(30)
getBinState(w) == Num(Shr(w \cap binStateMask, binStateShift))
getSlotStates(w) == w \cap slotStatesMask
getSlotState(w, i) == Num(Shr(getSlotStates(w), 2 * i) \cap Low(2))
setBinState(w, st) == (w \ binStateMask) \cup Shl(Word(st), binStateShift)

\* mutant: the old state's bits are not cleared
setSlotStateOr(w, i, st) == AddVersion(w \cup Shl(Word(st), 2 * i))
setSlotStateAndVersion(w, i, st) == AddVersion((w \ Shl(Low(2), 2 * i)) \cup Shl(Word(st), 2 * i))

validMask3(w) == Shr(uint32(w), 1) \cap {0, 2, 4}
\* mutant: the bin state is taken for the state of a slot
validMask4Wide(w, base) == Shr(uint32(w), 2 * base + 1) \cap {0, 2, 4, 6, 8}
validMask4(w, base) == Shr(uint32(w), 2 * base + 1) \cap {0, 2, 4, 6}
invalidMask3(w) == LET s == w \cap Low(6) IN {0, 2, 4} \ (s \cup Shr(s, 1))
invalidMask4(w, base) == LET s == Shr(uint32(w), 2 * base) \cap Low(8) IN {0, 2, 4, 6} \ (s \cup Shr(s, 1))

\* validSlotCount: the bits of h & 0x2AAAAAAA
validCount(w) == Cardinality(w \cap {2 * i + 1 : i \in SlotIdx})

-----------------------------------------------------------------------------
(* linkmeta.go                                                             *)

newLinkMeta(pair, single) == Shl(pair, 32) \cup single
getPairStart(w) == Shr(w, 32)
getSingle(w) == uint32(w)
setPairStartOnly(w, p) == newLinkMeta(p, {})           \* mutant: the single is forgotten
setPairStart(w, p) == newLinkMeta(p, getSingle(w))
setSingle(w, s) == newLinkMeta(getPairStart(w), s)
resolveLink(w, n) ==
  CASE n = 0 -> Num(getSingle(w))
    [] n = 1 -> Num(getPairStart(w))
    [] n = 2 -> IF getPairStart(w) = {} THEN NO_LINK ELSE (Num(getPairStart(w)) + 1) % 2^FieldBits

-----------------------------------------------------------------------------
VARIABLES raw, hdr,         \* the header as a word and as a record
          snap,             \* the header that the OR of the transfer returned, in both forms
          meta, lm          \* the LinkMeta as a word and as a record
vars == <<raw, hdr, snap, meta, lm>>

Init == /\ raw = {} /\ hdr = [ver |-> 0, bs |-> BinNoTransfer, ss |-> [i \in SlotIdx |-> SlotInvalid]]
        /\ snap = <<raw, hdr>>
        /\ meta = {} /\ lm = [single |-> NO_LINK, pair |-> NO_LINK]

\* A CAS from state from to state to: reserveSlot, finalizeSlot, unreserveSlot and
\* the inline Delete; the plain store of a transfer goes from Invalid to Valid
SetSlot(i, from, to) ==
  /\ hdr.bs = BinNoTransfer /\ hdr.ss[i] = from
  /\ raw' = setSlotStateAndVersion(raw, i, to)
  /\ hdr' = [hdr EXCEPT !.ver = (@ + 1) % 2^FieldBits, !.ss[i] = to]
  /\ UNCHANGED <<snap, meta, lm>>

\* The AND of markSlotInvalid in the allocator variant: in any bin state
andInvalid(i) ==
  /\ hdr.ss[i] = SlotValid
  /\ raw' = raw \ Shl(Low(2), 2 * i)
  /\ hdr' = [hdr EXCEPT !.ss[i] = SlotInvalid]
  /\ UNCHANGED <<snap, meta, lm>>

\* The OR of transferBin, and its final store, which writes what the OR returned
transferBin ==
  /\ \/ /\ hdr.bs = BinNoTransfer
        /\ snap' = <<raw, hdr>>
        /\ raw' = raw \cup Shl(Word(BinInTransfer), binStateShift)
        /\ hdr' = [hdr EXCEPT !.bs = BinInTransfer]
     \/ /\ hdr.bs = BinInTransfer
        /\ raw' = setBinState(snap[1], BinDoneTransfer)
        /\ hdr' = [snap[2] EXCEPT !.bs = BinDoneTransfer]
        /\ UNCHANGED snap
  /\ UNCHANGED <<meta, lm>>

\* The CAS of attachSingle and of attachPair, for any link a
attachSingle(a) ==
  /\ getSingle(meta) = {} /\ meta' = setSingle(meta, Word(a))
  /\ lm' = [lm EXCEPT !.single = a]
  /\ UNCHANGED <<raw, hdr, snap>>
attachPair(a) ==
  /\ getSingle(meta) # {} /\ getPairStart(meta) = {} /\ meta' = setPairStart(meta, Word(a))
  /\ lm' = [lm EXCEPT !.pair = a]
  /\ UNCHANGED <<raw, hdr, snap>>

SlotMoves == {<<SlotInvalid, SlotTrying>>, <<SlotTrying, SlotValid>>, <<SlotTrying, SlotInvalid>>,
              <<SlotValid, SlotInvalid>>, <<SlotInvalid, SlotValid>>}
Next == \/ \E i \in Touched : andInvalid(i) \/ \E mv \in SlotMoves : SetSlot(i, mv[1], mv[2])
        \/ transferBin
        \/ \E a \in 1..(2^FieldBits - 2) : attachSingle(a) \/ attachPair(a)

-----------------------------------------------------------------------------
\* The header word says what the record says, when the version wraps and a
\* carry runs out of the word too: no update of one field spills into another.
HeaderDecodes ==
  /\ Num(Shr(raw, versionShift)) = hdr.ver
  /\ getBinState(raw) = hdr.bs
  /\ \A i \in SlotIdx : getSlotState(raw, i) = hdr.ss[i]

\* A spread mask stands for the slots base + b / 2 of its bits b
Spread(mask, base) == {base + b \div 2 : b \in mask}
States(base, n, st) == {i \in base..(base + n - 1) : hdr.ss[i] = st}

\* The masks find the Valid and the Invalid slots of each bucket, in every bin
\* state: state 3 never occurs, and the bin state next to slot 14 is not read.
MasksFindSlots ==
  /\ Spread(validMask3(raw), 0) = States(0, PRIMARY_SLOTS, SlotValid)
  /\ Spread(invalidMask3(raw), 0) = States(0, PRIMARY_SLOTS, SlotInvalid)
  /\ \A n \in 0..2 :
       LET base == PRIMARY_SLOTS + n * LINK_SLOTS IN
       /\ Spread(validMask4(raw, base), base) = States(base, LINK_SLOTS, SlotValid)
       /\ Spread(invalidMask4(raw, base), base) = States(base, LINK_SLOTS, SlotInvalid)
  /\ validCount(raw) = Cardinality({i \in SlotIdx : hdr.ss[i] = SlotValid})

\* Attaching one half of a LinkMeta leaves the other as it is, and the three
\* links of a bin are found from it.
LinksDecode ==
  /\ resolveLink(meta, 0) = lm.single
  /\ resolveLink(meta, 1) = lm.pair
  /\ resolveLink(meta, 2) = IF lm.pair = NO_LINK THEN NO_LINK ELSE lm.pair + 1
=============================================================================
