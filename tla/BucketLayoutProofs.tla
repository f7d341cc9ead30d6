------------------------- MODULE BucketLayoutProofs -------------------------
(***************************************************************************)
(* Theorems about BucketLayout: the slices of buckets are inside of their  *)
(* buffers, aligned and typed for the collector, for every length.         *)
(***************************************************************************)
EXTENDS BucketLayout, TLAPS

\* Addresses modulo a cache line
Offset == 0..15

\* What every slice fulfils, whose buckets of a kind number n
Inside(s, n) == s.start \in Nat /\ s.size \in Nat /\ (n > 0 => s.start + 8 * n <= s.size)
OnLine(kind, s, line) ==
  /\ (s.addr + s.start) % 2 = 0
  /\ kind # "inlineLink" => (s.addr + s.start) % line = 0
Typed(kind, s) == \A i \in 0..7 : i \in Pointers(kind) <=> (s.start + i) % 8 \in s.ptrs
GoodSlice(kind, s, n, line) == Inside(s, n) /\ OnLine(kind, s, line) /\ Typed(kind, s)
LayoutInv ==
  /\ ask.n \in Nat /\ ask.line \in {8, 16}
  /\ \A kind \in DOMAIN got : kind \in Kinds /\ got[kind].addr \in Nat
                              /\ GoodSlice(kind, got[kind], ask.n, ask.line)

-----------------------------------------------------------------------------
(* The padding.                                                            *)

\* What is cut off is less than a line, and what is left begins on one.
LEMMA PaddingAligns ==
  ASSUME NEW addr \in Offset, NEW m \in {2, 8, 16}
  PROVE  /\ Padding(addr, m) \in 0..(m - 1)
         /\ (addr + Padding(addr, m)) % m = 0
         /\ (addr + Padding(addr, m)) % 2 = 0
BY DEF Offset, Padding

\* A buffer behind a malloc header is cut in the last word of a bucket, another one at
\* the beginning of one.
LEMMA PaddingOfHeader ==
  ASSUME NEW addr \in Offset, NEW m \in {8, 16}
  PROVE  /\ addr % 8 = 1 => Padding(addr, m) % 8 = 7
         /\ addr % 8 = 0 => Padding(addr, m) % 8 = 0 /\ 8 * (Padding(addr, m) \div 8) = Padding(addr, m)
BY DEF Offset, Padding

\* The words that a pointer is looked for in, in a slice that begins in the last word or
\* in the first of an element.
LEMMA RotatedWords ==
  ASSUME NEW start \in Nat, NEW i \in 0..7
  PROVE  /\ start % 8 = 7 => /\ i \in PrimaryBucket <=> (start + i) % 8 \in PrimaryBucketRot8
                             /\ i \in LinkBucket <=> (start + i) % 8 \in LinkBucketRot8
         /\ start % 8 = 0 => (start + i) % 8 = i
<1>1. start % 8 = 7 => (start + i) % 8 = IF i = 0 THEN 7 ELSE i - 1
  OBVIOUS
<1>2. start % 8 = 0 => (start + i) % 8 = i
  OBVIOUS
<1> QED BY <1>1, <1>2 DEF PrimaryBucket, PrimaryBucketRot8, LinkBucket, LinkBucketRot8

-----------------------------------------------------------------------------
(* The slices.                                                             *)

\* The slices of the allocator variant, whichever of the three ways they are made.
LEMMA AlignedSlice ==
  ASSUME NEW n \in Nat, NEW line \in {8, 16}, NEW addr \in Offset, NEW plain, NEW rotated,
         NEW kind \in {"primary", "link"}, plain = Pointers(kind),
         rotated = IF kind = "primary" THEN PrimaryBucketRot8 ELSE LinkBucketRot8
  PROVE  /\ GoodSlice(kind, aligned(n, line, addr, plain, rotated), n, line)
         /\ aligned(n, line, addr, plain, rotated).addr \in Nat
<1> DEFINE p == Padding(addr, line)
<1>1. p \in 0..(line - 1) /\ p \in 0..15 /\ (addr + p) % line = 0 /\ (addr + p) % 2 = 0
  BY PaddingAligns
<1>2. /\ addr % 8 = 1 => p % 8 = 7
      /\ addr % 8 = 0 => p % 8 = 0 /\ 8 * (p \div 8) = p
  BY PaddingOfHeader
<1>3. plain = (IF kind = "primary" THEN PrimaryBucket ELSE LinkBucket) /\ plain \subseteq 0..7
  BY DEF Pointers, PrimaryBucket, LinkBucket
<1>4. addr \in Nat
  BY DEF Offset
<1> HIDE DEF p
<1>5. CASE mallocgcAddsHeader(n) /\ addr % 8 = 1
  <2>1. aligned(n, line, addr, plain, rotated) = Slice(addr, 8 * (n + 2), p, rotated)
    BY <1>5 DEF aligned, p
  <2>2. Inside(Slice(addr, 8 * (n + 2), p, rotated), n)
    BY <1>1 DEF Inside, Slice
  <2>3. OnLine(kind, Slice(addr, 8 * (n + 2), p, rotated), line)
    BY <1>1 DEF OnLine, Slice
  <2>4. Typed(kind, Slice(addr, 8 * (n + 2), p, rotated))
    <3>1. p \in Nat /\ p % 8 = 7
      BY <1>1, <1>2, <1>5
    <3>2. ASSUME NEW i \in 0..7 PROVE i \in Pointers(kind) <=> (p + i) % 8 \in rotated
      BY <1>3, <3>1, RotatedWords
    <3> QED BY <3>2 DEF Typed, Slice
  <2> QED BY <1>4, <2>1, <2>2, <2>3, <2>4 DEF GoodSlice, Slice
<1>6. CASE ~mallocgcAddsHeader(n) /\ addr % 8 = 0
  <2>1. aligned(n, line, addr, plain, rotated) = Slice(addr, 8 * (n + 2), p, plain)
    <3>1. aligned(n, line, addr, plain, rotated) = Slice(addr, 8 * (n + 2), 8 * (p \div 8), plain)
      BY <1>6 DEF aligned, p
    <3> QED BY <1>2, <1>6, <3>1
  <2>2. Inside(Slice(addr, 8 * (n + 2), p, plain), n)
    BY <1>1 DEF Inside, Slice
  <2>3. OnLine(kind, Slice(addr, 8 * (n + 2), p, plain), line)
    BY <1>1 DEF OnLine, Slice
  <2>4. Typed(kind, Slice(addr, 8 * (n + 2), p, plain))
    <3>1. p \in Nat /\ p % 8 = 0
      BY <1>1, <1>2, <1>6
    <3>2. ASSUME NEW i \in 0..7 PROVE i \in Pointers(kind) <=> (p + i) % 8 \in plain
      <4>1. (p + i) % 8 = i
        BY <3>1, RotatedWords
      <4> QED BY <4>1
    <3> QED BY <3>2 DEF Typed, Slice
  <2> QED BY <1>4, <2>1, <2>2, <2>3, <2>4 DEF GoodSlice, Slice
<1>7. CASE ~(mallocgcAddsHeader(n) /\ addr % 8 = 1) /\ ~(~mallocgcAddsHeader(n) /\ addr % 8 = 0)
  <2>1. PICK size \in Nat : size >= 8 * n /\ LargeSlice(n, plain) = Slice(0, size, 0, plain)
    <3>1. largeBufferSize \in Nat
      BY DEF largeBufferSize, maxSmallSize
    <3> DEFINE buckets == IF n > largeBufferSize THEN n ELSE largeBufferSize
    <3>2. buckets \in Nat /\ buckets >= n
      BY <3>1
    <3>3. 8 * buckets \in Nat /\ 8 * buckets >= 8 * n /\ LargeSlice(n, plain) = Slice(0, 8 * buckets, 0, plain)
      <4>1. LargeSlice(n, plain) = Slice(0, 8 * buckets, 0, plain)
        BY DEF LargeSlice
      <4> HIDE DEF buckets
      <4> QED BY <3>2, <4>1
    <3> QED BY <3>3
  <2>2. aligned(n, line, addr, plain, rotated) = Slice(0, size, 0, plain)
    BY <1>7, <2>1 DEF aligned
  <2>3. Inside(Slice(0, size, 0, plain), n) /\ OnLine(kind, Slice(0, size, 0, plain), line)
    BY <2>1 DEF Inside, OnLine, Slice
  <2>4. Typed(kind, Slice(0, size, 0, plain))
    <3>1. ASSUME NEW i \in 0..7 PROVE (0 + i) % 8 = i
      OBVIOUS
    <3> QED BY <3>1 DEF Typed, Slice
  <2> QED BY <2>2, <2>3, <2>4 DEF GoodSlice, Slice
<1> QED BY <1>5, <1>6, <1>7

\* The slices of the inline variant.
LEMMA InlineSlice ==
  ASSUME NEW n \in Nat, NEW line \in {8, 16}, NEW addr \in Offset
  PROVE  /\ GoodSlice("inlinePrimary", inlinePrimarySlice(n, line, addr), n, line)
         /\ GoodSlice("inlineLink", inlineLinkSlice(n, addr), n, line)
         /\ inlinePrimarySlice(n, line, addr).addr \in Nat /\ inlineLinkSlice(n, addr).addr \in Nat
<1>1. ASSUME NEW kind \in {"inlinePrimary", "inlineLink"}, NEW m \in {2, 8, 16},
             kind = "inlinePrimary" => m = line
      PROVE  GoodSlice(kind, Slice(addr, 8 * (n + 2), Padding(addr, m), {}), n, line)
  <2> DEFINE p == Padding(addr, m)
  <2>1. p \in 0..15 /\ (addr + p) % m = 0 /\ (addr + p) % 2 = 0
    BY PaddingAligns
  <2> HIDE DEF p
  <2>2. Inside(Slice(addr, 8 * (n + 2), p, {}), n)
    BY <2>1 DEF Inside, Slice
  <2>3. OnLine(kind, Slice(addr, 8 * (n + 2), p, {}), line)
    BY <1>1, <2>1 DEF OnLine, Slice
  <2>4. Typed(kind, Slice(addr, 8 * (n + 2), p, {}))
    BY DEF Typed, Slice, Pointers
  <2> QED BY <2>2, <2>3, <2>4 DEF GoodSlice, p
<1>2. ASSUME NEW kind \in {"inlinePrimary", "inlineLink"}, n = 0
      PROVE  GoodSlice(kind, Slice(0, 0, 0, {}), n, line)
  BY <1>2 DEF GoodSlice, Inside, OnLine, Typed, Slice, Pointers
<1>3. addr \in Nat
  BY DEF Offset
<1> QED BY <1>1, <1>2, <1>3 DEF inlinePrimarySlice, inlineLinkSlice, Slice

-----------------------------------------------------------------------------
(* The layout.                                                             *)

\* Every slice that newIndex makes is good, whatever the length it asks for and wherever
\* the runtime puts the buffer.
THEOREM LayoutInductive == LayoutSpec => []LayoutInv
<1>1. LayoutInit => LayoutInv
  BY LayoutAssumption DEF LayoutInit, LayoutInv, Nothing
<1>2. LayoutInv /\ [LayoutNext]_layoutVars => LayoutInv'
  <2> SUFFICES ASSUME LayoutInv, [LayoutNext]_layoutVars PROVE LayoutInv'
    OBVIOUS
  <2>1. CASE UNCHANGED layoutVars
    BY <2>1 DEF LayoutInv, layoutVars
  <2>2. ASSUME NEW kind \in Kinds, NEW addr \in Offset, Make(kind, addr) PROVE LayoutInv'
    <3>1. PICK n \in Nat : n = ask.n
      BY DEF LayoutInv
    <3>2. PICK line \in {8, 16} : line = ask.line
      BY DEF LayoutInv
    <3> DEFINE made == CASE kind = "primary" -> makePrimaryAlignedSlice(n, line, addr)
                         [] kind = "link" -> makeLinkAlignedSlice(n, line, addr)
                         [] kind = "inlinePrimary" -> inlinePrimarySlice(n, line, addr)
                         [] kind = "inlineLink" -> inlineLinkSlice(n, addr)
    <3>3. PICK s : s = made
      OBVIOUS
    <3>4. ask' = ask /\ got' = [k \in {kind} |-> made]
      BY <2>2, <3>1, <3>2 DEF Make
    <3>5. GoodSlice(kind, s, n, line) /\ s.addr \in Nat
      <4>1. CASE kind = "primary"
        BY <3>3, <4>1, AlignedSlice DEF makePrimaryAlignedSlice, Pointers
      <4>2. CASE kind = "link"
        BY <3>3, <4>2, AlignedSlice DEF makeLinkAlignedSlice, Pointers
      <4>3. CASE kind = "inlinePrimary"
        BY <3>3, <4>3, InlineSlice
      <4>4. CASE kind = "inlineLink"
        BY <3>3, <4>4, InlineSlice
      <4> QED BY <4>1, <4>2, <4>3, <4>4 DEF Kinds
    <3>6. /\ ask'.n = n /\ ask'.line = line
          /\ \A k \in DOMAIN got' : k = kind /\ got'[k] = s
      BY <3>1, <3>2, <3>3, <3>4
    <3> QED BY <3>5, <3>6 DEF LayoutInv
  <2> QED BY <2>1, <2>2 DEF LayoutNext, Offset
<1> QED BY <1>1, <1>2, PTL DEF LayoutSpec

\* The buckets lie within the buffer, for every length.
THEOREM BucketsWithinBuffer == LayoutSpec => []WithinBuffer
<1>1. LayoutInv => WithinBuffer
  BY DEF LayoutInv, WithinBuffer, GoodSlice, Inside
<1> QED BY <1>1, LayoutInductive, PTL

\* Slots are aligned for the double-word CAS and buckets on cache lines, for every length.
THEOREM SlotsAlwaysAligned == LayoutSpec => []SlotsAligned
<1>1. ASSUME LayoutInv PROVE SlotsAligned
  <2> SUFFICES ASSUME NEW kind \in DOMAIN got
               PROVE  LET first == got[kind].addr + got[kind].start IN
                      /\ \A i \in Slots(kind) : (first + i) % 2 = 0
                      /\ kind # "inlineLink" => first % ask.line = 0
    BY DEF SlotsAligned
  <2>1. PICK first \in Nat : first = got[kind].addr + got[kind].start
    BY <1>1 DEF LayoutInv, GoodSlice, Inside
  <2>2. first % 2 = 0 /\ (kind # "inlineLink" => first % ask.line = 0)
    BY <1>1, <2>1 DEF LayoutInv, GoodSlice, OnLine
  <2>3. \A i \in {0, 2, 4, 6} : (first + i) % 2 = 0
    BY <2>2
  <2> QED BY <2>1, <2>2, <2>3 DEF Slots
<1> QED BY <1>1, LayoutInductive, PTL

\* The collector sees a pointer exactly where a slot has its Val, for every length.
THEOREM PointersAlwaysTracked == LayoutSpec => []PointersTracked
<1>1. LayoutInv => PointersTracked
  BY DEF LayoutInv, PointersTracked, GoodSlice, Typed
<1> QED BY <1>1, LayoutInductive, PTL
=============================================================================
