---------------------------- MODULE BucketLayout ----------------------------
(***************************************************************************)
(* How the buckets of an index are laid into the memory that Go gives      *)
(* (makePrimaryAlignedSlice, makeLinkAlignedSlice): buckets must begin on  *)
(* a cache line, slots on 16 bytes for the double-word CAS, and in the     *)
(* allocator variant the garbage collector must see a pointer exactly      *)
(* where a slot has its Val, though the slice may begin in the middle of   *)
(* an element that was allocated.  Addresses count words of 8 bytes; a     *)
(* bucket has 8 of them.                                                   *)
(***************************************************************************)
EXTENDS Integers

CONSTANTS Lengths,          \* the lengths n that are asked for
          CacheLines        \* cpu.CacheLineSize in words: 8 on amd64, 16 on arm64

ASSUME LayoutAssumption == Lengths \subseteq Nat /\ CacheLines \subseteq {8, 16}

\* The words of an element in which the collector finds a pointer
PrimaryBucket == {3, 5, 7}                  \* Header LinkMeta Key Val Key Val Key Val
PrimaryBucketRot8 == {2, 4, 6}              \* LinkMeta Key Val Key Val Key Val Header
LinkBucket == {1, 3, 5, 7}                  \* Key Val Key Val Key Val Key Val
LinkBucketRot8 == {0, 2, 4, 6}              \* Val Key Val Key Val Key Val Key
Pointers(kind) == CASE kind = "primary" -> PrimaryBucket
                    [] kind = "link" -> LinkBucket
                    [] OTHER -> {}          \* the inline variant has no pointers
\* The words in which the slots begin
Slots(kind) == IF kind \in {"primary", "inlinePrimary"} THEN {2, 4, 6} ELSE {0, 2, 4, 6}
Kinds == {"primary", "link", "inlinePrimary", "inlineLink"}

minSizeForMallocHeader == 64
maxSmallSize == 4096
mallocgcAddsHeader(n) ==
  LET total == (n + 2) * 8 IN total > minSizeForMallocHeader /\ total + 1 <= maxSmallSize
largeBufferSize == (maxSmallSize - 1) \div 8 + 1

\* A slice of n buckets that begins at word start of a buffer of size words at
\* address addr, whose elements have pointers at ptrs
Slice(addr, size, start, ptrs) == [addr |-> addr, size |-> size, start |-> start, ptrs |-> ptrs]

\* (-addr) & (m - 1)
Padding(addr, m) == (-addr) % m

\* The last resort: a large object, on a page of its own
LargeSlice(n, ptrs) ==
  Slice(0, 8 * (IF n > largeBufferSize THEN n ELSE largeBufferSize), 0, ptrs)

\* mutants: the address is not looked at; one spare bucket; padding to 64 bytes
alignedUnchecked(n, line, addr, plain, rotated) ==
  IF mallocgcAddsHeader(n) THEN Slice(addr, 8 * (n + 2), Padding(addr, line), rotated)
  ELSE Slice(addr, 8 * (n + 2), Padding(addr, line), plain)
alignedShort(n, line, addr, plain, rotated) ==
  Slice(addr, 8 * (n + 1), Padding(addr, line), IF mallocgcAddsHeader(n) THEN rotated ELSE plain)
alignedTo64(n, line, addr, plain, rotated) ==
  IF mallocgcAddsHeader(n) /\ addr % 8 = 1
  THEN Slice(addr, 8 * (n + 2), Padding(addr, 8), rotated)
  ELSE LargeSlice(n, plain)
\* n + 2 buckets, of the rotated type if the runtime puts a header before them
aligned(n, line, addr, plain, rotated) ==
  IF mallocgcAddsHeader(n) /\ addr % 8 = 1
  THEN Slice(addr, 8 * (n + 2), Padding(addr, line), rotated)
  ELSE IF ~mallocgcAddsHeader(n) /\ addr % 8 = 0
  THEN Slice(addr, 8 * (n + 2), 8 * (Padding(addr, line) \div 8), plain)
  ELSE LargeSlice(n, plain)

makePrimaryAlignedSlice(n, line, addr) == aligned(n, line, addr, PrimaryBucket, PrimaryBucketRot8)
makeLinkAlignedSlice(n, line, addr) == aligned(n, line, addr, LinkBucket, LinkBucketRot8)
\* The inline variant, which asks for nothing if n = 0
inlinePrimarySlice(n, line, addr) ==
  IF n = 0 THEN Slice(0, 0, 0, {}) ELSE Slice(addr, 8 * (n + 2), Padding(addr, line), {})
inlineLinkSlice(n, addr) ==
  IF n = 0 THEN Slice(0, 0, 0, {}) ELSE Slice(addr, 8 * (n + 2), Padding(addr, 2), {})

-----------------------------------------------------------------------------
VARIABLES ask,              \* what newIndex asks for
          got               \* the slices made for it so far, by kind
layoutVars == <<ask, got>>

Nothing == [k \in {} |-> 0]
LayoutInit == /\ ask \in [n : Lengths, line : CacheLines]
              /\ got = Nothing

\* make: addr is where the runtime puts the buffer, modulo 128 bytes.  It is a
\* multiple of 64 bytes, or 8 more if there is a header before it; the code
\* does not rely on that
Make(kind, addr) ==
  LET n == ask.n
      s == CASE kind = "primary" -> makePrimaryAlignedSlice(n, ask.line, addr)
             [] kind = "link" -> makeLinkAlignedSlice(n, ask.line, addr)
             [] kind = "inlinePrimary" -> inlinePrimarySlice(n, ask.line, addr)
             [] kind = "inlineLink" -> inlineLinkSlice(n, addr)
  IN  /\ got = Nothing
      /\ got' = [k \in {kind} |-> s]
      /\ UNCHANGED ask

LayoutNext == \E kind \in Kinds, addr \in 0..15 : Make(kind, addr)
LayoutSpec == LayoutInit /\ [][LayoutNext]_layoutVars

-----------------------------------------------------------------------------
\* The buckets lie within the buffer, whatever was cut off at its beginning.
WithinBuffer == \A kind \in DOMAIN got :
  LET s == got[kind] IN s.start >= 0 /\ (ask.n > 0 => s.start + 8 * ask.n <= s.size)

\* Every slot is on a multiple of 16 bytes, which the double-word CAS needs, and
\* but for the links of the inline variant the buckets begin on a cache line.
SlotsAligned == \A kind \in DOMAIN got :
  LET first == got[kind].addr + got[kind].start IN
  /\ \A i \in Slots(kind) : (first + i) % 2 = 0
  /\ kind # "inlineLink" => first % ask.line = 0

\* The collector sees a pointer in exactly the words in which slots have one:
\* no entry is freed while a slot has it, and no key is taken for a pointer.
PointersTracked == \A kind \in DOMAIN got :
  \A i \in 0..7 : i \in Pointers(kind) <=> (got[kind].start + i) % 8 \in got[kind].ptrs
=============================================================================
