---------------------------- MODULE RangeProofs ----------------------------
(***************************************************************************)
(* Theorems about RangeScan: what Range yields while the map is used and   *)
(* resized.  The invariant WalkInv is inductive relative to the invariants *)
(* of AllocatorMap, which hold in RangeScan because an iteration writes no *)
(* word of the map.                                                        *)
(***************************************************************************)
EXTENDS ContentProofs, RangeScan, SequenceTheorems

-----------------------------------------------------------------------------
(* The inductive invariant of an iteration.                                *)

\* The keys of which a bin of the sequence is the bin, each of one of them only
Covers(bins, k) == \E j \in 1..Len(bins) : BinOf(bins[j], k)
Apart(bins) == \A i, j \in 1..Len(bins), k \in Key : BinOf(bins[i], k) /\ BinOf(bins[j], k) => i = j

Given(entries, k) == \E n \in 1..Len(entries) : entries[n].key = k
Once(entries) == \A i, j \in 1..Len(entries) : entries[i].key = entries[j].key => i = j

RangePC == {"idle", "load", "shards", "read", "done", "stopped"}
RangeRec == [pc : RangePC, todo : Seq(BinId), h : Header, slots : SUBSET SlotIdx, lm : LinkMeta,
             linked : BOOLEAN, buf : Seq(Entry)]
RangeTypeOK ==
  /\ rng \in RangeRec
  /\ yielded \in Seq(Entry)
  /\ stayed \in SUBSET Key
  /\ held \in [Key -> SUBSET (Value \cup {Absent})]

\* The bins before those still to be scanned are done
Reached(bin) == bin[1] > 0 => header[OldOf(bin)].bs = BinDoneTransfer
TodoInv ==
  /\ Iterating <=> rng.todo # <<>>
  /\ \A j \in 1..Len(rng.todo) : Reached(rng.todo[j])
  /\ Apart(rng.todo)
  /\ rng.pc = "shards" => header[ScannedBin].bs = BinDoneTransfer
  /\ rng.pc = "load" => rng.buf = <<>> /\ ~rng.linked

\* What was yielded is not scanned again; what stayed was yielded or is ahead
YieldInv ==
  /\ Once(yielded)
  /\ \A n \in 1..Len(yielded) : /\ ~Covers(rng.todo, yielded[n].key)
                                /\ yielded[n].val \in held[yielded[n].key]
  /\ rng.pc = "idle" => yielded = <<>>
  /\ rng.pc # "stopped" => \A k \in stayed : Covers(rng.todo, k) \/ Given(yielded, k)
StayInv ==
  Iterating => /\ \A k \in stayed : map[k] # Absent
               /\ \A k \in Key : map[k] \in held[k]

\* The bin that is read: the way to its slots, and, while its header is the same, what
\* was read of it and what is left
WayInv ==
  /\ rng.h.bs = BinNoTransfer /\ Before(rng.h, header[ScannedBin])
  /\ \A i \in rng.slots : rng.h.ss[i] = SlotValid
  /\ Backed(linkMeta[ScannedBin], rng.h)
  /\ rng.linked => Backed(rng.lm, rng.h) /\ Keeps(rng.lm, linkMeta[ScannedBin])
BufInv ==
  /\ Once(rng.buf)
  /\ \A n \in 1..Len(rng.buf) :
       /\ BinOf(ScannedBin, rng.buf[n].key)
       /\ rng.buf[n].val \in held[rng.buf[n].key]
       /\ \A i \in rng.slots : ~Has(ScannedBin, i, rng.buf[n].key)
  /\ \A k \in stayed : BinOf(ScannedBin, k) =>
       Given(rng.buf, k) \/ \E i \in rng.slots : Has(ScannedBin, i, k)
ReadInv == rng.pc = "read" => WayInv /\ (Unchanged => BufInv)

WalkInv == RangeTypeOK /\ TodoInv /\ YieldInv /\ StayInv /\ ReadInv

-----------------------------------------------------------------------------
(* Sequences of bins and of entries.                                       *)

\* The bins that are left when the first is taken.
LEMMA TailBins ==
  ASSUME NEW s \in Seq(BinId), s # <<>>, Apart(s)
  PROVE  /\ Head(s) \in BinId /\ Tail(s) \in Seq(BinId) /\ Apart(Tail(s))
         /\ \A k \in Key : Covers(s, k) <=> Covers(Tail(s), k) \/ BinOf(Head(s), k)
         /\ \A k \in Key : BinOf(Head(s), k) => ~Covers(Tail(s), k)
         /\ \E i \in 1..Len(s) : Head(s) = s[i]
         /\ \A j \in 1..Len(Tail(s)) : \E i \in 1..Len(s) : Tail(s)[j] = s[i]
<1>1. PICK n \in Nat : n = Len(s) /\ n >= 1
  BY EmptySeq, LenProperties
<1>2. /\ Head(s) \in BinId /\ Tail(s) \in Seq(BinId) /\ Len(Tail(s)) = n - 1
      /\ \A j \in 1..(n - 1) : Tail(s)[j] = s[j + 1]
  BY <1>1, HeadTailProperties
<1>3. Head(s) = s[1]
  OBVIOUS
<1>4. 1 \in 1..n /\ \A j \in 1..(n - 1) : j + 1 \in 1..n
  BY <1>1
<1>5. \A i \in 1..n : i = 1 \/ (i - 1 \in 1..(n - 1) /\ s[i] = Tail(s)[i - 1])
  BY <1>1, <1>2
<1>6. Apart(Tail(s))
  <2> SUFFICES ASSUME NEW i \in 1..(n - 1), NEW j \in 1..(n - 1), NEW k \in Key,
                      BinOf(Tail(s)[i], k), BinOf(Tail(s)[j], k)
               PROVE  i = j
    BY <1>2 DEF Apart
  <2>1. i + 1 = j + 1
    BY <1>1, <1>2, <1>4 DEF Apart
  <2> QED BY <2>1
<1>7. ASSUME NEW k \in Key PROVE Covers(s, k) <=> Covers(Tail(s), k) \/ BinOf(Head(s), k)
  BY <1>1, <1>2, <1>3, <1>4, <1>5 DEF Covers
<1>8. ASSUME NEW k \in Key, BinOf(Head(s), k), Covers(Tail(s), k) PROVE FALSE
  <2>1. PICK j \in 1..(n - 1) : BinOf(s[j + 1], k)
    BY <1>2, <1>8 DEF Covers
  <2>2. 1 = j + 1
    BY <1>1, <1>3, <1>4, <1>8, <2>1 DEF Apart
  <2> QED BY <2>2
<1> QED
  BY <1>1, <1>2, <1>3, <1>4, <1>6, <1>7, <1>8

\* The elements of two sequences, one after the other.
LEMMA Joined ==
  ASSUME NEW S, NEW s \in Seq(S), NEW r \in Seq(S)
  PROVE  /\ s \o r \in Seq(S)
         /\ \A j \in 1..Len(s \o r) : \/ j \in 1..Len(s) /\ (s \o r)[j] = s[j]
                                      \/ /\ j - Len(s) \in 1..Len(r) /\ (s \o r)[j] = r[j - Len(s)]
                                         /\ ~(j \in 1..Len(s))
         /\ \A i \in 1..Len(s) : i \in 1..Len(s \o r) /\ (s \o r)[i] = s[i]
         /\ \A i \in 1..Len(r) : i + Len(s) \in 1..Len(s \o r) /\ (s \o r)[i + Len(s)] = r[i]
<1>1. PICK m, n \in Nat : m = Len(s) /\ n = Len(r)
  BY LenProperties
<1>2. /\ s \o r \in Seq(S) /\ Len(s \o r) = m + n
      /\ \A i \in 1..(m + n) : (s \o r)[i] = IF i <= m THEN s[i] ELSE r[i - m]
  BY <1>1, ConcatProperties
<1>3. ASSUME NEW j \in 1..(m + n)
      PROVE  \/ j \in 1..m /\ (s \o r)[j] = s[j]
             \/ j - m \in 1..n /\ (s \o r)[j] = r[j - m] /\ ~(j \in 1..m)
  BY <1>2
<1>4. \A i \in 1..m : i \in 1..(m + n) /\ (s \o r)[i] = s[i]
  BY <1>2
<1>5. ASSUME NEW i \in 1..n PROVE i + m \in 1..(m + n) /\ (s \o r)[i + m] = r[i]
  <2>1. i + m \in 1..(m + n) /\ ~(i + m <= m) /\ (i + m) - m = i
    OBVIOUS
  <2>2. (s \o r)[i + m] = r[(i + m) - m]
    BY <1>2, <2>1
  <2> QED BY <2>1, <2>2
<1> QED
  BY <1>1, <1>2, <1>3, <1>4, <1>5

\* Two sequences of bins of different keys.
LEMMA JoinBins ==
  ASSUME NEW s \in Seq(BinId), NEW r \in Seq(BinId), Apart(s), Apart(r),
         \A k \in Key : ~(Covers(s, k) /\ Covers(r, k))
  PROVE  /\ s \o r \in Seq(BinId) /\ Apart(s \o r)
         /\ \A k \in Key : Covers(s \o r, k) <=> Covers(s, k) \/ Covers(r, k)
         /\ s # <<>> => s \o r # <<>>
<1>1. s \o r \in Seq(BinId)
  BY Joined
<1>2. ASSUME NEW k \in Key PROVE Covers(s \o r, k) <=> Covers(s, k) \/ Covers(r, k)
  <2>1. Covers(s \o r, k) => Covers(s, k) \/ Covers(r, k)
    BY Joined DEF Covers
  <2>2. Covers(s, k) => Covers(s \o r, k)
    BY Joined DEF Covers
  <2>3. ASSUME Covers(r, k) PROVE Covers(s \o r, k)
    <3>1. PICK i \in 1..Len(r) : BinOf(r[i], k)
      BY <2>3 DEF Covers
    <3>2. i + Len(s) \in 1..Len(s \o r) /\ (s \o r)[i + Len(s)] = r[i]
      BY Joined
    <3> QED BY <3>1, <3>2 DEF Covers
  <2> QED BY <2>1, <2>2, <2>3
<1>3. Apart(s \o r)
  <2> SUFFICES ASSUME NEW i \in 1..Len(s \o r), NEW j \in 1..Len(s \o r), NEW k \in Key,
                      BinOf((s \o r)[i], k), BinOf((s \o r)[j], k)
               PROVE  i = j
    BY DEF Apart
  <2>1. \/ i \in 1..Len(s) /\ (s \o r)[i] = s[i]
        \/ i - Len(s) \in 1..Len(r) /\ (s \o r)[i] = r[i - Len(s)]
    BY Joined
  <2>2. \/ j \in 1..Len(s) /\ (s \o r)[j] = s[j]
        \/ j - Len(s) \in 1..Len(r) /\ (s \o r)[j] = r[j - Len(s)]
    BY Joined
  <2>3. ~(Covers(s, k) /\ Covers(r, k))
    OBVIOUS
  <2>4. CASE i \in 1..Len(s) /\ (s \o r)[i] = s[i]
    <3>1. Covers(s, k)
      BY <2>4 DEF Covers
    <3>2. j \in 1..Len(s) /\ (s \o r)[j] = s[j]
      BY <2>2, <2>3, <3>1 DEF Covers
    <3> QED BY <2>4, <3>2 DEF Apart
  <2>5. CASE i - Len(s) \in 1..Len(r) /\ (s \o r)[i] = r[i - Len(s)]
    <3>1. Covers(r, k)
      BY <2>5 DEF Covers
    <3>2. j - Len(s) \in 1..Len(r) /\ (s \o r)[j] = r[j - Len(s)]
      BY <2>2, <2>3, <3>1 DEF Covers
    <3>3. i - Len(s) = j - Len(s)
      BY <2>5, <3>2 DEF Apart
    <3>4. Len(s) \in Nat /\ Len(s \o r) \in Nat
      BY <1>1, LenProperties
    <3> QED BY <3>3, <3>4
  <2> QED BY <2>1, <2>4, <2>5
<1>4. ASSUME s # <<>> PROVE s \o r # <<>>
  BY <1>4, ConcatEqualIffEmpty
<1> QED
  BY <1>1, <1>2, <1>3, <1>4

\* What was yielded before, and entries of other keys.
LEMMA JoinEntries ==
  ASSUME NEW s \in Seq(Entry), NEW r \in Seq(Entry), Once(s), Once(r),
         \A i \in 1..Len(s), j \in 1..Len(r) : s[i].key # r[j].key
  PROVE  /\ s \o r \in Seq(Entry) /\ Once(s \o r)
         /\ \A n \in 1..Len(s \o r) : \/ \E i \in 1..Len(s) : (s \o r)[n] = s[i]
                                      \/ \E i \in 1..Len(r) : (s \o r)[n] = r[i]
         /\ \A k \in Key : Given(s \o r, k) <=> Given(s, k) \/ Given(r, k)
<1>1. s \o r \in Seq(Entry)
  BY Joined
<1>2. \A n \in 1..Len(s \o r) : \/ \E i \in 1..Len(s) : (s \o r)[n] = s[i]
                                \/ \E i \in 1..Len(r) : (s \o r)[n] = r[i]
  BY Joined
<1>3. \A k \in Key : Given(s \o r, k) <=> Given(s, k) \/ Given(r, k)
  BY Joined DEF Given
<1>4. Once(s \o r)
  <2> SUFFICES ASSUME NEW i \in 1..Len(s \o r), NEW j \in 1..Len(s \o r),
                      (s \o r)[i].key = (s \o r)[j].key
               PROVE  i = j
    BY DEF Once
  <2>1. \/ i \in 1..Len(s) /\ (s \o r)[i] = s[i]
        \/ i - Len(s) \in 1..Len(r) /\ (s \o r)[i] = r[i - Len(s)]
    BY Joined
  <2>2. \/ j \in 1..Len(s) /\ (s \o r)[j] = s[j]
        \/ j - Len(s) \in 1..Len(r) /\ (s \o r)[j] = r[j - Len(s)]
    BY Joined
  <2>3. \/ i \in 1..Len(s) /\ j \in 1..Len(s) /\ s[i].key = s[j].key
        \/ i - Len(s) \in 1..Len(r) /\ j - Len(s) \in 1..Len(r) /\ r[i - Len(s)].key = r[j - Len(s)].key
    BY <2>1, <2>2
  <2>4. i = j \/ i - Len(s) = j - Len(s)
    BY <2>3 DEF Once
  <2>5. Len(s) \in Nat /\ Len(s \o r) \in Nat
    BY <1>1, LenProperties
  <2> QED BY <2>4, <2>5
<1> QED
  BY <1>1, <1>2, <1>3, <1>4

\* The entries that are taken before the callback stops the iteration.
LEMMA FirstEntries ==
  ASSUME NEW r \in Seq(Entry), Once(r), NEW n \in 1..Len(r)
  PROVE  /\ SubSeq(r, 1, n) \in Seq(Entry) /\ Once(SubSeq(r, 1, n))
         /\ \A j \in 1..Len(SubSeq(r, 1, n)) : \E i \in 1..Len(r) : SubSeq(r, 1, n)[j] = r[i]
<1>1. PICK m \in Nat : m = Len(r)
  BY LenProperties
<1>2. n \in Int /\ 1 <= n /\ n <= m /\ 1..n \subseteq 1..m
  BY <1>1
<1>3. \A i \in 1..n : r[i] \in Entry
  BY <1>1, <1>2, ElementOfSeq
<1>4. /\ SubSeq(r, 1, n) \in Seq(Entry) /\ Len(SubSeq(r, 1, n)) = n - 1 + 1
      /\ \A i \in 1..(n - 1 + 1) : SubSeq(r, 1, n)[i] = r[1 + i - 1]
  <2>1. 1 \in Int /\ n \in Int
    BY <1>2
  <2> QED BY <1>2, <1>3, <2>1, SubSeqProperties
<1>5. Len(SubSeq(r, 1, n)) = n /\ \A i \in 1..n : SubSeq(r, 1, n)[i] = r[i]
  BY <1>2, <1>4
<1> QED
  BY <1>1, <1>2, <1>4, <1>5 DEF Once

\* One more entry, of another key.
LEMMA AppendEntry ==
  ASSUME NEW s \in Seq(Entry), NEW e \in Entry, Once(s), \A i \in 1..Len(s) : s[i].key # e.key
  PROVE  /\ Append(s, e) \in Seq(Entry) /\ Once(Append(s, e))
         /\ \A n \in 1..Len(Append(s, e)) : \/ \E i \in 1..Len(s) : Append(s, e)[n] = s[i]
                                            \/ Append(s, e)[n] = e
         /\ \A k \in Key : Given(s, k) => Given(Append(s, e), k)
         /\ Given(Append(s, e), e.key)
<1>1. PICK m \in Nat : m = Len(s)
  BY LenProperties
<1>2. /\ Append(s, e) \in Seq(Entry) /\ Len(Append(s, e)) = m + 1
      /\ \A i \in 1..m : Append(s, e)[i] = s[i]
      /\ Append(s, e)[m + 1] = e
  BY <1>1, AppendProperties
<1>3. \A i \in 1..(m + 1) : i \in 1..m \/ i = m + 1
  BY <1>1
<1>4. \A i \in 1..m : i \in 1..(m + 1)
  BY <1>1
<1>5. m + 1 \in 1..(m + 1)
  BY <1>1
<1>6. Once(Append(s, e))
  BY <1>1, <1>2, <1>3 DEF Once
<1> QED
  BY <1>1, <1>2, <1>3, <1>4, <1>5, <1>6 DEF Given

\* The types of what is in a sequence of entries.
LEMMA EntriesType ==
  ASSUME NEW s \in Seq(Entry)
  PROVE  \A n \in 1..Len(s) : s[n] \in Entry /\ s[n].key \in Key /\ s[n].val \in Value
<1>1. ASSUME NEW n \in 1..Len(s) PROVE s[n] \in Entry
  BY ElementOfSeq
<1> QED
  BY <1>1 DEF Entry

\* The bins of an index: every key has one.
LEMMA IndexBins ==
  ASSUME NEW g \in Gen
  PROVE  /\ binsOf(g) \in Seq(BinId) /\ binsOf(g) # <<>> /\ Apart(binsOf(g))
         /\ \A k \in Key : Covers(binsOf(g), k)
         /\ \A j \in 1..Len(binsOf(g)) : binsOf(g)[j][1] = g /\ binsOf(g)[j] \in BinId
<1>1. PICK n \in Nat \ {0} : n = NumBins[g]
  BY SizeAssumption
<1>2. \A j \in 1..n : <<g, j - 1>> \in BinId
  <2>1. \A j \in 1..n : j - 1 \in 0..(n - 1)
    OBVIOUS
  <2> QED BY <1>1, <2>1 DEF BinId
<1>3. binsOf(g) = [j \in 1..n |-> <<g, j - 1>>]
  BY <1>1 DEF binsOf
<1>4. binsOf(g) \in Seq(BinId) /\ Len(binsOf(g)) = n
  BY <1>2, <1>3
<1>5. binsOf(g) # <<>>
  BY <1>4, EmptySeq
<1>6. ASSUME NEW i \in 1..n, NEW j \in 1..n, NEW k \in Key, BinOf(<<g, i - 1>>, k), BinOf(<<g, j - 1>>, k)
      PROVE  i = j
  <2>1. getBin(g, Hash[k]) = <<g, i - 1>> /\ getBin(g, Hash[k]) = <<g, j - 1>>
    BY <1>6 DEF BinOf
  <2>2. i - 1 = j - 1
    BY <2>1
  <2> QED BY <2>2
<1>7. ASSUME NEW k \in Key PROVE \E j \in 1..n : BinOf(<<g, j - 1>>, k)
  <2>1. Hash[k] \in Nat
    BY SizeAssumption
  <2>2. PICK b : b = Hash[k] % n /\ b \in 0..(n - 1)
    BY <2>1
  <2>3. b + 1 \in 1..n /\ (b + 1) - 1 = b
    BY <2>2
  <2>4. BinOf(<<g, (b + 1) - 1>>, k)
    BY <1>1, <2>2, <2>3 DEF BinOf, getBin
  <2> QED BY <2>3, <2>4
<1>8. \A j \in 1..n : binsOf(g)[j] = <<g, j - 1>>
  BY <1>3
<1>9. PICK s : s = binsOf(g)
  OBVIOUS
<1>10. Apart(s) /\ \A k \in Key : Covers(s, k)
  <2>1. Len(s) = n /\ \A j \in 1..n : s[j] = <<g, j - 1>>
    BY <1>4, <1>8, <1>9
  <2>2. ASSUME NEW i \in 1..n, NEW j \in 1..n, NEW k \in Key, BinOf(s[i], k), BinOf(s[j], k) PROVE i = j
    <3>1. BinOf(<<g, i - 1>>, k) /\ BinOf(<<g, j - 1>>, k)
      BY <2>1, <2>2
    <3> QED BY <1>6, <3>1
  <2>3. \A k \in Key : \E j \in 1..n : BinOf(s[j], k)
    BY <1>7, <2>1
  <2> QED BY <2>1, <2>2, <2>3 DEF Apart, Covers
<1>11. \A j \in 1..Len(s) : s[j][1] = g /\ s[j] \in BinId
  BY <1>2, <1>4, <1>8, <1>9
<1> QED
  BY <1>4, <1>5, <1>9, <1>10, <1>11

\* The bins into which a bin was split have its keys, each of one of them.
LEMMA ShardBins ==
  ASSUME NEW bin \in BinId, bin[1] \in 0..(MaxGen - 1), NEW g, g = bin[1] + 1
  PROVE  /\ shards(bin, g) \in Seq(BinId) /\ shards(bin, g) # <<>> /\ Apart(shards(bin, g))
         /\ \A k \in Key : Covers(shards(bin, g), k) <=> BinOf(bin, k)
         /\ \A j \in 1..Len(shards(bin, g)) : /\ shards(bin, g)[j] \in BinId /\ shards(bin, g)[j][1] = g
                                              /\ OldOf(shards(bin, g)[j]) = bin
<1>1. /\ bin[1] \in Gen /\ g \in Gen /\ g > 0 /\ g - 1 = bin[1]
      /\ bin = <<bin[1], bin[2]>>
  BY BinIdGen, SizeAssumption DEF Gen
<1>2. PICK N, M \in Nat \ {0} : N = NumBins[bin[1]] /\ M = NumBins[g] /\ M % N = 0
  BY <1>1, SizeAssumption, GrowthAssumption
<1>3. bin[2] \in Nat /\ bin[2] < N
  BY <1>2, BinIdGen
<1>4. PICK n \in Nat : n = M \div N /\ M = N * n
  <2>0. M \in Nat
    OBVIOUS
  <2>1. PICK q \in Nat, r \in Nat : q = M \div N /\ r = M % N /\ M = N * q + r /\ N * q <= M
    BY <2>0, DivMod
  <2>2. M = N * q
    <3>1. PICK p \in Int : p = N * q
      OBVIOUS
    <3>2. M = p + r /\ r = 0
      BY <1>2, <2>1, <3>1
    <3> QED BY <3>1, <3>2
  <2> QED BY <2>1, <2>2
<1>5. n > 0
  <2>1. n = 0 => M = 0
    BY <1>4
  <2> QED BY <2>1
<1>6. ASSUME NEW j \in 1..n
      PROVE  /\ <<g, (j - 1) * N + bin[2]>> \in BinId
             /\ ((j - 1) * N + bin[2]) % N = bin[2] /\ ((j - 1) * N + bin[2]) \div N = j - 1
  <2>1. PICK q \in Nat : q = j - 1 /\ q + 1 <= n
    OBVIOUS
  <2>2. N * (q + 1) <= N * n /\ N * (q + 1) = N * q + N
    BY <2>1
  <2>3. PICK b \in Nat : b = q * N + bin[2] /\ b < M /\ N * q <= b /\ b < N * q + N /\ b = N * q + bin[2]
    BY <1>3, <1>4, <2>2
  <2>4. b \div N = q
    BY <2>3, DivUnique
  <2>5. b % N = bin[2]
    <3>1. PICK d \in Nat, r \in Nat : d = b \div N /\ r = b % N /\ b = N * d + r /\ N * d <= b
      BY DivMod
    <3>2. b = N * q + r
      BY <2>4, <3>1
    <3>3. PICK p \in Nat : p = N * q
      OBVIOUS
    <3>4. b = p + r /\ b = p + bin[2]
      BY <2>3, <3>2, <3>3
    <3> QED BY <1>3, <3>1, <3>4
  <2>6. <<g, b>> \in BinId
    BY <1>1, <1>2, <2>3 DEF BinId
  <2> QED BY <2>1, <2>3, <2>4, <2>5, <2>6
<1>7. shards(bin, g) = [j \in 1..n |-> <<g, (j - 1) * N + bin[2]>>]
  BY <1>2, <1>4 DEF shards
<1>8. /\ shards(bin, g) \in Seq(BinId) /\ Len(shards(bin, g)) = n
      /\ \A j \in 1..n : shards(bin, g)[j] = <<g, (j - 1) * N + bin[2]>>
  <2>1. \A j \in 1..n : shards(bin, g)[j] = <<g, (j - 1) * N + bin[2]>>
    BY <1>7
  <2>2. PICK f : f = shards(bin, g)
    OBVIOUS
  <2>3. f \in [1..n -> BinId]
    BY <1>6, <1>7, <2>2
  <2>4. f \in Seq(BinId) /\ Len(f) = n
    BY <2>3
  <2> QED BY <2>1, <2>2, <2>4
<1>9. shards(bin, g) # <<>>
  BY <1>5, <1>8, EmptySeq
<1>10. ASSUME NEW j \in 1..n PROVE OldOf(shards(bin, g)[j]) = bin
  <2>1. PICK b : b = (j - 1) * N + bin[2] /\ shards(bin, g)[j] = <<g, b>> /\ b % N = bin[2]
    BY <1>6, <1>8
  <2>2. OldOf(<<g, b>>) = <<g - 1, b % NumBins[g - 1]>>
    BY DEF OldOf
  <2> QED BY <1>1, <1>2, <2>1, <2>2
<1>11. ASSUME NEW i \in 1..n, NEW j \in 1..n, NEW k \in Key,
              BinOf(shards(bin, g)[i], k), BinOf(shards(bin, g)[j], k)
       PROVE  i = j
  <2>1. PICK a, b : a = (i - 1) * N + bin[2] /\ b = (j - 1) * N + bin[2]
    OBVIOUS
  <2>2. shards(bin, g)[i] = <<g, a>> /\ shards(bin, g)[j] = <<g, b>>
    BY <1>8, <2>1
  <2>3. getBin(g, Hash[k]) = <<g, a>> /\ getBin(g, Hash[k]) = <<g, b>>
    BY <1>11, <2>2 DEF BinOf
  <2>4. a = b
    BY <2>3
  <2>5. (i - 1) * N + bin[2] = (j - 1) * N + bin[2]
    BY <2>1, <2>4
  <2>6. i - 1 = j - 1
    BY <1>6, <2>5
  <2> QED BY <2>6
<1>12. ASSUME NEW k \in Key, NEW j \in 1..n, BinOf(shards(bin, g)[j], k) PROVE BinOf(bin, k)
  <2>1. PICK nb \in BinId : nb = shards(bin, g)[j] /\ nb[1] = g /\ OldOf(nb) = bin
    BY <1>6, <1>8, <1>10
  <2> QED BY <1>1, <1>12, <2>1, KeyBin
<1>13. ASSUME NEW k \in Key, BinOf(bin, k) PROVE \E j \in 1..n : BinOf(shards(bin, g)[j], k)
  <2>1. PICK h \in Nat : h = Hash[k] /\ h % N = bin[2]
    <3>1. getBin(bin[1], Hash[k]) = bin /\ Hash[k] \in Nat
      BY <1>13, SizeAssumption DEF BinOf
    <3>2. bin[2] = Hash[k] % NumBins[bin[1]]
      BY <3>1 DEF getBin
    <3> QED BY <1>2, <3>1, <3>2
  <2>2. PICK b \in Nat : b = h % M /\ b < M
    OBVIOUS
  <2>3. b % N = bin[2]
    BY <1>2, <2>1, <2>2, ModDown
  <2>4. PICK q \in Nat, r \in Nat : q = b \div N /\ r = b % N /\ b = N * q + r /\ N * q <= b
    BY DivMod
  <2>5. q < n
    <3> SUFFICES ASSUME n <= q PROVE FALSE
      BY <1>4, <2>4
    <3>1. N * n <= N * q
      OBVIOUS
    <3> QED BY <1>4, <2>2, <2>4, <3>1
  <2>6. q + 1 \in 1..n /\ (q + 1) - 1 = q
    BY <2>5
  <2>7. shards(bin, g)[q + 1] = <<g, b>>
    BY <1>8, <2>3, <2>4, <2>6
  <2>8. getBin(g, Hash[k]) = <<g, b>>
    BY <1>2, <2>1, <2>2 DEF getBin
  <2>9. BinOf(shards(bin, g)[q + 1], k)
    BY <2>7, <2>8 DEF BinOf
  <2> QED BY <2>6, <2>9
<1> QED
  BY <1>6, <1>8, <1>9, <1>10, <1>11, <1>12, <1>13 DEF Apart, Covers

-----------------------------------------------------------------------------
(* What the steps of the threads do to the bins.                           *)

\* A bin is not marked, in transfer or done.
LEMMA BinStates ==
  ASSUME IInv, RInv, NEW bin \in BinId
  PROVE  header[bin].bs \in {BinNoTransfer, BinInTransfer, BinDoneTransfer}
<1>1. ProgressInv(bin)
  BY DEF RInv, MoversInv
<1>2. CASE \E t \in Thread : Moves(t, bin[1], chunkOf(bin[2]))
  BY <1>1, <1>2 DEF ProgressInv, MoverState
<1>3. CASE \A t \in Thread : ~Moves(t, bin[1], chunkOf(bin[2]))
  BY <1>1, <1>3 DEF ProgressInv
<1> QED
  BY <1>2, <1>3

\* A bin that is marked is not being filled any more.
LEMMA MarkedFull ==
  ASSUME IInv, RInv, NEW bin \in BinId, header[bin].bs # BinNoTransfer
  PROVE  ~Filling(bin)
<1> SUFFICES ASSUME Filling(bin) PROVE FALSE
  OBVIOUS
<1>1. PICK b \in BinId : b = OldOf(bin) /\ b[1] = bin[1] - 1 /\ header[b].bs = BinInTransfer
  BY OldOfType DEF Filling
<1>2. bin[1] \in Nat /\ Started(bin[1])
  BY MarkedStarted
<1>3. bin[1] < active \/ (resizeCtx \in Gen /\ bin[1] = resizeCtx /\ active \in {resizeCtx, resizeCtx + 1})
  BY <1>2, MarkedStarted, BinIdGen DEF Started, RInv, RolesInv
<1>4. b[1] < active
  BY <1>1, <1>2, <1>3, ResizeWords
<1>5. header[b].bs = BinDoneTransfer
  BY <1>4, ActiveDone
<1> QED
  BY <1>1, <1>5 DEF BinInTransfer, BinDoneTransfer

\* Headers going forward, a bin that is done stays done.
LEMMA DoneKept ==
  ASSUME IInv, IInv', RInv, RInv', header' = header \/ Forward
  PROVE  DoneStays
<1> SUFFICES ASSUME NEW bin \in BinId, header[bin].bs = BinDoneTransfer
             PROVE  header'[bin].bs = BinDoneTransfer
  BY DEF DoneStays
<1>1. CASE header' = header
  BY <1>1
<1>2. CASE Forward
  <2>1. ~Filling(bin) /\ header[bin].bs # BinNoTransfer
    BY MarkedFull DEF BinNoTransfer, BinDoneTransfer
  <2>2. header'[bin].ver = header[bin].ver /\ Before(header[bin], header'[bin])
    BY <1>2, <2>1 DEF Forward
  <2>3. header[bin] \in Header /\ header'[bin] \in Header
    BY DEF IInv, BaseType, BaseMemory
  <2>4. header[bin].bs <= header'[bin].bs
    BY <2>2, <2>3 DEF Before, Header, BinState
  <2>5. header'[bin].bs \in {BinNoTransfer, BinInTransfer, BinDoneTransfer}
    <3>1. ProgressInv(bin)'
      BY DEF RInv, MoversInv
    <3>2. CASE \E t \in Thread : Moves(t, bin[1], chunkOf(bin[2]))'
      BY <3>1, <3>2 DEF ProgressInv, MoverState
    <3>3. CASE \A t \in Thread : ~Moves(t, bin[1], chunkOf(bin[2]))'
      BY <3>1, <3>3 DEF ProgressInv
    <3> QED BY <3>2, <3>3
  <2> QED
    BY <2>4, <2>5 DEF BinNoTransfer, BinInTransfer, BinDoneTransfer
<1> QED
  BY <1>1, <1>2

\* Links are never detached.
LEMMA StepLinks ==
  ASSUME IInv, IInv', RInv, LInv, LInv', NEW t \in Thread, Invoke(t) \/ Step(t)
  PROVE  LinksKept
<1>1. CASE linkMeta' = linkMeta
  BY <1>1 DEF LinksKept, Keeps
<1>2. CASE attachSingle(t) \/ attachPair(t)
  BY <1>2 DEF attachSingle, attachPair, LinksKept, Keeps, LinkMeta, IInv, BaseType, BaseMemory
<1>3. CASE MoveEntry(t)
  <2>1. CASE EntryAt(OldBin(t), Lowest(xfer[t].todo)) = Nil
    BY <1>1, <1>3, <2>1 DEF MoveEntry, EntryAt, memory
  <2>2. CASE EntryAt(OldBin(t), Lowest(xfer[t].todo)) # Nil
    <3>1. PICK b, e : b = OldBin(t) /\ e = EntryAt(b, Lowest(xfer[t].todo)) /\ e # Nil
      BY <2>2
    <3>2. b \in BinId
      BY <1>3, <3>1, MoverBin DEF MoveEntry, MovePC, TransferPC
    <3> QED BY <1>3, <3>1, <3>2, EntryMoved
  <2> QED BY <2>1, <2>2
<1>4. CASE Invoke(t)
  BY <1>1, <1>4 DEF Invoke, memory
<1>5. CASE ScanStep(t)
  BY <1>1, <1>5 DEF ScanStep, LoadActive, LoadHeader, Follow, MatchKeys, Probe, LoadLinks, CheckStale, CheckAnswer,
     CheckTarget, memory
<1>6. CASE SlotStep(t)
  BY <1>1, <1>6 DEF SlotStep, DWCASHit, DWCASMiss, LoopHeader, LoopKey, LoopVal, LoopCheck, LoopTTAS, markSlotInvalid,
     memory
<1>7. CASE InsertStep(t)
  BY <1>1, <1>2, <1>7 DEF InsertStep, ChooseHeader, ChooseLinks, allocateLink, allocateLinkPair, Allocate, reserveSlot,
     FillKey, FillVal, finalizeSlot, LoadHeader2, UnreserveLoad, UnreserveClear, UnreserveCAS, memory
<1>8. CASE ResizeStep(t)
  BY <1>1, <1>3, <1>8 DEF ResizeStep, TriggerResize, PublishNext, SetResizeContext, HelpResize, HelpActive, ClaimChunk,
     TransferBin, TransferLinks, StoreSentinel, FinishBin, ChunkDone, FinishCapacity, FinishActive, FinishInactive,
     FinishCtx, memory
<1> QED
  BY <1>4, <1>5, <1>6, <1>7, <1>8 DEF Step

-----------------------------------------------------------------------------
(* The steps of an iteration.                                              *)

\* The iteration while it has nothing in hand.
LEMMA ScanFromType ==
  ASSUME NEW bins \in Seq(BinId)
  PROVE  /\ ScanFrom(bins) \in RangeRec
         /\ ScanFrom(bins).todo = bins /\ ScanFrom(bins).buf = <<>> /\ ~ScanFrom(bins).linked
         /\ ScanFrom(bins).pc = IF bins = <<>> THEN "done" ELSE "load"
<1>1. ZeroHeader \in Header
  <2>1. 0 \in 0..(VersionMod - 1)
    BY SizeAssumption
  <2> QED BY <2>1 DEF ZeroHeader, Header, BinNoTransfer, BinState, SlotInvalid, SlotState
<1>2. NoLinks \in LinkMeta
  BY DEF NoLinks, LinkMeta, NO_LINK
<1>3. <<>> \in Seq(Entry)
  BY EmptySeq
<1> QED
  BY <1>1, <1>2, <1>3 DEF ScanFrom, RangeIdle, RangeRec, RangePC

\* The iteration goes on with these bins, or is over because there are none.
LEMMA GoesOn ==
  ASSUME NEW bins \in Seq(BinId), rng' = ScanFrom(bins), Apart(bins),
         \A j \in 1..Len(bins) : Reached(bins[j])', RangeTypeOK',
         Once(yielded'),
         \A n \in 1..Len(yielded') : /\ ~Covers(bins, yielded'[n].key)
                                     /\ yielded'[n].val \in held'[yielded'[n].key],
         \A k \in stayed' : /\ Covers(bins, k) \/ Given(yielded', k)
                            /\ map'[k] # Absent,
         \A k \in Key : map'[k] \in held'[k]
  PROVE  WalkInv'
<1>1. /\ rng'.todo = bins /\ rng'.buf = <<>> /\ ~rng'.linked
      /\ rng'.pc = IF bins = <<>> THEN "done" ELSE "load"
  BY ScanFromType
<1>2. TodoInv'
  <2>1. Iterating' <=> rng'.todo # <<>>
    BY <1>1 DEF Iterating
  <2> QED BY <1>1, <2>1 DEF TodoInv
<1>3. YieldInv'
  BY <1>1 DEF YieldInv
<1>4. StayInv'
  BY DEF StayInv
<1>5. ReadInv'
  BY <1>1 DEF ReadInv
<1> QED
  BY <1>2, <1>3, <1>4, <1>5 DEF WalkInv

\* The bin that is scanned exists, and is current if it is not marked.
LEMMA AtBin ==
  ASSUME IInv, WalkInv, Iterating
  PROVE  /\ rng.todo \in Seq(BinId) /\ rng.todo # <<>> /\ Apart(rng.todo) /\ ScannedBin \in BinId
         /\ Reached(ScannedBin) /\ \A j \in 1..Len(Tail(rng.todo)) : Reached(Tail(rng.todo)[j])
         /\ Tail(rng.todo) \in Seq(BinId) /\ Apart(Tail(rng.todo))
         /\ \A k \in Key : /\ Covers(rng.todo, k) <=> Covers(Tail(rng.todo), k) \/ BinOf(ScannedBin, k)
                           /\ BinOf(ScannedBin, k) => ~Covers(Tail(rng.todo), k)
         /\ header[ScannedBin] \in Header /\ linkMeta[ScannedBin] \in LinkMeta
         /\ LinkMetaOK(linkMeta[ScannedBin], NumLinks[ScannedBin[1]])
         /\ Backed(linkMeta[ScannedBin], header[ScannedBin])
         /\ header[ScannedBin].bs = BinNoTransfer => Current(ScannedBin)
<1>1. rng.todo \in Seq(BinId) /\ rng.todo # <<>> /\ Apart(rng.todo)
  BY DEF WalkInv, RangeTypeOK, RangeRec, TodoInv
<1>2. /\ ScannedBin \in BinId /\ Tail(rng.todo) \in Seq(BinId) /\ Apart(Tail(rng.todo))
      /\ \A k \in Key : /\ Covers(rng.todo, k) <=> Covers(Tail(rng.todo), k) \/ BinOf(ScannedBin, k)
                        /\ BinOf(ScannedBin, k) => ~Covers(Tail(rng.todo), k)
      /\ \E i \in 1..Len(rng.todo) : ScannedBin = rng.todo[i]
      /\ \A j \in 1..Len(Tail(rng.todo)) : \E i \in 1..Len(rng.todo) : Tail(rng.todo)[j] = rng.todo[i]
  BY <1>1, TailBins DEF ScannedBin
<1>3. \A j \in 1..Len(rng.todo) : Reached(rng.todo[j])
  BY DEF WalkInv, TodoInv
<1>4. Reached(ScannedBin) /\ \A j \in 1..Len(Tail(rng.todo)) : Reached(Tail(rng.todo)[j])
  BY <1>2, <1>3
<1>5. BinInv(ScannedBin) /\ header[ScannedBin] \in Header /\ linkMeta[ScannedBin] \in LinkMeta
  BY <1>2 DEF IInv, SharedInv, BaseType, BaseMemory
<1>6. header[ScannedBin].bs = BinNoTransfer => Current(ScannedBin)
  BY <1>4 DEF Current, Reached, BinNoTransfer, BinDoneTransfer
<1> QED
  BY <1>1, <1>2, <1>4, <1>5, <1>6 DEF BinInv

\* Range begins: all keys are ahead.
LEMMA RangeCallW ==
  ASSUME IInv, RInv, WalkInv, RangeCall PROVE WalkInv'
<1>1. /\ rng.pc = "idle" /\ rng' = ScanFrom(binsOf(active)) /\ yielded' = yielded
      /\ stayed' = {k \in Key : map[k] # Absent} /\ held' = [k \in Key |-> {map[k]}]
      /\ header' = header /\ map' = map
  BY DEF RangeCall, vars
<1>2. PICK bins \in Seq(BinId) : /\ bins = binsOf(active) /\ Apart(bins) /\ \A k \in Key : Covers(bins, k)
                                 /\ \A j \in 1..Len(bins) : bins[j][1] = active /\ bins[j] \in BinId
  BY ResizeWords, IndexBins
<1>3. ASSUME NEW j \in 1..Len(bins) PROVE Reached(bins[j])'
  <2>1. PICK b \in BinId : b = bins[j] /\ b[1] = active
    BY <1>2
  <2>2. ASSUME b[1] > 0 PROVE header[OldOf(b)].bs = BinDoneTransfer
    <3>1. OldOf(b) \in BinId /\ OldOf(b)[1] < active
      BY <2>1, <2>2, OldOfType, ResizeWords
    <3> QED BY <3>1, ActiveDone
  <2> QED BY <1>1, <2>1, <2>2 DEF Reached
<1>4. map \in [Key -> Value \cup {Absent}]
  BY DEF IInv, BaseType, ApiType
<1>5. RangeTypeOK'
  BY <1>1, <1>2, <1>4, ScanFromType DEF WalkInv, RangeTypeOK
<1>6. yielded' = <<>>
  BY <1>1 DEF WalkInv, YieldInv
<1>7. Len(yielded') = 0
  BY <1>6
<1>8. Once(yielded') /\ \A n \in 1..Len(yielded') : FALSE
  BY <1>7 DEF Once
<1> QED
  BY <1>1, <1>2, <1>3, <1>5, <1>8, GoesOn

\* The iteration goes on with bins of the same keys, and of keys that nobody has kept.
LEMMA SameAhead ==
  ASSUME IInv, WalkInv, Iterating, UNCHANGED <<header, map, yielded, stayed, held>>,
         NEW bins \in Seq(BinId), rng' = ScanFrom(bins), Apart(bins), \A j \in 1..Len(bins) : Reached(bins[j]),
         \A k \in Key : Covers(bins, k) => Covers(rng.todo, k),
         \A k \in stayed : Covers(rng.todo, k) => Covers(bins, k)
  PROVE  WalkInv'
<1>1. YieldInv /\ StayInv /\ RangeTypeOK /\ rng.pc # "stopped"
  BY DEF WalkInv, Iterating
<1>2. RangeTypeOK'
  BY <1>1, ScanFromType DEF RangeTypeOK
<1>3. \A j \in 1..Len(bins) : Reached(bins[j])'
  BY DEF Reached
<1>4. \A n \in 1..Len(yielded) : yielded[n].key \in Key
  BY <1>1, EntriesType DEF RangeTypeOK
<1>5. /\ Once(yielded')
      /\ \A n \in 1..Len(yielded') : /\ ~Covers(bins, yielded'[n].key)
                                     /\ yielded'[n].val \in held'[yielded'[n].key]
  BY <1>1, <1>4 DEF YieldInv
<1>6. /\ \A k \in stayed' : /\ Covers(bins, k) \/ Given(yielded', k)
                            /\ map'[k] # Absent
      /\ \A k \in Key : map'[k] \in held'[k]
  BY <1>1 DEF YieldInv, StayInv
<1> QED
  BY <1>2, <1>3, <1>5, <1>6, GoesOn

\* The Valid slots of a header.
LEMMA ValidSlots ==
  ASSUME NEW h \in Header
  PROVE  validSlots(h) = {i \in SlotIdx : h.ss[i] = SlotValid}
<1>1. ASSUME NEW i \in SlotIdx, h.ss[i] = SlotValid PROVE i \in validSlots(h)
  BY <1>1, AllSlots DEF validSlots, validMask, From
<1>2. ASSUME NEW i \in validSlots(h) PROVE i \in SlotIdx /\ h.ss[i] = SlotValid
  BY <1>2, HeaderOps DEF validSlots, validMask
<1> QED
  BY <1>1, <1>2

\* A bin without Valid slots has no key, and the slots of the others are to be read.
LEMMA RangeHeaderW ==
  ASSUME IInv, RInv, CInv, WalkInv, RangeHeader PROVE WalkInv'
<1>1. PICK bin, h, valid : bin = ScannedBin /\ h = header[bin] /\ valid = validSlots(h)
  OBVIOUS
<1>2. /\ rng.pc = "load" /\ Iterating /\ UNCHANGED <<header, map, yielded, stayed, held>> /\ linkMeta' = linkMeta
  BY DEF RangeHeader, Iterating, vars
<1>3. /\ rng.todo \in Seq(BinId) /\ rng.todo # <<>> /\ bin \in BinId /\ h \in Header
      /\ h.bs = BinNoTransfer => Current(bin)
      /\ Backed(linkMeta[bin], h) /\ h.bs \in {BinNoTransfer, BinInTransfer, BinDoneTransfer}
  BY <1>1, <1>2, AtBin, BinStates
<1>4. \A i \in SlotIdx : h.ss[i] = SlotValid <=> i \in valid
  BY <1>1, <1>3, ValidSlots
<1>5. /\ RangeTypeOK /\ TodoInv /\ YieldInv /\ StayInv /\ rng \in RangeRec /\ rng.buf = <<>> /\ ~rng.linked
      /\ valid \subseteq SlotIdx
  BY <1>1, <1>2, <1>3, ValidSlots DEF WalkInv, RangeTypeOK, TodoInv
<1>6. ASSUME h.bs = BinNoTransfer, NEW k \in stayed, BinOf(bin, k) PROVE \E i \in valid : Has(bin, i, k)
  <2>1. k \in Key /\ map[k] # Absent /\ CurrentInv(bin) /\ Current(bin)
    BY <1>2, <1>3, <1>5, <1>6 DEF RangeTypeOK, StayInv, CInv
  <2>2. PICK i \in SlotIdx : Has(bin, i, k)
    BY <1>6, <2>1 DEF CurrentInv
  <2>3. i \in valid
    BY <1>1, <1>4, <2>2 DEF Has, Full
  <2> QED BY <2>2, <2>3
<1>7. CASE rng' = [rng EXCEPT !.pc = "shards"] /\ h.bs = BinDoneTransfer
  <2>1. rng' \in RangeRec /\ rng'.pc = "shards" /\ rng'.todo = rng.todo
    BY <1>5, <1>7 DEF RangeRec, RangePC
  <2>2. RangeTypeOK'
    BY <1>2, <1>5, <2>1 DEF RangeTypeOK
  <2>3. TodoInv'
    BY <1>1, <1>2, <1>5, <1>7, <2>1 DEF TodoInv, Iterating, ScannedBin, Reached
  <2>4. YieldInv'
    BY <1>2, <1>5, <2>1 DEF YieldInv
  <2>5. StayInv' /\ ReadInv'
    BY <1>2, <1>5, <2>1 DEF StayInv, ReadInv, Iterating
  <2> QED BY <2>2, <2>3, <2>4, <2>5 DEF WalkInv
<1>8. CASE rng' = ScanFrom(Tail(rng.todo)) /\ h.bs = BinNoTransfer /\ valid = {}
  <2>1. PICK bins \in Seq(BinId) :
          /\ bins = Tail(rng.todo) /\ Apart(bins) /\ \A j \in 1..Len(bins) : Reached(bins[j])
          /\ \A k \in Key : Covers(rng.todo, k) <=> Covers(bins, k) \/ BinOf(bin, k)
    BY <1>1, <1>2, AtBin
  <2>2. \A k \in stayed : k \in Key /\ ~BinOf(bin, k)
    BY <1>5, <1>6, <1>8 DEF RangeTypeOK
  <2> QED BY <1>2, <1>8, <2>1, <2>2, SameAhead
<1>9. CASE rng' = [rng EXCEPT !.pc = "read", !.h = h, !.slots = valid] /\ h.bs = BinNoTransfer
  <2>1. /\ rng' \in RangeRec /\ rng'.pc = "read" /\ rng'.todo = rng.todo /\ rng'.h = h /\ rng'.slots = valid
        /\ rng'.buf = <<>> /\ ~rng'.linked
    BY <1>3, <1>5, <1>9 DEF RangeRec, RangePC
  <2>2. RangeTypeOK'
    BY <1>2, <1>5, <2>1 DEF RangeTypeOK
  <2>3. TodoInv'
    BY <1>1, <1>2, <1>5, <2>1 DEF TodoInv, Iterating, ScannedBin, Reached
  <2>4. YieldInv'
    BY <1>2, <1>5, <2>1 DEF YieldInv
  <2>5. StayInv'
    BY <1>2, <1>5, <2>1 DEF StayInv, Iterating
  <2>6. ScannedBin' = bin
    BY <1>1, <2>1 DEF ScannedBin
  <2>7. WayInv'
    <3>1. Before(h, h)
      BY <1>3, BeforeOrder
    <3> QED BY <1>1, <1>2, <1>3, <1>4, <1>5, <1>9, <2>1, <2>6, <3>1 DEF WayInv
  <2>8. BufInv'
    <3>1. Len(rng'.buf) = 0
      BY <2>1
    <3>2. Once(rng'.buf) /\ \A n \in 1..Len(rng'.buf) : FALSE
      BY <3>1 DEF Once
    <3>3. ASSUME NEW k \in stayed, BinOf(bin, k) PROVE \E i \in valid : Has(bin, i, k)'
      <4>1. PICK i \in valid : Has(bin, i, k)
        BY <1>6, <1>9, <3>3
      <4>2. Has(bin, i, k)'
        BY <4>1 DEF Has, Full, EntryAt, SlotLoc, RangeHeader, vars
      <4> QED BY <4>2
    <3> QED BY <1>2, <2>1, <2>6, <3>2, <3>3 DEF BufInv
  <2> QED BY <2>2, <2>3, <2>4, <2>5, <2>7, <2>8 DEF WalkInv, ReadInv
<1>10. \/ h.bs = BinDoneTransfer /\ rng' = [rng EXCEPT !.pc = "shards"]
       \/ /\ h.bs \notin {BinInTransfer, BinDoneTransfer}
          /\ \/ valid = {} /\ rng' = ScanFrom(Tail(rng.todo))
             \/ rng' = [rng EXCEPT !.pc = "read", !.h = h, !.slots = valid]
  BY <1>1 DEF RangeHeader
<1> QED
  BY <1>3, <1>7, <1>8, <1>9, <1>10

\* A bin that is done is replaced by the bins it was split into, which have its keys.
LEMMA scanShardsW ==
  ASSUME IInv, WalkInv, scanShards PROVE WalkInv'
<1>1. /\ rng.pc = "shards" /\ Iterating /\ UNCHANGED <<header, map, yielded, stayed, held>>
      /\ rng' = ScanFrom(shards(ScannedBin, getNextIndex(ScannedBin[1])) \o Tail(rng.todo))
  BY DEF scanShards, Iterating, vars
<1>2. PICK bin \in BinId, rest \in Seq(BinId) :
        /\ bin = ScannedBin /\ rest = Tail(rng.todo) /\ Apart(rest) /\ \A j \in 1..Len(rest) : Reached(rest[j])
        /\ \A k \in Key : /\ Covers(rng.todo, k) <=> Covers(rest, k) \/ BinOf(bin, k)
                          /\ BinOf(bin, k) => ~Covers(rest, k)
  BY <1>1, AtBin
<1>3. header[bin].bs = BinDoneTransfer
  BY <1>1, <1>2 DEF WalkInv, TodoInv
<1>4. bin[1] \in 0..(MaxGen - 1) /\ getNextIndex(bin[1]) = bin[1] + 1
  <2>1. BinInv(bin)
    BY DEF IInv, SharedInv
  <2> QED BY <1>3, <2>1 DEF BinInv, Published, BinNoTransfer, BinDoneTransfer, getNextIndex
<1>5. PICK new \in Seq(BinId) :
        /\ new = shards(bin, bin[1] + 1) /\ Apart(new) /\ \A k \in Key : Covers(new, k) <=> BinOf(bin, k)
        /\ \A j \in 1..Len(new) : OldOf(new[j]) = bin
  BY <1>4, ShardBins
<1>6. \A j \in 1..Len(new) : Reached(new[j])
  BY <1>3, <1>5 DEF Reached
<1>7. PICK bins \in Seq(BinId) : bins = new \o rest /\ Apart(bins)
                                 /\ \A k \in Key : Covers(bins, k) <=> Covers(new, k) \/ Covers(rest, k)
  BY <1>2, <1>5, JoinBins
<1>8. ASSUME NEW j \in 1..Len(bins) PROVE Reached(bins[j])
  <2>1. (\E i \in 1..Len(new) : bins[j] = new[i]) \/ (\E i \in 1..Len(rest) : bins[j] = rest[i])
    BY <1>7, Joined
  <2> QED BY <1>2, <1>6, <2>1
<1>9. \A k \in Key : Covers(bins, k) <=> Covers(rng.todo, k)
  BY <1>2, <1>5, <1>7
<1>10. stayed \subseteq Key
  BY DEF WalkInv, RangeTypeOK
<1>11. rng' = ScanFrom(bins)
  BY <1>1, <1>2, <1>4, <1>5, <1>7
<1> QED
  BY <1>1, <1>7, <1>8, <1>9, <1>10, <1>11, SameAhead

\* The header has changed: the bin is scanned again from the beginning.
LEMMA RangeRetryW ==
  ASSUME IInv, WalkInv, RangeRetry PROVE WalkInv'
<1>1. /\ Iterating /\ UNCHANGED <<header, map, yielded, stayed, held>> /\ rng' = ScanFrom(rng.todo)
  BY DEF RangeRetry, Iterating, vars
<1>2. PICK bins \in Seq(BinId) : bins = rng.todo /\ Apart(bins) /\ \A j \in 1..Len(bins) : Reached(bins[j])
  BY <1>1, AtBin DEF WalkInv, TodoInv
<1> QED
  BY <1>1, <1>2, SameAhead

\* The LinkMeta word that is loaded leads to the slots of the header, as the bin has them.
LEMMA RangeLinksW ==
  ASSUME IInv, WalkInv, RangeLinks PROVE WalkInv'
<1>1. /\ rng.pc = "read" /\ Iterating /\ UNCHANGED <<memory, map, yielded, stayed, held>>
      /\ rng' = [rng EXCEPT !.lm = linkMeta[ScannedBin], !.linked = TRUE]
  BY DEF RangeLinks, Iterating, vars, memory
<1>2. /\ RangeTypeOK /\ TodoInv /\ YieldInv /\ StayInv /\ ReadInv /\ rng \in RangeRec
  BY DEF WalkInv, RangeTypeOK
<1>3. /\ linkMeta[ScannedBin] \in LinkMeta
  BY <1>1, AtBin
<1>4. /\ rng' \in RangeRec /\ rng'.pc = "read" /\ rng'.todo = rng.todo /\ rng'.h = rng.h
      /\ rng'.slots = rng.slots /\ rng'.buf = rng.buf /\ rng'.linked /\ rng'.lm = linkMeta[ScannedBin]
  BY <1>1, <1>2, <1>3 DEF RangeRec
<1>5. RangeTypeOK'
  BY <1>1, <1>2, <1>4 DEF RangeTypeOK
<1>6. TodoInv'
  BY <1>1, <1>2, <1>4 DEF TodoInv, Iterating, Reached, memory
<1>7. YieldInv'
  BY <1>1, <1>2, <1>4 DEF YieldInv
<1>8. StayInv'
  BY <1>1, <1>2, <1>4 DEF StayInv, Iterating
<1>9. ScannedBin' = ScannedBin
  BY <1>4 DEF ScannedBin
<1>10. WayInv'
  BY <1>1, <1>2, <1>4, <1>9 DEF WayInv, ReadInv, Keeps, memory
<1>11. ASSUME Unchanged' PROVE BufInv'
  <2>1. BufInv
    BY <1>1, <1>2, <1>4, <1>9, <1>11 DEF ReadInv, Unchanged, memory
  <2>2. \A i \in SlotIdx, k \in Key : Has(ScannedBin, i, k)' <=> Has(ScannedBin, i, k)
    BY <1>1, <1>9 DEF Has, Full, EntryAt, SlotLoc, memory
  <2>3. rng.slots \subseteq SlotIdx /\ stayed \subseteq Key
    BY <1>2 DEF RangeRec, RangeTypeOK
  <2>4. \A n \in 1..Len(rng.buf) : rng.buf[n].key \in Key
    BY <1>2, EntriesType DEF RangeRec
  <2> QED BY <1>1, <1>4, <1>9, <2>1, <2>2, <2>3, <2>4 DEF BufInv
<1> QED
  BY <1>4, <1>5, <1>6, <1>7, <1>8, <1>10, <1>11 DEF WalkInv, ReadInv

\* The slot that is read is the bin's, whichever LinkMeta word leads to it.
LEMMA ReadSlot ==
  ASSUME IInv, EntryType, WalkInv, RangeRead, NEW bin, bin = ScannedBin, NEW i, i = Lowest(rng.slots)
  PROVE  /\ i \in rng.slots /\ i \in SlotIdx /\ bin \in BinId
         /\ slotVal[LocVia(rng.lm, bin, i)] = EntryAt(bin, i) /\ EntryAt(bin, i) \in Entry \cup {Nil}
<1>1. /\ rng.pc = "read" /\ Iterating /\ rng.slots # {} /\ (i < PRIMARY_SLOTS \/ rng.linked)
  BY DEF RangeRead, Iterating
<1>2. rng \in RangeRec /\ WayInv
  <2>1. RangeTypeOK /\ ReadInv
    BY DEF WalkInv
  <2> QED BY <1>1, <2>1, Zenon DEF RangeTypeOK, ReadInv
<1>3. rng.slots \subseteq SlotIdx /\ rng.lm \in LinkMeta
  BY <1>2 DEF RangeRec
<1>4. i \in rng.slots /\ i \in SlotIdx
  <2>1. PICK S : S = rng.slots
    OBVIOUS
  <2>2. S \subseteq Nat /\ S # {}
    BY <1>1, <1>3, <2>1, SlotIdxNat
  <2>3. Lowest(S) \in S
    BY <2>2, LowestIn
  <2> QED BY <1>3, <2>1, <2>3
<1>5. /\ bin \in BinId /\ linkMeta[bin] \in LinkMeta
      /\ LinkMetaOK(linkMeta[bin], NumLinks[bin[1]])
  <2>1. Iterating
    BY <1>1
  <2> QED BY <2>1, AtBin
<1>6. rng.h.ss[i] # SlotInvalid /\ HasSlot(linkMeta[bin], i)
  BY <1>2, <1>4 DEF WayInv, Backed, SlotValid, SlotInvalid
<1>7. LocVia(rng.lm, bin, i) = SlotLoc(bin, i)
  <2>1. CASE i < PRIMARY_SLOTS
    BY <2>1 DEF SlotLoc, LocVia
  <2>2. CASE rng.linked
    <3>1. HasSlot(rng.lm, i) /\ Keeps(rng.lm, linkMeta[bin])
      BY <1>2, <1>4, <1>6, <2>2 DEF WayInv, Backed
    <3> QED BY <1>3, <1>4, <1>5, <3>1, SameLoc DEF SlotLoc
  <2> QED BY <1>1, <2>1, <2>2
<1>8. SlotLoc(bin, i) \in Loc
  BY <1>4, <1>5, <1>6, LocType DEF SlotLoc
<1>9. slotVal[SlotLoc(bin, i)] \in Entry \cup {Nil}
  BY <1>8 DEF EntryType
<1> QED
  BY <1>4, <1>5, <1>7, <1>9 DEF EntryAt

\* While the header is the same, the entry that is read is what the map has, and no other
\* slot has its key.
LEMMA ReadEntry ==
  ASSUME IInv, EntryType, RInv, CInv, WalkInv, RangeRead, NEW bin, bin = ScannedBin, NEW i, i = Lowest(rng.slots),
         Unchanged, NEW e, e = EntryAt(bin, i)
  PROVE  /\ e = Nil => \A k \in Key : ~Has(bin, i, k)
         /\ e # Nil => /\ Has(bin, i, e.key) /\ BinOf(bin, e.key) /\ e.val \in held[e.key] /\ e.key \in Key
                       /\ \A j \in SlotIdx : Has(bin, j, e.key) => j = i
                       /\ \A k \in Key : Has(bin, i, k) => k = e.key
<1>1. rng.pc = "read" /\ Iterating /\ WayInv /\ StayInv
  BY DEF RangeRead, Iterating, WalkInv, ReadInv
<1>2. i \in rng.slots /\ i \in SlotIdx /\ bin \in BinId /\ e \in Entry \cup {Nil}
  BY ReadSlot
<1>3. header[bin] = rng.h /\ header[bin].bs = BinNoTransfer /\ header[bin].ss[i] = SlotValid
  BY <1>1, <1>2 DEF Unchanged, WayInv
<1>4. Current(bin) /\ CurrentInv(bin) /\ PlaceInv(bin)
  BY <1>1, <1>2, <1>3, AtBin DEF CInv
<1>5. ASSUME e # Nil
      PROVE  /\ Has(bin, i, e.key) /\ BinOf(bin, e.key) /\ e.val \in held[e.key] /\ e.key \in Key
             /\ \A j \in SlotIdx : Has(bin, j, e.key) => j = i
  <2>1. Full(bin, i) /\ Has(bin, i, e.key)
    BY <1>3, <1>5 DEF Has, Full
  <2>2. BinOf(bin, e.key)
    BY <1>2, <1>4, <2>1 DEF PlaceInv
  <2>3. map[e.key] = e.val /\ e.key \in Key
    BY <1>2, <1>4, <2>1, FullSlot DEF CurrentInv
  <2>4. e.val \in held[e.key]
    BY <1>1, <2>3 DEF StayInv
  <2>5. ASSUME NEW j \in SlotIdx, Has(bin, j, e.key) PROVE j = i
    BY <1>2, <1>4, <2>1, <2>5 DEF CurrentInv, Has
  <2> QED BY <2>1, <2>2, <2>3, <2>4, <2>5
<1> QED
  BY <1>5 DEF Has, Full

\* A slot is read: its entry is one more that was read, and the keys of the others are left.
LEMMA RangeReadW ==
  ASSUME IInv, EntryType, RInv, CInv, WalkInv, RangeRead PROVE WalkInv'
<1>1. PICK bin, i, e : bin = ScannedBin /\ i = Lowest(rng.slots) /\ e = EntryAt(bin, i)
  OBVIOUS
<1>2. /\ i \in rng.slots /\ i \in SlotIdx /\ bin \in BinId /\ e \in Entry \cup {Nil}
      /\ slotVal[LocVia(rng.lm, bin, i)] = e
  BY <1>1, ReadSlot
<1>3. PICK buf : buf = IF e = Nil THEN rng.buf ELSE Append(rng.buf, e)
  OBVIOUS
<1>4. /\ rng.pc = "read" /\ Iterating /\ UNCHANGED <<memory, map, yielded, stayed, held>>
      /\ rng' = [rng EXCEPT !.slots = @ \ {i}, !.buf = buf]
  BY <1>1, <1>2, <1>3 DEF RangeRead, Iterating, vars, memory
<1>5. /\ RangeTypeOK /\ TodoInv /\ YieldInv /\ StayInv /\ WayInv /\ rng \in RangeRec /\ rng.buf \in Seq(Entry)
      /\ rng.slots \subseteq SlotIdx /\ stayed \subseteq Key
  BY <1>4 DEF WalkInv, RangeTypeOK, ReadInv, RangeRec
<1>6. buf \in Seq(Entry)
  BY <1>2, <1>3, <1>5, AppendProperties
<1>7. /\ rng' \in RangeRec /\ rng'.pc = "read" /\ rng'.todo = rng.todo /\ rng'.h = rng.h
      /\ rng'.slots = rng.slots \ {i} /\ rng'.buf = buf /\ rng'.linked = rng.linked /\ rng'.lm = rng.lm
  <2>1. rng.slots \ {i} \in SUBSET SlotIdx
    BY <1>5
  <2> QED BY <1>4, <1>5, <1>6, <2>1 DEF RangeRec
<1>8. RangeTypeOK'
  BY <1>4, <1>5, <1>7 DEF RangeTypeOK
<1>9. TodoInv'
  BY <1>4, <1>5, <1>7 DEF TodoInv, Iterating, Reached, memory
<1>10. YieldInv'
  BY <1>4, <1>5, <1>7 DEF YieldInv
<1>11. StayInv'
  BY <1>4, <1>5, <1>7 DEF StayInv, Iterating
<1>12. ScannedBin' = bin
  BY <1>1, <1>7 DEF ScannedBin
<1>13. WayInv'
  BY <1>1, <1>4, <1>5, <1>7, <1>12 DEF WayInv, memory
<1>14. ASSUME Unchanged' PROVE BufInv'
  <2>1. Unchanged /\ BufInv
    BY <1>1, <1>4, <1>7, <1>12, <1>14 DEF WalkInv, ReadInv, Unchanged, memory
  <2>2. /\ e = Nil => \A k \in Key : ~Has(bin, i, k)
        /\ e # Nil => /\ Has(bin, i, e.key) /\ BinOf(bin, e.key) /\ e.val \in held[e.key] /\ e.key \in Key
                      /\ \A j \in SlotIdx : Has(bin, j, e.key) => j = i
                      /\ \A k \in Key : Has(bin, i, k) => k = e.key
    BY <1>1, <2>1, ReadEntry
  <2>3. \A j \in SlotIdx, k \in Key : Has(bin, j, k)' <=> Has(bin, j, k)
    BY <1>4 DEF Has, Full, EntryAt, SlotLoc, memory
  <2>4. /\ Once(rng.buf)
        /\ \A n \in 1..Len(rng.buf) : /\ BinOf(bin, rng.buf[n].key) /\ rng.buf[n].val \in held[rng.buf[n].key]
                                      /\ \A j \in rng.slots : ~Has(bin, j, rng.buf[n].key)
        /\ \A k \in stayed : BinOf(bin, k) => Given(rng.buf, k) \/ \E j \in rng.slots : Has(bin, j, k)
    BY <1>1, <2>1 DEF BufInv
  <2>5. e # Nil => \A n \in 1..Len(rng.buf) : rng.buf[n].key # e.key
    BY <1>2, <2>2, <2>4
  <2>6. Once(buf)
    BY <1>2, <1>3, <1>5, <2>4, <2>5, AppendEntry
  <2>7. ASSUME NEW n \in 1..Len(buf)
        PROVE  (\E m \in 1..Len(rng.buf) : buf[n] = rng.buf[m]) \/ (e # Nil /\ buf[n] = e)
    BY <1>2, <1>3, <1>5, <2>4, <2>5, AppendEntry
  <2>8. ASSUME NEW n \in 1..Len(buf)
        PROVE  /\ BinOf(bin, buf[n].key) /\ buf[n].val \in held[buf[n].key] /\ buf[n].key \in Key
               /\ \A j \in rng.slots \ {i} : ~Has(bin, j, buf[n].key)
    BY <1>5, <1>6, <2>2, <2>4, <2>7, EntriesType
  <2>9. ASSUME NEW k \in stayed, BinOf(bin, k)
        PROVE  Given(buf, k) \/ \E j \in rng.slots \ {i} : Has(bin, j, k)
    <3>1. Given(rng.buf, k) => Given(buf, k)
      BY <1>2, <1>3, <1>5, <2>4, <2>5, AppendEntry
    <3>2. Has(bin, i, k) => Given(buf, k)
      <4> SUFFICES ASSUME Has(bin, i, k) PROVE Given(buf, k)
        OBVIOUS
      <4>1. e # Nil /\ k = e.key
        BY <1>5, <2>2
      <4> QED BY <1>2, <1>3, <1>5, <2>4, <2>5, <4>1, AppendEntry
    <3> QED BY <2>4, <2>9, <3>1, <3>2
  <2> QED BY <1>4, <1>5, <1>7, <1>12, <2>3, <2>6, <2>8, <2>9 DEF BufInv
<1> QED
  BY <1>7, <1>8, <1>9, <1>10, <1>11, <1>13, <1>14 DEF WalkInv, ReadInv

\* When the header is the same after the last slot, entries that were read can be handed to
\* the callback: none of their keys was, nor is ahead.
LEMMA YieldsMore ==
  ASSUME IInv, WalkInv, rng.pc = "read", Unchanged, NEW r \in Seq(Entry), Once(r),
         \A j \in 1..Len(r) : \E n \in 1..Len(rng.buf) : r[j] = rng.buf[n]
  PROVE  /\ yielded \o r \in Seq(Entry) /\ Once(yielded \o r)
         /\ \A n \in 1..Len(yielded \o r) : /\ ~Covers(Tail(rng.todo), (yielded \o r)[n].key)
                                            /\ (yielded \o r)[n].val \in held[(yielded \o r)[n].key]
         /\ \A k \in Key : Given(yielded \o r, k) <=> Given(yielded, k) \/ Given(r, k)
<1>1. RangeTypeOK /\ YieldInv /\ BufInv /\ yielded \in Seq(Entry) /\ Iterating
  BY DEF WalkInv, ReadInv, RangeTypeOK, Iterating
<1>2. PICK bin, rest :
        /\ bin = ScannedBin /\ rest = Tail(rng.todo)
        /\ \A k \in Key : /\ Covers(rng.todo, k) <=> Covers(rest, k) \/ BinOf(bin, k)
                          /\ BinOf(bin, k) => ~Covers(rest, k)
  BY <1>1, AtBin
<1>3. \A n \in 1..Len(yielded) : /\ yielded[n].key \in Key /\ ~Covers(rng.todo, yielded[n].key)
                                 /\ yielded[n].val \in held[yielded[n].key]
  BY <1>1, EntriesType DEF YieldInv
<1>4. ASSUME NEW j \in 1..Len(r)
      PROVE  r[j].key \in Key /\ BinOf(bin, r[j].key) /\ r[j].val \in held[r[j].key]
  <2>1. PICK n \in 1..Len(rng.buf) : r[j] = rng.buf[n]
    OBVIOUS
  <2>2. r[j].key \in Key
    BY EntriesType
  <2> QED BY <1>1, <1>2, <2>1, <2>2 DEF BufInv
<1>5. \A i \in 1..Len(yielded), j \in 1..Len(r) : yielded[i].key # r[j].key
  BY <1>2, <1>3, <1>4
<1>6. Once(yielded)
  BY <1>1 DEF YieldInv
<1>7. PICK y : /\ y = yielded \o r /\ y \in Seq(Entry) /\ Once(y)
               /\ \A n \in 1..Len(y) : \/ \E i \in 1..Len(yielded) : y[n] = yielded[i]
                                       \/ \E i \in 1..Len(r) : y[n] = r[i]
               /\ \A k \in Key : Given(y, k) <=> Given(yielded, k) \/ Given(r, k)
  BY <1>1, <1>5, <1>6, JoinEntries
<1>8. ASSUME NEW n \in 1..Len(y) PROVE ~Covers(rest, y[n].key) /\ y[n].val \in held[y[n].key]
  BY <1>2, <1>3, <1>4, <1>7
<1> QED
  BY <1>2, <1>7, <1>8

\* The callback takes all entries of a bin: its keys that stayed are among them.
LEMMA RangeYieldW ==
  ASSUME IInv, WalkInv, RangeYield PROVE WalkInv'
<1>1. /\ rng.pc = "read" /\ rng.slots = {} /\ Unchanged /\ Iterating
      /\ UNCHANGED <<header, map, stayed, held>> /\ yielded' = yielded \o rng.buf
      /\ rng' = ScanFrom(Tail(rng.todo))
  BY DEF RangeYield, Iterating, vars
<1>2. RangeTypeOK /\ YieldInv /\ StayInv /\ BufInv /\ rng.buf \in Seq(Entry) /\ stayed \subseteq Key
  BY <1>1 DEF WalkInv, ReadInv, RangeTypeOK, RangeRec
<1>3. PICK bin \in BinId, rest \in Seq(BinId) :
        /\ bin = ScannedBin /\ rest = Tail(rng.todo) /\ Apart(rest) /\ \A j \in 1..Len(rest) : Reached(rest[j])
        /\ \A k \in Key : Covers(rng.todo, k) <=> Covers(rest, k) \/ BinOf(bin, k)
  BY <1>1, AtBin
<1>4. Once(rng.buf)
  BY <1>2 DEF BufInv
<1>5. PICK y : /\ y = yielded \o rng.buf /\ y \in Seq(Entry) /\ Once(y)
               /\ \A n \in 1..Len(y) : ~Covers(rest, y[n].key) /\ y[n].val \in held[y[n].key]
               /\ \A k \in Key : Given(y, k) <=> Given(yielded, k) \/ Given(rng.buf, k)
  BY <1>1, <1>2, <1>3, <1>4, YieldsMore
<1>6. ASSUME NEW k \in stayed PROVE (Covers(rest, k) \/ Given(y, k)) /\ map[k] # Absent
  <2>1. Covers(rng.todo, k) \/ Given(yielded, k)
    BY <1>1, <1>2 DEF YieldInv
  <2>2. BinOf(bin, k) => Given(rng.buf, k)
    BY <1>1, <1>2, <1>3 DEF BufInv
  <2>3. map[k] # Absent
    BY <1>1, <1>2 DEF StayInv
  <2> QED BY <1>2, <1>3, <1>5, <2>1, <2>2, <2>3
<1>7. RangeTypeOK'
  <2>1. rng' \in RangeRec
    BY <1>1, <1>3, ScanFromType
  <2> QED BY <1>1, <1>2, <1>5, <2>1 DEF RangeTypeOK
<1>8. \A j \in 1..Len(rest) : Reached(rest[j])'
  BY <1>1, <1>3 DEF Reached
<1>9. \A k \in Key : map[k] \in held[k]
  BY <1>1, <1>2 DEF StayInv
<1> QED
  BY <1>1, <1>3, <1>5, <1>6, <1>7, <1>8, <1>9, GoesOn

\* The callback stops the iteration: nothing is scanned any more.
LEMMA RangeStopW ==
  ASSUME IInv, WalkInv, RangeStop PROVE WalkInv'
<1>1. /\ rng.pc = "read" /\ rng.slots = {} /\ Unchanged /\ UNCHANGED <<header, map, stayed, held>>
      /\ \E n \in 1..Len(rng.buf) : yielded' = yielded \o SubSeq(rng.buf, 1, n)
      /\ rng' = [RangeIdle EXCEPT !.pc = "stopped"]
  BY DEF RangeStop, vars
<1>2. RangeTypeOK /\ BufInv /\ rng.buf \in Seq(Entry)
  BY <1>1 DEF WalkInv, ReadInv, RangeTypeOK, RangeRec
<1>3. PICK n \in 1..Len(rng.buf) : yielded' = yielded \o SubSeq(rng.buf, 1, n)
  BY <1>1
<1>4. Once(rng.buf)
  BY <1>2 DEF BufInv
<1>5. PICK r \in Seq(Entry) : /\ r = SubSeq(rng.buf, 1, n) /\ Once(r)
                              /\ \A j \in 1..Len(r) : \E i \in 1..Len(rng.buf) : r[j] = rng.buf[i]
  BY <1>2, <1>4, FirstEntries
<1>6. PICK y : /\ y = yielded \o r /\ y \in Seq(Entry) /\ Once(y)
               /\ \A m \in 1..Len(y) : y[m].val \in held[y[m].key]
  BY <1>1, <1>5, YieldsMore
<1>7. yielded' = y
  BY <1>3, <1>5, <1>6
<1>8. ScanFrom(<<>>) \in RangeRec /\ ScanFrom(<<>>).todo = <<>>
  BY EmptySeq, ScanFromType
<1>9. /\ rng' \in RangeRec /\ rng'.pc = "stopped" /\ rng'.todo = <<>>
  BY <1>1, <1>8 DEF ScanFrom, RangeIdle, RangeRec, RangePC
<1>10. Len(rng'.todo) = 0
  BY <1>9
<1>11. RangeTypeOK'
  BY <1>1, <1>2, <1>6, <1>7, <1>9 DEF RangeTypeOK
<1>12. TodoInv'
  BY <1>9, <1>10 DEF TodoInv, Iterating, Apart
<1>13. YieldInv'
  <2>1. \A k : ~Covers(rng'.todo, k)
    BY <1>10 DEF Covers
  <2> QED BY <1>1, <1>6, <1>7, <1>9, <2>1 DEF YieldInv
<1>14. StayInv' /\ ReadInv'
  BY <1>9 DEF StayInv, ReadInv, Iterating
<1> QED
  BY <1>11, <1>12, <1>13, <1>14 DEF WalkInv

-----------------------------------------------------------------------------
(* The steps of the threads.                                               *)

\* Headers go forward, bins that are done stay so, no link is detached, and no slot gets a
\* key under a header that stays.
LEMMA MapMoves ==
  ASSUME IInv, EntryType, IInv', RInv, RInv', LInv, LInv', SInv, CInv, NoWrap, MapStep
  PROVE  /\ \A bin \in BinId : Before(header[bin], header'[bin])
         /\ DoneStays /\ LinksKept /\ FindsNoMore
<1>1. PICK t \in Thread : Invoke(t) \/ Step(t)
  BY DEF MapStep
<1>2. header' = header \/ Forward
  <2>1. CASE Invoke(t)
    BY <2>1 DEF Invoke, memory
  <2>2. CASE Step(t)
    BY <2>2, StepForward
  <2> QED BY <1>1, <2>1, <2>2
<1>3. ASSUME NEW bin \in BinId PROVE Before(header[bin], header'[bin])
  <2>1. CASE header' = header
    <3>1. header[bin] \in Header
      BY BinWords
    <3> QED BY <2>1, <3>1, BeforeOrder
  <2>2. CASE Forward
    BY <2>2 DEF Forward
  <2> QED BY <1>2, <2>1, <2>2
<1>4. DoneStays
  BY <1>2, DoneKept
<1>5. LinksKept
  BY <1>1, StepLinks
<1>6. [Next]_vars
  BY <1>1 DEF Next
<1>7. FindsNoMore
  BY <1>6, NextC
<1> QED
  BY <1>3, <1>4, <1>5, <1>7

\* The way to the slots that are still to be read stays.
LEMMA WayKept ==
  ASSUME IInv, IInv', WalkInv, rng.pc = "read", NEW bin \in BinId, bin = ScannedBin, rng' = rng,
         Before(header[bin], header'[bin]), LinksKept
  PROVE  WayInv'
<1>1. WayInv /\ rng \in RangeRec
  BY DEF WalkInv, RangeTypeOK, ReadInv
<1>2. rng.h \in Header /\ rng.lm \in LinkMeta
  BY <1>1 DEF RangeRec
<1>3. /\ header[bin] \in Header /\ header'[bin] \in Header
      /\ linkMeta[bin] \in LinkMeta /\ linkMeta'[bin] \in LinkMeta
  BY DEF IInv, BaseType, BaseMemory
<1>4. Before(rng.h, header'[bin])
  BY <1>1, <1>2, <1>3, BeforeOrder DEF WayInv
<1>5. Keeps(linkMeta[bin], linkMeta'[bin])
  BY DEF LinksKept
<1>6. Backed(linkMeta'[bin], rng.h)
  BY <1>1, <1>3, <1>5, KeepsSlots DEF WayInv
<1>7. ASSUME rng.linked PROVE Backed(rng.lm, rng.h) /\ Keeps(rng.lm, linkMeta'[bin])
  BY <1>1, <1>5, <1>7 DEF WayInv, Keeps
<1>8. ScannedBin' = bin
  BY DEF ScannedBin
<1> QED
  BY <1>1, <1>4, <1>6, <1>7, <1>8 DEF WayInv

\* While the header is the same, no slot of the bin gets a key that was read before, and a
\* key that stays is in the slot in which it was, because it is in one slot only.
LEMMA BufKept ==
  ASSUME IInv, IInv', CInv, CInv', WalkInv, rng.pc = "read", NEW bin \in BinId, bin = ScannedBin, rng' = rng,
         Before(header[bin], header'[bin]), DoneStays, FindsNoMore,
         \A k \in Key : held[k] \subseteq held'[k],
         \A k \in stayed' : k \in stayed /\ map'[k] # Absent,
         Unchanged'
  PROVE  BufInv'
<1>1. WayInv /\ rng \in RangeRec /\ Iterating /\ stayed \subseteq Key /\ rng.buf \in Seq(Entry)
  BY DEF WalkInv, RangeTypeOK, ReadInv, Iterating, RangeRec
<1>2. rng.h \in Header /\ rng.slots \subseteq SlotIdx
  BY <1>1 DEF RangeRec
<1>3. header[bin] \in Header /\ header'[bin] \in Header
  BY DEF IInv, BaseType, BaseMemory
<1>4. ScannedBin' = bin
  BY DEF ScannedBin
<1>5. header'[bin] = rng.h /\ header[bin] = rng.h
  <2>1. header'[bin] = rng.h
    BY <1>4 DEF Unchanged
  <2>2. Before(rng.h, header[bin]) /\ Before(header[bin], rng.h)
    BY <1>1, <2>1 DEF WayInv
  <2> QED BY <1>2, <1>3, <2>1, <2>2, BeforeOrder
<1>6. BufInv
  BY <1>5 DEF WalkInv, ReadInv, Unchanged
<1>7. ASSUME NEW n \in 1..Len(rng.buf)
      PROVE  /\ BinOf(bin, rng.buf[n].key) /\ rng.buf[n].val \in held'[rng.buf[n].key]
             /\ \A i \in rng.slots : ~Has(bin, i, rng.buf[n].key)'
  <2>1. rng.buf[n].key \in Key
    BY <1>1, EntriesType
  <2>2. \A i \in SlotIdx : Has(bin, i, rng.buf[n].key)' => Has(bin, i, rng.buf[n].key)
    BY <1>5, <2>1 DEF FindsNoMore
  <2> QED BY <1>2, <1>6, <2>1, <2>2 DEF BufInv
<1>8. ASSUME NEW k \in stayed', BinOf(bin, k)
      PROVE  Given(rng.buf, k) \/ \E i \in rng.slots : Has(bin, i, k)'
  <2>1. k \in Key /\ k \in stayed /\ map'[k] # Absent
    BY <1>1
  <2>2. header[bin].bs = BinNoTransfer /\ header'[bin].bs = BinNoTransfer
    BY <1>1, <1>5 DEF WayInv
  <2>3. Current(bin) /\ CurrentInv(bin)
    BY <1>1, <2>2, AtBin DEF CInv
  <2>4. bin[1] > 0 => header'[OldOf(bin)].bs = BinDoneTransfer
    <3>1. ASSUME bin[1] > 0 PROVE header'[OldOf(bin)].bs = BinDoneTransfer
      <4>1. OldOf(bin) \in BinId
        BY <3>1, OldOfType
      <4> QED BY <2>3, <3>1, <4>1 DEF Current, DoneStays
    <3> QED BY <3>1
  <2>5. CurrentInv(bin)' /\ Current(bin)'
    BY <2>2, <2>4 DEF CInv, Current, OldOf, BinNoTransfer, BinDoneTransfer
  <2>6. PICK i \in SlotIdx : Has(bin, i, k)'
    BY <1>8, <2>1, <2>5 DEF CurrentInv, BinOf
  <2>7. Has(bin, i, k)
    BY <1>5, <2>1, <2>6 DEF FindsNoMore
  <2>8. ASSUME NEW j \in rng.slots, Has(bin, j, k) PROVE j = i
    <3>1. j \in SlotIdx
      BY <1>2
    <3> QED BY <2>3, <2>7, <2>8, <3>1 DEF CurrentInv, Has
  <2>9. Given(rng.buf, k) \/ \E j \in rng.slots : Has(bin, j, k)
    BY <1>6, <1>8, <2>1 DEF BufInv
  <2> QED BY <2>6, <2>8, <2>9
<1> QED
  BY <1>4, <1>6, <1>7, <1>8 DEF BufInv, BinOf

\* A step of the threads keeps what the iteration knows.
LEMMA MapStepW ==
  ASSUME IInv, EntryType, IInv', RInv, RInv', LInv, LInv', SInv, CInv, CInv', NoWrap, MapStep, WalkInv
  PROVE  WalkInv'
<1>1. /\ rng' = rng /\ yielded' = yielded
      /\ stayed' = IF Iterating THEN {k \in stayed : map'[k] # Absent} ELSE stayed
      /\ held' = IF Iterating THEN [k \in Key |-> held[k] \cup {map'[k]}] ELSE held
  BY DEF MapStep
<1>2. /\ \A bin \in BinId : Before(header[bin], header'[bin])
      /\ DoneStays /\ LinksKept /\ FindsNoMore
  BY MapMoves
<1>3. /\ RangeTypeOK /\ TodoInv /\ YieldInv /\ StayInv /\ ReadInv /\ yielded \in Seq(Entry) /\ stayed \subseteq Key
      /\ held \in [Key -> SUBSET (Value \cup {Absent})] /\ rng.todo \in Seq(BinId)
  BY DEF WalkInv, RangeTypeOK, RangeRec
<1>4. map' \in [Key -> Value \cup {Absent}]
  BY DEF IInv, BaseType, ApiType
<1>5. /\ \A k \in stayed' : k \in stayed /\ (Iterating => map'[k] # Absent)
      /\ \A k \in Key : held[k] \subseteq held'[k] /\ (Iterating => map'[k] \in held'[k])
  BY <1>1, <1>3
<1>6. RangeTypeOK'
  <2>1. stayed' \subseteq Key
    BY <1>3, <1>5
  <2>2. held' \in [Key -> SUBSET (Value \cup {Absent})]
    <3>1. CASE Iterating
      BY <1>1, <1>3, <1>4, <3>1
    <3>2. CASE ~Iterating
      BY <1>1, <1>3, <3>2
    <3> QED BY <3>1, <3>2
  <2> QED BY <1>1, <1>3, <2>1, <2>2 DEF RangeTypeOK
<1>7. Iterating' <=> Iterating
  BY <1>1 DEF Iterating
<1>8. TodoInv'
  <2>1. ASSUME NEW j \in 1..Len(rng.todo) PROVE Reached(rng.todo[j])'
    <3>1. PICK b \in BinId : b = rng.todo[j]
      BY <1>3, ElementOfSeq
    <3>2. b[1] > 0 => header[OldOf(b)].bs = BinDoneTransfer
      BY <1>3, <3>1 DEF TodoInv, Reached
    <3>3. b[1] > 0 => OldOf(b) \in BinId
      BY OldOfType
    <3>4. b[1] > 0 => header'[OldOf(b)].bs = BinDoneTransfer
      BY <1>2, <3>2, <3>3 DEF DoneStays
    <3> QED BY <1>1, <3>1, <3>4 DEF Reached, OldOf
  <2>2. rng.pc = "shards" => header'[ScannedBin].bs = BinDoneTransfer
    <3>1. ASSUME rng.pc = "shards" PROVE header'[ScannedBin].bs = BinDoneTransfer
      <4>1. Iterating
        BY <3>1 DEF Iterating
      <4>2. ScannedBin \in BinId
        BY <4>1, AtBin
      <4> QED BY <1>2, <1>3, <3>1, <4>2 DEF TodoInv, DoneStays
    <3> QED BY <3>1
  <2> QED BY <1>1, <1>3, <1>7, <2>1, <2>2 DEF TodoInv, ScannedBin
<1>9. YieldInv'
  <2>1. \A n \in 1..Len(yielded) : yielded[n].key \in Key
    BY <1>3, EntriesType
  <2> QED BY <1>1, <1>3, <1>5, <2>1 DEF YieldInv
<1>10. StayInv'
  BY <1>5, <1>7 DEF StayInv
<1>11. ReadInv'
  <2> SUFFICES ASSUME rng.pc = "read" PROVE WayInv' /\ (Unchanged' => BufInv')
    BY <1>1 DEF ReadInv
  <2>1. Iterating
    BY DEF Iterating
  <2>2. PICK bin \in BinId : bin = ScannedBin /\ Before(header[bin], header'[bin])
    BY <1>2, <2>1, AtBin
  <2>3. WayInv'
    BY <1>1, <1>2, <2>2, WayKept
  <2>4. Unchanged' => BufInv'
    BY <1>1, <1>2, <1>5, <2>1, <2>2, BufKept
  <2> QED BY <2>3, <2>4
<1> QED
  BY <1>6, <1>8, <1>9, <1>10, <1>11 DEF WalkInv

-----------------------------------------------------------------------------
(* The invariant, and what it says.                                        *)

\* Before the call nothing is yielded.
LEMMA RangeInitW == RangeInit => WalkInv
<1> SUFFICES ASSUME RangeInit PROVE WalkInv
  OBVIOUS
<1>1. rng = RangeIdle /\ yielded = <<>> /\ stayed = {} /\ held = [k \in Key |-> {}]
  BY DEF RangeInit
<1>2. ScanFrom(<<>>) \in RangeRec /\ ScanFrom(<<>>).todo = <<>>
  BY EmptySeq, ScanFromType
<1>3. rng \in RangeRec /\ rng.pc = "idle" /\ rng.todo = <<>>
  BY <1>1, <1>2 DEF ScanFrom, RangeIdle, RangeRec, RangePC
<1>4. Len(rng.todo) = 0 /\ Len(yielded) = 0
  BY <1>1, <1>3
<1>5. yielded \in Seq(Entry)
  BY <1>1, EmptySeq
<1>6. RangeTypeOK
  BY <1>1, <1>3, <1>5 DEF RangeTypeOK
<1>7. TodoInv
  BY <1>3, <1>4 DEF TodoInv, Iterating, Apart
<1>8. YieldInv
  BY <1>1, <1>4 DEF YieldInv, Once
<1>9. StayInv /\ ReadInv
  BY <1>3 DEF StayInv, ReadInv, Iterating
<1> QED
  BY <1>6, <1>7, <1>8, <1>9 DEF WalkInv

\* An iteration begins where the map does, and its own steps are none of the map's.
LEMMA RangeIsMap ==
  /\ RangeInit => Init
  /\ [RangeNext]_allVars => [Next]_vars
<1>1. RangeInit => Init
  BY DEF RangeInit
<1>2. ASSUME RangeNext PROVE [Next]_vars
  <2>1. CASE MapStep
    BY <2>1 DEF MapStep, Next
  <2>2. CASE RangeStep
    BY <2>2 DEF RangeStep, RangeCall, RangeHeader, scanShards, RangeRead, RangeLinks, RangeYield, RangeStop, RangeRetry
  <2>3. CASE RangeFinished
    BY <2>3 DEF RangeFinished, Next
  <2> QED BY <1>2, <2>1, <2>2, <2>3 DEF RangeNext
<1>3. UNCHANGED allVars => UNCHANGED vars
  BY DEF allVars
<1> QED
  BY <1>1, <1>2, <1>3

\* Every step keeps the invariant of the iteration.
LEMMA NextW ==
  ASSUME IInv, EntryType, IInv', RInv, RInv', LInv, LInv', SInv, CInv, CInv', NoWrap, WalkInv, [RangeNext]_allVars
  PROVE  WalkInv'
<1>1. CASE MapStep
  BY <1>1, MapStepW
<1>2. CASE RangeStep
  BY <1>2, RangeCallW, RangeHeaderW, scanShardsW, RangeReadW, RangeLinksW, RangeYieldW, RangeStopW, RangeRetryW
  DEF RangeStep
<1>3. CASE RangeFinished \/ UNCHANGED allVars
  <2>1. UNCHANGED <<vars, rangeVars>>
    BY <1>3 DEF RangeFinished, Finished, allVars
  <2>2. UNCHANGED <<rng, yielded, stayed, held>> /\ UNCHANGED <<header, linkMeta, slotKey, slotVal, map>>
    BY <2>1 DEF vars, rangeVars
  <2>3. RangeTypeOK' /\ YieldInv'
    BY <2>2 DEF WalkInv, RangeTypeOK, YieldInv
  <2>4. TodoInv'
    BY <2>2 DEF WalkInv, TodoInv, Iterating, Reached, ScannedBin
  <2>5. StayInv'
    BY <2>2 DEF WalkInv, StayInv, Iterating
  <2>6. ReadInv'
    <3>1. ScannedBin' = ScannedBin /\ (Unchanged' <=> Unchanged)
      BY <2>2 DEF ScannedBin, Unchanged
    <3>2. \A bin, i, k : Has(bin, i, k)' <=> Has(bin, i, k)
      BY <2>2 DEF Has, Full, EntryAt, SlotLoc
    <3>3. WayInv => WayInv'
      BY <2>2, <3>1 DEF WayInv
    <3>4. BufInv => BufInv'
      BY <2>2, <3>1, <3>2 DEF BufInv
    <3> QED BY <2>2, <3>1, <3>3, <3>4 DEF WalkInv, ReadInv
  <2> QED BY <2>3, <2>4, <2>5, <2>6 DEF WalkInv
<1> QED
  BY <1>1, <1>2, <1>3 DEF RangeNext

\* WalkInv is an invariant of the map with an iteration, for as long as no version wraps:
\* the bins still to be scanned have the keys that were not yielded, and what was read of a
\* bin is what it has while its header is the same.
THEOREM WalkInductive == RangeSpec /\ []NoWrap => []WalkInv
<1>1. /\ RangeInit => WalkInv
      /\ RangeInit => Init
      /\ [RangeNext]_allVars => [Next]_vars
  BY RangeInitW, RangeIsMap
<1>2. /\ IInv /\ EntryType /\ IInv' /\ RInv /\ RInv' /\ LInv /\ LInv' /\ SInv /\ CInv /\ CInv' /\ NoWrap /\ WalkInv
      /\ [RangeNext]_allVars
      => WalkInv'
  BY NextW
<1> QED
  BY <1>1, <1>2, Inductive, ResizeInductive, LinksInductive, SlotsInductive, ContentsInductive, PTL
  DEF RangeSpec, Spec

\* Range yields no key twice, though its bin is scanned again when the header has changed
\* and split by the resize, and though the key is deleted and inserted again.
THEOREM RangeYieldsOnce == RangeSpec /\ []NoWrap => []YieldedOnce
<1>1. WalkInv => YieldedOnce
  BY DEF WalkInv, YieldInv, Once, YieldedOnce
<1> QED
  BY <1>1, WalkInductive, PTL

\* When Range ends by itself, it has yielded every key that stayed in the map.
THEOREM RangeYieldsAll == RangeSpec /\ []NoWrap => []StayedYielded
<1>1. ASSUME WalkInv PROVE StayedYielded
  <2> SUFFICES ASSUME rng.pc = "done", NEW k \in stayed PROVE Given(yielded, k)
    BY DEF StayedYielded, Given
  <2>1. rng.todo = <<>>
    BY <1>1 DEF WalkInv, TodoInv, Iterating
  <2>2. Len(rng.todo) = 0
    BY <2>1
  <2>3. ~Covers(rng.todo, k)
    BY <2>2 DEF Covers
  <2> QED BY <1>1, <2>3 DEF WalkInv, YieldInv
<1> QED
  BY <1>1, WalkInductive, PTL

\* Every value that Range yields was the value of its key during the call.
THEOREM RangeYieldsTrue == RangeSpec /\ []NoWrap => []YieldedTrue
<1>1. WalkInv => YieldedTrue
  BY DEF WalkInv, YieldInv, YieldedTrue
<1> QED
  BY <1>1, WalkInductive, PTL

-----------------------------------------------------------------------------
(* The map when nobody works on it: how many entries it has.               *)

\* A Valid slot of a bin that is not done is empty only until the Delete that emptied it
\* has dropped it
EmptyInv(bin) ==
  header[bin].bs # BinDoneTransfer =>
    \A i \in SlotIdx : header[bin].ss[i] = SlotValid /\ EntryAt(bin, i) = Nil => \E t \in Thread : Marks(t, bin, i)

\* A resize that is going on has a goroutine that will go on with it: one that installs the
\* context, one that still has a chunk or will claim one, or one that finishes
AliveInv ==
  /\ resizeCtx = ReservedCtx => \E t \in Thread : pc[t] \in InstallPC
  /\ resizeCtx \in Gen =>
       IF ctx[resizeCtx].chunksDone = NumChunks(resizeCtx)
       THEN \E t \in Thread : pc[t] \in FinishPC
       ELSE \E t \in Thread : pc[t] \in HoldPC \cup {"claim"} /\ xfer[t].gen = resizeCtx

IdleInv == AliveInv /\ \A bin \in BinId : EmptyInv(bin)

\* A step that empties no slot, except one that t is going to drop.
LEMMA EmptyKept ==
  ASSUME \A bin \in BinId : EmptyInv(bin), NEW t \in Thread, OthersSame(t),
         \A u \in Thread \ {t} : call'[u] = call[u], pc[t] # "mark",
         \A bin \in BinId : \A i \in SlotIdx :
            header'[bin].bs # BinDoneTransfer /\ header'[bin].ss[i] = SlotValid /\ EntryAt(bin, i)' = Nil =>
               \/ header[bin].bs # BinDoneTransfer /\ header[bin].ss[i] = SlotValid /\ EntryAt(bin, i) = Nil
               \/ Marks(t, bin, i)'
  PROVE  \A bin \in BinId : EmptyInv(bin)'
<1> SUFFICES ASSUME NEW bin \in BinId, header'[bin].bs # BinDoneTransfer, NEW i \in SlotIdx,
                    header'[bin].ss[i] = SlotValid, EntryAt(bin, i)' = Nil
             PROVE  \E u \in Thread : Marks(u, bin, i)'
  BY DEF EmptyInv
<1>1. CASE Marks(t, bin, i)'
  BY <1>1
<1>2. CASE ~Marks(t, bin, i)'
  <2>1. header[bin].bs # BinDoneTransfer /\ header[bin].ss[i] = SlotValid /\ EntryAt(bin, i) = Nil
    BY <1>2
  <2>2. PICK u \in Thread : Marks(u, bin, i)
    BY <2>1 DEF EmptyInv
  <2>3. u # t
    BY <2>2 DEF Marks
  <2>4. Marks(u, bin, i)'
    BY <2>2, <2>3 DEF Marks, Bin, hash, OthersSame
  <2> QED BY <2>4
<1> QED
  BY <1>1, <1>2

\* A step that leaves the headers, links and entries alone.
LEMMA EmptySame ==
  ASSUME \A bin \in BinId : EmptyInv(bin), NEW t \in Thread, OthersSame(t),
         \A u \in Thread \ {t} : call'[u] = call[u], pc[t] # "mark",
         UNCHANGED <<header, linkMeta, slotVal>>
  PROVE  \A bin \in BinId : EmptyInv(bin)'
<1>1. \A bin, i : EntryAt(bin, i)' = EntryAt(bin, i)
  BY DEF EntryAt, SlotLoc
<1> QED
  BY <1>1, EmptyKept

\* The header of one bin is written: no slot becomes Valid but one with an entry.
LEMMA EmptyHeader ==
  ASSUME \A bin \in BinId : EmptyInv(bin), NEW t \in Thread, OthersSame(t), header \in [BinId -> Header],
         \A u \in Thread \ {t} : call'[u] = call[u], pc[t] # "mark",
         UNCHANGED <<linkMeta, slotVal>>, NEW b \in BinId, NEW h, header' = [header EXCEPT ![b] = h],
         h.bs # BinDoneTransfer => /\ header[b].bs # BinDoneTransfer
                                   /\ \A i \in SlotIdx : h.ss[i] = SlotValid =>
                                         header[b].ss[i] = SlotValid \/ EntryAt(b, i) # Nil
  PROVE  \A bin \in BinId : EmptyInv(bin)'
<1>1. \A bin, i : EntryAt(bin, i)' = EntryAt(bin, i)
  BY DEF EntryAt, SlotLoc
<1>2. header'[b] = h /\ \A bin \in BinId : bin # b => header'[bin] = header[bin]
  OBVIOUS
<1> QED
  BY <1>1, <1>2, EmptyKept

\* Put replaces an entry by another; the slot that Delete empties is the one that it drops
\* next.
LEMMA DWCASHitE ==
  ASSUME IInv, LInv, RInv, SInv, CInv, \A bin \in BinId : EmptyInv(bin), NEW t \in Thread, DWCASHit(t), OthersSame(t)
  PROVE  \A bin \in BinId : EmptyInv(bin)'
<1>0. PICK b, i, e : /\ b = Bin(t) /\ i = scan[t].slot
                     /\ e = (IF call[t].kind = "Put" THEN NewEntry(t) ELSE Nil)
  OBVIOUS
<1>1. /\ pc[t] = "dwcas" /\ UNCHANGED <<header, linkMeta>> /\ call' = call
      /\ slotVal' = [slotVal EXCEPT ![SlotLoc(b, i)] = e]
      /\ pc \in [Thread -> PC] /\ scan \in [Thread -> BaseScan] /\ slotVal \in [Loc -> Content]
  BY <1>0 DEF DWCASHit, OpLoc, IInv, BaseType, BaseLocal, BaseMemory
<1>2. b \in BinId /\ i \in SlotIdx /\ HasSlot(linkMeta[b], i)
  BY <1>0, HitCurrent
<1>3. \A bin \in BinId : \A j \in SlotIdx : HasSlot(linkMeta[bin], j) =>
         EntryAt(bin, j)' = IF bin = b /\ j = i THEN e ELSE EntryAt(bin, j)
  <2>1. SlotLoc(b, i) \in Loc
    BY <1>2, BinWords, LocType DEF SlotLoc
  <2>2. /\ slotVal'[SlotLoc(b, i)] = e
        /\ \A loc \in Loc : loc # SlotLoc(b, i) => slotVal'[loc] = slotVal[loc]
    BY <1>1, <2>1
  <2> QED BY <1>1, <1>2, <2>2, ValWritten
<1>4. \A bin \in BinId : \A j \in SlotIdx : header[bin].ss[j] = SlotValid => HasSlot(linkMeta[bin], j)
  BY BinWords DEF Backed, SlotValid, SlotInvalid
<1>5. e = Nil => Marks(t, b, i)'
  <2> SUFFICES ASSUME e = Nil PROVE Marks(t, b, i)'
    OBVIOUS
  <2>1. call[t].kind # "Put"
    <3>1. NewEntry(t) \in Entry
      <4>1. call[t] \in CallRec
        BY <1>1, BinType
      <4> QED BY <4>1 DEF NewEntry, CallRec, Entry
    <3> QED BY <1>0, <3>1, MarkerAssumption DEF Entry
  <2>2. pc'[t] = "mark" /\ scan'[t] = Kept(t)
    BY <1>1, <2>1 DEF DWCASHit, Goto, KeepSlot
  <2>3. scan'[t].slot = i /\ scan'[t].idx = scan[t].idx
    BY <1>0, <2>2, KeptFields
  <2> QED BY <1>0, <1>1, <2>2, <2>3 DEF Marks, Bin, hash
<1> QED
  BY <1>1, <1>3, <1>4, <1>5, EmptyKept

\* The AND of Delete drops the slot that it emptied, and nobody else has emptied it.
LEMMA markSlotInvalidE ==
  ASSUME IInv, SInv, \A bin \in BinId : EmptyInv(bin), NEW t \in Thread, markSlotInvalid(t), OthersSame(t)
  PROVE  \A bin \in BinId : EmptyInv(bin)'
<1>0. PICK b, s : b = Bin(t) /\ s = scan[t].slot
  OBVIOUS
<1>1. /\ pc[t] = "mark" /\ UNCHANGED <<linkMeta, slotVal, call>>
      /\ header \in [BinId -> Header] /\ header' = [header EXCEPT ![b].ss[s] = SlotInvalid]
  BY <1>0 DEF markSlotInvalid, api, IInv, BaseType, BaseMemory
<1>2. b \in BinId /\ s \in SlotIdx
  BY <1>0, <1>1, AtTarget DEF SlotPC
<1>3. \A bin \in BinId : /\ header'[bin].bs = header[bin].bs
                         /\ \A i \in SlotIdx : header'[bin].ss[i] = IF bin = b /\ i = s THEN SlotInvalid
                                                                   ELSE header[bin].ss[i]
  BY <1>1, <1>2 DEF Header
<1> SUFFICES ASSUME NEW bin \in BinId, header'[bin].bs # BinDoneTransfer, NEW i \in SlotIdx,
                    header'[bin].ss[i] = SlotValid, EntryAt(bin, i)' = Nil
             PROVE  \E u \in Thread : Marks(u, bin, i)'
  BY DEF EmptyInv
<1>4. ~(bin = b /\ i = s)
  BY <1>3 DEF SlotInvalid, SlotValid
<1>5. header[bin].bs # BinDoneTransfer /\ header[bin].ss[i] = SlotValid /\ EntryAt(bin, i) = Nil
  BY <1>1, <1>3, <1>4 DEF EntryAt, SlotLoc
<1>6. PICK u \in Thread : Marks(u, bin, i)
  BY <1>5 DEF EmptyInv
<1>7. u # t
  BY <1>0, <1>4, <1>6 DEF Marks
<1>8. Marks(u, bin, i)'
  BY <1>1, <1>6, <1>7 DEF Marks, Bin, hash, OthersSame
<1> QED
  BY <1>8

\* The steps at a found slot.
LEMMA SlotE ==
  ASSUME IInv, RInv, LInv, SInv, CInv, \A bin \in BinId : EmptyInv(bin), NEW t \in Thread, SlotStep(t)
  PROVE  \A bin \in BinId : EmptyInv(bin)'
<1>0. OthersSame(t)
  BY DEF SlotStep, DWCASHit, DWCASMiss, LoopHeader, LoopKey, LoopVal, LoopCheck, LoopTTAS, markSlotInvalid,
         Goto, Retry, KeepSlot, OthersSame, IInv, BaseType, BaseLocal
<1>1. CASE DWCASHit(t)
  BY <1>0, <1>1, DWCASHitE
<1>2. CASE markSlotInvalid(t)
  BY <1>0, <1>2, markSlotInvalidE
<1>3. CASE DWCASMiss(t) \/ LoopHeader(t) \/ LoopKey(t) \/ LoopVal(t) \/ LoopCheck(t) \/ LoopTTAS(t)
  <2>1. UNCHANGED memory /\ UNCHANGED api /\ pc[t] # "mark"
    BY <1>3 DEF DWCASMiss, LoopHeader, LoopKey, LoopVal, LoopCheck, LoopTTAS
  <2>2. UNCHANGED <<header, linkMeta, slotVal>> /\ call' = call
    BY <2>1 DEF memory, api
  <2> QED BY <1>0, <2>1, <2>2, EmptySame
<1> QED
  BY <1>1, <1>2, <1>3 DEF SlotStep


\* A lookup writes nothing, and it is not at the AND of Delete.
LEMMA ScanE ==
  ASSUME IInv, \A bin \in BinId : EmptyInv(bin), NEW t \in Thread, ScanStep(t)
  PROVE  \A bin \in BinId : EmptyInv(bin)'
<1>1. OthersSame(t) /\ UNCHANGED memory /\ call' = call
  BY ScanFrame DEF Quiet, OthersSame, ScanStep, LoadActive, LoadHeader, Follow, MatchKeys, Probe, LoadLinks,
     CheckStale, CheckAnswer, CheckTarget, Goto, IInv, BaseType, BaseLocal
<1>2. pc[t] # "mark"
  BY DEF ScanStep, LoadActive, LoadHeader, Follow, MatchKeys, Probe, LoadLinks, CheckStale, CheckAnswer, CheckTarget
<1> QED
  BY <1>1, <1>2, EmptySame DEF memory

\* A link is attached: the slots that are Valid keep their buckets.
LEMMA AttachE ==
  ASSUME IInv, IInv', LInv, \A bin \in BinId : EmptyInv(bin), NEW t \in Thread, OthersSame(t),
         attachSingle(t) \/ attachPair(t)
  PROVE  \A bin \in BinId : EmptyInv(bin)'
<1>1. /\ UNCHANGED <<header, slotKey, slotVal>> /\ call' = call /\ pc[t] # "mark"
      /\ linkMeta \in [BinId -> LinkMeta]
  BY DEF attachSingle, attachPair, IInv, BaseType, BaseMemory, api
<1>2. LinksKept
  BY <1>1 DEF attachSingle, attachPair, LinksKept, Keeps, LinkMeta
<1>3. ASSUME NEW bin \in BinId, NEW i \in SlotIdx, header[bin].ss[i] = SlotValid
      PROVE  EntryAt(bin, i)' = EntryAt(bin, i)
  <2>1. HasSlot(linkMeta[bin], i) /\ linkMeta[bin] \in LinkMeta
    BY <1>3, BinWords DEF Backed, SlotValid, SlotInvalid
  <2>2. Keeps(linkMeta[bin], linkMeta'[bin]) /\ linkMeta'[bin] \in LinkMeta
    BY <1>2 DEF LinksKept, IInv, BaseType, BaseMemory
  <2>3. LocVia(linkMeta'[bin], bin, i) = LocVia(linkMeta[bin], bin, i)
    BY <2>1, <2>2, SameLoc
  <2> QED BY <1>1, <2>3 DEF EntryAt, SlotLoc
<1> QED
  BY <1>1, <1>3, EmptyKept

\* An entry is written to a slot that is Trying, or it is cleared there.
LEMMA OwnValE ==
  ASSUME IInv, LInv, SInv, \A bin \in BinId : EmptyInv(bin), NEW t \in Thread, OthersSame(t),
         FillVal(t) \/ UnreserveClear(t)
  PROVE  \A bin \in BinId : EmptyInv(bin)'
<1>0. PICK b, i, e : b = Bin(t) /\ i = scan[t].slot /\ e = (IF pc[t] = "fillVal" THEN NewEntry(t) ELSE Nil)
  OBVIOUS
<1>1. /\ pc[t] \in OwnPC /\ pc[t] # "mark" /\ UNCHANGED <<header, linkMeta>> /\ call' = call
      /\ slotVal \in [Loc -> Content]
  BY DEF FillVal, UnreserveClear, OwnPC, IInv, BaseType, BaseMemory, api
<1>2. b \in BinId /\ i \in SlotIdx /\ HasSlot(linkMeta[b], i) /\ header[b].ss[i] = SlotTrying
  BY <1>0, <1>1, AtOwn
<1>3. slotVal' = [slotVal EXCEPT ![SlotLoc(b, i)] = e]
  BY <1>0, <1>2 DEF FillVal, UnreserveClear, OpLoc
<1>4. SlotLoc(b, i) \in Loc
  BY <1>2, BinWords, LocType DEF SlotLoc
<1>5. /\ slotVal'[SlotLoc(b, i)] = e
      /\ \A loc \in Loc : loc # SlotLoc(b, i) => slotVal'[loc] = slotVal[loc]
  BY <1>1, <1>3, <1>4
<1>6. \A bin \in BinId : \A j \in SlotIdx : HasSlot(linkMeta[bin], j) =>
         EntryAt(bin, j)' = IF bin = b /\ j = i THEN e ELSE EntryAt(bin, j)
  BY <1>1, <1>2, <1>5, ValWritten
<1>7. \A bin \in BinId : \A j \in SlotIdx : header[bin].ss[j] = SlotValid => HasSlot(linkMeta[bin], j)
  BY BinWords DEF Backed, SlotValid, SlotInvalid
<1>8. SlotTrying # SlotValid
  BY DEF SlotTrying, SlotValid
<1> QED
  BY <1>1, <1>2, <1>6, <1>7, <1>8, EmptyKept

\* A CAS of Insert makes no slot Valid but its own, which it has filled.
LEMMA OwnHeaderE ==
  ASSUME IInv, RInv, LInv, SInv, \A bin \in BinId : EmptyInv(bin), NEW t \in Thread, OthersSame(t),
         reserveSlot(t) \/ finalizeSlot(t) \/ UnreserveCAS(t)
  PROVE  \A bin \in BinId : EmptyInv(bin)'
<1>0. PICK b : b = Bin(t)
  OBVIOUS
<1>1. /\ UNCHANGED <<linkMeta, slotKey, slotVal>> /\ call' = call /\ pc[t] # "mark" /\ pc[t] # "idle"
      /\ header \in [BinId -> Header]
  BY DEF reserveSlot, finalizeSlot, UnreserveCAS, IInv, BaseType, BaseMemory, api, memory
<1>2. b \in BinId /\ header[b] \in Header
  BY <1>0, <1>1, BinType
<1>3. CASE header' = header
  BY <1>1, <1>3, EmptySame
<1>4. ASSUME NEW i, NEW st, header' = [header EXCEPT ![b] = setSlotStateAndVersion(header[b], i, st)],
             st = SlotValid => EntryAt(b, i) # Nil
      PROVE  \A bin \in BinId : EmptyInv(bin)'
  <2> DEFINE h == setSlotStateAndVersion(header[b], i, st)
  <2>1. h.bs = header[b].bs /\ h.ss = [header[b].ss EXCEPT ![i] = st]
    BY DEF setSlotStateAndVersion
  <2>2. \A j \in SlotIdx : h.ss[j] = SlotValid => header[b].ss[j] = SlotValid \/ EntryAt(b, j) # Nil
    <3> HIDE DEF h
    <3> QED BY <1>2, <1>4, <2>1 DEF Header
  <2>3. header' = [header EXCEPT ![b] = h]
    BY <1>4
  <2> HIDE DEF h
  <2> QED BY <1>1, <1>2, <2>1, <2>2, <2>3, EmptyHeader
<1>5. CASE reserveSlot(t)
  <2>1. CASE Validated(t)
    <3> DEFINE i == IF invalidMask(scan[t].h, 0) # {} THEN Lowest(invalidMask(scan[t].h, 0)) ELSE ins[t].pick
    <3>1. header' = [header EXCEPT ![b] = setSlotStateAndVersion(header[b], i, SlotTrying)]
      BY <1>0, <1>5, <2>1 DEF reserveSlot, Validated
    <3>2. SlotTrying # SlotValid
      BY DEF SlotTrying, SlotValid
    <3> QED BY <1>4, <3>1, <3>2
  <2>2. CASE ~Validated(t)
    BY <1>3, <1>5, <2>2 DEF reserveSlot
  <2> QED BY <2>1, <2>2
<1>6. CASE finalizeSlot(t)
  <2>1. CASE Validated(t)
    <3>1. header' = [header EXCEPT ![b] = setSlotStateAndVersion(header[b], scan[t].slot, SlotValid)]
          /\ pc[t] = "finalize" /\ pc[t] \in OwnPC
      BY <1>0, <1>6, <2>1 DEF finalizeSlot, Validated, OwnPC
    <3>2. scan[t].slot \in SlotIdx /\ EntryAt(b, scan[t].slot) = NewEntry(t)
      BY <1>0, <1>2, <3>1, AtOwn DEF OwnInv, UnresPC
    <3>3. NewEntry(t) # Nil
      <4>1. call[t] \in CallRec
        BY <1>1, BinType
      <4> QED BY <4>1, MarkerAssumption DEF NewEntry, CallRec, Entry
    <3> QED BY <1>4, <3>1, <3>2, <3>3
  <2>2. CASE ~Validated(t)
    BY <1>3, <1>6, <2>2 DEF finalizeSlot, memory
  <2> QED BY <2>1, <2>2
<1>7. CASE UnreserveCAS(t)
  <2>1. CASE header[b] = ins[t].h
    <3>1. header' = [header EXCEPT ![b] = setSlotStateAndVersion(header[b], scan[t].slot, SlotInvalid)]
          /\ pc[t] \in OwnPC
      BY <1>0, <1>7, <2>1 DEF UnreserveCAS, OwnPC
    <3>2. SlotInvalid = SlotValid => EntryAt(b, scan[t].slot) # Nil
      BY DEF SlotInvalid, SlotValid
    <3>3. header' = [header EXCEPT ![b] = setSlotStateAndVersion(header[b], scan[t].slot, SlotInvalid)]
      BY <3>1
    <3> QED BY <1>4, <3>2, <3>3
  <2>2. CASE header[b] # ins[t].h
    <3>1. header' = header
      BY <1>0, <1>7, <2>2 DEF UnreserveCAS
    <3> QED BY <1>3, <3>1
  <2> QED BY <2>1, <2>2
<1> QED
  BY <1>5, <1>6, <1>7


\* The steps of Insert.
LEMMA InsertE ==
  ASSUME IInv, IInv', RInv, LInv, SInv, \A bin \in BinId : EmptyInv(bin), NEW t \in Thread, InsertStep(t)
  PROVE  \A bin \in BinId : EmptyInv(bin)'
<1>1. OthersSame(t) /\ call' = call /\ pc[t] # "mark"
  BY InsertFrame DEF OthersSame, InsertPC, OwnPC
<1>2. CASE \/ ChooseHeader(t) \/ ChooseLinks(t) \/ allocateLink(t) \/ allocateLinkPair(t)
           \/ FillKey(t) \/ LoadHeader2(t) \/ UnreserveLoad(t)
  <2>1. UNCHANGED <<header, linkMeta, slotVal>>
    BY <1>2 DEF ChooseHeader, ChooseLinks, allocateLink, allocateLinkPair, Allocate, FillKey, LoadHeader2,
                UnreserveLoad, memory
  <2> QED BY <1>1, <2>1, EmptySame
<1>3. CASE attachSingle(t) \/ attachPair(t)
  BY <1>1, <1>3, AttachE
<1>4. CASE FillVal(t) \/ UnreserveClear(t)
  BY <1>1, <1>4, OwnValE
<1>5. CASE reserveSlot(t) \/ finalizeSlot(t) \/ UnreserveCAS(t)
  BY <1>1, <1>5, OwnHeaderE
<1> QED
  BY <1>2, <1>3, <1>4, <1>5 DEF InsertStep

\* An entry goes to the new bin with its slot.
LEMMA MoveEntryE ==
  ASSUME IInv, IInv', RInv, LInv, LInv', \A bin \in BinId : EmptyInv(bin), NEW t \in Thread, MoveEntry(t),
         OthersSame(t), call' = call
  PROVE  \A bin \in BinId : EmptyInv(bin)'
<1>0. PICK b, e : b = OldBin(t) /\ e = EntryAt(b, Lowest(xfer[t].todo))
  OBVIOUS
<1>1. pc[t] # "mark" /\ b \in BinId
  BY <1>0, AtTransfer DEF MoveEntry, TransferPC
<1>2. CASE e = Nil
  <2>1. UNCHANGED <<header, linkMeta, slotVal>>
    BY <1>0, <1>2 DEF MoveEntry, memory, EntryAt
  <2> QED BY <1>1, <2>1, EmptySame
<1>3. CASE e # Nil
  <2>1. PICK new \in BinId, s \in SlotIdx :
           /\ header' = [header EXCEPT ![new] = setSlotStateAndVersion(header[new], s, SlotValid)]
           /\ EntryAt(new, s)' = e
           /\ \A bin \in BinId : \A j \in SlotIdx :
                HasSlot(linkMeta[bin], j) /\ ~(bin = new /\ j = s) =>
                   EntryAt(bin, j)' = EntryAt(bin, j) /\ KeyAt(bin, j)' = KeyAt(bin, j)
    <3>1. PICK new \in BinId, s \in SlotIdx :
           /\ new # b /\ Filling(new) /\ header[new].ss[s] = SlotInvalid
           /\ header' = [header EXCEPT ![new] = setSlotStateAndVersion(header[new], s, SlotValid)]
           /\ LinksKept /\ EntryAt(new, s)' = e
           /\ new = getBin(xfer[t].gen + 1, xfer[t].key) /\ KeyAt(new, s)' = xfer[t].key
           /\ \A bin \in BinId : \A j \in SlotIdx :
                HasSlot(linkMeta[bin], j) /\ ~(bin = new /\ j = s) =>
                   EntryAt(bin, j)' = EntryAt(bin, j) /\ KeyAt(bin, j)' = KeyAt(bin, j)
      BY <1>0, <1>1, <1>3, EntryMoved
    <3> QED BY <3>1
  <2>2. header \in [BinId -> Header] /\ header[new] \in Header
    BY DEF IInv, BaseType, BaseMemory
  <2>3. /\ header'[new] = setSlotStateAndVersion(header[new], s, SlotValid)
        /\ \A bin \in BinId : bin # new => header'[bin] = header[bin]
    BY <2>1, <2>2
  <2>4. /\ header'[new].bs = header[new].bs
        /\ \A j \in SlotIdx : header'[new].ss[j] = IF j = s THEN SlotValid ELSE header[new].ss[j]
    BY <2>2, <2>3, SetFields
  <2>5. \A bin \in BinId : \A j \in SlotIdx : header[bin].ss[j] = SlotValid => HasSlot(linkMeta[bin], j)
    BY BinWords DEF Backed, SlotValid, SlotInvalid
  <2>6. ASSUME NEW bin \in BinId, NEW i \in SlotIdx, header'[bin].bs # BinDoneTransfer,
               header'[bin].ss[i] = SlotValid, EntryAt(bin, i)' = Nil
        PROVE  header[bin].bs # BinDoneTransfer /\ header[bin].ss[i] = SlotValid /\ EntryAt(bin, i) = Nil
    <3>1. ~(bin = new /\ i = s)
      BY <1>3, <2>1, <2>6
    <3>2. header[bin].bs # BinDoneTransfer /\ header[bin].ss[i] = SlotValid
      BY <2>3, <2>4, <2>6, <3>1
    <3>3. EntryAt(bin, i)' = EntryAt(bin, i)
      BY <2>1, <2>5, <3>1, <3>2
    <3> QED BY <2>6, <3>2, <3>3
  <2> QED BY <1>1, <2>6, EmptyKept
<1> QED
  BY <1>2, <1>3

\* The mark leaves the slots as they are, and a bin that is done need not say more.
LEMMA BinStateE ==
  ASSUME IInv, RInv, \A bin \in BinId : EmptyInv(bin), NEW t \in Thread, TransferBin(t) \/ FinishBin(t),
         OthersSame(t), call' = call
  PROVE  \A bin \in BinId : EmptyInv(bin)'
<1>1. /\ pc[t] # "mark" /\ UNCHANGED <<linkMeta, slotVal>> /\ header \in [BinId -> Header]
  BY DEF TransferBin, FinishBin, IInv, BaseType, BaseMemory
<1>2. OldBin(t) \in BinId
  BY AtTransfer DEF TransferBin, FinishBin, TransferPC
<1>3. CASE TransferBin(t)
  <2>1. header[OldBin(t)].bs = BinNoTransfer
    BY <1>3, MoverBin DEF TransferBin, TransferPC
  <2>2. header' = [header EXCEPT ![OldBin(t)] = orInTransfer(header[OldBin(t)])]
    BY <1>3 DEF TransferBin
  <2>3. orInTransfer(header[OldBin(t)]).ss = header[OldBin(t)].ss
    BY <1>1, <1>2 DEF orInTransfer, setBinState, Header
  <2>4. header[OldBin(t)].bs # BinDoneTransfer
    BY <2>1 DEF BinNoTransfer, BinDoneTransfer
  <2> QED BY <1>1, <1>2, <2>2, <2>3, <2>4, EmptyHeader
<1>4. CASE FinishBin(t)
  <2>1. header' = [header EXCEPT ![OldBin(t)] = setBinState(xfer[t].h, BinDoneTransfer)]
    BY <1>4 DEF FinishBin
  <2>2. setBinState(xfer[t].h, BinDoneTransfer).bs = BinDoneTransfer
    <3>1. xfer[t].h \in Header
      BY DEF IInv, BaseType, BaseLocal, XferRec
    <3> QED BY <3>1 DEF setBinState, Header
  <2> QED BY <1>1, <1>2, <2>1, <2>2, EmptyHeader
<1> QED
  BY <1>3, <1>4

\* The steps of the resize.
LEMMA ResizeE ==
  ASSUME IInv, IInv', RInv, LInv, LInv', \A bin \in BinId : EmptyInv(bin), NEW t \in Thread, ResizeStep(t)
  PROVE  \A bin \in BinId : EmptyInv(bin)'
<1>1. OthersSame(t) /\ call' = call /\ pc[t] # "mark"
  BY ResizeFrame DEF ResizePC, ContextPC, TransferPC
<1>2. CASE TransferBin(t) \/ FinishBin(t)
  BY <1>1, <1>2, BinStateE
<1>3. CASE MoveEntry(t)
  BY <1>1, <1>3, MoveEntryE
<1>4. CASE ~(TransferBin(t) \/ FinishBin(t) \/ MoveEntry(t))
  <2>1. UNCHANGED <<header, linkMeta, slotVal>>
    BY <1>4 DEF ResizeStep, TriggerResize, PublishNext, SetResizeContext, HelpResize, HelpActive, ClaimChunk,
       TransferLinks, StoreSentinel, ChunkDone, FinishCapacity, FinishActive, FinishInactive, FinishCtx, memory
  <2> QED BY <1>1, <2>1, EmptySame
<1> QED
  BY <1>2, <1>3, <1>4


\* At first every Valid slot holds an entry, and there is no resize.
LEMMA InitIdle == Init => IdleInv
<1> SUFFICES ASSUME Init PROVE IdleInv
  OBVIOUS
<1>1. AliveInv
  <2>1. resizeCtx = NoCtx
    BY DEF Init
  <2> QED BY <2>1, SizeAssumption DEF AliveInv, NoCtx, ReservedCtx, Gen
<1>2. ASSUME NEW bin \in BinId, NEW i \in SlotIdx, header[bin].ss[i] = SlotValid
      PROVE  EntryAt(bin, i) # Nil
  <2>1. PICK k \in PrefillIn(bin) : slotVal[SlotLoc(bin, i)] = [key |-> Prefill[k], val |-> InitVal]
    BY <1>2, PrefillSlot
  <2>2. Prefill[k] \in Key
    <3>1. k \in 1..Len(Prefill)
      BY DEF PrefillIn
    <3> QED BY <3>1, CallsAssumption
  <2>3. [key |-> Prefill[k], val |-> InitVal] \in [key : Key, val : Value]
    BY <2>2 DEF Value
  <2>4. [key |-> Prefill[k], val |-> InitVal] # Nil
    BY <2>3, MarkerAssumption
  <2> QED BY <2>1, <2>4 DEF EntryAt
<1> QED
  BY <1>1, <1>2 DEF IdleInv, EmptyInv

\* A step that keeps its goroutine among those that will go on with the resize.
LEMMA AliveKept ==
  ASSUME IInv, AliveInv, NEW t \in Thread, OthersSame(t), resizeCtx' = resizeCtx,
         \A g \in Gen : ctx'[g].chunksDone = ctx[g].chunksDone,
         pc[t] \in InstallPC => pc'[t] \in InstallPC,
         pc[t] \in FinishPC => pc'[t] \in FinishPC,
         pc[t] \in HoldPC \cup {"claim"} =>
            pc'[t] \in HoldPC \cup {"claim"} /\ xfer'[t].gen = xfer[t].gen
  PROVE  AliveInv'
<1>1. resizeCtx = ReservedCtx => \E u \in Thread : pc'[u] \in InstallPC
  BY DEF AliveInv, OthersSame
<1>2. ASSUME resizeCtx \in Gen, ctx[resizeCtx].chunksDone = NumChunks(resizeCtx)
      PROVE  \E u \in Thread : pc'[u] \in FinishPC
  BY <1>2 DEF AliveInv, OthersSame
<1>3. ASSUME resizeCtx \in Gen, ctx[resizeCtx].chunksDone # NumChunks(resizeCtx)
      PROVE  \E u \in Thread : pc'[u] \in HoldPC \cup {"claim"} /\ xfer'[u].gen = resizeCtx
  <2>1. PICK u \in Thread : pc[u] \in HoldPC \cup {"claim"} /\ xfer[u].gen = resizeCtx
    BY <1>3 DEF AliveInv
  <2>2. CASE u = t
    BY <2>1, <2>2
  <2>3. CASE u # t
    BY <2>1, <2>3 DEF OthersSame
  <2> QED BY <2>2, <2>3
<1>4. NumChunks(resizeCtx)' = NumChunks(resizeCtx)
  BY DEF NumChunks
<1> QED
  BY <1>1, <1>2, <1>3, <1>4 DEF AliveInv

\* A goroutine that is in no resize leaves those that are in it alone.
LEMMA AliveApart ==
  ASSUME IInv, AliveInv, NEW t \in Thread, OthersSame(t), UNCHANGED <<resizeCtx, ctx>>,
         pc[t] \notin InstallPC \cup FinishPC \cup HoldPC \cup {"claim"}
  PROVE  AliveInv'
BY AliveKept

\* The context that is installed: its chunks are to be done, and the goroutine that
\* installed it claims the first.
LEMMA SetContextAlive ==
  ASSUME IInv, RInv, AliveInv, NEW t \in Thread, SetResizeContext(t)
  PROVE  AliveInv'
<1>1. PICK g : g = xfer[t].gen
  OBVIOUS
<1>2. pc[t] = "setCtx" /\ pc[t] \in ContextPC
  BY DEF SetResizeContext, ContextPC
<1>3. g \in 0..(MaxGen - 1) /\ g \in Gen /\ pc \in [Thread -> PC] /\ ctx \in [Gen -> CtxRec]
  BY <1>1, <1>2, AtResize, ResizeWords DEF IInv, BaseType, BaseLocal
<1>4. resizeCtx' = g /\ ctx'[g].chunksDone = 0 /\ pc'[t] = "claim" /\ xfer'[t].gen = g
  BY <1>1, <1>3 DEF SetResizeContext, Goto, FreshCtx
<1>5. NumChunks(g) # 0
  <2>1. NumBins[g] \in Nat /\ 0 < NumBins[g]
    BY <1>3, SizeAssumption
  <2>2. chunkOf(0) \in Nat /\ chunkOf(0) < NumChunks(g)
    BY <1>3, <2>1, Chunks
  <2> QED BY <1>3, <2>2, CtxType
<1>6. NumChunks(resizeCtx)' = NumChunks(g) /\ g # ReservedCtx
  BY <1>3, <1>4, ResizeWords DEF NumChunks
<1> QED
  BY <1>3, <1>4, <1>5, <1>6 DEF AliveInv

\* A goroutine finds no chunk to claim while others hold some.
LEMMA ClaimAlive ==
  ASSUME IInv, RInv, AliveInv, NEW t \in Thread, ClaimChunk(t), OthersSame(t)
  PROVE  AliveInv'
<1>1. PICK g : g = xfer[t].gen
  OBVIOUS
<1>2. pc[t] = "claim" /\ pc[t] \in ContextPC /\ resizeCtx' = resizeCtx
  BY DEF ClaimChunk, ContextPC
<1>3. /\ g \in 0..(MaxGen - 1) /\ g \in Gen /\ Started(g) /\ ChunksInv(g) /\ ctx \in [Gen -> CtxRec]
      /\ pc \in [Thread -> PC] /\ xfer \in [Thread -> XferRec]
      /\ NumChunks(g) \in Int /\ ctx[g].chunkClaimed \in Nat /\ ctx[g].chunksDone \in Nat
  BY <1>1, <1>2, AtResize, ResizeWords, CtxType DEF IInv, BaseType, BaseLocal
<1>4. CASE ctx[g].chunkClaimed < NumChunks(g)
  <2>1. /\ ctx' = [ctx EXCEPT ![g].chunkClaimed = ctx[g].chunkClaimed + 1]
        /\ pc'[t] = "or" /\ xfer'[t].gen = g
    <3>1. /\ ctx' = [ctx EXCEPT ![g].chunkClaimed = ctx[g].chunkClaimed + 1]
          /\ xfer' = [xfer EXCEPT ![t].bin = ctx[g].chunkClaimed * CHUNK_SIZE] /\ Goto(t, "or")
      BY <1>1, <1>3, <1>4 DEF ClaimChunk
    <3> QED BY <1>1, <1>3, <3>1 DEF Goto, XferRec
  <2>2. \A f \in Gen : ctx'[f].chunksDone = ctx[f].chunksDone
    BY <1>3, <2>1 DEF CtxRec
  <2>3. pc'[t] \in HoldPC \cup {"claim"} /\ pc[t] \notin InstallPC \cup FinishPC
    BY <1>2, <2>1 DEF HoldPC, TransferPC, InstallPC, FinishPC
  <2> QED BY <1>1, <1>2, <2>1, <2>2, <2>3, AliveKept
<1>5. CASE ~(ctx[g].chunkClaimed < NumChunks(g))
  <2>1. ctx' = ctx
    BY <1>1, <1>3, <1>5 DEF ClaimChunk
  <2>2. resizeCtx = ReservedCtx => \E u \in Thread : pc'[u] \in InstallPC
    BY <1>2 DEF AliveInv, OthersSame, InstallPC
  <2>3. ASSUME resizeCtx \in Gen, ctx[resizeCtx].chunksDone = NumChunks(resizeCtx)
        PROVE  \E u \in Thread : pc'[u] \in FinishPC
    BY <1>2, <2>3 DEF AliveInv, OthersSame, FinishPC
  <2>4. ASSUME resizeCtx \in Gen, ctx[resizeCtx].chunksDone # NumChunks(resizeCtx)
        PROVE  \E u \in Thread : pc'[u] \in HoldPC \cup {"claim"} /\ xfer'[u].gen = resizeCtx
    <3>1. CASE resizeCtx = g
      <4>1. /\ ctx[g].chunkClaimed <= NumChunks(g) /\ IsFiniteSet(Holders(g))
            /\ ctx[g].chunkClaimed = ctx[g].chunksDone + Cardinality(Holders(g))
        BY <1>3 DEF ChunksInv
      <4>2. Cardinality(Holders(g)) # 0
        BY <1>3, <1>5, <2>4, <3>1, <4>1
      <4>3. PICK u : u \in Holders(g)
        BY <4>1, <4>2, FS_EmptySet
      <4>4. u \in Thread /\ pc[u] \in HoldPC /\ xfer[u].gen = g /\ u # t
        BY <1>2, <4>3 DEF Holders, HoldPC, TransferPC
      <4> QED BY <3>1, <4>4 DEF OthersSame
    <3>2. CASE resizeCtx # g
      <4>1. PICK u \in Thread : pc[u] \in HoldPC \cup {"claim"} /\ xfer[u].gen = resizeCtx
        BY <2>4 DEF AliveInv
      <4> QED BY <1>1, <3>2, <4>1 DEF OthersSame
    <3> QED BY <3>1, <3>2
  <2>5. NumChunks(resizeCtx)' = NumChunks(resizeCtx)
    BY <1>2 DEF NumChunks
  <2> QED BY <1>2, <2>1, <2>2, <2>3, <2>4, <2>5 DEF AliveInv
<1> QED
  BY <1>4, <1>5

\* The last chunk makes its goroutine finish, any other lets it claim the next.
LEMMA ChunkDoneAlive ==
  ASSUME IInv, RInv, AliveInv, NEW t \in Thread, ChunkDone(t), OthersSame(t)
  PROVE  AliveInv'
<1>1. PICK g : g = xfer[t].gen
  OBVIOUS
<1>2. pc[t] = "chunkDone" /\ pc[t] \in ContextPC /\ resizeCtx' = resizeCtx /\ xfer' = xfer
  BY DEF ChunkDone, ContextPC
<1>3. g \in 0..(MaxGen - 1) /\ g \in Gen /\ ctx \in [Gen -> CtxRec] /\ pc \in [Thread -> PC]
  BY <1>1, <1>2, AtResize, ResizeWords DEF IInv, BaseType, BaseLocal
<1>4. /\ ctx'[g].chunksDone = ctx[g].chunksDone + 1
      /\ \A f \in Gen : f # g => ctx'[f] = ctx[f]
      /\ pc'[t] = IF ctx[g].chunksDone + 1 = NumChunks(g) THEN "finCapacity" ELSE "claim"
  BY <1>1, <1>3 DEF ChunkDone, Goto, lastChunk, CtxRec
<1>5. resizeCtx = ReservedCtx => \E u \in Thread : pc'[u] \in InstallPC
  BY <1>2 DEF AliveInv, OthersSame, InstallPC
<1>6. ASSUME resizeCtx \in Gen, ctx'[resizeCtx].chunksDone = NumChunks(resizeCtx)
      PROVE  \E u \in Thread : pc'[u] \in FinishPC
  <2>1. CASE resizeCtx = g
    BY <1>4, <1>6, <2>1 DEF FinishPC
  <2>2. CASE resizeCtx # g
    BY <1>2, <1>4, <1>6, <2>2 DEF AliveInv, OthersSame, FinishPC
  <2> QED BY <2>1, <2>2
<1>7. ASSUME resizeCtx \in Gen, ctx'[resizeCtx].chunksDone # NumChunks(resizeCtx)
      PROVE  \E u \in Thread : pc'[u] \in HoldPC \cup {"claim"} /\ xfer'[u].gen = resizeCtx
  <2>1. CASE resizeCtx = g
    BY <1>1, <1>2, <1>4, <1>7, <2>1
  <2>2. CASE resizeCtx # g
    <3>1. PICK u \in Thread : pc[u] \in HoldPC \cup {"claim"} /\ xfer[u].gen = resizeCtx
      BY <1>4, <1>7, <2>2 DEF AliveInv
    <3> QED BY <1>1, <2>2, <3>1 DEF OthersSame
  <2> QED BY <2>1, <2>2
<1>8. NumChunks(resizeCtx)' = NumChunks(resizeCtx)
  BY <1>2 DEF NumChunks
<1> QED
  BY <1>2, <1>5, <1>6, <1>7, <1>8 DEF AliveInv


\* The steps of the resize.
LEMMA ResizeAlive ==
  ASSUME IInv, RInv, AliveInv, NEW t \in Thread, ResizeStep(t)
  PROVE  AliveInv'
<1>1. OthersSame(t) /\ pc \in [Thread -> PC] /\ xfer \in [Thread -> XferRec] /\ ctx \in [Gen -> CtxRec]
  BY ResizeFrame, ResizeWords DEF IInv, BaseType, BaseLocal
<1>2. CASE TriggerResize(t)
  <2>1. CASE resizeCtx = NoCtx
    <3>1. resizeCtx' = ReservedCtx /\ pc'[t] \in InstallPC
      BY <1>1, <1>2, <2>1 DEF TriggerResize, Goto, InstallPC, NoCtx
    <3>2. ReservedCtx \notin Gen
      BY ResizeWords
    <3> QED BY <3>1, <3>2 DEF AliveInv
  <2>2. CASE resizeCtx # NoCtx
    <3>1. UNCHANGED <<resizeCtx, ctx>> /\ pc[t] = "trigger"
      BY <1>2, <2>2 DEF TriggerResize
    <3> QED BY <1>1, <3>1, AliveApart DEF InstallPC, FinishPC, HoldPC, TransferPC
  <2> QED BY <2>1, <2>2
<1>3. CASE HelpResize(t) \/ HelpActive(t)
  <2>1. UNCHANGED <<resizeCtx, ctx>> /\ pc[t] \in {"help", "helpActive"}
    BY <1>3 DEF HelpResize, HelpActive, roots
  <2> QED BY <1>1, <2>1, AliveApart DEF InstallPC, FinishPC, HoldPC, TransferPC
<1>4. CASE PublishNext(t)
  <2>1. UNCHANGED <<resizeCtx, ctx>> /\ pc[t] = "publish" /\ pc'[t] = "setCtx"
    BY <1>1, <1>4 DEF PublishNext, Goto
  <2> QED BY <1>1, <2>1, AliveKept DEF InstallPC, FinishPC, HoldPC, TransferPC
<1>5. CASE TransferBin(t) \/ TransferLinks(t) \/ StoreSentinel(t) \/ FinishBin(t)
  <2>1. /\ UNCHANGED <<resizeCtx, ctx>> /\ pc[t] \in TransferPC /\ pc'[t] \in HoldPC
        /\ xfer'[t].gen = xfer[t].gen
    <3>1. CASE TransferBin(t)
      BY <1>1, <3>1 DEF TransferBin, Goto, TransferPC, HoldPC, roots, XferRec
    <3>2. CASE TransferLinks(t)
      BY <1>1, <3>2 DEF TransferLinks, Goto, TransferPC, HoldPC, roots, XferRec
    <3>3. CASE StoreSentinel(t)
      BY <1>1, <3>3 DEF StoreSentinel, Goto, TransferPC, HoldPC, roots, XferRec
    <3>4. CASE FinishBin(t)
      BY <1>1, <3>4 DEF FinishBin, Goto, TransferPC, HoldPC, roots, XferRec, FreshXfer
    <3> QED BY <1>5, <3>1, <3>2, <3>3, <3>4
  <2> QED BY <1>1, <2>1, AliveKept DEF InstallPC, FinishPC, HoldPC, TransferPC
<1>6. CASE MoveEntry(t)
  <2>1. /\ resizeCtx' = resizeCtx /\ pc[t] = "move"
        /\ \E p \in {"sentinel", "xlinks", "xdone"} : Goto(t, p)
        /\ \E a, b : xfer' = [xfer EXCEPT ![t].todo = a, ![t].key = b]
        /\ ctx' = ctx \/ \E a : ctx' = [ctx EXCEPT ![xfer[t].gen].linkNextResize = a]
    BY <1>6 DEF MoveEntry
  <2>2. pc'[t] \in HoldPC /\ xfer'[t].gen = xfer[t].gen
    BY <1>1, <2>1 DEF Goto, HoldPC, TransferPC
  <2>3. \A g \in Gen : ctx'[g].chunksDone = ctx[g].chunksDone
    <3>1. CASE ctx' = ctx
      BY <3>1
    <3>2. ASSUME NEW a, ctx' = [ctx EXCEPT ![xfer[t].gen].linkNextResize = a]
          PROVE  \A g \in Gen : ctx'[g].chunksDone = ctx[g].chunksDone
      BY <1>1, <3>2 DEF CtxRec
    <3> QED BY <2>1, <3>1, <3>2
  <2> QED BY <1>1, <2>1, <2>2, <2>3, AliveKept DEF InstallPC, FinishPC
<1>7. CASE FinishCapacity(t) \/ FinishActive(t) \/ FinishInactive(t)
  <2>1. resizeCtx' = resizeCtx /\ pc[t] \in FinishPC /\ pc'[t] \in FinishPC
    BY <1>1, <1>7 DEF FinishCapacity, FinishActive, FinishInactive, Goto, FinishPC, roots
  <2>2. \A g \in Gen : ctx'[g].chunksDone = ctx[g].chunksDone
    BY <1>1, <1>7 DEF FinishCapacity, FinishActive, FinishInactive, roots, CtxRec
  <2> QED BY <1>1, <2>1, <2>2, AliveKept DEF InstallPC, FinishPC, HoldPC, TransferPC
<1>8. CASE FinishCtx(t)
  <2>1. resizeCtx' = NoCtx
    BY <1>8 DEF FinishCtx
  <2>2. NoCtx \notin Gen /\ NoCtx # ReservedCtx
    BY ResizeWords DEF NoCtx, ReservedCtx
  <2> QED BY <2>1, <2>2 DEF AliveInv
<1> QED
  BY <1>1, <1>2, <1>3, <1>4, <1>5, <1>6, <1>7, <1>8, SetContextAlive, ClaimAlive, ChunkDoneAlive DEF ResizeStep

\* Every step keeps the invariant.
LEMMA NextIdle ==
  ASSUME IInv, IInv', RInv, LInv, LInv', SInv, CInv, IdleInv, [Next]_vars
  PROVE  IdleInv'
<1> USE DEF IdleInv
<1>1. CASE UNCHANGED vars
  <2>1. UNCHANGED <<header, linkMeta, slotVal, resizeCtx, ctx, pc, call, scan, xfer>>
    BY <1>1 DEF vars
  <2>2. AliveInv'
    BY <2>1 DEF AliveInv, NumChunks
  <2>3. \A bin \in BinId : EmptyInv(bin)'
    BY <2>1 DEF EmptyInv, EntryAt, SlotLoc, Marks, Bin, hash
  <2> QED BY <2>2, <2>3
<1>2. ASSUME NEW t \in Thread, Invoke(t) PROVE IdleInv'
  <2>1. /\ pc[t] = "idle" /\ OthersSame(t) /\ UNCHANGED <<header, linkMeta, slotVal, resizeCtx, ctx>>
        /\ \A u \in Thread \ {t} : call'[u] = call[u]
    BY <1>2 DEF Invoke, Goto, OthersSame, memory, roots, IInv, BaseType, BaseLocal, ApiType
  <2>2. \A bin \in BinId : EmptyInv(bin)'
    BY <2>1, EmptySame
  <2>3. AliveInv'
    BY <2>1, AliveApart DEF InstallPC, FinishPC, HoldPC, TransferPC
  <2> QED BY <2>2, <2>3
<1>3. ASSUME NEW t \in Thread, Step(t) PROVE IdleInv'
  <2>1. \A bin \in BinId : EmptyInv(bin)'
    BY <1>3, ScanE, SlotE, InsertE, ResizeE DEF Step
  <2>2. CASE ResizeStep(t)
    BY <2>1, <2>2, ResizeAlive
  <2>3. CASE ScanStep(t) \/ SlotStep(t) \/ InsertStep(t)
    <3>1. UNCHANGED <<resizeCtx, ctx>>
      BY <2>3 DEF ScanStep, SlotStep, InsertStep, LoadActive, LoadHeader, Follow, MatchKeys, Probe, LoadLinks,
         CheckStale, CheckAnswer, CheckTarget, DWCASHit, DWCASMiss, LoopHeader, LoopKey, LoopVal, LoopCheck,
         LoopTTAS, markSlotInvalid, ChooseHeader, ChooseLinks, allocateLink, allocateLinkPair, Allocate,
         attachSingle, attachPair, reserveSlot, FillKey, FillVal, finalizeSlot, LoadHeader2, UnreserveLoad,
         UnreserveClear, UnreserveCAS, roots
    <3>2. OthersSame(t)
      <4>1. CASE ScanStep(t)
        BY <4>1, ScanFrame DEF Quiet, OthersSame, ScanStep, LoadActive, LoadHeader, Follow, MatchKeys, Probe,
           LoadLinks, CheckStale, CheckAnswer, CheckTarget, Goto, IInv, BaseType, BaseLocal
      <4>2. CASE SlotStep(t)
        BY <4>2 DEF SlotStep, DWCASHit, DWCASMiss, LoopHeader, LoopKey, LoopVal, LoopCheck, LoopTTAS,
           markSlotInvalid, Goto, Retry, KeepSlot, OthersSame, IInv, BaseType, BaseLocal
      <4>3. CASE InsertStep(t)
        BY <4>3, InsertFrame DEF OthersSame
      <4> QED BY <2>3, <4>1, <4>2, <4>3
    <3>3. pc[t] \in {"active"} \cup ScanPC \cup SlotPC \cup InsertPC
      BY <2>3, ScanFrame, InsertFrame DEF UsesPC, LoadActive, SlotStep, DWCASHit, DWCASMiss, LoopHeader, LoopKey,
         LoopVal, LoopCheck, LoopTTAS, markSlotInvalid, SlotPC
    <3>4. pc[t] \notin InstallPC \cup FinishPC \cup HoldPC \cup {"claim"}
      BY <3>3 DEF ScanPC, SlotPC, InsertPC, OwnPC, InstallPC, FinishPC, HoldPC, TransferPC
    <3> QED BY <2>1, <3>1, <3>2, <3>4, AliveApart
  <2> QED BY <1>3, <2>2, <2>3 DEF Step
<1>4. CASE Finished
  BY <1>1, <1>4 DEF Finished
<1> QED
  BY <1>1, <1>2, <1>3, <1>4 DEF Next

\* IdleInv is an invariant of the map while it is iterated: no slot stays behind empty, and
\* no resize is left to nobody.
THEOREM IdleInductive == RangeSpec /\ []NoWrap => []IdleInv
<1>1. /\ RangeInit => IdleInv
      /\ RangeInit => Init
      /\ [RangeNext]_allVars => [Next]_vars
  BY InitIdle, RangeIsMap
<1>2. /\ IInv /\ EntryType /\ IInv' /\ RInv /\ LInv /\ LInv' /\ SInv /\ CInv /\ NoWrap /\ IdleInv /\ [Next]_vars
      => IdleInv'
  BY NextIdle
<1> QED
  BY <1>1, <1>2, Inductive, ResizeInductive, LinksInductive, SlotsInductive, ContentsInductive, PTL
  DEF RangeSpec, Spec


\* As many values as there are arguments, if all are taken once.
LEMMA BijCount ==
  ASSUME NEW S, IsFiniteSet(S), NEW T, NEW f \in [S -> T],
         \A x, y \in S : f[x] = f[y] => x = y, \A y \in T : \E x \in S : f[x] = y
  PROVE  Cardinality(S) = Cardinality(T)
<1>1. f \in Bijection(S, T)
  BY DEF Bijection, Injection, Surjection, IsInjective
<1> QED
  BY <1>1, FS_Bijection DEF ExistsBijection

\* When nobody works on the map the active index is nobody's old index, all its bins are
\* current and every Valid slot holds an entry.
LEMMA QuietActive ==
  ASSUME IInv, RInv, IdleInv, \A t \in Thread : pc[t] = "idle", NEW bin \in BinId, bin[1] = active
  PROVE  Current(bin) /\ \A i \in SlotIdx : header[bin].ss[i] = SlotValid => Full(bin, i)
<1>1. resizeCtx = NoCtx
  <2>1. \A t \in Thread : pc[t] \notin InstallPC \cup FinishPC \cup HoldPC \cup {"claim"}
    BY DEF InstallPC, FinishPC, HoldPC, TransferPC
  <2> QED BY <2>1, ResizeWords DEF IdleInv, AliveInv
<1>2. ~Started(active)
  BY <1>1, ResizeWords DEF Started
<1>3. header[bin].bs = BinNoTransfer
  <2>1. ProgressInv(bin)
    BY DEF RInv, MoversInv
  <2> QED BY <1>2, <2>1 DEF ProgressInv
<1>4. bin[1] > 0 => header[OldOf(bin)].bs = BinDoneTransfer
  <2> SUFFICES ASSUME bin[1] > 0 PROVE header[OldOf(bin)].bs = BinDoneTransfer
    OBVIOUS
  <2>1. OldOf(bin) \in BinId /\ OldOf(bin)[1] < active
    BY OldOfType, ResizeWords
  <2> QED BY <2>1, ActiveDone
<1>5. \A t \in Thread, i \in SlotIdx : ~Marks(t, bin, i)
  BY DEF Marks
<1> QED
  BY <1>3, <1>4, <1>5 DEF IdleInv, EmptyInv, Current, Full, BinNoTransfer, BinDoneTransfer

\* The Valid slots of the active index and the keys of the map correspond.
LEMMA QuietCount ==
  ASSUME IInv, EntryType, RInv, CInv, IdleInv, \A t \in Thread : pc[t] = "idle"
  PROVE  Size = Cardinality({k \in Key : map[k] # Absent})
<1> DEFINE g == active
           P == {p \in (0..(NumBins[g] - 1)) \X SlotIdx : header[<<g, p[1]>>].ss[p[2]] = SlotValid}
           T == {k \in Key : map[k] # Absent}
           f == [p \in P |-> EntryAt(<<g, p[1]>>, p[2]).key]
<1>1. g \in Gen /\ NumBins[g] \in Nat
  BY ResizeWords, SizeAssumption
<1>2. IsFiniteSet(P)
  <2>1. IsFiniteSet(0..(NumBins[g] - 1)) /\ IsFiniteSet(SlotIdx)
    <3>1. NumBins[g] - 1 \in Int /\ MaxSlots - 1 \in Int
      BY <1>1, SizeAssumption DEF MaxSlots
    <3> QED BY <3>1, FS_Interval DEF SlotIdx
  <2>2. IsFiniteSet((0..(NumBins[g] - 1)) \X SlotIdx)
    BY <2>1, FS_Product
  <2> QED BY <2>2, FS_Subset
<1>3. ASSUME NEW p \in P
      PROVE  /\ p = <<p[1], p[2]>> /\ <<g, p[1]>> \in BinId /\ p[2] \in SlotIdx
             /\ Full(<<g, p[1]>>, p[2]) /\ Current(<<g, p[1]>>)
             /\ PlaceInv(<<g, p[1]>>) /\ CurrentInv(<<g, p[1]>>)
  <2>1. p = <<p[1], p[2]>> /\ <<g, p[1]>> \in BinId /\ p[2] \in SlotIdx /\ header[<<g, p[1]>>].ss[p[2]] = SlotValid
    BY <1>1 DEF BinId
  <2>2. Full(<<g, p[1]>>, p[2]) /\ Current(<<g, p[1]>>)
    BY <2>1, QuietActive
  <2> QED BY <2>1, <2>2 DEF CInv
<1>4. ASSUME NEW p \in P
      PROVE  f[p] \in T /\ BinOf(<<g, p[1]>>, f[p])
  <2>1. f[p] = EntryAt(<<g, p[1]>>, p[2]).key
    OBVIOUS
  <2>2. f[p] \in Key /\ EntryAt(<<g, p[1]>>, p[2]).val \in Value
    BY <1>3, <2>1, FullSlot
  <2>3. map[f[p]] = EntryAt(<<g, p[1]>>, p[2]).val /\ BinOf(<<g, p[1]>>, f[p])
    BY <1>3, <2>1 DEF CurrentInv, PlaceInv
  <2> QED BY <2>2, <2>3, MarkerAssumption
<1>5. f \in [P -> T]
  BY <1>4
<1>6. ASSUME NEW p \in P, NEW q \in P, f[p] = f[q] PROVE p = q
  <2>1. <<g, p[1]>> = getBin(g, Hash[f[p]]) /\ <<g, q[1]>> = getBin(g, Hash[f[p]])
    BY <1>4, <1>6 DEF BinOf
  <2>2. p[1] = q[1]
    <3>1. <<g, p[1]>> = <<g, q[1]>>
      BY <2>1
    <3> HIDE DEF P, f
    <3> QED BY <3>1
  <2>3. p[2] = q[2]
    <3>1. EntryAt(<<g, p[1]>>, p[2]).key = EntryAt(<<g, p[1]>>, q[2]).key
      BY <1>6, <2>2
    <3>2. /\ p[2] \in SlotIdx /\ q[2] \in SlotIdx
          /\ Full(<<g, p[1]>>, p[2]) /\ Full(<<g, p[1]>>, q[2])
          /\ Current(<<g, p[1]>>) /\ CurrentInv(<<g, p[1]>>)
      BY <1>3, <2>2
    <3> QED BY <3>1, <3>2 DEF CurrentInv
  <2>4. p = <<p[1], p[2]>> /\ q = <<q[1], q[2]>>
    BY <1>3
  <2> QED BY <2>2, <2>3, <2>4
<1>7. ASSUME NEW k \in T PROVE \E p \in P : f[p] = k
  <2>1. k \in Key /\ map[k] # Absent /\ Hash[k] \in Nat
    BY SizeAssumption
  <2>2. PICK b : getBin(g, Hash[k]) = <<g, b>> /\ b = Hash[k] % NumBins[g]
    BY DEF getBin
  <2>3. <<g, b>> \in BinId /\ b \in 0..(NumBins[g] - 1)
    <3>1. getBin(g, Hash[k]) \in BinId
      BY <1>1, <2>1, GetBinType
    <3>2. <<g, b>> \in BinId /\ NumBins[g] \in Nat \ {0}
      BY <1>1, <2>2, <3>1, SizeAssumption
    <3> QED BY <2>1, <2>2, <3>2
  <2>4. Current(<<g, b>>) /\ CurrentInv(<<g, b>>)
    BY <2>3, QuietActive DEF CInv
  <2>5. BinOf(<<g, b>>, k)
    BY <2>2 DEF BinOf
  <2>6. PICK i \in SlotIdx : Has(<<g, b>>, i, k)
    BY <2>1, <2>4, <2>5 DEF CurrentInv
  <2>7. header[<<g, b>>].ss[i] = SlotValid /\ EntryAt(<<g, b>>, i).key = k
    BY <2>6 DEF Has, Full
  <2>8. <<b, i>> \in P /\ f[<<b, i>>] = k
    BY <2>3, <2>7
  <2> QED BY <2>8
<1>8. Cardinality(P) = Cardinality(T)
  <2> HIDE DEF P, T, f
  <2> QED BY <1>2, <1>5, <1>6, <1>7, BijCount
<1> QED
  BY <1>8 DEF Size, validSlotCount

\* When no operation is running, Size is the number of keys of the map: every resize has
\* made its index active, and a slot that an Insert gave up or a Delete emptied is not Valid.
THEOREM QuietSizeTrue == RangeSpec /\ []NoWrap => []QuiescentSize
<1>1. /\ RangeInit => Init
      /\ [RangeNext]_allVars => [Next]_vars
  BY RangeIsMap
<1>2. IInv /\ EntryType /\ RInv /\ CInv /\ IdleInv => QuiescentSize
  BY QuietCount DEF QuiescentSize
<1> QED
  BY <1>1, <1>2, IdleInductive, Inductive, ResizeInductive, ContentsInductive, PTL DEF RangeSpec, Spec
=============================================================================
