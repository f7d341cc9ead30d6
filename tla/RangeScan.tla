----------------------------- MODULE RangeScan -----------------------------
(***************************************************************************)
(* Range of src/allocator/iter.go: one more goroutine that walks the map   *)
(* while the threads of AllocatorMap work on it, and Size of map.go.       *)
(* The recursion of scanBin and scanShards is kept as the sequence of the  *)
(* bins still to be scanned.  The callback of the caller is a choice: it   *)
(* takes all entries of a bin, or stops the iteration at one of them.      *)
(***************************************************************************)
EXTENDS AllocatorMap

VARIABLES rng,              \* the iterating goroutine
          yielded,          \* the entries handed to the callback, in order
          stayed, held      \* history: the keys present since the call began, and the
                            \* values every key had since then

rangeVars == <<rng, yielded, stayed, held>>
allVars == <<vars, rangeVars>>

RangeIdle == [pc |-> "idle", todo |-> <<>>, h |-> ZeroHeader, slots |-> {}, lm |-> NoLinks,
              linked |-> FALSE, buf |-> <<>>]

RangeInit ==
  /\ Init
  /\ rng = RangeIdle
  /\ yielded = <<>>
  /\ stayed = {}
  /\ held = [k \in Key |-> {}]

\* The loop of rangeFrom: all bins of the index
binsOf(g) == [j \in 1..NumBins[g] |-> <<g, j - 1>>]

shardsAdjacent(bin, g) ==                              \* mutant: the bins next to the old one
  [j \in 1..(NumBins[g] \div NumBins[bin[1]]) |-> <<g, bin[2] + j - 1>>]
shardsFirst(bin, g) == <<<<g, bin[2]>>>>               \* mutant: only the bin of the same number
\* The bins of index g into which an old bin was split, in the order of k
shards(bin, g) ==
  [j \in 1..(NumBins[g] \div NumBins[bin[1]]) |-> <<g, (j - 1) * NumBins[bin[1]] + bin[2]>>]

ScannedBin == Head(rng.todo)
\* At retry, with these bins to scan
ScanFrom(bins) == [RangeIdle EXCEPT !.pc = IF bins = <<>> THEN "done" ELSE "load", !.todo = bins]

\* Range is called and loads the active index
RangeCall ==
  /\ rng.pc = "idle"
  /\ rng' = ScanFrom(binsOf(active))
  /\ stayed' = {k \in Key : map[k] # Absent}
  /\ held' = [k \in Key |-> {map[k]}]
  /\ UNCHANGED <<vars, yielded>>

validSlotsShort(h) == UNION {validMask(h, n) : n \in 0..2}     \* mutant: a bucket is forgotten
validSlots(h) == UNION {validMask(h, n) : n \in 0..3}

\* h0: a bin in transfer is polled until it is done
RangeHeader ==
  LET h == header[ScannedBin]
      valid == validSlots(h)
  IN  /\ rng.pc = "load"
      /\ \/ /\ h.bs = BinDoneTransfer
            /\ rng' = [rng EXCEPT !.pc = "shards"]
         \/ /\ h.bs \notin {BinInTransfer, BinDoneTransfer} /\ valid = {}
            /\ rng' = ScanFrom(Tail(rng.todo))
         \/ /\ h.bs \notin {BinInTransfer, BinDoneTransfer} /\ valid # {}
            /\ rng' = [rng EXCEPT !.pc = "read", !.h = h, !.slots = valid]
      /\ UNCHANGED <<vars, yielded, stayed, held>>

scanShards ==
  /\ rng.pc = "shards"
  /\ rng' = ScanFrom(shards(ScannedBin, getNextIndex(ScannedBin[1])) \o Tail(rng.todo))
  /\ UNCHANGED <<vars, yielded, stayed, held>>

\* The entries of the Valid slots are loaded one by one, those in links
\* through the LinkMeta loaded after the primary slots.  A slot that is empty
\* is passed over here and not when the entries are yielded
RangeRead ==
  LET i == Lowest(rng.slots)
      e == slotVal[LocVia(rng.lm, ScannedBin, i)]
  IN  /\ rng.pc = "read" /\ rng.slots # {}
      /\ i < PRIMARY_SLOTS \/ rng.linked
      /\ rng' = [rng EXCEPT !.slots = @ \ {i}, !.buf = IF e = Nil THEN @ ELSE Append(@, e)]
      /\ UNCHANGED <<vars, yielded, stayed, held>>

RangeLinks ==
  /\ rng.pc = "read" /\ ~rng.linked
  /\ rng.slots # {} /\ rng.slots \cap Bucket(0) = {}
  /\ rng' = [rng EXCEPT !.lm = linkMeta[ScannedBin], !.linked = TRUE]
  /\ UNCHANGED <<vars, yielded, stayed, held>>

Unchanged == header[ScannedBin] = rng.h

\* mutant: h1 is not compared with h0
RangeYieldUnchecked ==
  /\ rng.pc = "read" /\ rng.slots = {}
  /\ yielded' = yielded \o rng.buf
  /\ rng' = ScanFrom(Tail(rng.todo))
  /\ UNCHANGED <<vars, stayed, held>>
\* h1 = h0: what was read is handed to the callback, which takes it all
RangeYield ==
  /\ rng.pc = "read" /\ rng.slots = {} /\ Unchanged
  /\ yielded' = yielded \o rng.buf
  /\ rng' = ScanFrom(Tail(rng.todo))
  /\ UNCHANGED <<vars, stayed, held>>

\* or returns false at the n-th entry
RangeStop ==
  /\ rng.pc = "read" /\ rng.slots = {} /\ Unchanged
  /\ \E n \in 1..Len(rng.buf) : yielded' = yielded \o SubSeq(rng.buf, 1, n)
  /\ rng' = [RangeIdle EXCEPT !.pc = "stopped"]
  /\ UNCHANGED <<vars, stayed, held>>

RangeRetry ==
  /\ rng.pc = "read" /\ rng.slots = {} /\ ~Unchanged
  /\ rng' = ScanFrom(rng.todo)
  /\ UNCHANGED <<vars, yielded, stayed, held>>

RangeStep == \/ RangeCall \/ RangeHeader \/ scanShards \/ RangeRead \/ RangeLinks
             \/ RangeYield \/ RangeStop \/ RangeRetry

Iterating == rng.pc \in {"load", "shards", "read"}

\* A step of the threads, with what it means for the history of Range
MapStep ==
  /\ \E t \in Thread : Invoke(t) \/ Step(t)
  /\ stayed' = IF Iterating THEN {k \in stayed : map'[k] # Absent} ELSE stayed
  /\ held' = IF Iterating THEN [k \in Key |-> held[k] \cup {map'[k]}] ELSE held
  /\ UNCHANGED <<rng, yielded>>

RangeFinished == /\ Finished
                 /\ rng.pc \in {"done", "stopped"}
                 /\ UNCHANGED rangeVars

RangeNext == MapStep \/ RangeStep \/ RangeFinished
RangeSpec == RangeInit /\ [][RangeNext]_allVars

-----------------------------------------------------------------------------
(* Size                                                                    *)

validSlotCount(g) ==
  Cardinality({p \in (0..(NumBins[g] - 1)) \X SlotIdx : header[<<g, p[1]>>].ss[p[2]] = SlotValid})
Size == validSlotCount(active)

-----------------------------------------------------------------------------
(* Properties.                                                             *)

\* Range yields no key twice, however often its bin is scanned again or split,
\* and also if the key is deleted and inserted again.
YieldedOnce ==
  \A i, j \in 1..Len(yielded) : yielded[i].key = yielded[j].key => i = j

\* "A key continuously present across the whole call is yielded exactly once":
\* when Range ends by itself, no key that stayed is missing (the rest of it is
\* YieldedOnce).
StayedYielded ==
  rng.pc = "done" => \A k \in stayed : \E i \in 1..Len(yielded) : yielded[i].key = k

\* A value that Range yields was the value of the key at some moment of the
\* call: not one of an Insert that is not yet committed or never will be.
YieldedTrue ==
  \A i \in 1..Len(yielded) : yielded[i].val \in held[yielded[i].key]

\* When no operation is running, Size is the number of keys: no slot is leaked
\* or lost, and a resize has completed and made the new index active.
QuiescentSize ==
  (\A t \in Thread : pc[t] = "idle") => Size = Cardinality({k \in Key : map[k] # Absent})
=============================================================================
